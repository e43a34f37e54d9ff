--------------------------- MODULE Accounts_proofs ---------------------------
(***************************************************************************)
(* Proofs about the accounts, for any addresses, requests, number of       *)
(* server processes and retries.                                           *)
(***************************************************************************)
EXTENDS Accounts, TLAPS

\* passcodes that a request under way will still mail to the owner of e
Owing(e) ==
  {copy[r].temp : r \in {q \in Requests : pc[q] = "mail" /\ on[q] = e}}
  \union {invitees[r][e].temp : r \in {q \in Requests : pc[q] \in {"find", "create"} /\ e \in Owed(q)}}

Know(e) == known[e] \union Owing(e)

Safe == Emails \ (overtaken \union unmailed)

\* What opens an account has been told to its owner or will be.
SecretsTold == \A e \in Safe : Exists(e) => users[e].secret \in Requests \intersect Know(e)

\* A row that is not there is empty, an active one has a name, a pending one a
\* temporary password.
RowShape ==
  \A e \in Emails :
    /\ ~Exists(e) => users[e] = NoRow
    /\ users[e].status = "active" => users[e].named
    /\ Pending(users[e]) => users[e].temp # NoSecret

\* A request about to save has loaded the row; if no other has saved since, the
\* row is what it has loaded.
Loaded(r) ==
  pc[r] = "save" =>
    /\ on[r] \in Emails /\ Exists(on[r]) /\ copy[r].version <= users[on[r]].version
    /\ copy[r].version = users[on[r]].version => copy[r] = users[on[r]]

\* the password attribute
Attribute(r) ==
  /\ tries[r] <= Retries
  /\ pc[r] = "idle" => password[r] = NoSecret
  /\ pc[r] = "save" =>
       /\ kind[r] \in {"signup", "complete", "password"} => password[r] = r
       /\ kind[r] = "profile" => password[r] = NullPassword
       /\ kind[r] = "reset" /\ First(r) => password[r] = NoSecret
       /\ kind[r] = "reset" => password[r] # NullPassword
       /\ kind[r] # "invite"

\* An invitation looks at an address once.
Inviting(r) ==
  /\ pc[r] = "idle" => \A e \in Emails : invitees[r][e].status = "none"
  /\ \A e \in todo[r] : invitees[r][e].status = "none"
  /\ pc[r] \in {"create", "insert", "mail"} => on[r] \in Emails
  /\ pc[r] = "create" => invitees[r][on[r]].status = "none" /\ on[r] \notin todo[r]
  /\ pc[r] = "mail" => kind[r] = "reset"

RequestInv(r) == Loaded(r) /\ Attribute(r) /\ Inviting(r)

AccountsInv ==
  /\ TypeOK /\ SecretsTold /\ RowShape
  /\ \A r \in Requests : RequestInv(r)

-----------------------------------------------------------------------------
\* What a request is about to save is a row, with the secret it has loaded, its
\* own, or the temporary password.
LEMMA SavedRow ==
  ASSUME TypeOK, NEW r \in Requests
  PROVE  /\ Password(r) \in Requests \union {NoSecret, NullPassword}
         /\ Encrypted(r) \in Requests \union {NoSecret}
         /\ Assigned(r) \in Rows /\ ToSave(r) \in Rows /\ Saved(r) \in Rows
         /\ ToSave(r) = [Assigned(r) EXCEPT !.secret = Encrypted(r)]
<1>1. /\ copy[r] \in Rows /\ kind[r] \in Kinds
      /\ password[r] \in Requests \union {NoSecret, NullPassword}
  BY DEF TypeOK
<1>2. ResetTemp(r) \in Requests
  BY <1>1 DEF ResetTemp, Rows
<1>3. Password(r) \in Requests \union {NoSecret, NullPassword}
  BY <1>1, <1>2 DEF Password, Rows
<1>4. Encrypted(r) \in Requests \union {NoSecret}
  BY <1>1, <1>3 DEF Encrypted, Rows
<1>5. Assigned(r) \in Rows
  BY <1>1, <1>2 DEF Assigned, Rows, Statuses, Kinds, Names, Chooses
<1>6. ToSave(r) \in Rows
  BY <1>4, <1>5 DEF ToSave, Rows
<1>7. Saved(r) \in Rows
  BY <1>6 DEF Saved, Rows
<1> QED
  BY <1>3, <1>4, <1>5, <1>6, <1>7 DEF ToSave

LEMMA EmptyRow == NoRow \in Rows
  BY DEF NoRow, Rows, Statuses

\* A new row is well formed.
LEMMA NewRows ==
  ASSUME NEW r \in Requests
  PROVE  /\ [NoRow EXCEPT !.status = "active", !.named = TRUE, !.secret = r] \in Rows
         /\ [NoRow EXCEPT !.status = "invited", !.secret = r, !.temp = r] \in Rows
  BY DEF NoRow, Rows, Statuses

LEMMA TypeInit == ASSUME AccountsAssumption, Init PROVE TypeOK
  BY EmptyRow DEF Init, TypeOK, Kinds, Names, Chooses, AccountsAssumption

LEMMA TypeStart ==
  ASSUME TypeOK, NEW r \in Requests, NEW k \in Kinds,
         NEW next \in {"insert", "save", "find"}, Start(r, k, next)
  PROVE  /\ pc' \in [Requests -> {"idle", "insert", "save", "mail", "find", "create", "done"}]
         /\ kind' \in [Requests -> Kinds]
         /\ UNCHANGED <<users, tries, invitees, known, overtaken, unmailed>>
  BY DEF Start, TypeOK, history

LEMMA InitInv == ASSUME AccountsAssumption, Init PROVE AccountsInv
<1>1. TypeOK
  BY TypeInit
<1>2. SecretsTold /\ RowShape
  BY DEF Init, SecretsTold, RowShape, Safe, Exists, Pending, NoRow
<1>3. ASSUME NEW r \in Requests PROVE RequestInv(r)
  BY DEF Init, RequestInv, Loaded, Attribute, Inviting, NoRow, AccountsAssumption
<1> QED
  BY <1>1, <1>2, <1>3 DEF AccountsInv

-----------------------------------------------------------------------------
(* What a step leaves alone.                                               *)

\* Rows stay, and change with their version.
RowsGrow ==
  \A e \in Emails :
    Exists(e) =>
      /\ Exists(e)'
      /\ \/ users'[e] = users[e]
         \/ users'[e].version \in Nat /\ users'[e].version > users[e].version

SameRequest(q) ==
  /\ pc'[q] = pc[q] /\ kind'[q] = kind[q] /\ on'[q] = on[q] /\ copy'[q] = copy[q]
  /\ password'[q] = password[q] /\ tries'[q] = tries[q] /\ todo'[q] = todo[q]
  /\ invitees'[q] = invitees[q]

LEMMA OthersKept ==
  ASSUME AccountsInv, NEW q \in Requests, SameRequest(q), RowsGrow
  PROVE  RequestInv(q)'
<1>1. RequestInv(q) /\ copy[q].version \in Nat /\ \A e \in Emails : users[e].version \in Nat
  BY DEF AccountsInv, TypeOK, Rows
<1>2. Loaded(q)'
  <2> SUFFICES ASSUME pc[q] = "save" PROVE Loaded(q)'
    BY DEF SameRequest, Loaded
  <2>1. /\ on[q] \in Emails /\ Exists(on[q]) /\ copy[q].version <= users[on[q]].version
        /\ copy[q].version = users[on[q]].version => copy[q] = users[on[q]]
    BY <1>1 DEF RequestInv, Loaded
  <2>2. CASE users'[on[q]] = users[on[q]]
    BY <2>1, <2>2 DEF SameRequest, Loaded, Exists
  <2>3. CASE /\ users'[on[q]].version \in Nat /\ users'[on[q]].version > users[on[q]].version
             /\ Exists(on[q])'
    <3>1. users'[on[q]].version > copy[q].version
      BY <1>1, <2>1, <2>3
    <3>2. /\ copy[q].version <= users'[on[q]].version
          /\ copy[q].version # users'[on[q]].version
      BY <1>1, <2>3, <3>1
    <3> QED
      BY <2>1, <2>3, <3>2 DEF SameRequest, Loaded, Exists
  <2> QED
    BY <2>1, <2>2, <2>3 DEF RowsGrow, SameRequest, Exists
<1>3. Attribute(q)'
  BY <1>1 DEF RequestInv, Attribute, SameRequest, First
<1>4. Inviting(q)'
  BY <1>1 DEF RequestInv, Inviting, SameRequest
<1> QED
  BY <1>2, <1>3, <1>4 DEF RequestInv

\* What the owner of e knows or will know stays, if every passcode that is owed
\* is owed afterwards or known.
LEMMA KnowledgeKept ==
  ASSUME NEW e \in Emails, known[e] \subseteq known'[e],
         \A q \in Requests :
           /\ pc[q] = "mail" /\ on[q] = e =>
                \/ pc'[q] = "mail" /\ on'[q] = e /\ copy'[q] = copy[q]
                \/ copy[q].temp \in known'[e] \union {NoSecret}
           /\ pc[q] \in {"find", "create"} /\ e \in Owed(q) =>
                \/ pc'[q] \in {"find", "create"} /\ invitees'[q][e] = invitees[q][e]
                \/ invitees[q][e].temp \in known'[e] \union {NoSecret},
         NEW s \in Know(e), s # NoSecret
  PROVE  s \in Know(e)'
<1>1. CASE s \in known[e]
  BY <1>1 DEF Know
<1>2. ASSUME NEW q \in Requests, pc[q] = "mail", on[q] = e, s = copy[q].temp
      PROVE  s \in Know(e)'
  BY <1>2 DEF Know, Owing
<1>3. ASSUME NEW q \in Requests, pc[q] \in {"find", "create"}, e \in Owed(q), s = invitees[q][e].temp
      PROVE  s \in Know(e)'
  <2>1. CASE invitees[q][e].temp \in known'[e] \union {NoSecret}
    BY <1>3, <2>1 DEF Know
  <2>2. CASE pc'[q] \in {"find", "create"} /\ invitees'[q][e] = invitees[q][e]
    <3>1. e \in Owed(q)'
      BY <1>3, <2>2 DEF Owed
    <3> QED
      BY <1>3, <2>2, <3>1 DEF Know, Owing
  <2> QED
    BY <1>3, <2>1, <2>2
<1> QED
  BY <1>1, <1>2, <1>3 DEF Know, Owing

\* The rows of safe accounts that a step leaves alone.
LEMMA SecretsKept ==
  ASSUME AccountsInv, TypeOK', AccountsAssumption,
         NEW e \in Safe', Safe' \subseteq Safe, Exists(e)',
         users'[e].secret = users[e].secret, Exists(e),
         \A s \in Know(e) : s # NoSecret => s \in Know(e)'
  PROVE  users'[e].secret \in Requests \intersect Know(e)'
  BY DEF AccountsInv, SecretsTold, AccountsAssumption, Safe

-----------------------------------------------------------------------------
(* The steps that start a request.                                         *)

LEMMA StartInv ==
  ASSUME AccountsInv, AccountsAssumption, NEW r \in Requests, NEW k \in Kinds,
         NEW next \in {"insert", "save", "find"}, Start(r, k, next),
         on' \in [Requests -> Emails \union {NoEmail}], copy' \in [Requests -> Rows],
         password' \in [Requests -> Requests \union {NoSecret, NullPassword}],
         todo' \in [Requests -> SUBSET Emails],
         \A q \in Requests \ {r} :
           on'[q] = on[q] /\ copy'[q] = copy[q] /\ password'[q] = password[q] /\ todo'[q] = todo[q],
         next \in {"insert", "save"} => on'[r] \in Emails /\ copy'[r] = users[on'[r]] /\ todo'[r] = todo[r],
         next = "save" => Exists(on'[r]) /\ k # "invite",
         /\ k \in {"signup", "complete", "password"} => password'[r] = r
         /\ k = "profile" => password'[r] = NullPassword
         /\ k = "reset" => password'[r] = NoSecret
  PROVE  AccountsInv'
<1>1. TypeOK'
  BY TypeStart DEF AccountsInv, TypeOK
<1>2. RowShape'
  BY DEF AccountsInv, RowShape, Start, Exists
<1>3. /\ pc[r] = "idle" /\ pc'[r] = next /\ kind'[r] = k
      /\ users' = users /\ tries' = tries /\ invitees' = invitees
      /\ known' = known /\ overtaken' = overtaken /\ unmailed' = unmailed
      /\ \A q \in Requests \ {r} : pc'[q] = pc[q] /\ kind'[q] = kind[q]
  BY DEF Start, AccountsInv, TypeOK, history
<1>4. ASSUME NEW q \in Requests \ {r} PROVE RequestInv(q)'
  <2>1. SameRequest(q) /\ RowsGrow
    BY <1>3 DEF SameRequest, RowsGrow, Exists
  <2> QED
    BY <2>1, OthersKept
<1>5. RequestInv(r)'
  <2>1. RequestInv(r) /\ \A e \in Emails : invitees[r][e].status = "none"
    BY <1>3 DEF AccountsInv, RequestInv, Inviting
  <2>2. Loaded(r)'
    <3> SUFFICES ASSUME next = "save" PROVE Loaded(r)'
      BY <1>3 DEF Loaded
    <3>1. users[on'[r]].version \in Nat
      BY DEF AccountsInv, TypeOK, Rows
    <3> QED
      BY <1>3, <3>1 DEF Loaded, Exists
  <2>3. Attribute(r)'
    BY <1>3, <2>1 DEF RequestInv, Attribute, First, AccountsAssumption
  <2>4. Inviting(r)'
    BY <1>1, <1>3, <2>1 DEF Inviting, TypeOK
  <2> QED
    BY <2>2, <2>3, <2>4 DEF RequestInv
<1>6. SecretsTold'
  <2> SUFFICES ASSUME NEW e \in Safe', Exists(e)' PROVE users'[e].secret \in Requests \intersect Know(e)'
    BY DEF SecretsTold
  <2>1. \A s \in Know(e) : s # NoSecret => s \in Know(e)'
    BY <1>3, KnowledgeKept DEF Safe, Owed
  <2> QED
    BY <1>1, <1>3, <2>1, SecretsKept DEF Safe, Exists
<1> QED
  BY <1>1, <1>2, <1>4, <1>5, <1>6 DEF AccountsInv

LEMMA StartsInv ==
  ASSUME AccountsInv, AccountsAssumption, NEW r \in Requests
  PROVE  /\ \A e \in Emails : StartSignup(r, e) \/ StartReset(r, e) => AccountsInv'
         /\ \A e \in Emails, k \in Kinds : StartUpdate(r, e, k) => AccountsInv'
         /\ \A es \in SUBSET Emails : StartInvitation(r, es) => AccountsInv'
<1> TypeOK /\ RequestInv(r)
  BY DEF AccountsInv
<1>1. ASSUME NEW e \in Emails PROVE users[e] \in Rows
  BY DEF TypeOK
<1>2. ASSUME NEW e \in Emails, StartSignup(r, e) PROVE AccountsInv'
  <2> DEFINE next == IF users[e].status = "invited" THEN "save" ELSE "insert"
  <2>1. next \in {"insert", "save", "find"} /\ "signup" \in Kinds /\ Start(r, "signup", next)
    BY <1>2 DEF StartSignup, Kinds, Names
  <2>2. /\ on' = [on EXCEPT ![r] = e] /\ copy' = [copy EXCEPT ![r] = users[e]]
        /\ password' = [password EXCEPT ![r] = r] /\ todo' = todo /\ users' = users
    BY <1>2 DEF StartSignup, Start
  <2>3. next = "save" => Exists(on'[r])
    BY <2>2 DEF Exists, TypeOK
  <2>4. /\ on' \in [Requests -> Emails \union {NoEmail}] /\ copy' \in [Requests -> Rows]
        /\ password' \in [Requests -> Requests \union {NoSecret, NullPassword}]
        /\ todo' \in [Requests -> SUBSET Emails]
        /\ \A q \in Requests \ {r} :
             on'[q] = on[q] /\ copy'[q] = copy[q] /\ password'[q] = password[q] /\ todo'[q] = todo[q]
        /\ on'[r] \in Emails /\ copy'[r] = users[on'[r]] /\ todo'[r] = todo[r] /\ password'[r] = r
    BY <1>1, <2>2 DEF TypeOK
  <2> HIDE DEF next
  <2> QED
    BY <2>1, <2>3, <2>4, StartInv
<1>3. ASSUME NEW e \in Emails, StartReset(r, e) PROVE AccountsInv'
  <2>1. "reset" \in Kinds /\ Start(r, "reset", "save") /\ Exists(e)
    BY <1>3 DEF StartReset, Kinds
  <2>2. /\ on' = [on EXCEPT ![r] = e] /\ copy' = [copy EXCEPT ![r] = users[e]]
        /\ password' = password /\ todo' = todo /\ users' = users /\ pc[r] = "idle"
    BY <1>3 DEF StartReset, Start
  <2>3. Exists(on'[r]) /\ password'[r] = NoSecret
    BY <2>1, <2>2 DEF Exists, TypeOK, RequestInv, Attribute
  <2> QED
    BY <1>1, <2>1, <2>2, <2>3, StartInv DEF TypeOK
<1>4. ASSUME NEW e \in Emails, NEW k \in Kinds, StartUpdate(r, e, k) PROVE AccountsInv'
  <2>1. k \in {"complete", "profile", "password"} /\ Start(r, k, "save") /\ Exists(e)
    BY <1>4 DEF StartUpdate
  <2>2. /\ on' = [on EXCEPT ![r] = e] /\ copy' = [copy EXCEPT ![r] = users[e]]
        /\ password' = [password EXCEPT ![r] = IF k \in Chooses THEN r ELSE NullPassword]
        /\ todo' = todo /\ users' = users
    BY <1>4 DEF StartUpdate, Start
  <2>3. Exists(on'[r]) /\ (k # "profile" => password'[r] = r) /\ (k = "profile" => password'[r] = NullPassword)
    BY <2>1, <2>2 DEF Exists, TypeOK, Chooses
  <2> QED
    BY <1>1, <2>1, <2>2, <2>3, StartInv DEF TypeOK
<1>5. ASSUME NEW es \in SUBSET Emails, StartInvitation(r, es) PROVE AccountsInv'
  BY <1>5, StartInv DEF StartInvitation, TypeOK, Kinds
<1> QED
  BY <1>2, <1>3, <1>4, <1>5

-----------------------------------------------------------------------------
(* The steps that leave the rows alone.                                    *)

LEMMA QuietInv ==
  ASSUME AccountsInv, AccountsAssumption, NEW r \in Requests, TypeOK', RequestInv(r)', users' = users,
         \A q \in Requests \ {r} : SameRequest(q),
         overtaken \subseteq overtaken', unmailed \subseteq unmailed',
         \A e \in Emails : known[e] \subseteq known'[e],
         \A e \in Safe' :
           /\ pc[r] = "mail" /\ on[r] = e => copy[r].temp \in known'[e] \union {NoSecret}
           /\ pc[r] \in {"find", "create"} /\ e \in Owed(r) =>
                \/ pc'[r] \in {"find", "create"} /\ invitees'[r][e] = invitees[r][e]
                \/ invitees[r][e].temp \in known'[e] \union {NoSecret}
  PROVE  AccountsInv'
<1>1. RowShape'
  BY DEF AccountsInv, RowShape, Exists
<1>2. RowsGrow
  BY DEF RowsGrow, Exists
<1>3. \A q \in Requests : RequestInv(q)'
  BY <1>2, OthersKept
<1>4. SecretsTold'
  <2> SUFFICES ASSUME NEW e \in Safe', Exists(e)' PROVE users'[e].secret \in Requests \intersect Know(e)'
    BY DEF SecretsTold
  <2>1. Safe' \subseteq Safe /\ e \in Emails /\ Exists(e)
    BY DEF Safe, Exists
  <2>2. \A s \in Know(e) : s # NoSecret => s \in Know(e)'
    BY <2>1, KnowledgeKept DEF SameRequest
  <2> QED
    BY <2>1, <2>2, SecretsKept
<1> QED
  BY <1>1, <1>3, <1>4 DEF AccountsInv

LEMMA RefuseInv == ASSUME AccountsInv, AccountsAssumption, NEW r \in Requests, Refuse(r) PROVE AccountsInv'
<1> TypeOK /\ RequestInv(r)
  BY DEF AccountsInv
<1>1. TypeOK'
  BY DEF Refuse, TypeOK, request, history
<1>2. RequestInv(r)'
  BY DEF Refuse, TypeOK, request, RequestInv, Loaded, Attribute, Inviting, First
<1> QED
  BY <1>1, <1>2, QuietInv DEF Refuse, TypeOK, request, history, SameRequest

LEMMA ReloadInv == ASSUME AccountsInv, AccountsAssumption, NEW r \in Requests, Reload(r) PROVE AccountsInv'
<1> TypeOK /\ RequestInv(r)
  BY DEF AccountsInv
<1>1. on[r] \in Emails /\ Exists(on[r]) /\ users[on[r]] \in Rows /\ tries[r] \in Int
  BY DEF Reload, RequestInv, Loaded, TypeOK
<1>2. Password(r) \in Requests \union {NoSecret, NullPassword}
  BY SavedRow
<1>3. TypeOK'
  BY <1>1, <1>2 DEF Reload, TypeOK, history
<1>4. /\ users' = users /\ kind' = kind /\ on' = on /\ todo' = todo /\ invitees' = invitees
      /\ copy'[r] = users[on[r]] /\ password'[r] = Password(r) /\ tries'[r] = tries[r] - 1
      /\ pc[r] = "save" /\ pc'[r] \in {"save", "done"}
  BY DEF Reload, TypeOK, history
<1>5. Loaded(r)'
  BY <1>1, <1>4 DEF Loaded, Exists, Rows
<1>6. Attribute(r)'
  <2>1. tries'[r] <= Retries /\ tries'[r] # Retries
    BY <1>1, <1>4 DEF RequestInv, Attribute, AccountsAssumption
  <2>2. kind[r] \in {"signup", "complete", "password"} => Password(r) = r
    BY <1>4 DEF RequestInv, Attribute, Password, AccountsAssumption
  <2>3. kind[r] = "profile" => Password(r) = NullPassword
    BY <1>4 DEF RequestInv, Attribute, Password, AccountsAssumption
  <2>4. kind[r] = "reset" => Password(r) # NullPassword
    BY <1>4 DEF RequestInv, Attribute, Password, ResetTemp, TypeOK, Rows, AccountsAssumption
  <2> QED
    BY <1>4, <2>1, <2>2, <2>3, <2>4 DEF RequestInv, Attribute, First
<1>7. Inviting(r)'
  BY <1>4 DEF RequestInv, Inviting
<1> QED
  BY <1>3, <1>4, <1>5, <1>6, <1>7, QuietInv DEF RequestInv, Reload, TypeOK, history, SameRequest

LEMMA MailResetInv == ASSUME AccountsInv, AccountsAssumption, NEW r \in Requests, MailReset(r) PROVE AccountsInv'
<1> TypeOK /\ RequestInv(r)
  BY DEF AccountsInv
<1>1. on[r] \in Emails /\ copy[r] \in Rows
  BY DEF MailReset, RequestInv, Inviting, TypeOK
<1>2. /\ known'[on[r]] = known[on[r]] \union ({copy[r].temp} \ {NoSecret})
      /\ \A e \in Emails : known[e] \subseteq known'[e]
  BY <1>1 DEF MailReset, Told, TypeOK
<1>3. TypeOK'
  BY <1>1 DEF MailReset, Told, TypeOK, request, Rows
<1>4. RequestInv(r)'
  BY DEF MailReset, TypeOK, request, RequestInv, Loaded, Attribute, Inviting, First
<1>5. /\ pc[r] = "mail" /\ pc'[r] = "done" /\ users' = users
      /\ \A q \in Requests \ {r} : SameRequest(q)
      /\ overtaken' = overtaken /\ unmailed' = unmailed
  BY DEF MailReset, TypeOK, request, SameRequest
<1> QED
  BY <1>2, <1>3, <1>4, <1>5, QuietInv

LEMMA FindInviteeInv ==
  ASSUME AccountsInv, AccountsAssumption, NEW r \in Requests, NEW d \in Emails, FindInvitee(r, d)
  PROVE  AccountsInv'
<1> TypeOK /\ RequestInv(r)
  BY DEF AccountsInv
<1>1. users[d] \in Rows /\ pc[r] = "find" /\ d \in todo[r] /\ invitees[r][d].status = "none"
  BY DEF FindInvitee, TypeOK, RequestInv, Inviting
<1>2. TypeOK'
  BY <1>1 DEF FindInvitee, TypeOK, history
<1>3. /\ \A e \in Emails : e # d => invitees'[r][e] = invitees[r][e]
      /\ invitees'[r][d] = (IF users[d].status = "invited" THEN users[d] ELSE invitees[r][d])
      /\ todo'[r] = todo[r] \ {d} /\ on'[r] = d /\ pc'[r] = (IF Exists(d) THEN "find" ELSE "create")
      /\ kind' = kind /\ password' = password /\ tries' = tries
  BY DEF FindInvitee, TypeOK
<1>4. RequestInv(r)'
  <2>1. Loaded(r)' /\ Attribute(r)'
    BY <1>3 DEF RequestInv, Loaded, Attribute, First
  <2>2. Inviting(r)'
    BY <1>1, <1>3, <1>2 DEF RequestInv, Inviting, Exists, TypeOK
  <2> QED
    BY <2>1, <2>2 DEF RequestInv
<1>5. \A q \in Requests \ {r} : SameRequest(q)
  BY DEF FindInvitee, TypeOK, SameRequest
<1>6. users' = users /\ known' = known /\ overtaken' = overtaken /\ unmailed' = unmailed
  BY DEF FindInvitee, history
<1>7. \A e \in Emails : e \in Owed(r) => pc'[r] \in {"find", "create"} /\ invitees'[r][e] = invitees[r][e]
  BY <1>1, <1>3 DEF Owed
<1> QED
  BY <1>1, <1>2, <1>4, <1>5, <1>6, <1>7, QuietInv DEF Safe

LEMMA SkipInviteeInv ==
  ASSUME AccountsInv, AccountsAssumption, NEW r \in Requests, SkipInvitee(r) PROVE AccountsInv'
<1> TypeOK /\ RequestInv(r)
  BY DEF AccountsInv
<1>1. TypeOK'
  BY DEF SkipInvitee, TypeOK, request, history
<1>2. RequestInv(r)'
  BY DEF SkipInvitee, TypeOK, request, RequestInv, Loaded, Attribute, Inviting, First
<1> QED
  BY <1>1, <1>2, QuietInv DEF SkipInvitee, TypeOK, request, history, SameRequest

LEMMA MailInviteeInv ==
  ASSUME AccountsInv, AccountsAssumption, NEW r \in Requests, NEW d \in Emails, MailInvitee(r, d)
  PROVE  AccountsInv'
<1> TypeOK /\ RequestInv(r)
  BY DEF AccountsInv
<1>1. invitees[r][d] \in Rows /\ pc[r] = "find" /\ todo[r] = {} /\ pc' = pc
  BY DEF MailInvitee, TypeOK
<1>2. /\ known'[d] = known[d] \union ({invitees[r][d].temp} \ {NoSecret})
      /\ \A e \in Emails : known[e] \subseteq known'[e]
  BY DEF MailInvitee, Told, TypeOK
<1>3. TypeOK'
  BY <1>1, EmptyRow DEF MailInvitee, Told, TypeOK, Rows
<1>4. /\ \A e \in Emails : e # d => invitees'[r][e] = invitees[r][e]
      /\ invitees'[r][d] = NoRow /\ todo' = todo /\ on' = on /\ kind' = kind
      /\ password' = password /\ tries' = tries /\ users' = users
      /\ overtaken' = overtaken /\ unmailed' = unmailed
  BY DEF MailInvitee, TypeOK
<1>5. RequestInv(r)'
  BY <1>1, <1>4 DEF RequestInv, Loaded, Attribute, Inviting, First, NoRow
<1>6. \A q \in Requests \ {r} : SameRequest(q)
  BY DEF MailInvitee, TypeOK, SameRequest
<1> QED
  BY <1>1, <1>2, <1>3, <1>4, <1>5, <1>6, QuietInv DEF Safe

LEMMA InvitationDoneInv ==
  ASSUME AccountsInv, AccountsAssumption, NEW r \in Requests, InvitationDone(r) PROVE AccountsInv'
<1> TypeOK /\ RequestInv(r)
  BY DEF AccountsInv
<1>1. TypeOK'
  BY DEF InvitationDone, TypeOK, request, history
<1>2. RequestInv(r)'
  BY DEF InvitationDone, TypeOK, request, RequestInv, Loaded, Attribute, Inviting, First
<1> QED
  BY <1>1, <1>2, QuietInv DEF InvitationDone, TypeOK, request, history, SameRequest

LEMMA DieInv == ASSUME AccountsInv, AccountsAssumption, NEW r \in Requests, Die(r) PROVE AccountsInv'
<1> TypeOK /\ RequestInv(r)
  BY DEF AccountsInv
<1>1. Owed(r) \subseteq Emails /\ (pc[r] = "mail" => on[r] \in Emails)
  BY DEF Owed, RequestInv, Inviting
<1>2. TypeOK'
  BY <1>1 DEF Die, TypeOK, request
<1>3. RequestInv(r)'
  BY DEF Die, TypeOK, request, RequestInv, Loaded, Attribute, Inviting, First
<1>4. /\ \A q \in Requests \ {r} : SameRequest(q)
      /\ users' = users /\ known' = known /\ overtaken' = overtaken
      /\ unmailed' = unmailed \union Owed(r) \union (IF pc[r] = "mail" THEN {on[r]} ELSE {})
  BY DEF Die, TypeOK, request, SameRequest
<1>5. \A e \in Safe' : e \notin Owed(r) /\ (pc[r] = "mail" => on[r] # e)
  BY <1>4 DEF Safe
<1> QED
  BY <1>2, <1>3, <1>4, <1>5, QuietInv

-----------------------------------------------------------------------------
(* The steps that write a row.                                             *)

\* Request r writes the row of d: the others stay, and no mail is sent.
WritesOnly(r, d) ==
  /\ \A e \in Emails \ {d} : users'[e] = users[e]
  /\ \A q \in Requests \ {r} : SameRequest(q)
  /\ overtaken \subseteq overtaken' /\ unmailed' = unmailed
  /\ \A e \in Emails : known[e] \subseteq known'[e]
  /\ pc[r] # "mail"
  /\ \A e \in Owed(r) : pc[r] \in {"find", "create"} =>
       pc'[r] \in {"find", "create"} /\ invitees'[r][e] = invitees[r][e]

\* The row of d is as it should be.
WrittenWell(d) ==
  /\ Exists(d)'
  /\ Exists(d) => users'[d] = users[d] \/ users'[d].version > users[d].version
  /\ users'[d].status = "active" => users'[d].named
  /\ Pending(users'[d]) => users'[d].temp # NoSecret
  /\ d \in Safe' => \/ users'[d].secret \in Requests \intersect Know(d)'
                    \/ Exists(d) /\ users'[d].secret = users[d].secret

LEMMA WriteInv ==
  ASSUME AccountsInv, AccountsAssumption, NEW r \in Requests, NEW d \in Emails, TypeOK', RequestInv(r)',
         WritesOnly(r, d), WrittenWell(d)
  PROVE  AccountsInv'
<1> USE DEF WritesOnly, WrittenWell
<1>1. RowShape'
  BY DEF AccountsInv, RowShape, Exists
<1>2. RowsGrow
  BY DEF RowsGrow, Exists, TypeOK, Rows
<1>3. \A q \in Requests : RequestInv(q)'
  BY <1>2, OthersKept
<1>4. SecretsTold'
  <2> SUFFICES ASSUME NEW e \in Safe', Exists(e)' PROVE users'[e].secret \in Requests \intersect Know(e)'
    BY DEF SecretsTold
  <2>1. Safe' \subseteq Safe /\ e \in Emails
    BY DEF Safe
  <2>2. \A s \in Know(e) : s # NoSecret => s \in Know(e)'
    BY <2>1, KnowledgeKept DEF SameRequest
  <2>3. CASE e # d
    BY <2>1, <2>2, <2>3, SecretsKept DEF Exists
  <2>4. CASE e = d /\ Exists(d) /\ users'[d].secret = users[d].secret
    BY <2>1, <2>2, <2>4, SecretsKept
  <2> QED
    BY <2>3, <2>4
<1> QED
  BY <1>1, <1>3, <1>4 DEF AccountsInv

LEMMA InsertInv == ASSUME AccountsInv, AccountsAssumption, NEW r \in Requests, Insert(r) PROVE AccountsInv'
<1> TypeOK /\ RequestInv(r)
  BY DEF AccountsInv
<1> DEFINE row == [NoRow EXCEPT !.status = "active", !.named = TRUE, !.secret = r]
<1> PICK d \in Emails : on[r] = d
  BY DEF Insert, RequestInv, Inviting
<1>1. pc[r] = "insert" /\ pc'[r] = "done"
  BY DEF Insert, TypeOK
<1>2. TypeOK'
  <2>1. row \in Rows
    BY NewRows
  <2>2. \/ users' = [users EXCEPT ![d] = row] /\ known' = [known EXCEPT ![d] = @ \union {r}]
        \/ users' = users /\ known' = known
    BY DEF Insert
  <2> HIDE DEF row
  <2>3. users \in [Emails -> Rows] /\ known \in [Emails -> SUBSET Requests]
    BY DEF TypeOK
  <2>4. users' \in [Emails -> Rows]
    BY <2>1, <2>2, <2>3
  <2>5. known' \in [Emails -> SUBSET Requests]
    BY <2>2, <2>3
  <2> QED
    BY <2>4, <2>5 DEF Insert, TypeOK, request
<1>3. RequestInv(r)'
  BY DEF Insert, TypeOK, request, RequestInv, Loaded, Attribute, Inviting, First
<1>4. \A q \in Requests \ {r} : SameRequest(q)
  BY DEF Insert, TypeOK, request, SameRequest
<1>5. overtaken' = overtaken /\ unmailed' = unmailed
  BY DEF Insert
<1>6. CASE Exists(d)
  BY <1>1, <1>2, <1>3, <1>4, <1>5, <1>6, QuietInv DEF Insert
<1>7. CASE ~Exists(d)
  <2>1. users' = [users EXCEPT ![d] = row] /\ known' = [known EXCEPT ![d] = @ \union {r}]
    BY <1>7 DEF Insert
  <2>2. users'[d] = row /\ r \in known'[d] /\ \A e \in Emails : known[e] \subseteq known'[e]
    BY <1>1, <2>1 DEF TypeOK
  <2>3. row.status = "active" /\ row.named /\ row.secret = r
    BY DEF NoRow
  <2>4. Exists(d)' /\ ~Pending(users'[d]) /\ r \in Know(d)'
    BY <2>2, <2>3, <1>4, <1>1 DEF Pending, Know, Exists, Insert, request
  <2>5. \A e \in Emails \ {d} : users'[e] = users[e]
    BY <2>1 DEF TypeOK
  <2> HIDE DEF row
  <2>6. /\ overtaken \subseteq overtaken' /\ pc[r] # "mail" /\ pc[r] \notin {"find", "create"}
        /\ users'[d].named /\ users'[d].secret \in Requests \intersect Know(d)'
    BY <1>1, <1>5, <2>2, <2>3, <2>4
  <2>7. WritesOnly(r, d)
    BY <1>4, <1>5, <2>2, <2>5, <2>6 DEF WritesOnly
  <2>8. WrittenWell(d)
    BY <1>7, <2>4, <2>6 DEF WrittenWell
  <2> QED
    BY <1>2, <1>3, <2>7, <2>8, WriteInv
<1> QED
  BY <1>6, <1>7

LEMMA CreateInviteeInv ==
  ASSUME AccountsInv, AccountsAssumption, NEW r \in Requests, CreateInvitee(r) PROVE AccountsInv'
<1> TypeOK /\ RequestInv(r)
  BY DEF AccountsInv
<1> DEFINE row == [NoRow EXCEPT !.status = "invited", !.secret = r, !.temp = r]
<1> PICK d \in Emails : on[r] = d
  BY DEF CreateInvitee, RequestInv, Inviting
<1>1. /\ pc[r] = "create" /\ pc'[r] = "find" /\ ~Exists(d)
      /\ invitees[r][d].status = "none" /\ d \notin todo[r]
  BY DEF CreateInvitee, RequestInv, Inviting, TypeOK
<1>2. /\ users' = [users EXCEPT ![d] = row] /\ invitees' = [invitees EXCEPT ![r][d] = row]
      /\ kind' = kind /\ on' = on /\ copy' = copy /\ password' = password /\ tries' = tries
      /\ todo' = todo /\ known' = known /\ overtaken' = overtaken /\ unmailed' = unmailed
      /\ pc' = [pc EXCEPT ![r] = "find"]
  BY DEF CreateInvitee, history
<1>3. row \in Rows /\ row.status = "invited" /\ row.secret = r /\ row.temp = r
  BY NewRows DEF NoRow
<1> HIDE DEF row
<1>4. TypeOK'
  BY <1>1, <1>2, <1>3 DEF TypeOK
<1>5. /\ users'[d] = row /\ invitees'[r][d] = row
      /\ \A e \in Emails \ {d} : users'[e] = users[e] /\ invitees'[r][e] = invitees[r][e]
  BY <1>1, <1>2 DEF TypeOK
<1>6. RequestInv(r)'
  BY <1>1, <1>2, <1>5 DEF TypeOK, RequestInv, Loaded, Attribute, Inviting, First
<1>7. \A q \in Requests \ {r} : SameRequest(q)
  BY <1>2 DEF TypeOK, SameRequest
<1>8. \A e \in Owed(r) : invitees'[r][e] = invitees[r][e]
  BY <1>1, <1>5 DEF Owed
<1>9. row.secret \in Requests \intersect Know(d)'
  <2>1. d \in Owed(r)'
    BY <1>1, <1>3, <1>5 DEF Owed
  <2>2. row.temp \in {invitees'[q][d].temp : q \in {p \in Requests : pc'[p] \in {"find", "create"} /\ d \in Owed(p)'}}
    BY <1>1, <1>5, <2>1
  <2>3. on' = on
    BY <1>2
  <2> QED
    BY <1>3, <2>2, <2>3 DEF Know, Owing
<1>10. Exists(d)' /\ row.temp # NoSecret
  BY <1>1, <1>2, <1>3, <1>5 DEF Exists, AccountsAssumption
<1> QED
  <2>1. \A e \in Emails : known[e] \subseteq known'[e]
    BY <1>2
  <2>2. /\ overtaken \subseteq overtaken' /\ unmailed' = unmailed /\ pc[r] # "mail"
        /\ users'[d].status # "active" /\ users'[d].temp # NoSecret
        /\ users'[d].secret \in Requests \intersect Know(d)'
    BY <1>1, <1>2, <1>3, <1>5, <1>9, <1>10
  <2>3. WritesOnly(r, d)
    BY <1>1, <1>2, <1>5, <1>7, <1>8, <2>1, <2>2 DEF WritesOnly
  <2>4. WrittenWell(d)
    BY <1>1, <1>10, <2>2 DEF WrittenWell
  <2> QED
    BY <1>4, <1>6, <2>3, <2>4, WriteInv

LEMMA SaveInv == ASSUME AccountsInv, AccountsAssumption, NEW r \in Requests, Save(r) PROVE AccountsInv'
<1> TypeOK /\ RequestInv(r)
  BY DEF AccountsInv
<1> PICK d \in Emails : on[r] = d
  BY DEF Save, RequestInv, Loaded
<1> DEFINE row == Saved(r)
<1>1. /\ pc[r] = "save" /\ Valid(r) /\ Exists(d) /\ users[d] \in Rows /\ copy[r] \in Rows /\ row \in Rows
      /\ Changed(r) => copy[r] = users[d]
  BY SavedRow DEF Save, RequestInv, Loaded, Stale, TypeOK
<1>2. /\ pc'[r] = (IF kind[r] = "reset" THEN "mail" ELSE "done") /\ copy'[r] = row
      /\ kind' = kind /\ on' = on /\ tries' = tries /\ todo' = todo /\ invitees' = invitees
      /\ unmailed' = unmailed /\ overtaken \subseteq overtaken'
      /\ \A e \in Emails : known[e] \subseteq known'[e]
      /\ kind[r] \in Chooses => r \in known'[d]
      /\ kind[r] = "reset" /\ ~First(r) => d \in overtaken'
  BY DEF Save, TypeOK
<1>3. /\ users'[d] = IF Changed(r) THEN row ELSE users[d]
      /\ \A e \in Emails \ {d} : users'[e] = users[e]
  BY DEF Save, TypeOK
<1>4. TypeOK'
  BY SavedRow DEF Save, TypeOK
<1>5. RequestInv(r)'
  <2>1. Loaded(r)' /\ Attribute(r)'
    BY <1>2 DEF RequestInv, Loaded, Attribute
  <2>2. Inviting(r)'
    BY <1>2 DEF RequestInv, Inviting
  <2> QED
    BY <2>1, <2>2 DEF RequestInv
<1>6. WritesOnly(r, d)
  <2>1. \A q \in Requests \ {r} : SameRequest(q)
    BY DEF Save, TypeOK, SameRequest
  <2> QED
    BY <1>1, <1>2, <1>3, <2>1 DEF WritesOnly
<1>7. CASE ~Changed(r)
  <2>1. WrittenWell(d)
    BY <1>1, <1>3, <1>7 DEF WrittenWell, AccountsInv, RowShape, Exists
  <2> QED
    BY <1>4, <1>5, <1>6, <2>1, WriteInv
<1>8. CASE Changed(r)
  <2>1. /\ users'[d] = row /\ copy[r] = users[d] /\ row.version = users[d].version + 1
        /\ row.status = Assigned(r).status /\ row.named = Assigned(r).named
        /\ row.temp = Assigned(r).temp /\ row.secret = Encrypted(r)
    <3>1. users'[d] = row /\ copy[r] = users[d]
      BY <1>1, <1>3, <1>8
    <3>2. row = [ToSave(r) EXCEPT !.version = @ + 1] /\ ToSave(r) \in Rows
      BY <1>8, SavedRow DEF Saved
    <3>3. Assigned(r) \in Rows /\ ToSave(r) = [Assigned(r) EXCEPT !.secret = Encrypted(r)]
      BY SavedRow
    <3>4. Assigned(r).version = copy[r].version
      BY <1>1 DEF Assigned, Rows
    <3> HIDE DEF row
    <3>5. /\ ToSave(r).version = Assigned(r).version /\ ToSave(r).status = Assigned(r).status
          /\ ToSave(r).named = Assigned(r).named /\ ToSave(r).temp = Assigned(r).temp
          /\ ToSave(r).secret = Encrypted(r)
      BY <3>3 DEF Rows
    <3>6. /\ row.version = ToSave(r).version + 1 /\ row.status = ToSave(r).status
          /\ row.named = ToSave(r).named /\ row.temp = ToSave(r).temp /\ row.secret = ToSave(r).secret
      BY <3>2 DEF Rows
    <3> QED
      BY <3>1, <3>4, <3>5, <3>6
  <2> HIDE DEF row
  <2>2. row.status # "none"
    BY <1>1, <2>1 DEF Assigned, Exists, Rows
  <2>3. row.status = "active" => row.named
    BY <1>1, <2>1 DEF Assigned, Valid, AccountsInv, RowShape, Rows
  <2>4. Pending(row) => row.temp # NoSecret
    BY <1>1, <2>1 DEF Assigned, Pending, ResetTemp, AccountsInv, RowShape, Rows, AccountsAssumption
  <2>5. d \in Safe' => row.secret \in Requests \intersect Know(d)' \/ row.secret = users[d].secret
    <3> SUFFICES ASSUME d \in Safe' PROVE row.secret \in Requests \intersect Know(d)' \/ row.secret = users[d].secret
      OBVIOUS
    <3>1. CASE kind[r] \in Chooses
      <4>1. Encrypted(r) = r
        BY <1>1, <3>1 DEF Encrypted, Password, RequestInv, Attribute, Chooses, AccountsAssumption
      <4> QED
        BY <1>2, <2>1, <3>1, <4>1 DEF Know
    <3>2. CASE kind[r] = "profile"
      <4>1. Encrypted(r) = copy[r].secret
        BY <1>1, <3>2 DEF Encrypted, Password, RequestInv, Attribute, AccountsAssumption
      <4> QED
        BY <2>1, <4>1
    <3>3. CASE kind[r] = "reset"
      <4>1. First(r)
        BY <1>2, <3>3 DEF Safe
      <4>2. Password(r) = ResetTemp(r) /\ ResetTemp(r) \in Requests
        BY <1>1, <3>3, <4>1 DEF Password, ResetTemp, RequestInv, Attribute, Rows
      <4>3. Encrypted(r) = ResetTemp(r) /\ Assigned(r).temp = ResetTemp(r)
        BY <1>1, <3>3, <4>1, <4>2 DEF Encrypted, Assigned, Rows, AccountsAssumption
      <4>4. row.secret = copy'[r].temp /\ row.secret \in Requests
        BY <1>2, <2>1, <4>2, <4>3
      <4>5. pc'[r] = "mail" /\ on'[r] = d
        BY <1>2, <3>3
      <4> QED
        BY <4>4, <4>5 DEF Know, Owing
    <3> QED
      BY <1>1, <3>1, <3>2, <3>3 DEF TypeOK, Kinds, Names, Chooses, RequestInv, Attribute
  <2>6. WrittenWell(d)
    BY <1>1, <2>1, <2>2, <2>3, <2>4, <2>5 DEF WrittenWell, Exists, Rows
  <2> QED
    BY <1>4, <1>5, <1>6, <2>6, WriteInv
<1> QED
  BY <1>7, <1>8

-----------------------------------------------------------------------------
(* The theorems.                                                           *)

LEMMA StutterInv == ASSUME AccountsInv, UNCHANGED vars PROVE AccountsInv'
<1>1. TypeOK'
  BY DEF AccountsInv, TypeOK, vars, request, history
<1>2. SecretsTold' /\ RowShape'
  BY DEF AccountsInv, SecretsTold, RowShape, Safe, Know, Owing, Owed, Exists, vars, request, history
<1>3. \A q \in Requests : RequestInv(q)'
  BY DEF AccountsInv, RequestInv, Loaded, Attribute, Inviting, First, Exists, vars, request, history
<1> QED
  BY <1>1, <1>2, <1>3 DEF AccountsInv

LEMMA StepInv == ASSUME AccountsInv, AccountsAssumption, [Next]_vars PROVE AccountsInv'
<1>1. ASSUME NEW r \in Requests, NEW e \in Emails,
             StartSignup(r, e) \/ StartReset(r, e) \/ FindInvitee(r, e) \/ MailInvitee(r, e)
      PROVE  AccountsInv'
  BY <1>1, StartsInv, FindInviteeInv, MailInviteeInv
<1>2. ASSUME NEW r \in Requests, NEW e \in Emails, NEW k \in Kinds, StartUpdate(r, e, k)
      PROVE  AccountsInv'
  BY <1>2, StartsInv
<1>3. ASSUME NEW r \in Requests, NEW es \in SUBSET Emails, StartInvitation(r, es)
      PROVE  AccountsInv'
  BY <1>3, StartsInv
<1>4. ASSUME NEW r \in Requests, Insert(r) \/ Save(r) \/ Refuse(r) \/ Reload(r) \/ MailReset(r)
      PROVE  AccountsInv'
  BY <1>4, InsertInv, SaveInv, RefuseInv, ReloadInv, MailResetInv
<1>5. ASSUME NEW r \in Requests,
             CreateInvitee(r) \/ SkipInvitee(r) \/ InvitationDone(r) \/ Die(r)
      PROVE  AccountsInv'
  BY <1>5, CreateInviteeInv, SkipInviteeInv, InvitationDoneInv, DieInv
<1>6. CASE UNCHANGED vars
  BY <1>6, StutterInv
<1> QED
  BY <1>1, <1>2, <1>3, <1>4, <1>5, <1>6 DEF Next

LEMMA InvAlways == Spec => []AccountsInv
<1> USE AccountsAssumption
<1>1. Init => AccountsInv
  BY InitInv
<1>2. AccountsInv /\ [Next]_vars => AccountsInv'
  BY StepInv
<1> QED
  BY <1>1, <1>2, PTL DEF Spec

\* Every row, request and mail is well formed.
THEOREM TypeCorrect == Spec => []TypeOK
<1>1. AccountsInv => TypeOK
  BY DEF AccountsInv
<1> QED
  BY <1>1, InvAlways, PTL

\* The owner of an account has been told a secret that opens it, once nobody owes
\* her a mail: however signups, updates, resets and invitations overlap, unless a
\* mail was lost or a reset was saved after a reload.
THEOREM OwnersCanGetIn == Spec => []OwnersGetIn
<1>1. AccountsInv => OwnersGetIn
  <2> SUFFICES ASSUME AccountsInv, NEW e \in Safe, Exists(e), Telling(e) = {}
               PROVE  \E s \in known[e] : Opens(users[e], s)
    BY DEF OwnersGetIn, LockedOut, Safe
  <2>1. users[e].secret \in Know(e)
    BY DEF AccountsInv, SecretsTold
  <2>2. Owing(e) = {}
    BY DEF Owing, Telling
  <2>3. users[e].secret \in known[e]
    BY <2>1, <2>2 DEF Know
  <2> QED
    BY <2>3 DEF Opens, Exists
<1> QED
  BY <1>1, InvAlways, PTL

\* An active account has a name, also one that was saved after a reload, which
\* forgets the name that signup has assigned.
THEOREM ActiveAccountsHaveNames == Spec => []ActiveIsNamed
<1>1. AccountsInv => ActiveIsNamed
  BY DEF AccountsInv, RowShape, ActiveIsNamed
<1> QED
  BY <1>1, InvAlways, PTL

\* The temporary password of a pending account never changes: every mail that was
\* sent to its owner still opens it.
THEOREM PasscodesStay == Spec => PasscodeStays
<1> DEFINE Stays == \A e \in Emails : Pending(users[e]) /\ Pending(users'[e]) => users'[e].temp = users[e].temp
<1>1. AccountsInv /\ AccountsAssumption /\ [Next]_vars => [Stays]_vars
  <2> SUFFICES ASSUME AccountsInv, AccountsAssumption, Next PROVE Stays
    OBVIOUS
  <2>1. TypeOK
    BY DEF AccountsInv
  <2>2. CASE users' = users
    BY <2>2
  <2>3. ASSUME NEW r \in Requests, Insert(r) \/ CreateInvitee(r) PROVE Stays
    <3>1. \A e \in Emails : Exists(e) => users'[e] = users[e]
      BY <2>1, <2>3 DEF Insert, CreateInvitee, TypeOK
    <3> QED
      BY <3>1 DEF Exists, Pending
  <2>4. ASSUME NEW r \in Requests, Save(r) PROVE Stays
    <3> RequestInv(r)
      BY DEF AccountsInv
    <3> PICK d \in Emails : on[r] = d
      BY <2>4 DEF Save, RequestInv, Loaded
    <3>1. \A e \in Emails \ {d} : users'[e] = users[e]
      BY <2>1, <2>4 DEF Save, TypeOK
    <3>2. users'[d] = IF Changed(r) THEN Saved(r) ELSE users[d]
      BY <2>1, <2>4 DEF Save, TypeOK
    <3>3. Changed(r) => copy[r] = users[d]
      BY <2>4 DEF Save, RequestInv, Loaded, Stale
    <3>4. copy[r] \in Rows /\ Assigned(r) \in Rows
      BY <2>1, SavedRow DEF TypeOK
    <3>5. Changed(r) => Saved(r).temp = Assigned(r).temp /\ Saved(r).status = Assigned(r).status
      <4>1. ToSave(r) = [Assigned(r) EXCEPT !.secret = Encrypted(r)]
        BY <2>1, SavedRow
      <4>2. /\ ToSave(r).temp = Assigned(r).temp /\ ToSave(r).status = Assigned(r).status
            /\ ToSave(r) \in Rows
        BY <2>1, <3>4, <4>1, SavedRow DEF Rows
      <4>3. Changed(r) => Saved(r) = [ToSave(r) EXCEPT !.version = @ + 1]
        BY DEF Saved
      <4> HIDE DEF ToSave
      <4> QED
        BY <4>2, <4>3 DEF Rows
    <3>6. ASSUME Changed(r), Pending(users[d]), Pending(Saved(r)) PROVE Saved(r).temp = users[d].temp
      <4>1. users[d].temp # NoSecret
        BY <3>6 DEF AccountsInv, RowShape
      <4>2. Pending(Assigned(r))
        BY <3>5, <3>6 DEF Pending
      <4>3. Assigned(r).temp = copy[r].temp
        BY <3>3, <3>4, <3>6, <4>1, <4>2 DEF Assigned, Pending, ResetTemp, Rows
      <4> QED
        BY <3>3, <3>5, <3>6, <4>3
    <3> QED
      BY <3>1, <3>2, <3>6
  <2>5. \/ users' = users
        \/ \E r \in Requests : Insert(r) \/ CreateInvitee(r) \/ Save(r)
    BY DEF Next, StartSignup, StartReset, StartUpdate, StartInvitation, Start, Refuse, Reload,
           MailReset, FindInvitee, SkipInvitee, MailInvitee, InvitationDone, Die
  <2> QED
    BY <2>2, <2>3, <2>4, <2>5
<1>2. PasscodeStays <=> [][Stays]_vars
  BY DEF PasscodeStays
<1> HIDE DEF Stays
<1> QED
  BY <1>1, <1>2, InvAlways, AccountsAssumption, PTL DEF Spec
=============================================================================
