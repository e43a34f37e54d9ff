------------------------------ MODULE Accounts ------------------------------
(***************************************************************************)
(* The accounts (app/models/user.rb): who signs up, is invited, completes  *)
(* a profile or has the password reset, and which secret opens an account. *)
(* An invitation and a reset draw a passcode, which is both the temporary  *)
(* password and, by a before_save hook, the encrypted one; the owner       *)
(* learns it from a mail that is sent after the row is saved.              *)
(*                                                                         *)
(* A request is a sequence of statements; several server processes serve   *)
(* requests at a time (Workers).  A row is saved under an optimistic lock: *)
(* a stale save reloads the row and repeats the block.  Every request      *)
(* chooses or draws one secret, which has the name of the request.         *)
(***************************************************************************)
EXTENDS Integers, FiniteSets

CONSTANTS
  Emails,      \* email addresses; an address has one account at most
  Requests,
  Workers,     \* requests that are served at a time
  Retries,     \* of opt_lock_protected
  NoEmail,
  NoSecret,    \* nil
  NullPassword \* User::NULL_PASSWORD, leaves the encrypted password alone

ASSUME AccountsAssumption ==
  /\ IsFiniteSet(Requests) /\ Workers \in Nat /\ Retries \in Nat
  /\ NoSecret \notin Requests /\ NullPassword \notin Requests /\ NoSecret # NullPassword
  /\ NoEmail \notin Emails

VARIABLES
  users,    \* email |-> its row
  pc,       \* request |-> its next statement
  kind,     \* request |-> what it is for
  on,       \* request |-> the email address it is for
  copy,     \* request |-> the row as it was loaded or saved
  password, \* request |-> the password attribute of the loaded user
  tries,    \* request |-> saves that are left
  todo,     \* invitation |-> addresses it has not looked at
  invitees, \* invitation |-> the rows of those it will write to
  known,    \* email |-> secrets of which the owner has been told
  overtaken,\* history: accounts that a reset has saved after a reload
  unmailed  \* history: accounts whose mail was not sent because the request died

request == <<kind, on, copy, password, tries, todo, invitees>>
history == <<known, overtaken, unmailed>>
vars == <<users, pc, request, history>>

\* parameters of UsersController#update: a name, a password, or both
Names == {"signup", "complete", "profile"}
Chooses == {"signup", "complete", "password"}
Kinds == Names \union Chooses \union {"reset", "invite"}

\* status 0, 3 and 4; "none" is an address without an account
Statuses == {"none", "active", "invited", "reset"}
NoRow == [status |-> "none", named |-> FALSE, secret |-> NoSecret, temp |-> NoSecret, version |-> 0]

Exists(e) == users[e].status # "none"

\* User#pending?
Pending(row) == row.status \in {"invited", "reset"}

\* authenticate, has_password?
Opens(row, s) == row.status # "none" /\ (row.secret = s \/ (Pending(row) /\ row.temp = s))

Busy == {r \in Requests : pc[r] \notin {"idle", "done"}}

-----------------------------------------------------------------------------
(* The row a request saves.                                                *)

First(r) == tries[r] = Retries

\* mutant: a reset always draws a new passcode
FreshTemp(r) == r

\* create_reset: "passcode if user.temp_password.blank?"
ResetTemp(r) == IF copy[r].temp = NoSecret THEN r ELSE copy[r].temp

\* mutant: the hook sets the password also if there is one
PasswordAsTemp(r) == IF kind[r] = "reset" THEN ResetTemp(r) ELSE copy[r].temp

\* the hook "self.password ||= temp_password"; reloading keeps the attribute
Password(r) ==
  IF password[r] # NoSecret THEN password[r]
  ELSE IF kind[r] = "reset" THEN ResetTemp(r) ELSE copy[r].temp

\* mutant: the hook ignores the null password
AlwaysEncrypted(r) == Password(r)

\* the hook encrypt_password
Encrypted(r) == IF Password(r) = NullPassword THEN copy[r].secret ELSE Password(r)

\* What the block assigns: signup and update do so inside of it, so again after a
\* reload; the reset and the name of who signs up are assigned before it.
Assigned(r) ==
  CASE kind[r] = "signup" ->
         [copy[r] EXCEPT !.status = "active", !.named = @ \/ First(r)]
    [] kind[r] \in {"complete", "profile", "password"} ->
         [copy[r] EXCEPT !.status = "active", !.temp = NoSecret, !.named = @ \/ kind[r] \in Names]
    [] kind[r] = "reset" /\ First(r) ->
         [copy[r] EXCEPT !.status = "reset", !.temp = ResetTemp(r)]
    [] OTHER -> copy[r]

ToSave(r) == [Assigned(r) EXCEPT !.secret = Encrypted(r)]

\* a name is required unless the save is exclusive
Valid(r) == kind[r] = "reset" \/ Assigned(r).named

-----------------------------------------------------------------------------
Init ==
  /\ users = [e \in Emails |-> NoRow]
  /\ pc = [r \in Requests |-> "idle"] /\ kind = [r \in Requests |-> "signup"]
  /\ on = [r \in Requests |-> NoEmail] /\ copy = [r \in Requests |-> NoRow]
  /\ password = [r \in Requests |-> NoSecret] /\ tries = [r \in Requests |-> Retries]
  /\ todo = [r \in Requests |-> {}]
  /\ invitees = [r \in Requests |-> [e \in Emails |-> NoRow]]
  /\ known = [e \in Emails |-> {}] /\ overtaken = {} /\ unmailed = {}

Start(r, k, next) ==
  /\ pc[r] = "idle" /\ Cardinality(Busy) < Workers
  /\ pc' = [pc EXCEPT ![r] = next] /\ kind' = [kind EXCEPT ![r] = k]
  /\ UNCHANGED <<users, tries, invitees, history>>

\* UsersController#create: an invited user is adopted
StartSignup(r, e) ==
  /\ Start(r, "signup", IF users[e].status = "invited" THEN "save" ELSE "insert")
  /\ on' = [on EXCEPT ![r] = e] /\ copy' = [copy EXCEPT ![r] = users[e]]
  /\ password' = [password EXCEPT ![r] = r] /\ UNCHANGED todo

\* UsersController#update, by the owner, or by the admin, who passes the password on
StartUpdate(r, e, k) ==
  /\ Exists(e) /\ k \in {"complete", "profile", "password"} /\ Start(r, k, "save")
  /\ on' = [on EXCEPT ![r] = e] /\ copy' = [copy EXCEPT ![r] = users[e]]
  /\ password' = [password EXCEPT ![r] = IF k \in Chooses THEN r ELSE NullPassword]
  /\ UNCHANGED todo

\* SessionsController#create_reset
StartReset(r, e) ==
  /\ Exists(e) /\ Start(r, "reset", "save")
  /\ on' = [on EXCEPT ![r] = e] /\ copy' = [copy EXCEPT ![r] = users[e]]
  /\ UNCHANGED <<password, todo>>

\* InvitationsController#create
StartInvitation(r, es) ==
  /\ es # {} /\ Start(r, "invite", "find")
  /\ todo' = [todo EXCEPT ![r] = es] /\ UNCHANGED <<on, copy, password>>

-----------------------------------------------------------------------------
\* A new row: the unique email refuses it if the address is taken.
Insert(r) ==
  /\ pc[r] = "insert"
  /\ \/ /\ ~Exists(on[r])
        /\ users' = [users EXCEPT ![on[r]] =
             [NoRow EXCEPT !.status = "active", !.named = TRUE, !.secret = r]]
        /\ known' = [known EXCEPT ![on[r]] = @ \union {r}]
     \/ Exists(on[r]) /\ UNCHANGED <<users, known>>
  /\ pc' = [pc EXCEPT ![r] = "done"]
  /\ UNCHANGED <<request, overtaken, unmailed>>

Changed(r) == ToSave(r) # copy[r]
Stale(r) == Changed(r) /\ users[on[r]].version # copy[r].version

Saved(r) == IF Changed(r) THEN [ToSave(r) EXCEPT !.version = @ + 1] ELSE ToSave(r)

\* A save; nothing is written if nothing has changed.  Who has chosen a password
\* is told that it is saved.
Save(r) ==
  /\ pc[r] = "save" /\ Valid(r) /\ ~Stale(r)
  /\ users' = [users EXCEPT ![on[r]] = IF Changed(r) THEN Saved(r) ELSE @]
  /\ copy' = [copy EXCEPT ![r] = Saved(r)]
  /\ password' = [password EXCEPT ![r] = Password(r)]
  /\ pc' = [pc EXCEPT ![r] = IF kind[r] = "reset" THEN "mail" ELSE "done"]
  /\ known' = [known EXCEPT ![on[r]] = IF kind[r] \in Chooses THEN @ \union {r} ELSE @]
  /\ overtaken' = IF kind[r] = "reset" /\ ~First(r) THEN overtaken \union {on[r]} ELSE overtaken
  /\ UNCHANGED <<kind, on, tries, todo, invitees, unmailed>>

\* the row is not valid, the answer is 422
Refuse(r) ==
  /\ pc[r] = "save" /\ ~Valid(r) /\ pc' = [pc EXCEPT ![r] = "done"]
  /\ UNCHANGED <<users, request, history>>

\* opt_lock_protected reloads the row, also when it gives up
Reload(r) ==
  /\ pc[r] = "save" /\ Valid(r) /\ Stale(r)
  /\ copy' = [copy EXCEPT ![r] = users[on[r]]]
  /\ password' = [password EXCEPT ![r] = Password(r)]
  /\ tries' = [tries EXCEPT ![r] = @ - 1]
  /\ pc' = [pc EXCEPT ![r] = IF tries[r] > 1 THEN "save" ELSE "done"]
  /\ UNCHANGED <<users, kind, on, todo, invitees, history>>

Told(e, row) == [known EXCEPT ![e] = @ \union ({row.temp} \ {NoSecret})]

\* InvitationMailer.password_reset
MailReset(r) ==
  /\ pc[r] = "mail" /\ kind[r] = "reset"
  /\ known' = Told(on[r], copy[r]) /\ pc' = [pc EXCEPT ![r] = "done"]
  /\ UNCHANGED <<users, request, overtaken, unmailed>>

-----------------------------------------------------------------------------
\* one address of an invitation: who is invited already is written to again
FindInvitee(r, e) ==
  /\ pc[r] = "find" /\ e \in todo[r]
  /\ invitees' = IF users[e].status = "invited" THEN [invitees EXCEPT ![r][e] = users[e]] ELSE invitees
  /\ todo' = [todo EXCEPT ![r] = @ \ {e}]
  /\ on' = [on EXCEPT ![r] = e]
  /\ pc' = [pc EXCEPT ![r] = IF Exists(e) THEN "find" ELSE "create"]
  /\ UNCHANGED <<users, kind, copy, password, tries, history>>

\* addresses to which this invitation owes the mail with their passcode
Owed(r) == {e \in Emails : invitees[r][e].status # "none"}

\* a new user with a passcode
CreateInvitee(r) ==
  LET row == [NoRow EXCEPT !.status = "invited", !.secret = r, !.temp = r]
  IN  /\ pc[r] = "create" /\ ~Exists(on[r])
      /\ users' = [users EXCEPT ![on[r]] = row]
      /\ invitees' = [invitees EXCEPT ![r][on[r]] = row]
      /\ pc' = [pc EXCEPT ![r] = "find"]
      /\ UNCHANGED <<kind, on, copy, password, tries, todo, history>>

\* somebody took the address: the validation refuses the row ...
SkipInvitee(r) ==
  /\ pc[r] = "create" /\ Exists(on[r]) /\ pc' = [pc EXCEPT ![r] = "find"]
  /\ UNCHANGED <<users, request, history>>

\* InvitationMailer.signup_invitation, once all are found
MailInvitee(r, e) ==
  /\ pc[r] = "find" /\ todo[r] = {} /\ e \in Owed(r)
  /\ known' = Told(e, invitees[r][e])
  /\ invitees' = [invitees EXCEPT ![r][e] = NoRow]
  /\ UNCHANGED <<users, pc, kind, on, copy, password, tries, todo, overtaken, unmailed>>

InvitationDone(r) ==
  /\ pc[r] = "find" /\ todo[r] = {} /\ Owed(r) = {}
  /\ pc' = [pc EXCEPT ![r] = "done"]
  /\ UNCHANGED <<users, request, history>>

\* A mail cannot be delivered, or the unique index refuses a row that the
\* validation has let pass, or the server process is killed.
Die(r) ==
  /\ pc[r] \in {"mail", "find", "create"}
  /\ pc' = [pc EXCEPT ![r] = "done"]
  /\ unmailed' = unmailed \union Owed(r) \union (IF pc[r] = "mail" THEN {on[r]} ELSE {})
  /\ UNCHANGED <<users, request, known, overtaken>>

Next ==
  \E r \in Requests :
    \/ \E e \in Emails : StartSignup(r, e) \/ StartReset(r, e)
    \/ \E e \in Emails, k \in Kinds : StartUpdate(r, e, k)
    \/ \E es \in SUBSET Emails : StartInvitation(r, es)
    \/ Insert(r) \/ Save(r) \/ Refuse(r) \/ Reload(r) \/ MailReset(r)
    \/ \E e \in Emails : FindInvitee(r, e) \/ MailInvitee(r, e)
    \/ CreateInvitee(r) \/ SkipInvitee(r) \/ InvitationDone(r) \/ Die(r)

Spec == Init /\ [][Next]_vars

-----------------------------------------------------------------------------
(* Properties                                                              *)

Rows == [status : Statuses, named : BOOLEAN, secret : Requests \union {NoSecret},
         temp : Requests \union {NoSecret}, version : Nat]

\* Rows and requests are well formed.
TypeOK ==
  /\ users \in [Emails -> Rows]
  /\ pc \in [Requests -> {"idle", "insert", "save", "mail", "find", "create", "done"}]
  /\ kind \in [Requests -> Kinds] /\ on \in [Requests -> Emails \union {NoEmail}]
  /\ copy \in [Requests -> Rows]
  /\ password \in [Requests -> Requests \union {NoSecret, NullPassword}]
  /\ tries \in [Requests -> Int] /\ todo \in [Requests -> SUBSET Emails]
  /\ invitees \in [Requests -> [Emails -> Rows]]
  /\ known \in [Emails -> SUBSET Requests]
  /\ overtaken \subseteq Emails /\ unmailed \subseteq Emails

\* requests that still have to tell the owner of e a passcode
Telling(e) ==
  {r \in Requests : (pc[r] = "mail" /\ on[r] = e) \/ (pc[r] \in {"find", "create"} /\ e \in Owed(r))}

LockedOut(e) == Exists(e) /\ Telling(e) = {} /\ \A s \in known[e] : ~Opens(users[e], s)

\* Once nobody owes her a mail, the owner of an account has been told a secret
\* that opens it, unless a mail was lost or a reset was saved after a reload
\* (the hooks of User, create_reset, the invitation).
OwnersGetIn == \A e \in Emails \ (overtaken \union unmailed) : ~LockedOut(e)

\* "use ... your email and this temporary password ... to sign in"
\* (password_reset.text.erb): whose mails were all sent can get in.
MailedOwnersGetIn == \A e \in Emails \ unmailed : ~LockedOut(e)

\* An active account has a name, also after a save that was repeated (the
\* validations of User, which exclusive_save skips).
ActiveIsNamed == \A e \in Emails : users[e].status = "active" => users[e].named

\* As long as an account is pending, its temporary password stays what it was
\* when the first mail was sent (create_reset, the repeated invitation).
PasscodeStays ==
  [][\A e \in Emails : Pending(users[e]) /\ Pending(users'[e]) => users'[e].temp = users[e].temp]_vars
=============================================================================
