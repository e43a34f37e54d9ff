------------------------------- MODULE Ready -------------------------------
(***************************************************************************)
(* jQuery(fn): the functions that run when the document is ready, which is *)
(* how every script of the site starts.  Several events may announce a     *)
(* ready document, scripts may hold it back (readyWait) and push it on     *)
(* again (ready(true)), and a function that raises ends the loop.          *)
(***************************************************************************)
EXTENDS Integers, Sequences, SequencesExt

CONSTANTS
    Functions,  \* what the scripts pass to jQuery()
    Raising,    \* those that raise
    IE,         \* whether the browser has attachEvent instead of addEventListener
    MaxHolds    \* the bound on scripts that hold the event back

ASSUME ReadyAssumption ==
    Raising \subseteq Functions /\ IE \in BOOLEAN /\ MaxHolds \in Nat

VARIABLES
    state,    \* document.readyState
    body,     \* whether document.body is there
    callers,  \* what will call jQuery.ready: listeners and timeouts
    jq,       \* jQuery: bound, isReady, readyWait and the list, with
              \* whether it is null
    holds,    \* how many scripts hold the event back and how many ever did
    called,   \* the functions in the order they were called
    dropped   \* those left in the list when another one raised

readyVars == <<state, body, callers, jq, holds, called, dropped>>

ReadyInit ==
    /\ state = "loading" /\ body = FALSE
    /\ callers = {}
    /\ jq = [bound |-> FALSE, isReady |-> FALSE, readyWait |-> 1,
             list |-> <<>>, gone |-> FALSE]
    /\ holds = [now |-> 0, ever |-> 0]
    /\ called = <<>> /\ dropped = {}

\* bindReady, at the first function.
bindReady ==
    IF jq.bound THEN callers
    ELSE IF state = "complete" THEN callers \cup {"timeout"}
    ELSE callers \cup (IF IE THEN {"readystatechange", "load", "doScroll"}
                       ELSE {"DOMContentLoaded", "load"})

Passed == ToSet(called) \cup ToSet(jq.list) \cup dropped

Register(f) ==
    /\ f \notin Passed
    /\ callers' = bindReady
    /\ jq' = [jq EXCEPT !.bound = TRUE,
                        !.list = IF jq.isReady THEN @ ELSE Append(@, f)]
    /\ called' = IF jq.isReady THEN Append(called, f) ELSE called
    /\ UNCHANGED <<state, body, holds, dropped>>

Hold ==
    /\ holds.ever < MaxHolds /\ ~jq.isReady
    /\ holds' = [now |-> holds.now + 1, ever |-> holds.ever + 1]
    /\ jq' = [jq EXCEPT !.readyWait = @ + 1]
    /\ UNCHANGED <<state, body, callers, called, dropped>>

\* The functions up to the first that raises; the rest is forgotten.
Run ==
    LET k    == SelectInSeq(jq.list, LAMBDA f : f \in Raising)
        runs == IF k = 0 THEN jq.list ELSE SubSeq(jq.list, 1, k)
    IN  /\ called' = called \o runs
        /\ dropped' = dropped \cup (ToSet(jq.list) \ ToSet(runs))

\* mutant: the list is not given up when it has been run.
readyKeepingList(wait, others) ==
    LET pushed == IF wait THEN jq.readyWait - 1 ELSE jq.readyWait
        left   == IF wait THEN pushed ELSE pushed - 1
    IN  IF ~(pushed = 0 \/ (~wait /\ ~jq.isReady))
        THEN /\ callers' = others
             /\ jq' = [jq EXCEPT !.readyWait = pushed]
             /\ UNCHANGED <<called, dropped>>
        ELSE IF ~body
        THEN /\ callers' = others \cup {"timeout"}
             /\ jq' = [jq EXCEPT !.readyWait = pushed]
             /\ UNCHANGED <<called, dropped>>
        ELSE IF left > 0
        THEN /\ callers' = others
             /\ jq' = [jq EXCEPT !.readyWait = left, !.isReady = TRUE]
             /\ UNCHANGED <<called, dropped>>
        ELSE /\ callers' = others
             /\ jq' = [jq EXCEPT !.readyWait = left, !.isReady = TRUE,
                                 !.gone = TRUE]
             /\ Run

(***************************************************************************)
(* jQuery.ready, called by an event or with wait = true.                   *)
(***************************************************************************)
ready(wait, others) ==
    LET pushed == IF wait THEN jq.readyWait - 1 ELSE jq.readyWait
        left   == IF wait THEN pushed ELSE pushed - 1
    IN  IF ~(pushed = 0 \/ (~wait /\ ~jq.isReady))
        THEN /\ callers' = others
             /\ jq' = [jq EXCEPT !.readyWait = pushed]
             /\ UNCHANGED <<called, dropped>>
        ELSE IF ~body
        THEN /\ callers' = others \cup {"timeout"}
             /\ jq' = [jq EXCEPT !.readyWait = pushed]
             /\ UNCHANGED <<called, dropped>>
        ELSE IF left > 0
        THEN /\ callers' = others
             /\ jq' = [jq EXCEPT !.readyWait = left, !.isReady = TRUE]
             /\ UNCHANGED <<called, dropped>>
        ELSE /\ callers' = others
             /\ jq' = [jq EXCEPT !.readyWait = left, !.isReady = TRUE, !.list = <<>>,
                                 !.gone = TRUE]
             /\ Run

ReleaseHold ==
    /\ holds.now > 0
    /\ holds' = [holds EXCEPT !.now = @ - 1]
    /\ ready(TRUE, callers)
    /\ UNCHANGED <<state, body>>

-----------------------------------------------------------------------------
(* The browser.                                                            *)

BodyParsed ==
    /\ ~body /\ body' = TRUE
    /\ UNCHANGED <<state, callers, jq, holds, called, dropped>>

\* The events of one state of the document come at once; a listener that is
\* added later waits for the next one.
DocumentProceeds ==
    /\ body /\ state # "complete"
    /\ callers \cap {"interactive", "complete"} = {}
    /\ state' = IF state = "loading" THEN "interactive" ELSE "complete"
    /\ callers' = (callers \ {"DOMContentLoaded"}) \cup
          (IF state = "loading" /\ "DOMContentLoaded" \in callers THEN {"interactive"}
           ELSE IF state = "interactive" /\ "load" \in callers THEN {"complete"} ELSE {})
    /\ UNCHANGED <<body, jq, holds, called, dropped>>

ReadyEvent(caller) ==
    /\ caller \in callers \cap {"interactive", "complete", "timeout"}
    /\ ready(FALSE, callers \ {caller})
    /\ UNCHANGED <<state, body, holds>>

\* IE: the state complete is announced as well, and the document is asked
\* again and again whether it can be scrolled.
IEEvent(caller) ==
    /\ caller \in callers
    /\ \/ caller = "readystatechange" /\ state = "complete"
       \/ caller = "doScroll" /\ state # "loading" /\ ~jq.isReady
    /\ ready(FALSE, callers \ {caller})
    /\ UNCHANGED <<state, body, holds>>

ReadyNext ==
    \/ \E f \in Functions : Register(f)
    \/ Hold \/ ReleaseHold
    \/ BodyParsed \/ DocumentProceeds
    \/ \E caller \in callers : ReadyEvent(caller) \/ IEEvent(caller)

ReadySpec == ReadyInit /\ [][ReadyNext]_readyVars

-----------------------------------------------------------------------------
ReadyTypeOK ==
    /\ state \in {"loading", "interactive", "complete"} /\ body \in BOOLEAN
    /\ jq.readyWait \in Int /\ jq.isReady \in BOOLEAN /\ jq.gone \in BOOLEAN
    /\ ToSet(jq.list) \cup ToSet(called) \cup dropped \subseteq Functions
    /\ holds.now <= holds.ever

(***************************************************************************)
(* Whatever announces the document, however often: a function runs once,   *)
(* not before there is a body, and while nobody ever held the event back,  *)
(* one that is left out was dropped when another one raised, or there is   *)
(* still something that will call it.                                      *)
(***************************************************************************)
ReadyOnce ==
    /\ IsInjective(called)
    /\ called # <<>> => body
    /\ holds.now = 0 /\ jq.list # <<>> => callers \ {"doScroll"} # {} \/ ~jq.isReady
    /\ jq.gone => jq.list = <<>>
    /\ dropped # {} => ToSet(called) \cap Raising # {}
=============================================================================
