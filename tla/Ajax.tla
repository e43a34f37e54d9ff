-------------------------------- MODULE Ajax --------------------------------
(***************************************************************************)
(* jQuery.ajax and what may end a request: an answer, a timeout, an abort  *)
(* by the page, an exception of the browser while it is sent, the script   *)
(* of a JSONP answer.  The same function is called by all of them; the     *)
(* variables it closes over (requestDone and xhr) are what keeps it from   *)
(* ending a request twice, and jQuery.active counts the requests of the    *)
(* page to announce the first one (ajaxStart) and the end of the last one  *)
(* (ajaxStop).                                                             *)
(***************************************************************************)
EXTENDS Integers, FiniteSets

CONSTANTS Requests,  \* the requests a page may make
          Timed,     \* those with a timeout
          Jsonp,     \* those with a JSONP callback
          Remote,    \* GETs of a script from another host: no XMLHttpRequest
          Fragile    \* those whose success or error callback may raise

ASSUME AjaxAssumption ==
    Timed \subseteq Requests /\ Jsonp \subseteq Requests
    /\ Remote \subseteq Requests /\ Fragile \subseteq Requests

VARIABLES
    net,    \* what the closures and jQuery hold, a record:
            \*   begun      requests jQuery.ajax was called for and not vetoed
            \*   xhr        those whose xhr variable is not null
            \*   done       those with requestDone
            \*   timeouts   those whose timeout is set
            \*   jsonp      those whose function is still a global one
            \*   active     jQuery.active
            \*   announced  ajaxStarts minus ajaxStops
            \*   succeeded, failed, completed   calls of the callbacks
    raised  \* the requests whose send raised

ajaxVars == <<net, raised>>

AjaxInit ==
    /\ net = [begun |-> {}, xhr |-> {}, done |-> {}, timeouts |-> {}, jsonp |-> {},
              active |-> 0, announced |-> 0,
              succeeded |-> [r \in Requests |-> 0],
              failed |-> [r \in Requests |-> 0],
              completed |-> [r \in Requests |-> 0]]
    /\ raised = {}

ActivityStarted(s) == [s EXCEPT !.active = @ + 1,
                        !.announced = IF s.active = 0 THEN @ + 1 ELSE @]
ActivityStopped(s) == [s EXCEPT !.active = @ - 1,
                        !.announced = IF s.active = 1 THEN @ - 1 ELSE @]

Began(s, r) ==
    [ActivityStarted(s) EXCEPT !.begun = @ \cup {r},
        !.xhr = IF r \in Remote THEN @ ELSE @ \cup {r},
        !.timeouts = IF r \in Timed \ Remote THEN @ \cup {r} ELSE @,
        !.jsonp = IF r \in Jsonp THEN @ \cup {r} ELSE @]

(***************************************************************************)
(* handleComplete: the page's complete callback may begin further requests *)
(* (then) before the counter goes down.                                    *)
(***************************************************************************)
handleComplete(s, r, then) ==
    LET counted == [s EXCEPT !.completed[r] = @ + 1]
    IN  ActivityStopped(IF then = {} THEN counted
                ELSE Began(counted, CHOOSE q \in then : TRUE))

handleSuccess(s, r) == [s EXCEPT !.succeeded[r] = @ + 1]
handleError(s, r) == [s EXCEPT !.failed[r] = @ + 1]

\* A request the page may begin from a complete callback, or none.
Then(s) == {{}} \cup {{q} : q \in Requests \ (s.begun \cup raised)}

(***************************************************************************)
(* onreadystatechange for a finished transfer or a timeout.  A callback    *)
(* that raises leaves the function there and then: the request is done and *)
(* never completes.  A JSONP request leaves completing to its script.      *)
(***************************************************************************)
Transferred(s, r, ok, raises, then) ==
    LET ended  == [s EXCEPT !.done = @ \cup {r}]
        called == IF ~ok THEN handleError(ended, r)
                  ELSE IF r \in Jsonp THEN ended ELSE handleSuccess(ended, r)
    IN  IF raises THEN called
        ELSE [(IF r \in Jsonp THEN called ELSE handleComplete(called, r, then))
                EXCEPT !.xhr = @ \ {r}]

\* window[jsonp], called by the script: it removes itself first.
JsonpCalled(s, r, then) ==
    handleComplete(handleSuccess([s EXCEPT !.jsonp = @ \ {r}], r), r, then)

\* The first branch of onreadystatechange: an abort completes what has not
\* been done.
Aborted(s, r, then) ==
    IF r \in s.done THEN s
    ELSE [handleComplete(s, r, then) EXCEPT !.done = @ \cup {r}]

-----------------------------------------------------------------------------
New(r) == r \notin net.begun /\ r \notin raised

Send(r) ==
    /\ New(r)
    /\ net' = Began(net, r)
    /\ UNCHANGED raised

\* beforeSend returns false: the counter goes up and down, no callback runs.
Veto(r) ==
    /\ New(r) /\ r \notin Remote
    /\ net' = ActivityStopped(ActivityStarted(net))
    /\ UNCHANGED raised

(***************************************************************************)
(* xhr.send raises: error and complete are called, but requestDone is not  *)
(* set, the timeout stays and the page gets the xhr to abort.              *)
(***************************************************************************)
SendRaises(r) ==
    /\ New(r) /\ r \notin Remote
    /\ net' = handleComplete(handleError(Began(net, r), r), r, {})
    /\ raised' = raised \cup {r}

\* The browser has the whole answer of a request that was really sent.
AnswerArrives(r, ok, raises) ==
    /\ r \in net.xhr \ (net.done \cup raised)
    /\ raises => r \in Fragile
    /\ \E then \in Then(net) : 
        LET s == IF ok /\ r \in Jsonp /\ r \in net.jsonp
                 THEN JsonpCalled(net, r, then) ELSE net
        IN  net' = Transferred(s, r, ok, raises, IF r \in Jsonp THEN {} ELSE then)
    /\ UNCHANGED raised

\* The script of a remote request arrives: with JSONP it calls its function,
\* without it its onload handler ends the request.
ScriptLoads(r) ==
    /\ r \in (net.begun \cap Remote) \ net.done
    /\ \E then \in Then(net) :
        net' = IF r \in Jsonp
               THEN [JsonpCalled(net, r, then) EXCEPT !.done = @ \cup {r}]
               ELSE [handleComplete(handleSuccess(net, r), r, then)
                        EXCEPT !.done = @ \cup {r}]
    /\ UNCHANGED raised

\* mutant: onreadystatechange is called without "timeout", and finds the
\* transfer unfinished.
TimeoutUntold(r) ==
    /\ r \in net.timeouts
    /\ net' = [net EXCEPT !.timeouts = @ \ {r}]
    /\ UNCHANGED raised

Timeout(r) ==
    /\ r \in net.timeouts
    /\ LET s == [net EXCEPT !.timeouts = @ \ {r}]
       IN  IF r \in net.xhr \ net.done
           THEN \E then \in Then(net) : net' = Transferred(s, r, FALSE, FALSE, then)
           ELSE net' = s
    /\ UNCHANGED raised

(***************************************************************************)
(* The page aborts.  Most browsers call onreadystatechange from the abort  *)
(* of a request that was sent, which then ends as a failed transfer; Opera *)
(* does not, and the simulated call completes it without an error.         *)
(***************************************************************************)
AbortRequest(r, calls) ==
    /\ r \in net.begun \ Remote
    /\ \E then \in Then(net) :
        net' = IF calls /\ r \in net.xhr \ (net.done \cup raised)
               THEN Transferred(net, r, FALSE, FALSE, then)
               ELSE Aborted(net, r, then)
    /\ UNCHANGED raised

Ends(r) ==
    \/ \E ok, raises \in BOOLEAN : AnswerArrives(r, ok, raises)
    \/ ScriptLoads(r)
    \/ Timeout(r)

AjaxNext == \E r \in Requests :
    \/ Send(r) \/ Veto(r) \/ SendRaises(r)
    \/ Ends(r)
    \/ \E calls \in BOOLEAN : AbortRequest(r, calls)

\* A server may stay silent; the timeouts of the browser expire.
AjaxFairness == \A r \in Requests : WF_ajaxVars(Timeout(r))

AjaxSpec == AjaxInit /\ [][AjaxNext]_ajaxVars /\ AjaxFairness

-----------------------------------------------------------------------------
AjaxTypeOK ==
    /\ net.begun \subseteq Requests /\ net.xhr \subseteq net.begun
    /\ net.done \subseteq net.begun /\ net.timeouts \subseteq Timed
    /\ net.jsonp \subseteq Jsonp
    /\ net.active \in Int /\ net.announced \in Int
    /\ \A r \in Requests : {net.succeeded[r], net.failed[r], net.completed[r]} \subseteq Nat
    /\ raised \subseteq net.begun

\* Whatever ends a request that could be sent, it ends once: one complete
\* callback, after at most one of success and error.
EndsOnce == \A r \in Requests \ raised :
    net.completed[r] <= 1 /\ net.succeeded[r] + net.failed[r] <= 1

\* ajaxStart has been announced and ajaxStop has not exactly while a request
\* is under way, as long as no request that could not be sent ends again.
ActivityAnnounced ==
    (\A r \in raised : net.completed[r] = 1) =>
        net.announced = IF \E r \in net.begun : net.completed[r] = 0 THEN 1 ELSE 0

\* A request with a timeout completes, unless a callback raises or a JSONP
\* answer does not come.
TimedRequestsComplete ==
    \A r \in Timed \ (Jsonp \cup Remote \cup Fragile) :
        r \in net.begun ~> net.completed[r] > 0
=============================================================================
