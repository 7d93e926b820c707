---------------------------- MODULE RequestPromise ----------------------------
(***************************************************************************)
(* What request() promises its caller, whichever threads race to keep the  *)
(* promise: a request gets one outcome, the outcome never changes, a       *)
(* result is an answer the peer gave to this request, and the listener     *)
(* hears of the outcome at most once and never too early.                  *)
(***************************************************************************)
EXTENDS Naturals

CONSTANT Requests

VARIABLES
    asked,      \* the requests that were registered
    answered,   \* the requests the peer answered
    outcome,    \* what became of each request
    told        \* how often its listener was called

promiseVars == <<asked, answered, outcome, told>>

Outcomes == {"result", "failure", "timeout"}

PromiseInit ==
    /\ asked = {}
    /\ answered = {}
    /\ outcome = [r \in Requests |-> "none"]
    /\ told = [r \in Requests |-> 0]

Ask(r) ==
    /\ r \notin asked
    /\ asked' = asked \cup {r}
    /\ UNCHANGED <<answered, outcome, told>>

Answer(r) ==
    /\ r \in asked \ answered
    /\ answered' = answered \cup {r}
    /\ UNCHANGED <<asked, outcome, told>>

Complete(r, o) ==
    /\ r \in asked
    /\ outcome[r] = "none"
    /\ o = "result" => r \in answered
    /\ outcome' = [outcome EXCEPT ![r] = o]
    /\ UNCHANGED <<asked, answered, told>>

Tell(r) ==
    /\ outcome[r] # "none"
    /\ told[r] = 0
    /\ told' = [told EXCEPT ![r] = 1]
    /\ UNCHANGED <<asked, answered, outcome>>

PromiseNext ==
    \E r \in Requests :
        \/ Ask(r)
        \/ Answer(r)
        \/ \E o \in Outcomes : Complete(r, o)
        \/ Tell(r)

PromiseSpec == PromiseInit /\ [][PromiseNext]_promiseVars

=============================================================================
