--------------------------- MODULE RequestDelivery --------------------------
(***************************************************************************)
(* What a transport (src/rxon/transports/base.py) promises about the       *)
(* requests of its methods, with no word about tokens, sessions, attempts  *)
(* or the network: a method makes at most Tries[c] requests, one after    *)
(* the other; the orchestrator executes each of them at most once, at any  *)
(* time after it was made, also after the method has returned; and what    *)
(* the method returns says the truth about the last one.                   *)
(***************************************************************************)
EXTENDS Integers

CONSTANTS
  Callers,    \* the invocations of methods
  Tries,      \* how many requests each of them may make
  Results     \* what a method may return or raise

VARIABLES
  phase,      \* of each call: "idle", "pending" or "done"
  made,       \* the number of requests each call has made
  executed,   \* the requests the orchestrator has executed, as <<call, number>>
  accepted,   \* those it executed and did not answer "ignored"
  outcome     \* what each call returned or raised

vars == <<phase, made, executed, accepted, outcome>>

Refusals == {"RxonAuthError", "RxonRateLimitError"}

Last(c) == <<c, made[c] - 1>>

Init ==
  /\ phase = [c \in Callers |-> "idle"]
  /\ made = [c \in Callers |-> 0]
  /\ executed = {} /\ accepted = {}
  /\ outcome = [c \in Callers |-> "none"]

(* The next request of c is made, or fails before it leaves the worker.    *)
Request(c) ==
  /\ phase[c] # "done" /\ made[c] < Tries[c]
  /\ made' = [made EXCEPT ![c] = @ + 1]
  /\ \/ /\ phase' = [phase EXCEPT ![c] = "pending"]
        /\ UNCHANGED outcome
     \/ /\ phase' = [phase EXCEPT ![c] = "done"]
        /\ \E o \in Results \ ({"True"} \cup Refusals) : outcome' = [outcome EXCEPT ![c] = o]
  /\ UNCHANGED <<executed, accepted>>

(* The method returns True only for a request that was accepted, and a     *)
(* refusal only for one that was not executed.  With no tries at all it    *)
(* returns at once.                                                        *)
Return(c, o) ==
  /\ phase[c] = "pending" \/ (phase[c] = "idle" /\ Tries[c] = 0)
  /\ o = "True" => Last(c) \in accepted
  /\ o \in Refusals => Last(c) \notin executed
  /\ phase' = [phase EXCEPT ![c] = "done"]
  /\ outcome' = [outcome EXCEPT ![c] = o]
  /\ UNCHANGED <<made, executed, accepted>>

(* The orchestrator executes request n of c.  It does not execute a        *)
(* request whose refusal it has announced.                                 *)
Execute(c, n) ==
  /\ n < made[c]
  /\ <<c, n>> \notin executed
  /\ outcome[c] \in Refusals => <<c, n>> # Last(c)
  /\ executed' = executed \cup {<<c, n>>}
  /\ accepted' \in {accepted, accepted \cup {<<c, n>>}}
  /\ UNCHANGED <<phase, made, outcome>>

Next == \E c \in Callers :
  \/ Request(c)
  \/ \E o \in Results : Return(c, o)
  \/ \E n \in 0 .. Tries[c] - 1 : Execute(c, n)

Spec == Init /\ [][Next]_vars
=============================================================================
