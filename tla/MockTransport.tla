---------------------------- MODULE MockTransport ---------------------------
(***************************************************************************)
(* The in-memory transport for tests (src/rxon/testing.py): two queues     *)
(* that a test fills with push_task and push_command, and that concurrent  *)
(* calls of poll_task and listen_for_commands take from; the other methods *)
(* only record what they are given.                                        *)
(*                                                                         *)
(* Items are numbered in the order they are pushed; Item says whether the  *)
(* n-th one is a model or a dict that from_dict accepts ("good"), or a     *)
(* dict that it refuses ("bad").  wait_for runs the get() of a poll in a   *)
(* task of its own (Python 3.11), so an item can be out of the queue while *)
(* the poll is still suspended: a timeout or a cancellation that comes     *)
(* before that takes nothing from the queue, and one that comes later is   *)
(* dropped in favour of the item.                                          *)
(***************************************************************************)
EXTENDS Integers, Sequences, FiniteSets

CONSTANTS
  Pollers,        \* the calls of poll_task, each made once
  Listeners,      \* the calls of listen_for_commands, each made once
  Item,           \* what the items pushed to either queue are
  MaxRecords      \* bound: the calls of each recording method

ASSUME MockAssumption == Item \in Seq({"good", "bad"}) /\ MaxRecords \in Nat

Recording == {"register", "send_result", "send_heartbeat", "emit_event"}

VARIABLES
  connected,
  task_queue, command_queue,    \* the numbers of the items in them
  tasks, commands,              \* how many were pushed to each
  poll,                         \* the state of each poll_task, with the item it got
  listener,                     \* the state of each listen_for_commands
  yielded,                      \* the commands each of them has yielded
  recorded,                     \* the length of registered, results, ...
  token                         \* "mock-token" or "refreshed-mock-token"

queueVars  == <<task_queue, command_queue, tasks, commands>>
recordVars == <<recorded, token>>
vars       == <<connected, queueVars, poll, listener, yielded, recordVars>>

(* Every variable keeps its type.                                          *)
TypeOK ==
  /\ connected \in BOOLEAN
  /\ tasks \in 0 .. Len(Item) /\ commands \in 0 .. Len(Item)
  /\ task_queue \in Seq(1 .. tasks) /\ command_queue \in Seq(1 .. commands)
  /\ poll \in [Pollers -> [pc : {"idle", "waiting", "taken", "task", "None", "cancelled"},
                           took : 0 .. tasks]]
  /\ listener \in [Listeners -> {"off", "waiting", "yielded", "done", "raised", "cancelled"}]
  /\ yielded \in [Listeners -> SUBSET (1 .. commands)]
  /\ recorded \in [Recording -> 0 .. MaxRecords]
  /\ token \in {"mock-token", "refreshed-mock-token"}

Init ==
  /\ connected = FALSE
  /\ task_queue = <<>> /\ command_queue = <<>> /\ tasks = 0 /\ commands = 0
  /\ poll = [p \in Pollers |-> [pc |-> "idle", took |-> 0]]
  /\ listener = [l \in Listeners |-> "off"]
  /\ yielded = [l \in Listeners |-> {}]
  /\ recorded = [m \in Recording |-> 0]
  /\ token = "mock-token"

-----------------------------------------------------------------------------
Connect ==
  /\ connected' = TRUE
  /\ UNCHANGED <<queueVars, poll, listener, yielded, recordVars>>

Close ==
  /\ connected' = FALSE
  /\ UNCHANGED <<queueVars, poll, listener, yielded, recordVars>>

RecordTwice(m) ==       \* mutant: the call is appended twice
  /\ recorded[m] < MaxRecords
  /\ recorded' = [recorded EXCEPT ![m] = @ + 2]
  /\ UNCHANGED <<connected, queueVars, poll, listener, yielded, token>>

Record(m) ==
  /\ recorded[m] < MaxRecords
  /\ recorded' = [recorded EXCEPT ![m] = @ + 1]
  /\ UNCHANGED <<connected, queueVars, poll, listener, yielded, token>>

RefreshToken ==
  /\ token' = "refreshed-mock-token"
  /\ UNCHANGED <<connected, queueVars, poll, listener, yielded, recorded>>

PushTask ==
  /\ tasks < Len(Item)
  /\ tasks' = tasks + 1
  /\ task_queue' = Append(task_queue, tasks + 1)
  /\ UNCHANGED <<connected, command_queue, commands, poll, listener, yielded, recordVars>>

PushCommand ==
  /\ commands < Len(Item)
  /\ commands' = commands + 1
  /\ command_queue' = Append(command_queue, commands + 1)
  /\ UNCHANGED <<connected, task_queue, tasks, poll, listener, yielded, recordVars>>

-----------------------------------------------------------------------------
(* poll_task: every exception, that of from_dict too, is answered by None. *)
Poll(p) ==
  /\ poll[p].pc = "idle"
  /\ poll' = [poll EXCEPT ![p].pc = "waiting"]
  /\ UNCHANGED <<connected, queueVars, listener, yielded, recordVars>>

GetTaskKeeps(p) ==      \* mutant: the task is looked at and not taken out
  /\ poll[p].pc = "waiting" /\ task_queue # <<>>
  /\ poll' = [poll EXCEPT ![p] = [pc |-> "taken", took |-> Head(task_queue)]]
  /\ UNCHANGED <<connected, queueVars, listener, yielded, recordVars>>

(* The get() inside wait_for ends; poll_task goes on in a later step.      *)
GetTask(p) ==
  /\ poll[p].pc = "waiting" /\ task_queue # <<>>
  /\ poll' = [poll EXCEPT ![p] = [pc |-> "taken", took |-> Head(task_queue)]]
  /\ task_queue' = Tail(task_queue)
  /\ UNCHANGED <<connected, command_queue, tasks, commands, listener, yielded, recordVars>>

ReturnTask(p) ==
  /\ poll[p].pc = "taken"
  /\ poll' = [poll EXCEPT ![p].pc = IF Item[poll[p].took] = "good" THEN "task" ELSE "None"]
  /\ UNCHANGED <<connected, queueVars, listener, yielded, recordVars>>

PollTimeout(p) ==
  /\ poll[p].pc = "waiting"
  /\ poll' = [poll EXCEPT ![p].pc = "None"]
  /\ UNCHANGED <<connected, queueVars, listener, yielded, recordVars>>

CancelPollLoses(p) ==   \* mutant: what get() has taken is dropped
  /\ poll[p].pc \in {"waiting", "taken"}
  /\ poll' = [poll EXCEPT ![p].pc = "cancelled"]
  /\ UNCHANGED <<connected, queueVars, listener, yielded, recordVars>>

CancelPoll(p) ==
  /\ poll[p].pc = "waiting"
  /\ poll' = [poll EXCEPT ![p].pc = "cancelled"]
  /\ UNCHANGED <<connected, queueVars, listener, yielded, recordVars>>

-----------------------------------------------------------------------------
(* listen_for_commands looks at connected between two commands only.       *)
LoopHeadForever(l) == listener' = [listener EXCEPT ![l] = "waiting"]
  \* mutant: close() is not looked at

LoopHead(l) == listener' = [listener EXCEPT ![l] = IF connected THEN "waiting" ELSE "done"]

Listen(l, from) ==
  /\ listener[l] = from
  /\ LoopHead(l)
  /\ UNCHANGED <<connected, queueVars, poll, yielded, recordVars>>

(* A dict that is no WorkerCommand ends the generator with ValueError.     *)
GetCommand(l) ==
  LET n == Head(command_queue) IN
  /\ listener[l] = "waiting" /\ command_queue # <<>>
  /\ command_queue' = Tail(command_queue)
  /\ \/ /\ Item[n] = "good"
        /\ listener' = [listener EXCEPT ![l] = "yielded"]
        /\ yielded' = [yielded EXCEPT ![l] = @ \cup {n}]
     \/ /\ Item[n] = "bad"
        /\ listener' = [listener EXCEPT ![l] = "raised"]
        /\ UNCHANGED yielded
  /\ UNCHANGED <<connected, task_queue, tasks, commands, poll, recordVars>>

CancelListener(l) ==
  /\ listener[l] \in {"waiting", "yielded"}
  /\ listener' = [listener EXCEPT ![l] = "cancelled"]
  /\ UNCHANGED <<connected, queueVars, poll, yielded, recordVars>>

-----------------------------------------------------------------------------
Next ==
  \/ Connect \/ Close \/ RefreshToken \/ PushTask \/ PushCommand
  \/ \E m \in Recording : Record(m)
  \/ \E p \in Pollers :
       Poll(p) \/ GetTask(p) \/ ReturnTask(p) \/ PollTimeout(p) \/ CancelPoll(p)
  \/ \E l \in Listeners :
       Listen(l, "off") \/ Listen(l, "yielded") \/ GetCommand(l) \/ CancelListener(l)

(* A command that is there is taken, and a consumer that is done with one  *)
(* asks for the next.                                                      *)
Fairness ==
  \A l \in Listeners : WF_vars(GetCommand(l)) /\ WF_vars(Listen(l, "yielded"))

Spec     == Init /\ [][Next]_vars
FairSpec == Spec /\ Fairness

-----------------------------------------------------------------------------
Taker(n) == {p \in Pollers : poll[p].took = n}

(* A task that was pushed is in the queue or was taken by exactly one      *)
(* poll_task, which has returned it or is about to, unless it is           *)
(* malformed: neither a timeout nor a cancellation that comes as the task  *)
(* arrives loses it, and no two polls get the same.                        *)
TasksAccounted ==
  \A n \in 1 .. tasks :
    IF \E i \in 1 .. Len(task_queue) : task_queue[i] = n
    THEN Taker(n) = {}
    ELSE \E p \in Pollers : /\ Taker(n) = {p}
                            /\ Item[n] = "good" => poll[p].pc \in {"taken", "task"}

(* close() does not wake a listener that waits for a command; the next     *)
(* command does: while the mock stays closed a listener for which there is *)
(* one ends, however many commands have queued up.                         *)
ListenersEnd ==
  Cardinality(Listeners) = 1 => \A l \in Listeners :
    (listener[l] \in {"waiting", "yielded"} /\ ~connected /\ command_queue # <<>>)
      ~> (listener[l] \notin {"waiting", "yielded"} \/ connected)
=============================================================================
