------------------------- MODULE MockTransportProofs ------------------------
(***************************************************************************)
(* Proofs that the queues of the mock transport lose nothing and give no   *)
(* task twice, for any number of polls, listeners and items.               *)
(***************************************************************************)
EXTENDS MockTransport, TLAPS

(* The items in a queue, and that none is in it twice.                     *)
Elems(q) == {q[i] : i \in 1 .. Len(q)}
Distinct(q) == \A i, j \in 1 .. Len(q) : q[i] = q[j] => i = j

(* A poll that has not been given a task holds none.                       *)
EmptyHanded == \A p \in Pollers : poll[p].pc \in {"idle", "waiting"} => poll[p].took = 0

(* Every task is in the queue, or exactly one poll took it.                *)
InQueue(n) == n \in Elems(task_queue)
Served(n) == \E p \in Pollers : /\ Taker(n) = {p}
                                /\ Item[n] = "good" => poll[p].pc \in {"taken", "task"}

Accounted == \A n \in 1 .. tasks : (InQueue(n) /\ Taker(n) = {}) \/ (~InQueue(n) /\ Served(n))

IInv == TypeOK /\ Distinct(task_queue) /\ EmptyHanded /\ Accounted

-----------------------------------------------------------------------------
(* The queues.                                                             *)

(* An item taken from a queue leaves the others in it, in their order.     *)
LEMMA TailFacts ==
  ASSUME NEW S, NEW q \in Seq(S), q # <<>>
  PROVE  /\ Tail(q) \in Seq(S) /\ Head(q) \in S /\ Head(q) \in Elems(q)
         /\ Elems(Tail(q)) \subseteq Elems(q) /\ Elems(q) \subseteq Elems(Tail(q)) \cup {Head(q)}
         /\ Distinct(q) => Distinct(Tail(q)) /\ Head(q) \notin Elems(Tail(q))
<1>1. /\ Len(q) \in Nat /\ Len(q) > 0 /\ Head(q) = q[1] /\ Tail(q) \in Seq(S)
      /\ Len(Tail(q)) = Len(q) - 1 /\ \A i \in 1 .. Len(q) - 1 : Tail(q)[i] = q[i + 1]
  OBVIOUS
<1>2. Head(q) \in S /\ Head(q) \in Elems(q)
  BY <1>1 DEF Elems
<1>3. Elems(Tail(q)) \subseteq Elems(q)
  BY <1>1 DEF Elems
<1>4. ASSUME NEW i \in 1 .. Len(q) PROVE q[i] \in Elems(Tail(q)) \cup {Head(q)}
  <2>1. CASE i = 1
    BY <1>1, <2>1
  <2>2. CASE i # 1
    <3>1. i - 1 \in 1 .. Len(q) - 1 /\ Tail(q)[i - 1] = q[i]
      BY <1>1, <2>2
    <3> QED BY <1>1, <3>1 DEF Elems
  <2> QED BY <2>1, <2>2
<1>5. Elems(q) \subseteq Elems(Tail(q)) \cup {Head(q)}
  BY <1>4 DEF Elems
<1>6. Distinct(q) => Distinct(Tail(q)) /\ Head(q) \notin Elems(Tail(q))
  BY <1>1 DEF Elems, Distinct
<1> QED BY <1>1, <1>2, <1>3, <1>5, <1>6

(* An item that is pushed is put behind the others.                        *)
LEMMA AppendFacts ==
  ASSUME NEW n \in Nat, NEW q \in Seq(1 .. n)
  PROVE  /\ Append(q, n + 1) \in Seq(1 .. n + 1)
         /\ Elems(Append(q, n + 1)) = Elems(q) \cup {n + 1}
         /\ Distinct(q) => Distinct(Append(q, n + 1))
<1>1. PICK r : r = Append(q, n + 1)
  OBVIOUS
<1>2. /\ Len(r) = Len(q) + 1 /\ Len(q) \in Nat /\ r[Len(q) + 1] = n + 1
      /\ \A i \in 1 .. Len(q) : r[i] = q[i] /\ q[i] \in 1 .. n
  BY <1>1
<1>3. r \in Seq(1 .. n + 1)
  <2>1. q \in Seq(1 .. n + 1)
    OBVIOUS
  <2> QED BY <1>1, <2>1
<1>4. Elems(r) = Elems(q) \cup {n + 1}
  <2>1. \A i \in 1 .. Len(r) : r[i] \in Elems(q) \cup {n + 1}
    BY <1>2 DEF Elems
  <2>2. n + 1 \in Elems(r) /\ \A i \in 1 .. Len(q) : q[i] \in Elems(r)
    BY <1>2 DEF Elems
  <2> QED BY <2>1, <2>2 DEF Elems
<1>5. Distinct(q) => Distinct(r)
  <2>1. \A i \in 1 .. Len(r) : i = Len(q) + 1 \/ (i \in 1 .. Len(q) /\ r[i] # n + 1)
    BY <1>2
  <2> QED BY <1>2, <2>1 DEF Distinct
<1> QED BY <1>1, <1>3, <1>4, <1>5

(* Items that were pushed stay pushed.                                     *)
LEMMA Widened ==
  ASSUME NEW n \in Nat, NEW q \in Seq(1 .. n)
  PROVE  q \in Seq(1 .. n + 1)
OBVIOUS

-----------------------------------------------------------------------------
(* The steps.                                                              *)
PollType == [pc : {"idle", "waiting", "taken", "task", "None", "cancelled"},
             took : 0 .. tasks]

(* What the invariant says of the polls and the queue of tasks.            *)
LEMMA PollFacts ==
  ASSUME IInv
  PROVE  /\ poll \in [Pollers -> PollType] /\ \A p \in Pollers : poll[p] \in PollType
         /\ task_queue \in Seq(1 .. tasks) /\ tasks \in Nat /\ commands \in Nat
         /\ Item \in Seq({"good", "bad"}) /\ Len(Item) \in Nat
BY MockAssumption DEF IInv, TypeOK, PollType

(* A new mock has no task.                                                 *)
LEMMA InitInv == Init => IInv
<1> SUFFICES ASSUME Init PROVE IInv
  OBVIOUS
<1>1. TypeOK
  <2>1. Len(Item) \in Nat /\ 0 \in 0 .. Len(Item) /\ 0 \in 0 .. MaxRecords
    BY MockAssumption
  <2>2. task_queue \in Seq(1 .. tasks) /\ command_queue \in Seq(1 .. commands)
    BY DEF Init
  <2>3. /\ connected \in BOOLEAN /\ tasks \in 0 .. Len(Item) /\ commands \in 0 .. Len(Item)
        /\ token \in {"mock-token", "refreshed-mock-token"}
    BY <2>1 DEF Init
  <2>4. poll \in [Pollers -> PollType]
    BY DEF Init, PollType
  <2>5. listener \in [Listeners -> {"off", "waiting", "yielded", "done", "raised", "cancelled"}]
    BY DEF Init
  <2>6. yielded \in [Listeners -> SUBSET (1 .. commands)]
    BY DEF Init
  <2>7. recorded \in [Recording -> 0 .. MaxRecords]
    BY <2>1 DEF Init
  <2> QED BY <2>2, <2>3, <2>4, <2>5, <2>6, <2>7 DEF TypeOK, PollType
<1>2. Distinct(task_queue) /\ EmptyHanded /\ Accounted
  BY DEF Init, Distinct, EmptyHanded, Accounted
<1> QED BY <1>1, <1>2 DEF IInv

(* Steps that concern neither the tasks nor the polls.                     *)
LEMMA TasksUntouched ==
  ASSUME IInv, TypeOK', UNCHANGED <<task_queue, tasks, poll>>
  PROVE  IInv'
BY DEF IInv, Distinct, EmptyHanded, Accounted, InQueue, Elems, Served, Taker

(* connect, close, the recording methods, the commands and the listeners   *)
(* do not concern them.                                                    *)
LEMMA OthersPreserve ==
  ASSUME IInv,
         \/ Connect \/ Close \/ RefreshToken \/ PushCommand
         \/ \E m \in Recording : Record(m)
         \/ \E l \in Listeners :
              Listen(l, "off") \/ Listen(l, "yielded") \/ GetCommand(l) \/ CancelListener(l)
  PROVE  IInv'
<1>0. TypeOK /\ commands \in Nat /\ command_queue \in Seq(1 .. commands)
  BY PollFacts DEF IInv, TypeOK
<1>1. ASSUME Connect \/ Close \/ RefreshToken PROVE IInv'
  <2>1. TypeOK'
    BY <1>0, <1>1 DEF TypeOK, Connect, Close, RefreshToken, queueVars, recordVars
  <2>2. UNCHANGED <<task_queue, tasks, poll>>
    BY <1>1 DEF Connect, Close, RefreshToken, queueVars
  <2> QED BY <2>1, <2>2, TasksUntouched
<1>2. ASSUME NEW m \in Recording, Record(m) PROVE IInv'
  <2>1. recorded' \in [Recording -> 0 .. MaxRecords]
    BY <1>0, <1>2, MockAssumption DEF TypeOK, Record
  <2>2. TypeOK'
    BY <1>0, <1>2, <2>1 DEF TypeOK, Record, queueVars
  <2>3. UNCHANGED <<task_queue, tasks, poll>>
    BY <1>2 DEF Record, queueVars
  <2> QED BY <2>2, <2>3, TasksUntouched
<1>3. ASSUME PushCommand PROVE IInv'
  <2>1. command_queue' \in Seq(1 .. commands')
    BY <1>0, <1>3, AppendFacts DEF PushCommand
  <2>2. commands' \in 0 .. Len(Item) /\ 1 .. commands \subseteq 1 .. commands'
    BY <1>0, <1>3, PollFacts DEF TypeOK, PushCommand
  <2>3. yielded' \in [Listeners -> SUBSET (1 .. commands')]
    BY <1>0, <1>3, <2>2 DEF TypeOK, PushCommand
  <2>4. TypeOK'
    BY <1>0, <1>3, <2>1, <2>2, <2>3 DEF TypeOK, PushCommand, recordVars
  <2>5. UNCHANGED <<task_queue, tasks, poll>>
    BY <1>3 DEF PushCommand
  <2> QED BY <2>4, <2>5, TasksUntouched
<1>4. ASSUME NEW l \in Listeners,
             Listen(l, "off") \/ Listen(l, "yielded") \/ CancelListener(l)
      PROVE  IInv'
  <2>1. listener' \in [Listeners -> {"off", "waiting", "yielded", "done", "raised", "cancelled"}]
    BY <1>0, <1>4 DEF TypeOK, Listen, LoopHead, CancelListener
  <2>2. UNCHANGED <<connected, queueVars, poll, yielded, recordVars>>
    BY <1>4 DEF Listen, CancelListener
  <2>3. TypeOK'
    BY <1>0, <2>1, <2>2 DEF TypeOK, queueVars, recordVars
  <2> QED BY <2>2, <2>3, TasksUntouched DEF queueVars
<1>5. ASSUME NEW l \in Listeners, GetCommand(l) PROVE IInv'
  <2>1. PICK n \in 1 .. commands : n = Head(command_queue)
    BY <1>0, <1>5, TailFacts DEF GetCommand
  <2>2. command_queue' \in Seq(1 .. commands)
    BY <1>0, <1>5, TailFacts DEF GetCommand
  <2>3. /\ listener' \in [Listeners -> {"off", "waiting", "yielded", "done", "raised",
                                        "cancelled"}]
        /\ yielded' \in [Listeners -> SUBSET (1 .. commands)]
    <3>1. \/ /\ listener' = [listener EXCEPT ![l] = "yielded"]
             /\ yielded' = [yielded EXCEPT ![l] = @ \cup {n}]
          \/ listener' = [listener EXCEPT ![l] = "raised"] /\ UNCHANGED yielded
      BY <1>5, <2>1 DEF GetCommand
    <3>2. /\ listener \in [Listeners -> {"off", "waiting", "yielded", "done", "raised",
                                         "cancelled"}]
          /\ yielded \in [Listeners -> SUBSET (1 .. commands)]
      BY <1>0 DEF TypeOK
    <3>3. [yielded EXCEPT ![l] = @ \cup {n}] \in [Listeners -> SUBSET (1 .. commands)]
      BY <3>2
    <3> QED BY <3>1, <3>2, <3>3
  <2>4. UNCHANGED <<connected, task_queue, tasks, commands, poll, recordVars>>
    BY <1>5 DEF GetCommand
  <2>5. TypeOK'
    BY <1>0, <2>2, <2>3, <2>4 DEF TypeOK, recordVars
  <2> QED BY <2>4, <2>5, TasksUntouched
<1> QED BY <1>1, <1>2, <1>3, <1>4, <1>5

(* A poll that starts, times out or is cancelled takes nothing.            *)
LEMMA IdlePolls ==
  ASSUME IInv, NEW p \in Pollers, Poll(p) \/ PollTimeout(p) \/ CancelPoll(p)
  PROVE  IInv'
<1>1. PICK s \in PollType : /\ poll' = [poll EXCEPT ![p] = s] /\ s.took = 0
                            /\ poll[p].took = 0 /\ poll[p].pc \notin {"taken", "task"}
  <2>1. PICK v \in {"waiting", "None", "cancelled"} : poll' = [poll EXCEPT ![p].pc = v]
    BY DEF Poll, PollTimeout, CancelPoll
  <2>2. PICK s : s = [poll[p] EXCEPT !.pc = v]
    OBVIOUS
  <2>3. poll[p].took = 0 /\ poll[p].pc \notin {"taken", "task"}
    BY DEF Poll, PollTimeout, CancelPoll, IInv, EmptyHanded
  <2>4. s \in PollType /\ s.took = 0
    BY <2>2, <2>3, PollFacts DEF PollType
  <2> QED BY <2>1, <2>2, <2>3, <2>4, PollFacts
<1>2. UNCHANGED <<connected, queueVars, listener, yielded, recordVars>>
  BY DEF Poll, PollTimeout, CancelPoll
<1>3. /\ poll' \in [Pollers -> PollType] /\ poll'[p] = s
      /\ \A q \in Pollers : q # p => poll'[q] = poll[q]
  BY <1>1, PollFacts
<1>4. TypeOK'
  BY <1>2, <1>3 DEF IInv, TypeOK, PollType, queueVars, recordVars
<1>5. EmptyHanded' /\ Distinct(task_queue)'
  BY <1>1, <1>2, <1>3 DEF IInv, EmptyHanded, Distinct, queueVars
<1>6. ASSUME NEW n \in 1 .. tasks
      PROVE  Taker(n)' = Taker(n) /\ (Served(n) => Served(n)') /\ (InQueue(n)' <=> InQueue(n))
  <2>1. Taker(n)' = Taker(n)
    BY <1>1, <1>3 DEF Taker
  <2>2. Served(n) => Served(n)'
    BY <1>1, <1>3, <2>1 DEF Served
  <2> QED BY <1>2, <2>1, <2>2 DEF InQueue, Elems, queueVars
<1>7. Accounted'
  BY <1>2, <1>6 DEF IInv, Accounted, queueVars
<1> QED BY <1>4, <1>5, <1>7 DEF IInv

(* A task that is pushed waits in the queue, and nobody has it yet.        *)
LEMMA PushPreserves ==
  ASSUME IInv, PushTask
  PROVE  IInv'
<1>0. /\ task_queue \in Seq(1 .. tasks) /\ tasks \in Nat /\ Len(Item) \in Nat
      /\ task_queue' = Append(task_queue, tasks + 1) /\ tasks' = tasks + 1
      /\ tasks < Len(Item) /\ Distinct(task_queue)
      /\ UNCHANGED <<connected, command_queue, commands, poll, listener, yielded, recordVars>>
  BY PollFacts DEF IInv, PushTask
<1>1. /\ task_queue' \in Seq(1 .. tasks + 1) /\ Distinct(task_queue')
      /\ Elems(task_queue') = Elems(task_queue) \cup {tasks + 1}
  BY <1>0, AppendFacts
<1>2. poll \in [Pollers -> PollType] /\ \A p \in Pollers : poll[p].took \in 0 .. tasks
  BY PollFacts DEF PollType
<1>3. TypeOK'
  <2>1. poll \in [Pollers -> [pc : {"idle", "waiting", "taken", "task", "None", "cancelled"},
                              took : 0 .. tasks + 1]]
    BY <1>0, <1>2 DEF PollType
  <2>2. tasks + 1 \in 0 .. Len(Item)
    BY <1>0
  <2> QED BY <1>0, <1>1, <2>1, <2>2 DEF IInv, TypeOK, recordVars
<1>4. \A n : Taker(n)' = Taker(n)
  BY <1>0 DEF Taker
<1>5. ASSUME NEW n \in 1 .. tasks + 1
      PROVE  (InQueue(n)' /\ Taker(n) = {}) \/ (~InQueue(n)' /\ Served(n)')
  <2>1. CASE n = tasks + 1
    <3>1. InQueue(n)'
      BY <1>1, <2>1 DEF InQueue
    <3>2. Taker(n) = {}
      BY <1>0, <1>2, <2>1 DEF Taker
    <3> QED BY <3>1, <3>2
  <2>2. CASE n # tasks + 1
    <3>1. n \in 1 .. tasks
      BY <1>0, <2>2
    <3>2. (InQueue(n)' <=> InQueue(n)) /\ (Served(n)' <=> Served(n))
      BY <1>0, <1>1, <1>4, <2>2 DEF InQueue, Served
    <3> QED BY <3>1, <3>2 DEF IInv, Accounted
  <2> QED BY <2>1, <2>2
<1>6. Accounted'
  BY <1>0, <1>4, <1>5 DEF Accounted
<1>7. EmptyHanded'
  BY <1>0 DEF IInv, EmptyHanded
<1> QED BY <1>1, <1>3, <1>6, <1>7 DEF IInv

(* The poll that takes the first task of the queue is the only one that    *)
(* gets it.                                                                *)
LEMMA GetPreserves ==
  ASSUME IInv, NEW p \in Pollers, GetTask(p)
  PROVE  IInv'
<1>0. /\ task_queue \in Seq(1 .. tasks) /\ task_queue # <<>> /\ Distinct(task_queue)
      /\ task_queue' = Tail(task_queue) /\ tasks \in Nat
      /\ UNCHANGED <<connected, command_queue, tasks, commands, listener, yielded, recordVars>>
      /\ poll[p].pc = "waiting" /\ poll[p].took = 0
  BY PollFacts DEF IInv, GetTask, EmptyHanded
<1>1. PICK h \in 1 .. tasks :
        /\ h = Head(task_queue) /\ InQueue(h) /\ h \notin Elems(task_queue')
        /\ task_queue' \in Seq(1 .. tasks) /\ Distinct(task_queue')
        /\ \A n : n # h => (n \in Elems(task_queue') <=> n \in Elems(task_queue))
  BY <1>0, TailFacts DEF InQueue
<1>2. PICK s : s = [pc |-> "taken", took |-> h]
  OBVIOUS
<1>3. s \in PollType /\ s.took = h /\ s.pc = "taken"
  BY <1>0, <1>2 DEF PollType
<1>4. poll' = [poll EXCEPT ![p] = s]
  BY <1>1, <1>2 DEF GetTask
<1>5. /\ poll' \in [Pollers -> PollType] /\ poll'[p] = s
      /\ \A q \in Pollers : q # p => poll'[q] = poll[q]
  BY <1>3, <1>4, PollFacts
<1>6. TypeOK'
  BY <1>0, <1>1, <1>5 DEF IInv, TypeOK, PollType, recordVars
<1>7. EmptyHanded'
  BY <1>3, <1>5 DEF IInv, EmptyHanded
<1>8. Taker(h) = {}
  BY <1>1 DEF IInv, Accounted
<1>9. ASSUME NEW n \in 1 .. tasks
      PROVE  (InQueue(n)' /\ Taker(n)' = {}) \/ (~InQueue(n)' /\ Served(n)')
  <2>1. CASE n = h
    <3>1. Taker(n)' = {p}
      BY <1>3, <1>5, <1>8, <2>1 DEF Taker
    <3>2. ~InQueue(n)'
      BY <1>1, <2>1 DEF InQueue
    <3> QED BY <1>3, <1>5, <2>1, <3>1, <3>2 DEF Served
  <2>2. CASE n # h
    <3>1. Taker(n)' = Taker(n)
      <4>1. \A q \in Pollers : poll'[q].took = n <=> poll[q].took = n
        BY <1>0, <1>3, <1>5, <2>2
      <4> QED BY <4>1 DEF Taker
    <3>2. InQueue(n)' <=> InQueue(n)
      BY <1>1, <2>2 DEF InQueue
    <3>3. Served(n) => Served(n)'
      <4> SUFFICES ASSUME NEW q \in Pollers, Taker(n) = {q},
                          Item[n] = "good" => poll[q].pc \in {"taken", "task"}
                   PROVE  Served(n)'
        BY DEF Served
      <4>1. q # p
        BY <1>0 DEF Taker
      <4> QED BY <1>5, <3>1, <4>1 DEF Served
    <3> QED BY <3>1, <3>2, <3>3 DEF IInv, Accounted
  <2> QED BY <2>1, <2>2
<1>10. Accounted'
  BY <1>0, <1>9 DEF Accounted
<1> QED BY <1>1, <1>6, <1>7, <1>10 DEF IInv

(* A poll that returns keeps its task, unless from_dict refuses it.        *)
LEMMA ReturnPreserves ==
  ASSUME IInv, NEW p \in Pollers, ReturnTask(p)
  PROVE  IInv'
<1>1. PICK s \in PollType : /\ poll' = [poll EXCEPT ![p] = s]
                            /\ s.took = poll[p].took /\ s.pc \in {"task", "None"}
                            /\ Item[s.took] = "good" => s.pc = "task"
  <2>1. PICK v \in {"task", "None"} : /\ poll' = [poll EXCEPT ![p].pc = v]
                                      /\ Item[poll[p].took] = "good" => v = "task"
    BY DEF ReturnTask
  <2>2. PICK s : s = [poll[p] EXCEPT !.pc = v]
    OBVIOUS
  <2>3. s \in PollType /\ s.took = poll[p].took /\ s.pc = v
    BY <2>2, PollFacts DEF PollType
  <2> QED BY <2>1, <2>2, <2>3, PollFacts
<1>2. UNCHANGED <<connected, queueVars, listener, yielded, recordVars>>
  BY DEF ReturnTask
<1>3. /\ poll' \in [Pollers -> PollType] /\ poll'[p] = s
      /\ \A q \in Pollers : q # p => poll'[q] = poll[q]
  BY <1>1, PollFacts
<1>4. TypeOK'
  BY <1>2, <1>3 DEF IInv, TypeOK, PollType, queueVars, recordVars
<1>5. EmptyHanded' /\ Distinct(task_queue)'
  BY <1>1, <1>2, <1>3 DEF IInv, EmptyHanded, Distinct, queueVars
<1>6. ASSUME NEW n \in 1 .. tasks
      PROVE  Taker(n)' = Taker(n) /\ (Served(n) => Served(n)') /\ (InQueue(n)' <=> InQueue(n))
  <2>1. Taker(n)' = Taker(n)
    BY <1>1, <1>3 DEF Taker
  <2>2. Served(n) => Served(n)'
    <3> SUFFICES ASSUME NEW q \in Pollers, Taker(n) = {q},
                        Item[n] = "good" => poll[q].pc \in {"taken", "task"}
                 PROVE  Served(n)'
      BY DEF Served
    <3>1. poll[q].took = n
      BY DEF Taker
    <3>2. Item[n] = "good" => poll'[q].pc \in {"taken", "task"}
      BY <1>1, <1>3, <3>1
    <3> QED BY <2>1, <3>2 DEF Served
  <2> QED BY <1>2, <2>1, <2>2 DEF InQueue, Elems, queueVars
<1>7. Accounted'
  BY <1>2, <1>6 DEF IInv, Accounted, queueVars
<1> QED BY <1>4, <1>5, <1>7 DEF IInv

(* Every step preserves the invariant.                                     *)
LEMMA NextInv == IInv /\ [Next]_vars => IInv'
<1> SUFFICES ASSUME IInv, [Next]_vars PROVE IInv'
  OBVIOUS
<1>1. CASE UNCHANGED vars
  <2>1. TypeOK'
    BY <1>1 DEF IInv, TypeOK, vars, queueVars, recordVars
  <2> QED BY <1>1, <2>1, TasksUntouched DEF vars, queueVars
<1> QED BY <1>1, OthersPreserve, IdlePolls, PushPreserves, GetPreserves, ReturnPreserves DEF Next

-----------------------------------------------------------------------------
(* Every variable of the mock keeps its type.                              *)
THEOREM TypeCorrect == Spec => []TypeOK
<1>1. IInv => TypeOK
  BY DEF IInv
<1> QED BY <1>1, InitInv, NextInv, PTL DEF Spec

(* No timeout and no cancellation of a poll_task loses a task, and no two  *)
(* polls get the same, for any number of polls and tasks.                  *)
THEOREM TasksAreAccounted == Spec => []TasksAccounted
<1>1. IInv => TasksAccounted
  <2> SUFFICES ASSUME IInv, NEW n \in 1 .. tasks
               PROVE  IF \E i \in 1 .. Len(task_queue) : task_queue[i] = n
                      THEN Taker(n) = {}
                      ELSE \E p \in Pollers : /\ Taker(n) = {p}
                                              /\ Item[n] = "good"
                                                   => poll[p].pc \in {"taken", "task"}
    BY DEF TasksAccounted
  <2>1. InQueue(n) <=> \E i \in 1 .. Len(task_queue) : task_queue[i] = n
    BY DEF InQueue, Elems
  <2> QED BY <2>1 DEF IInv, Accounted, Served
<1> QED BY <1>1, InitInv, NextInv, PTL DEF Spec
=============================================================================
