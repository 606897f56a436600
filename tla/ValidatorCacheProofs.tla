------------------------- MODULE ValidatorCacheProofs -----------------------
(***************************************************************************)
(* Proofs that the validator cache stays within its limit and compiles a   *)
(* schema once per residence, for any number of threads, schemas and       *)
(* calls and any positive limit.                                           *)
(***************************************************************************)
EXTENDS ValidatorCache, TLAPS

Critical == {"recheck", "compile", "evict", "insert", "release"}

(* The key a thread has compiled and not inserted yet.                     *)
Pending(k) == \E t \in Threads : thread[t].pc \in {"evict", "insert"} /\ thread[t].got = k

(* What the thread inside the critical section knows.                      *)
Inside ==
  \A t \in Threads :
    /\ thread[t].schema = Empty => thread[t].pc = "idle"
    /\ thread[t].pc \in {"compile", "evict", "insert"} => Key[thread[t].schema] \notin Resident
    /\ thread[t].pc \in {"evict", "insert"} => thread[t].got = Key[thread[t].schema]
    /\ thread[t].pc = "insert" => Len(cache) < MaxSize

(* Every compilation is accounted for by an eviction, by the resident      *)
(* validator or by the one about to be inserted.                           *)
Accounted ==
  \A k \in Keys :
    /\ k \in Resident => compiles[k] = evictions[k] + 1
    /\ Pending(k) => compiles[k] = evictions[k] + 1
    /\ k \notin Resident /\ ~Pending(k) => compiles[k] = evictions[k]

IInv == TypeOK /\ BoundedCache /\ Inside /\ Accounted

-----------------------------------------------------------------------------
(* The dict as a sequence of keys.                                         *)
Elems(s) == {s[i] : i \in 1 .. Len(s)}
Distinct(s) == \A i, j \in 1 .. Len(s) : s[i] = s[j] => i = j

(* Evicting the first key keeps the others, in order and distinct.         *)
LEMMA TailFacts ==
  ASSUME NEW s \in Seq(Keys), Len(s) > 0, Distinct(s)
  PROVE  /\ Tail(s) \in Seq(Keys) /\ Len(Tail(s)) = Len(s) - 1 /\ Distinct(Tail(s))
         /\ Head(s) \in Elems(s) /\ Head(s) \in Keys
         /\ Elems(Tail(s)) = Elems(s) \ {Head(s)}
<1>1. Tail(s) \in Seq(Keys) /\ Len(Tail(s)) = Len(s) - 1 /\ Head(s) = s[1] /\ Head(s) \in Keys
  OBVIOUS
<1>2. \A i \in 1 .. Len(s) - 1 : Tail(s)[i] = s[i + 1]
  OBVIOUS
<1>3. Distinct(Tail(s))
  BY <1>1, <1>2 DEF Distinct
<1>4. Head(s) \in Elems(s)
  BY <1>1 DEF Elems
<1>5. Elems(Tail(s)) \subseteq Elems(s) \ {Head(s)}
  BY <1>1, <1>2 DEF Elems, Distinct
<1>6. ASSUME NEW x \in Elems(s), x # Head(s) PROVE x \in Elems(Tail(s))
  <2>1. PICK i \in 1 .. Len(s) : x = s[i]
    BY DEF Elems
  <2>2. i - 1 \in 1 .. Len(s) - 1 /\ Tail(s)[i - 1] = x
    BY <1>1, <1>2, <1>6, <2>1
  <2> QED BY <1>1, <2>2 DEF Elems
<1> QED BY <1>1, <1>3, <1>4, <1>5, <1>6

(* Inserting a new key keeps the keys distinct.                            *)
LEMMA AppendFacts ==
  ASSUME NEW s \in Seq(Keys), NEW k \in Keys, k \notin Elems(s), Distinct(s)
  PROVE  /\ Append(s, k) \in Seq(Keys) /\ Len(Append(s, k)) = Len(s) + 1
         /\ Distinct(Append(s, k)) /\ Elems(Append(s, k)) = Elems(s) \cup {k}
<1>1. /\ Append(s, k) \in Seq(Keys) /\ Len(Append(s, k)) = Len(s) + 1
      /\ Append(s, k)[Len(s) + 1] = k
      /\ \A i \in 1 .. Len(s) : Append(s, k)[i] = s[i]
  OBVIOUS
<1>2. Elems(Append(s, k)) = Elems(s) \cup {k}
  BY <1>1 DEF Elems
<1>3. Distinct(Append(s, k))
  BY <1>1 DEF Distinct, Elems
<1> QED BY <1>1, <1>2, <1>3

-----------------------------------------------------------------------------
ThreadType ==
  [pc : {"idle", "lookup", "waiting"} \cup Critical, op : Ops, schema : Schemas, data : Data,
   got : Keys \cup {NoValidator}, result : Results]

(* What the type invariant says of the threads and the lock.               *)
LEMMA TypeFacts ==
  ASSUME TypeOK
  PROVE  /\ thread \in [Threads -> ThreadType] /\ cache \in Seq(Keys) /\ Len(cache) \in Nat
         /\ \A t \in Threads : thread[t].pc \in Critical <=> lock = t
BY DEF TypeOK, ThreadType, Critical

(* A schema that is not empty has a key.                                   *)
LEMMA KeyFacts ==
  ASSUME NEW s \in Schemas, s # Empty
  PROVE  Key[s] \in Keys
BY DEF Keys

(* The caller's continuation.                                              *)
LEMMA ReturnsFacts ==
  ASSUME TypeOK, NEW t \in Threads, NEW v \in Keys \cup {NoValidator}
  PROVE  /\ Returns(t, v) \in ThreadType
         /\ Returns(t, v).pc \in {"idle", "lookup"}
         /\ Returns(t, v).schema = thread[t].schema
<1>1. thread[t] \in ThreadType
  BY TypeFacts
<1>2. CASE thread[t].op = "get"
  <2>1. Returns(t, v) = Finish(t, v)
    BY <1>2 DEF Returns
  <2> QED BY <1>1, <2>1 DEF Finish, ThreadType, Results
<1>3. CASE thread[t].op # "get" /\ v # NoValidator
  <2>1. Returns(t, v) = Finish(t, Verdict(v, thread[t].data))
    BY <1>3 DEF Returns
  <2>2. Verdict(v, thread[t].data) \in Results
    BY DEF Verdict, Results
  <2> QED BY <1>1, <2>1, <2>2 DEF Finish, ThreadType
<1>4. CASE thread[t].op = "data" /\ v = NoValidator
  <2>1. Returns(t, v) = Finish(t, "invalid")
    BY <1>4 DEF Returns
  <2> QED BY <1>1, <2>1 DEF Finish, ThreadType, Results
<1>5. CASE thread[t].op = "params" /\ v = NoValidator
  <2>1. Returns(t, v) = [thread[t] EXCEPT !.op = "data", !.pc = "lookup", !.got = NoValidator]
    BY <1>5 DEF Returns
  <2> QED BY <1>1, <2>1 DEF ThreadType, Ops
<1> QED BY <1>1, <1>2, <1>3, <1>4, <1>5 DEF ThreadType, Ops

(* In the critical section only its own thread can have a pending key.     *)
LEMMA PendingFacts ==
  ASSUME TypeOK, NEW t \in Threads, thread[t].pc \in Critical, NEW k
  PROVE  Pending(k) <=> thread[t].pc \in {"evict", "insert"} /\ thread[t].got = k
<1>1. \A u \in Threads : thread[u].pc \in Critical => u = t
  BY TypeFacts
<1> QED BY <1>1 DEF Pending, Critical

(* The empty cache satisfies the invariant.                                *)
LEMMA InitInv == Init => IInv
<1> SUFFICES ASSUME Init PROVE IInv
  OBVIOUS
<1>2. TypeOK
  BY CacheAssumption DEF Init, TypeOK, Ops, Results
<1>3. Resident = {}
  BY DEF Init, Resident
<1>4. BoundedCache
  BY CacheAssumption DEF Init, BoundedCache
<1>5. Inside /\ Accounted
  BY <1>3 DEF Init, Inside, Accounted, Pending
<1> QED BY <1>2, <1>4, <1>5 DEF IInv

(* Steps that leave the dict and the pending keys alone.                   *)
LEMMA LocalPreserves ==
  ASSUME IInv, NEW t \in Threads, NEW s \in ThreadType,
         thread' = [thread EXCEPT ![t] = s],
         UNCHANGED <<cache, compiles, evictions>>,
         calls' \in 0 .. MaxCalls, lock' \in Threads \cup {NoThread},
         s.pc \in Critical <=> lock' = t,
         \A u \in Threads : u # t => (lock' = u <=> lock = u),
         s.schema = Empty => s.pc = "idle",
         s.pc = "compile" => Key[s.schema] \notin Resident,
         s.pc \notin {"evict", "insert"}, thread[t].pc \notin {"evict", "insert"}
  PROVE  IInv'
<1>1. /\ thread \in [Threads -> ThreadType] /\ thread' \in [Threads -> ThreadType]
      /\ thread'[t] = s /\ \A u \in Threads : u # t => thread'[u] = thread[u]
      /\ \A u \in Threads : thread[u].pc \in Critical <=> lock = u
  BY TypeFacts DEF IInv
<1>2. \A u \in Threads : thread'[u].pc \in Critical <=> lock' = u
  BY <1>1
<1>3. TypeOK'
  BY <1>1, <1>2 DEF IInv, TypeOK, ThreadType, Critical
<1>4. Resident' = Resident /\ BoundedCache'
  BY DEF IInv, Resident, BoundedCache
<1>5. \A k \in Keys : Pending(k)' <=> Pending(k)
  BY <1>1 DEF Pending
<1>6. Inside'
  BY <1>1, <1>4 DEF IInv, Inside
<1>7. Accounted'
  BY <1>4, <1>5 DEF IInv, Accounted
<1> QED BY <1>3, <1>4, <1>6, <1>7 DEF IInv

(* A call that begins preserves it.                                        *)
LEMMA CallPreserves ==
  ASSUME IInv, NEW t \in Threads, NEW op \in Ops, NEW s \in Schemas, NEW d \in Data,
         Call(t, op, s, d)
  PROVE  IInv'
<1>1. PICK r : r = [pc |-> IF s = Empty THEN "idle" ELSE "lookup", op |-> op, schema |-> s,
                    data |-> d, got |-> NoValidator,
                    result |-> IF s # Empty THEN "none" ELSE IF op = "get" THEN NoValidator
                                                                          ELSE "valid"]
  OBVIOUS
<1>2. /\ r \in ThreadType /\ r.pc \in {"idle", "lookup"} /\ r.pc \notin Critical
      /\ r.schema = Empty => r.pc = "idle"
  BY <1>1 DEF ThreadType, Results, Critical
<1>3. /\ thread' = [thread EXCEPT ![t] = r] /\ UNCHANGED <<cache, compiles, evictions>>
      /\ lock' = lock /\ thread[t].pc = "idle"
  BY <1>1 DEF Call
<1>4. calls' \in 0 .. MaxCalls
  BY CacheAssumption DEF Call, IInv, TypeOK
<1>5. lock # t /\ lock \in Threads \cup {NoThread}
  BY <1>3, TypeFacts DEF IInv, TypeOK, Critical
<1> QED BY <1>2, <1>3, <1>4, <1>5, LocalPreserves

(* The look without the lock and taking the lock preserve it.              *)
LEMMA OutsidePreserves ==
  ASSUME IInv, NEW t \in Threads, Lookup(t) \/ Acquire(t)
  PROVE  IInv'
<1>0. /\ thread \in [Threads -> ThreadType] /\ TypeOK
      /\ calls \in 0 .. MaxCalls /\ calls' = calls
      /\ lock \in Threads \cup {NoThread} /\ UNCHANGED <<cache, compiles, evictions>>
      /\ thread[t].pc \in {"lookup", "waiting"} /\ lock # t
      /\ thread[t].schema # Empty
  BY TypeFacts DEF IInv, TypeOK, Lookup, Acquire, historyVars, Critical, Inside
<1>1. PICK k \in Keys : k = Key[thread[t].schema]
  BY <1>0, KeyFacts DEF ThreadType
<1>2. CASE thread' = [thread EXCEPT ![t] = Returns(t, k)] /\ lock' = lock
  <2>1. PICK r : r = Returns(t, k)
    OBVIOUS
  <2>2. /\ r \in ThreadType /\ r.pc \in {"idle", "lookup"} /\ r.pc \notin Critical
        /\ r.schema # Empty
    BY <1>0, <2>1, ReturnsFacts DEF Critical
  <2> QED BY <1>0, <1>2, <2>1, <2>2, LocalPreserves
<1>3. CASE Goto(t, "waiting") /\ lock' = lock
  <2>1. PICK r : r = [thread[t] EXCEPT !.pc = "waiting"]
    OBVIOUS
  <2>2. r \in ThreadType /\ r.pc = "waiting" /\ r.pc \notin Critical /\ r.schema # Empty
    BY <1>0, <2>1 DEF ThreadType, Critical
  <2>3. thread' = [thread EXCEPT ![t] = r]
    BY <1>0, <1>3, <2>1 DEF Goto
  <2> QED BY <1>0, <1>3, <2>2, <2>3, LocalPreserves
<1>4. CASE Goto(t, "recheck") /\ lock' = t /\ lock = NoThread
  <2>1. PICK r : r = [thread[t] EXCEPT !.pc = "recheck"]
    OBVIOUS
  <2>2. r \in ThreadType /\ r.pc = "recheck" /\ r.pc \in Critical /\ r.schema # Empty
    BY <1>0, <2>1 DEF ThreadType, Critical
  <2>3. thread' = [thread EXCEPT ![t] = r]
    BY <1>0, <1>4, <2>1 DEF Goto
  <2>4. \A u \in Threads : u # t => (lock' = u <=> lock = u)
    BY <1>4, CacheAssumption
  <2> QED BY <1>0, <1>4, <2>2, <2>3, <2>4, LocalPreserves
<1> QED BY <1>1, <1>2, <1>3, <1>4 DEF Lookup, Acquire

(* The second look preserves it: a thread that goes on to compile missed.  *)
LEMMA RecheckPreserves ==
  ASSUME IInv, NEW t \in Threads, Recheck(t)
  PROVE  IInv'
<1>0. /\ thread \in [Threads -> ThreadType] /\ TypeOK
      /\ calls \in 0 .. MaxCalls /\ calls' = calls
      /\ lock' = lock /\ lock = t /\ UNCHANGED <<cache, compiles, evictions>>
      /\ thread[t].pc = "recheck" /\ thread[t].schema # Empty
  BY TypeFacts DEF IInv, TypeOK, Recheck, historyVars, Critical, Inside
<1>1. PICK k \in Keys : k = Key[thread[t].schema]
  BY <1>0, KeyFacts DEF ThreadType
<1>2. CASE thread' = [thread EXCEPT ![t] = [@ EXCEPT !.pc = "release", !.got = k]]
  <2>1. PICK r : r = [thread[t] EXCEPT !.pc = "release", !.got = k]
    OBVIOUS
  <2>2. r \in ThreadType /\ r.pc = "release" /\ r.pc \in Critical /\ r.schema # Empty
    BY <1>0, <2>1 DEF ThreadType, Critical
  <2> QED BY <1>0, <1>2, <2>1, <2>2, LocalPreserves
<1>3. CASE Goto(t, "compile") /\ k \notin Resident
  <2>1. PICK r : r = [thread[t] EXCEPT !.pc = "compile"]
    OBVIOUS
  <2>2. /\ r \in ThreadType /\ r.pc = "compile" /\ r.pc \in Critical
        /\ r.schema = thread[t].schema
    BY <1>0, <2>1 DEF ThreadType, Critical
  <2>3. thread' = [thread EXCEPT ![t] = r]
    BY <1>0, <1>3, <2>1 DEF Goto
  <2> QED BY <1>0, <1>1, <1>3, <2>2, <2>3, LocalPreserves
<1> QED BY <1>1, <1>2, <1>3 DEF Recheck

(* Leaving the with statement preserves it.                                *)
LEMMA ReleasePreserves ==
  ASSUME IInv, NEW t \in Threads, Release(t)
  PROVE  IInv'
<1>0. /\ thread \in [Threads -> ThreadType] /\ TypeOK
      /\ calls \in 0 .. MaxCalls /\ calls' = calls
      /\ lock' = NoThread /\ lock = t /\ UNCHANGED <<cache, compiles, evictions>>
      /\ thread[t].pc = "release" /\ thread[t].schema # Empty
  BY TypeFacts DEF IInv, TypeOK, Release, historyVars, Critical, Inside
<1>1. PICK r : r = Returns(t, thread[t].got)
  OBVIOUS
<1>2. /\ r \in ThreadType /\ r.pc \in {"idle", "lookup"} /\ r.pc \notin Critical
      /\ r.schema # Empty
  BY <1>0, <1>1, ReturnsFacts DEF Critical, ThreadType
<1>3. thread' = [thread EXCEPT ![t] = r]
  BY <1>1 DEF Release
<1>4. \A u \in Threads : u # t => (lock' = u <=> lock = u)
  BY <1>0, CacheAssumption
<1>5. lock' # t
  BY <1>0, CacheAssumption
<1> QED BY <1>0, <1>2, <1>3, <1>4, <1>5, LocalPreserves

(* What is left to show of a step inside the critical section: thread t    *)
(* goes to state s and keeps the lock.                                     *)
LEMMA InsideStep ==
  ASSUME IInv, NEW t \in Threads, NEW s \in ThreadType,
         thread[t].pc \in Critical, s.pc \in Critical, s.schema = thread[t].schema,
         thread' = [thread EXCEPT ![t] = s], UNCHANGED <<lock, calls>>,
         cache' \in Seq(Keys), compiles' \in [Keys -> Nat], evictions' \in [Keys -> Nat]
  PROVE  /\ TypeOK' /\ thread'[t] = s /\ s.schema # Empty
         /\ \A u \in Threads : u # t => thread'[u].pc \notin Critical /\ thread'[u] = thread[u]
         /\ \A k : Pending(k)' <=> s.pc \in {"evict", "insert"} /\ s.got = k
<1>1. /\ thread \in [Threads -> ThreadType] /\ thread' \in [Threads -> ThreadType]
      /\ thread'[t] = s /\ \A u \in Threads : u # t => thread'[u] = thread[u]
      /\ \A u \in Threads : thread[u].pc \in Critical <=> lock = u
  BY TypeFacts DEF IInv
<1>2. \A u \in Threads : thread'[u].pc \in Critical <=> lock' = u
  BY <1>1
<1>3. TypeOK'
  BY <1>1, <1>2 DEF IInv, TypeOK, ThreadType, Critical
<1>4. s.schema # Empty
  BY <1>1 DEF IInv, Inside, Critical
<1>5. \A u \in Threads : u # t => thread'[u].pc \notin Critical
  BY <1>1
<1>6. \A k : Pending(k)' <=> s.pc \in {"evict", "insert"} /\ s.got = k
  BY <1>1, <1>5 DEF Pending, Critical
<1> QED BY <1>1, <1>3, <1>4, <1>5, <1>6

(* A compilation, successful or not, preserves it.                         *)
LEMMA CompilePreserves ==
  ASSUME IInv, NEW t \in Threads, Compile(t)
  PROVE  IInv'
<1>0. /\ thread \in [Threads -> ThreadType] /\ TypeOK /\ thread[t].pc = "compile"
      /\ thread[t].pc \in Critical /\ lock = t
      /\ UNCHANGED <<cache, lock, calls, evictions>>
      /\ cache' \in Seq(Keys) /\ evictions \in [Keys -> Nat] /\ compiles \in [Keys -> Nat]
      /\ thread[t].schema # Empty
  BY TypeFacts DEF IInv, TypeOK, Compile, Critical, Inside
<1>1. PICK k \in Keys : k = Key[thread[t].schema]
  BY <1>0, KeyFacts DEF ThreadType
<1>2. k \notin Resident
  BY <1>0, <1>1 DEF IInv, Inside
<1>3. \A j : ~Pending(j)
  BY <1>0, PendingFacts
<1>4. Resident' = Resident /\ BoundedCache'
  BY <1>0 DEF IInv, Resident, BoundedCache
<1>5. CASE /\ compiles' = [compiles EXCEPT ![k] = @ + 1]
           /\ thread' = [thread EXCEPT ![t] = [@ EXCEPT !.pc = "evict", !.got = k]]
  <2>1. PICK r : r = [thread[t] EXCEPT !.pc = "evict", !.got = k]
    OBVIOUS
  <2>2. /\ r \in ThreadType /\ r.pc = "evict" /\ r.pc \in Critical /\ r.got = k
        /\ r.schema = thread[t].schema
    BY <1>0, <2>1 DEF ThreadType, Critical
  <2>3. thread' = [thread EXCEPT ![t] = r]
    BY <1>5, <2>1
  <2>4. compiles' \in [Keys -> Nat] /\ evictions' \in [Keys -> Nat]
    BY <1>0, <1>5
  <2>5. /\ TypeOK' /\ thread'[t] = r /\ r.schema # Empty
        /\ \A u \in Threads : u # t => thread'[u].pc \notin Critical /\ thread'[u] = thread[u]
        /\ \A j : Pending(j)' <=> r.pc \in {"evict", "insert"} /\ r.got = j
    BY <1>0, <2>2, <2>3, <2>4, InsideStep
  <2>6. Inside'
    BY <1>1, <1>2, <1>4, <2>2, <2>5 DEF IInv, Inside, Critical
  <2>7. ASSUME NEW j \in Keys
        PROVE  /\ j \in Resident' => compiles'[j] = evictions'[j] + 1
               /\ Pending(j)' => compiles'[j] = evictions'[j] + 1
               /\ j \notin Resident' /\ ~Pending(j)' => compiles'[j] = evictions'[j]
    <3>1. /\ j \in Resident => compiles[j] = evictions[j] + 1
          /\ j \notin Resident => compiles[j] = evictions[j]
      BY <1>3 DEF IInv, Accounted
    <3>2. compiles'[j] = IF j = k THEN compiles[j] + 1 ELSE compiles[j]
      BY <1>0, <1>5
    <3>3. Pending(j)' <=> j = k
      BY <2>2, <2>5
    <3> QED BY <1>0, <1>2, <1>4, <3>1, <3>2, <3>3
  <2>8. Accounted'
    BY <2>7 DEF Accounted
  <2> QED BY <1>4, <2>5, <2>6, <2>8 DEF IInv
<1>6. CASE Goto(t, "release") /\ UNCHANGED compiles
  <2>1. PICK r : r = [thread[t] EXCEPT !.pc = "release"]
    OBVIOUS
  <2>2. r \in ThreadType /\ r.pc = "release" /\ r.pc \in Critical /\ r.schema # Empty
    BY <1>0, <2>1 DEF ThreadType, Critical
  <2>3. thread' = [thread EXCEPT ![t] = r]
    BY <1>0, <1>6, <2>1 DEF Goto
  <2>4. calls' \in 0 .. MaxCalls
    BY <1>0 DEF TypeOK
  <2> QED BY <1>0, <1>6, <2>2, <2>3, <2>4, LocalPreserves
<1> QED BY <1>1, <1>5, <1>6 DEF Compile

(* An eviction makes room and settles the account of the key it removes.   *)
LEMMA EvictPreserves ==
  ASSUME IInv, NEW t \in Threads, Evict(t)
  PROVE  IInv'
<1>0. /\ thread \in [Threads -> ThreadType] /\ TypeOK /\ thread[t].pc = "evict"
      /\ thread[t].pc \in Critical /\ UNCHANGED <<lock, calls, compiles>>
      /\ cache \in Seq(Keys) /\ Len(cache) \in Nat /\ Len(cache) <= MaxSize
      /\ evictions \in [Keys -> Nat] /\ compiles \in [Keys -> Nat]
      /\ thread[t].schema # Empty /\ MaxSize \in Nat /\ MaxSize > 0
  BY TypeFacts, CacheAssumption DEF IInv, TypeOK, Evict, Critical, Inside, BoundedCache
<1>1. PICK k \in Keys : k = Key[thread[t].schema] /\ k = thread[t].got
  BY <1>0, KeyFacts DEF ThreadType, IInv, Inside
<1>2. k \notin Resident /\ (\A j : Pending(j) <=> j = k)
  BY <1>0, <1>1, PendingFacts DEF IInv, Inside
<1>3. PICK r : r = [thread[t] EXCEPT !.pc = "insert"]
  OBVIOUS
<1>4. /\ r \in ThreadType /\ r.pc = "insert" /\ r.pc \in Critical /\ r.got = k
      /\ r.schema = thread[t].schema
  BY <1>0, <1>1, <1>3 DEF ThreadType, Critical
<1>5. thread' = [thread EXCEPT ![t] = r]
  BY <1>0, <1>3 DEF Evict, Goto
<1>6. Resident = Elems(cache) /\ Distinct(cache)
  BY DEF IInv, Resident, Elems, Distinct, BoundedCache
<1>7. PICK E \in SUBSET Keys :
        /\ cache' \in Seq(Keys) /\ Distinct(cache') /\ Len(cache') < MaxSize
        /\ E \subseteq Resident /\ Elems(cache') = Resident \ E
        /\ evictions' = [j \in Keys |-> IF j \in E THEN evictions[j] + 1 ELSE evictions[j]]
  <2>1. CASE Full
    <3>1. Len(cache) > 0 /\ Len(cache) = MaxSize
      BY <1>0, <2>1 DEF Full
    <3>2. cache' = Tail(cache) /\ evictions' = [evictions EXCEPT ![Head(cache)] = @ + 1]
      BY <2>1 DEF Evict
    <3>3. /\ Tail(cache) \in Seq(Keys) /\ Len(Tail(cache)) = Len(cache) - 1
          /\ Distinct(Tail(cache)) /\ Head(cache) \in Elems(cache) /\ Head(cache) \in Keys
          /\ Elems(Tail(cache)) = Elems(cache) \ {Head(cache)}
      BY <1>0, <1>6, <3>1, TailFacts
    <3>4. evictions' = [j \in Keys |-> IF j \in {Head(cache)} THEN evictions[j] + 1
                                                            ELSE evictions[j]]
      BY <1>0, <3>2, <3>3
    <3>5. Len(cache') < MaxSize
      BY <1>0, <3>1, <3>2, <3>3
    <3> {Head(cache)} \in SUBSET Keys
      BY <3>3
    <3> WITNESS {Head(cache)} \in SUBSET Keys
    <3> QED BY <1>6, <3>2, <3>3, <3>4, <3>5
  <2>2. CASE ~Full
    <3>1. cache' = cache /\ evictions' = evictions
      BY <2>2 DEF Evict
    <3>2. Len(cache) < MaxSize
      BY <1>0, <2>2 DEF Full
    <3>3. evictions' = [j \in Keys |-> IF j \in {} THEN evictions[j] + 1 ELSE evictions[j]]
      BY <1>0, <3>1
    <3> WITNESS {} \in SUBSET Keys
    <3> QED BY <1>0, <1>6, <3>1, <3>2, <3>3
  <2> QED BY <2>1, <2>2
<1>8. evictions' \in [Keys -> Nat] /\ compiles' \in [Keys -> Nat]
  BY <1>0, <1>7
<1>9. /\ TypeOK' /\ thread'[t] = r /\ r.schema # Empty
      /\ \A u \in Threads : u # t => thread'[u].pc \notin Critical /\ thread'[u] = thread[u]
      /\ \A j : Pending(j)' <=> r.pc \in {"evict", "insert"} /\ r.got = j
  BY <1>0, <1>4, <1>5, <1>7, <1>8, InsideStep
<1>10. Resident' = Resident \ E
  BY <1>7 DEF Resident, Elems
<1>11. BoundedCache'
  <2>1. PICK q \in Seq(Keys) : q = cache'
    BY <1>7
  <2>2. Len(q) \in Nat /\ Len(q) < MaxSize /\ Distinct(q)
    BY <1>7, <2>1
  <2>3. Len(q) <= MaxSize /\ \A i, j \in 1 .. Len(q) : q[i] = q[j] => i = j
    BY <1>0, <2>2 DEF Distinct
  <2> QED BY <2>1, <2>3 DEF BoundedCache
<1>12. Inside'
  <2>1. k \notin Resident' /\ Len(cache') < MaxSize
    BY <1>2, <1>7, <1>10
  <2>2. ASSUME NEW u \in Threads, u # t
        PROVE  /\ thread'[u].schema = Empty => thread'[u].pc = "idle"
               /\ thread'[u].pc \notin {"compile", "evict", "insert"}
    BY <1>9, <2>2 DEF IInv, Inside, Critical
  <2>3. /\ thread'[t].schema # Empty /\ Key[thread'[t].schema] = k /\ thread'[t].got = k
    BY <1>1, <1>4, <1>9
  <2> QED BY <2>1, <2>2, <2>3 DEF Inside
<1>13. ASSUME NEW j \in Keys
       PROVE  /\ j \in Resident' => compiles'[j] = evictions'[j] + 1
              /\ Pending(j)' => compiles'[j] = evictions'[j] + 1
              /\ j \notin Resident' /\ ~Pending(j)' => compiles'[j] = evictions'[j]
  <2>1. /\ j \in Resident => compiles[j] = evictions[j] + 1
        /\ j = k => compiles[j] = evictions[j] + 1
        /\ j \notin Resident /\ j # k => compiles[j] = evictions[j]
    BY <1>2 DEF IInv, Accounted
  <2>2. Pending(j)' <=> j = k
    BY <1>4, <1>9
  <2>3. evictions'[j] = IF j \in E THEN evictions[j] + 1 ELSE evictions[j]
    BY <1>7
  <2> QED BY <1>0, <1>2, <1>7, <1>10, <2>1, <2>2, <2>3
<1>14. Accounted'
  BY <1>13 DEF Accounted
<1> QED BY <1>9, <1>11, <1>12, <1>14 DEF IInv

(* The insertion turns the pending key into a resident one.                *)
LEMMA InsertPreserves ==
  ASSUME IInv, NEW t \in Threads, Insert(t)
  PROVE  IInv'
<1>0. /\ thread \in [Threads -> ThreadType] /\ TypeOK /\ thread[t].pc = "insert"
      /\ thread[t].pc \in Critical /\ UNCHANGED <<lock, calls, compiles, evictions>>
      /\ cache \in Seq(Keys) /\ Len(cache) \in Nat /\ Len(cache) < MaxSize
      /\ evictions \in [Keys -> Nat] /\ compiles \in [Keys -> Nat]
      /\ thread[t].schema # Empty /\ MaxSize \in Nat
  BY TypeFacts, CacheAssumption DEF IInv, TypeOK, Insert, Critical, Inside, historyVars
<1>1. PICK k \in Keys : k = Key[thread[t].schema] /\ k = thread[t].got
  BY <1>0, KeyFacts DEF ThreadType, IInv, Inside
<1>2. k \notin Resident /\ (\A j : Pending(j) <=> j = k)
  BY <1>0, <1>1, PendingFacts DEF IInv, Inside
<1>3. PICK r : r = [thread[t] EXCEPT !.pc = "release"]
  OBVIOUS
<1>4. /\ r \in ThreadType /\ r.pc = "release" /\ r.pc \in Critical
      /\ r.schema = thread[t].schema
  BY <1>0, <1>3 DEF ThreadType, Critical
<1>5. thread' = [thread EXCEPT ![t] = r]
  BY <1>0, <1>3 DEF Insert, Goto
<1>6. Resident = Elems(cache) /\ Distinct(cache)
  BY DEF IInv, Resident, Elems, Distinct, BoundedCache
<1>7. PICK q \in Seq(Keys) : /\ q = cache' /\ Len(q) = Len(cache) + 1 /\ Distinct(q)
                             /\ Elems(q) = Resident \cup {k}
  <2>1. cache' = Append(cache, k)
    BY <1>1, <1>2 DEF Insert
  <2>2. /\ Append(cache, k) \in Seq(Keys) /\ Len(Append(cache, k)) = Len(cache) + 1
        /\ Distinct(Append(cache, k)) /\ Elems(Append(cache, k)) = Elems(cache) \cup {k}
    BY <1>0, <1>2, <1>6, AppendFacts
  <2> QED BY <1>6, <2>1, <2>2
<1>8. evictions' \in [Keys -> Nat] /\ compiles' \in [Keys -> Nat] /\ cache' \in Seq(Keys)
  BY <1>0, <1>7
<1>9. /\ TypeOK' /\ thread'[t] = r /\ r.schema # Empty
      /\ \A u \in Threads : u # t => thread'[u].pc \notin Critical /\ thread'[u] = thread[u]
      /\ \A j : Pending(j)' <=> r.pc \in {"evict", "insert"} /\ r.got = j
  BY <1>0, <1>4, <1>5, <1>8, InsideStep
<1>10. Resident' = Resident \cup {k}
  BY <1>7 DEF Resident, Elems
<1>11. BoundedCache'
  <2>1. Len(q) <= MaxSize /\ \A i, j \in 1 .. Len(q) : q[i] = q[j] => i = j
    BY <1>0, <1>7 DEF Distinct
  <2> QED BY <1>7, <2>1 DEF BoundedCache
<1>12. Inside'
  <2>1. ASSUME NEW u \in Threads, u # t
        PROVE  /\ thread'[u].schema = Empty => thread'[u].pc = "idle"
               /\ thread'[u].pc \notin {"compile", "evict", "insert"}
    BY <1>9, <2>1 DEF IInv, Inside, Critical
  <2>2. thread'[t].schema # Empty /\ thread'[t].pc = "release"
    BY <1>4, <1>9
  <2> QED BY <2>1, <2>2 DEF Inside
<1>13. ASSUME NEW j \in Keys
       PROVE  /\ j \in Resident' => compiles'[j] = evictions'[j] + 1
              /\ Pending(j)' => compiles'[j] = evictions'[j] + 1
              /\ j \notin Resident' /\ ~Pending(j)' => compiles'[j] = evictions'[j]
  <2>1. /\ j \in Resident \cup {k} => compiles[j] = evictions[j] + 1
        /\ j \notin Resident \cup {k} => compiles[j] = evictions[j]
    BY <1>2 DEF IInv, Accounted
  <2>2. ~Pending(j)'
    BY <1>4, <1>9
  <2> QED BY <1>0, <1>10, <2>1, <2>2
<1>14. Accounted'
  BY <1>13 DEF Accounted
<1> QED BY <1>9, <1>11, <1>12, <1>14 DEF IInv

-----------------------------------------------------------------------------
(* Every step of every thread preserves the inductive invariant.           *)
LEMMA NextInv == IInv /\ [Next]_vars => IInv'
<1> SUFFICES ASSUME IInv, [Next]_vars PROVE IInv'
  OBVIOUS
<1>1. CASE UNCHANGED vars
  BY <1>1 DEF vars, IInv, TypeOK, BoundedCache, Inside, Accounted, Pending, Resident
<1>2. ASSUME NEW t \in Threads,
             NEW op \in Ops, NEW s \in Schemas, NEW d \in Data, Call(t, op, s, d)
      PROVE  IInv'
  BY <1>2, CallPreserves
<1>3. ASSUME NEW t \in Threads, Step(t)
      PROVE  IInv'
  BY <1>3, OutsidePreserves, RecheckPreserves, CompilePreserves, EvictPreserves,
     InsertPreserves, ReleasePreserves DEF Step
<1> QED BY <1>1, <1>2, <1>3 DEF Next

(* The inductive invariant holds in every behaviour of the cache.          *)
THEOREM Invariance == Spec => []IInv
BY InitInv, NextInv, PTL DEF Spec

(* Every variable keeps its type and the critical section of               *)
(* get_compiled_validator has at most one thread.                          *)
THEOREM TypeCorrect == Spec => []TypeOK
<1>1. IInv => TypeOK
  BY DEF IInv
<1> QED BY <1>1, Invariance, PTL

(* The dict never outgrows _MAX_VALIDATOR_CACHE_SIZE and holds no key      *)
(* twice, for any number of threads.                                       *)
THEOREM CacheIsBounded == Spec => []BoundedCache
<1>1. IInv => BoundedCache
  BY DEF IInv
<1> QED BY <1>1, Invariance, PTL

(* A schema is compiled once per residence of its validator in the cache.  *)
THEOREM CompiledOnce == Spec => []CompiledOncePerResidence
<1>1. IInv => CompiledOncePerResidence
  <2> SUFFICES ASSUME IInv, NEW k \in Keys PROVE compiles[k] <= evictions[k] + 1
    BY DEF CompiledOncePerResidence
  <2>1. compiles[k] \in Nat /\ evictions[k] \in Nat
    BY DEF IInv, TypeOK
  <2>2. compiles[k] = evictions[k] + 1 \/ compiles[k] = evictions[k]
    BY DEF IInv, Accounted
  <2> QED BY <2>1, <2>2
<1> QED BY <1>1, Invariance, PTL

-----------------------------------------------------------------------------
(* The verdicts.                                                           *)

(* The verdict on the data of call c is the right one.                     *)
Judged(c) ==
  c.result = "valid" <=>
    c.schema = Empty \/ (c.schema \notin Bad /\ c.data \in Valid[Key[c.schema]])

(* What a call has in hand on its way to a verdict: nothing before the     *)
(* second look or the compilation, and when it leaves the lock the         *)
(* validator of its own schema, or none if the schema cannot be compiled.  *)
Honest(c) ==
  /\ c.pc \in {"lookup", "waiting", "recheck", "compile"} => c.got = NoValidator
  /\ c.pc \in {"evict", "insert"} => c.schema \notin Bad
  /\ c.pc = "release" => c.got = IF c.schema \in Bad THEN NoValidator ELSE Key[c.schema]
  /\ c.pc = "idle" /\ c.op # "get" => Judged(c)

(* No validator in the cache belongs to a schema that cannot be compiled.  *)
Compilable == \A s \in Bad : Key[s] \notin Resident

VInv == IInv /\ Compilable /\ \A t \in Threads : Honest(thread[t])

(* A key names the validator of the schemas that share it.                 *)
LEMMA NoKeyFacts == NoValidator \notin Keys
BY CacheAssumption DEF Keys

(* The caller is given the validator of its own schema, or none because    *)
(* the schema cannot be compiled: what it makes of it is right.            *)
LEMMA ReturnsHonest ==
  ASSUME TypeOK, NEW t \in Threads, thread[t].schema # Empty,
         NEW v, v = IF thread[t].schema \in Bad THEN NoValidator ELSE Key[thread[t].schema]
  PROVE  Honest(Returns(t, v))
<1>1. thread[t] \in ThreadType /\ thread[t].schema \in Schemas
  BY TypeFacts DEF ThreadType
<1>2. thread[t].schema \notin Bad => v \in Keys /\ v # NoValidator
  BY <1>1, NoKeyFacts, KeyFacts
<1>3. CASE thread[t].op = "get"
  <2>1. Returns(t, v) = Finish(t, v)
    BY <1>3 DEF Returns
  <2> QED BY <1>1, <1>3, <2>1 DEF Finish, ThreadType, Honest
<1>4. CASE thread[t].op # "get" /\ thread[t].schema \notin Bad
  <2>1. Returns(t, v) = Finish(t, Verdict(v, thread[t].data))
    BY <1>2, <1>4 DEF Returns
  <2>2. Judged(Finish(t, Verdict(v, thread[t].data)))
    BY <1>1, <1>4 DEF Finish, ThreadType, Judged, Verdict
  <2> QED BY <1>1, <2>1, <2>2 DEF Finish, ThreadType, Honest
<1>5. CASE thread[t].op = "data" /\ thread[t].schema \in Bad
  <2>1. Returns(t, v) = Finish(t, "invalid")
    BY <1>5 DEF Returns
  <2>2. Judged(Finish(t, "invalid"))
    BY <1>1, <1>5 DEF Finish, ThreadType, Judged
  <2> QED BY <1>1, <2>1, <2>2 DEF Finish, ThreadType, Honest
<1>6. CASE thread[t].op = "params" /\ thread[t].schema \in Bad
  <2>1. Returns(t, v) = [thread[t] EXCEPT !.op = "data", !.pc = "lookup", !.got = NoValidator]
    BY <1>6 DEF Returns
  <2> QED BY <1>1, <2>1 DEF ThreadType, Honest
<1> QED BY <1>1, <1>3, <1>4, <1>5, <1>6 DEF ThreadType, Ops

(* A step that leaves its thread honest and adds at most a validator that  *)
(* was compiled to the cache.                                              *)
LEMMA HonestStep ==
  ASSUME VInv, IInv', NEW t \in Threads, NEW s, Honest(s),
         thread' = [thread EXCEPT ![t] = s],
         \A k \in Resident' : k \in Resident \/ \E b \in Schemas \ Bad : k = Key[b]
  PROVE  VInv'
<1>1. \A u \in Threads : thread'[u] = s \/ thread'[u] = thread[u]
  BY TypeFacts DEF VInv, IInv
<1>2. \A u \in Threads : Honest(thread'[u])
  BY <1>1 DEF VInv
<1>3. Compilable'
  BY CacheAssumption DEF VInv, Compilable
<1> QED BY <1>2, <1>3 DEF VInv, Honest, Judged

(* Every step of a call keeps it.                                          *)
LEMMA VerdictsKept ==
  ASSUME VInv, IInv', NEW t \in Threads,
         (\E op \in Ops, s \in Schemas, d \in Data : Call(t, op, s, d)) \/ Step(t)
  PROVE  VInv'
<1>0. /\ IInv /\ TypeOK /\ Compilable /\ Honest(thread[t])
      /\ thread[t] \in ThreadType /\ thread[t].schema \in Schemas
      /\ thread \in [Threads -> ThreadType]
      /\ thread[t].schema = Empty => thread[t].pc = "idle"
  BY TypeFacts DEF VInv, IInv, Inside, ThreadType
<1>1. ASSUME NEW op \in Ops, NEW b \in Schemas, NEW d \in Data, Call(t, op, b, d)
      PROVE  VInv'
  <2>1. PICK s : s = [pc |-> IF b = Empty THEN "idle" ELSE "lookup", op |-> op, schema |-> b,
                      data |-> d, got |-> NoValidator,
                      result |-> IF b # Empty THEN "none" ELSE IF op = "get" THEN NoValidator
                                                                            ELSE "valid"]
    OBVIOUS
  <2>2. Honest(s)
    BY <2>1 DEF Honest, Judged
  <2>3. thread' = [thread EXCEPT ![t] = s] /\ Resident' = Resident
    BY <1>1, <2>1 DEF Call, Resident
  <2> QED BY <2>2, <2>3, HonestStep
<1>2. ASSUME NEW s, Honest(s), thread' = [thread EXCEPT ![t] = s], cache' = cache
      PROVE  VInv'
  <2>1. Resident' = Resident
    BY <1>2 DEF Resident
  <2> QED BY <1>2, <2>1, HonestStep
<1>3. ASSUME NEW p \in {"waiting", "recheck", "compile"}, cache' = cache, Goto(t, p),
             thread[t].pc \in {"lookup", "waiting", "recheck"}
      PROVE  VInv'
  <2>1. PICK s : s = [thread[t] EXCEPT !.pc = p]
    OBVIOUS
  <2>2. s.pc = p /\ s.got = NoValidator
    BY <1>0, <1>3, <2>1 DEF Honest, ThreadType
  <2>3. Honest(s) /\ thread' = [thread EXCEPT ![t] = s]
    BY <1>0, <1>3, <2>1, <2>2 DEF Honest, Goto
  <2> QED BY <1>2, <1>3, <2>3
<1>4. ASSUME Lookup(t) PROVE VInv'
  <2>1. CASE Key[thread[t].schema] \in Resident
             /\ thread' = [thread EXCEPT ![t] = Returns(t, Key[thread[t].schema])]
    <3>1. thread[t].schema \notin Bad /\ thread[t].schema # Empty
      BY <1>0, <1>4, <2>1 DEF Compilable, Lookup
    <3>2. Honest(Returns(t, Key[thread[t].schema]))
      BY <1>0, <3>1, ReturnsHonest
    <3> QED BY <1>2, <1>4, <2>1, <3>2 DEF Lookup
  <2> QED BY <1>3, <1>4, <2>1 DEF Lookup
<1>5. ASSUME Acquire(t) PROVE VInv'
  BY <1>3, <1>5 DEF Acquire
<1>6. ASSUME Recheck(t) PROVE VInv'
  <2>1. CASE Key[thread[t].schema] \in Resident
             /\ thread' = [thread EXCEPT ![t] =
                             [@ EXCEPT !.pc = "release", !.got = Key[thread[t].schema]]]
    <3>1. thread[t].schema \notin Bad
      BY <1>0, <2>1 DEF Compilable
    <3>2. PICK s : s = [thread[t] EXCEPT !.pc = "release", !.got = Key[thread[t].schema]]
      OBVIOUS
    <3>3. Honest(s) /\ thread' = [thread EXCEPT ![t] = s]
      BY <1>0, <2>1, <3>1, <3>2 DEF Honest, ThreadType
    <3> QED BY <1>2, <1>6, <3>3 DEF Recheck
  <2> QED BY <1>3, <1>6, <2>1 DEF Recheck
<1>7. ASSUME Compile(t) PROVE VInv'
  <2>1. CASE thread[t].schema \notin Bad
             /\ thread' = [thread EXCEPT ![t] =
                             [@ EXCEPT !.pc = "evict", !.got = Key[thread[t].schema]]]
    <3>1. PICK s : s = [thread[t] EXCEPT !.pc = "evict", !.got = Key[thread[t].schema]]
      OBVIOUS
    <3>2. Honest(s) /\ thread' = [thread EXCEPT ![t] = s]
      BY <1>0, <2>1, <3>1 DEF Honest, ThreadType
    <3> QED BY <1>2, <1>7, <3>2 DEF Compile
  <2>2. CASE thread[t].schema \in Bad /\ Goto(t, "release")
    <3>1. PICK s : s = [thread[t] EXCEPT !.pc = "release"]
      OBVIOUS
    <3>2. s.got = NoValidator /\ s.pc = "release" /\ s.schema = thread[t].schema
      BY <1>0, <1>7, <3>1 DEF Honest, ThreadType, Compile
    <3>3. Honest(s) /\ thread' = [thread EXCEPT ![t] = s]
      BY <1>0, <2>2, <3>1, <3>2 DEF Honest, Goto
    <3> QED BY <1>2, <1>7, <3>3 DEF Compile
  <2> QED BY <1>7, <2>1, <2>2 DEF Compile
<1>8. ASSUME Evict(t) PROVE VInv'
  <2>1. PICK s : s = [thread[t] EXCEPT !.pc = "insert"]
    OBVIOUS
  <2>2. Honest(s) /\ thread' = [thread EXCEPT ![t] = s]
    BY <1>0, <1>8, <2>1 DEF Honest, ThreadType, Evict, Goto
  <2>3. Resident' \subseteq Resident
    <3>1. PICK q : q = cache
      OBVIOUS
    <3>2. q \in Seq(Keys) /\ Len(q) \in Nat
      BY <1>0, <3>1, TypeFacts
    <3>3. CASE cache' = Tail(cache) /\ Full
      <4>1. Len(q) > 0
        BY <3>1, <3>2, <3>3, CacheAssumption DEF Full
      <4>2. Len(Tail(q)) = Len(q) - 1 /\ \A i \in 1 .. Len(q) - 1 : Tail(q)[i] = q[i + 1]
        BY <3>2, <4>1
      <4>3. \A i \in 1 .. Len(Tail(q)) : Tail(q)[i] \in {q[j] : j \in 1 .. Len(q)}
        BY <3>2, <4>2
      <4> QED BY <3>1, <3>3, <4>3 DEF Resident
    <3> QED BY <1>8, <3>3 DEF Evict, Resident
  <2> QED BY <2>2, <2>3, HonestStep
<1>9. ASSUME Insert(t) PROVE VInv'
  <2>1. PICK s : s = [thread[t] EXCEPT !.pc = "release"]
    OBVIOUS
  <2>2. /\ thread[t].got = Key[thread[t].schema] /\ thread[t].schema \notin Bad
        /\ thread[t].got \in Keys
    BY <1>0, <1>9, KeyFacts DEF Insert, IInv, Inside, Honest
  <2>3. Honest(s) /\ thread' = [thread EXCEPT ![t] = s]
    BY <1>0, <1>9, <2>1, <2>2 DEF Honest, ThreadType, Insert, Goto
  <2>4. \A k \in Resident' : k \in Resident \/ k = thread[t].got
    <3>1. PICK q : q = cache
      OBVIOUS
    <3>2. PICK k \in Keys : k = thread[t].got
      BY <2>2
    <3>3. q \in Seq(Keys)
      BY <1>0, <3>1, TypeFacts
    <3>4. Elems(Append(q, k)) = Elems(q) \cup {k}
      <4>1. /\ Len(Append(q, k)) = Len(q) + 1 /\ Append(q, k)[Len(q) + 1] = k
            /\ \A i \in 1 .. Len(q) : Append(q, k)[i] = q[i]
        BY <3>2, <3>3
      <4> QED BY <3>3, <4>1 DEF Elems
    <3>5. Elems(cache') = Elems(cache) \/ Elems(cache') = Elems(Append(q, k))
      BY <1>9, <3>1, <3>2 DEF Insert
    <3>6. Resident' = Elems(cache') /\ Resident = Elems(cache)
      BY DEF Resident, Elems
    <3> QED BY <3>1, <3>2, <3>4, <3>5, <3>6
  <2> QED BY <1>0, <2>2, <2>3, <2>4, HonestStep
<1>10. ASSUME Release(t) PROVE VInv'
  <2>1. thread[t].schema # Empty
    BY <1>0, <1>10 DEF Release
  <2>2. Honest(Returns(t, thread[t].got))
    BY <1>0, <1>10, <2>1, ReturnsHonest DEF Release, Honest
  <2> QED BY <1>2, <1>10, <2>2 DEF Release
<1> QED BY <1>1, <1>4, <1>5, <1>6, <1>7, <1>8, <1>9, <1>10 DEF Step

(* The verdicts of validate_data and validate_params are right for any     *)
(* number of threads: neither a concurrent eviction nor a failed           *)
(* compilation nor another schema in the same place can turn one over.     *)
THEOREM VerdictsAreCorrect == Spec => []VerdictsCorrect
<1>1. Init => VInv
  <2> SUFFICES ASSUME Init PROVE VInv
    OBVIOUS
  <2>1. Resident = {}
    BY DEF Init, Resident
  <2>2. \A t \in Threads : thread[t].pc = "idle" /\ thread[t].op = "get"
    <3>1. PICK d \in Data :
            thread = [t \in Threads |->
                        [pc |-> "idle", op |-> "get", schema |-> Empty, data |-> d,
                         got |-> NoValidator, result |-> "none"]]
      BY DEF Init
    <3> QED BY <3>1
  <2> QED BY <2>1, <2>2, InitInv DEF VInv, Compilable, Honest
<1>2. VInv /\ [Next]_vars => VInv'
  <2> SUFFICES ASSUME VInv, [Next]_vars PROVE VInv'
    OBVIOUS
  <2>1. IInv'
    BY NextInv DEF VInv
  <2>2. CASE UNCHANGED vars
    BY <2>1, <2>2 DEF vars, VInv, Compilable, Resident, Honest, Judged
  <2> QED BY <2>1, <2>2, VerdictsKept DEF Next
<1>3. VInv => VerdictsCorrect
  BY DEF VInv, Honest, Judged, VerdictsCorrect
<1> QED BY <1>1, <1>2, <1>3, PTL DEF Spec
=============================================================================
