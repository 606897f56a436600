---------------------------- MODULE ValidatorCache --------------------------
(***************************************************************************)
(* The cache of compiled JSON schema validators (src/rxon/schema.py,       *)
(* get_compiled_validator) and its callers validate_data, validate_params  *)
(* and the validator properties of SkillInfo, run by several threads.      *)
(*                                                                         *)
(* A thread reads the dict without the lock, takes the lock on a miss,     *)
(* reads again, compiles, evicts the oldest entry when the dict is full    *)
(* and inserts.  Each of these is a step of its own: other threads read    *)
(* the dict in between.  The dict is the sequence of its keys in insertion *)
(* order; a validator is named by the key it was compiled for.  What a     *)
(* validator says of data is the set Valid[key] of the data it accepts.    *)
(***************************************************************************)
EXTENDS Integers, Sequences

CONSTANTS
  Threads,
  Schemas,      \* the schemas that occur
  Empty,        \* the schema that is None or {}
  Key,          \* schema_key: the canonical JSON of each schema
  Bad,          \* the schemas fastjsonschema cannot compile
  Data,         \* the data to validate
  Valid,        \* the data each key's validator accepts
  MaxSize,      \* _MAX_VALIDATOR_CACHE_SIZE
  MaxCalls,     \* bound: the calls that are ever made
  NoThread, NoValidator

Keys == {Key[s] : s \in Schemas \ {Empty}}

ASSUME CacheAssumption ==
  /\ Empty \in Schemas
  /\ Key \in [Schemas -> Keys \cup {NoValidator}]
  /\ \A s \in Schemas : Key[s] = NoValidator <=> s = Empty
  /\ Bad \subseteq Schemas \ {Empty}
  /\ \A s \in Bad, r \in Schemas : Key[s] = Key[r] => r \in Bad
  /\ Valid \in [Keys -> SUBSET Data]
  /\ MaxSize \in Nat \ {0} /\ MaxCalls \in Nat
  /\ NoThread \notin Threads

VARIABLES
  cache,        \* _validators_cache: its keys, oldest first
  lock,         \* _cache_lock: the thread that holds it
  thread,       \* the call each thread is in
  calls,        \* the number of calls made
  compiles,     \* per key, how often it was compiled with success
  evictions     \* per key, how often it was evicted

vars == <<cache, lock, thread, calls, compiles, evictions>>
historyVars == <<calls, compiles, evictions>>

Results == {"none", "valid", "invalid", NoValidator} \cup Keys
Ops     == {"get", "data", "params"}

Resident == {cache[i] : i \in 1 .. Len(cache)}

(* Every variable keeps its type, and only the thread that holds the lock  *)
(* is in the critical section of get_compiled_validator.                   *)
TypeOK ==
  /\ cache \in Seq(Keys)
  /\ lock \in Threads \cup {NoThread}
  /\ thread \in [Threads ->
       [pc : {"idle", "lookup", "waiting", "recheck", "compile", "evict", "insert", "release"},
        op : Ops, schema : Schemas, data : Data, got : Keys \cup {NoValidator},
        result : Results]]
  /\ calls \in 0 .. MaxCalls
  /\ compiles \in [Keys -> Nat] /\ evictions \in [Keys -> Nat]
  /\ \A t \in Threads :
       thread[t].pc \in {"recheck", "compile", "evict", "insert", "release"} <=> lock = t

Init ==
  /\ cache = <<>>
  /\ lock = NoThread
  /\ \E d \in Data :
       thread = [t \in Threads |-> [pc |-> "idle", op |-> "get", schema |-> Empty, data |-> d,
                                    got |-> NoValidator, result |-> "none"]]
  /\ calls = 0
  /\ compiles = [k \in Keys |-> 0] /\ evictions = [k \in Keys |-> 0]

-----------------------------------------------------------------------------
Goto(t, pc) == thread' = [thread EXCEPT ![t].pc = pc]

Finish(t, r) == [thread[t] EXCEPT !.pc = "idle", !.result = r]

(* validator(data), the exception of the validator included.               *)
Verdict(k, d) == IF d \in Valid[k] THEN "valid" ELSE "invalid"

ReturnsFailOpen(t, v) ==    \* mutant: without a validator nothing is checked
  IF thread[t].op = "get" THEN Finish(t, v)
  ELSE Finish(t, IF v = NoValidator THEN "valid" ELSE Verdict(v, thread[t].data))

(* What the caller makes of the value v of get_compiled_validator.         *)
(* validate_params falls back on validate_data, which asks again.          *)
Returns(t, v) ==
  CASE thread[t].op = "get" -> Finish(t, v)
    [] thread[t].op # "get" /\ v # NoValidator -> Finish(t, Verdict(v, thread[t].data))
    [] thread[t].op = "data" /\ v = NoValidator -> Finish(t, "invalid")
    [] thread[t].op = "params" /\ v = NoValidator ->
         [thread[t] EXCEPT !.op = "data", !.pc = "lookup", !.got = NoValidator]

-----------------------------------------------------------------------------
(* A call.  An empty schema has no validator and accepts everything.       *)
Call(t, op, s, d) ==
  /\ thread[t].pc = "idle"
  /\ calls < MaxCalls
  /\ calls' = calls + 1
  /\ thread' = [thread EXCEPT ![t] =
       [pc |-> IF s = Empty THEN "idle" ELSE "lookup", op |-> op, schema |-> s, data |-> d,
        got |-> NoValidator,
        result |-> IF s # Empty THEN "none" ELSE IF op = "get" THEN NoValidator ELSE "valid"]]
  /\ UNCHANGED <<cache, lock, compiles, evictions>>

(* _validators_cache.get without the lock.                                 *)
Lookup(t) ==
  LET k == Key[thread[t].schema] IN
  /\ thread[t].pc = "lookup"
  /\ \/ /\ k \in Resident
        /\ thread' = [thread EXCEPT ![t] = Returns(t, k)]
     \/ /\ k \notin Resident
        /\ Goto(t, "waiting")
  /\ UNCHANGED <<cache, lock, historyVars>>

AcquireUnlocked(t) ==       \* mutant: the critical section is not guarded
  /\ thread[t].pc = "waiting"
  /\ lock' = t
  /\ Goto(t, "recheck")
  /\ UNCHANGED <<cache, historyVars>>

Acquire(t) ==
  /\ thread[t].pc = "waiting"
  /\ lock = NoThread
  /\ lock' = t
  /\ Goto(t, "recheck")
  /\ UNCHANGED <<cache, historyVars>>

RecheckSkipped(t) ==        \* mutant: the second look into the cache is missing
  /\ thread[t].pc = "recheck"
  /\ Goto(t, "compile")
  /\ UNCHANGED <<cache, lock, historyVars>>

(* The second look, with the lock held.                                    *)
Recheck(t) ==
  LET k == Key[thread[t].schema] IN
  /\ thread[t].pc = "recheck"
  /\ \/ /\ k \in Resident
        /\ thread' = [thread EXCEPT ![t] = [@ EXCEPT !.pc = "release", !.got = k]]
     \/ /\ k \notin Resident
        /\ Goto(t, "compile")
  /\ UNCHANGED <<cache, lock, historyVars>>

CompileLeavingLock(t) ==    \* mutant: the early return forgets the lock
  LET k == Key[thread[t].schema] IN
  /\ thread[t].pc = "compile"
  /\ \/ /\ thread[t].schema \notin Bad
        /\ compiles' = [compiles EXCEPT ![k] = @ + 1]
        /\ thread' = [thread EXCEPT ![t] = [@ EXCEPT !.pc = "evict", !.got = k]]
     \/ /\ thread[t].schema \in Bad
        /\ thread' = [thread EXCEPT ![t] = Returns(t, NoValidator)]
        /\ UNCHANGED compiles
  /\ UNCHANGED <<cache, lock, calls, evictions>>

(* compile_schema; a failure is not cached and returns None.               *)
Compile(t) ==
  LET k == Key[thread[t].schema] IN
  /\ thread[t].pc = "compile"
  /\ \/ /\ thread[t].schema \notin Bad
        /\ compiles' = [compiles EXCEPT ![k] = @ + 1]
        /\ thread' = [thread EXCEPT ![t] = [@ EXCEPT !.pc = "evict", !.got = k]]
     \/ /\ thread[t].schema \in Bad
        /\ Goto(t, "release")
        /\ UNCHANGED compiles
  /\ UNCHANGED <<cache, lock, calls, evictions>>

FullTooLate == Len(cache) > MaxSize     \* mutant: off by one

Full == Len(cache) >= MaxSize

(* A full dict loses its first key, the one inserted longest ago.          *)
Evict(t) ==
  /\ thread[t].pc = "evict"
  /\ \/ /\ Full
        /\ cache' = Tail(cache)
        /\ evictions' = [evictions EXCEPT ![Head(cache)] = @ + 1]
     \/ /\ ~Full
        /\ UNCHANGED <<cache, evictions>>
  /\ Goto(t, "insert")
  /\ UNCHANGED <<lock, calls, compiles>>

(* The assignment _validators_cache[schema_key] = validator: a key that is *)
(* already there keeps its place.                                          *)
Insert(t) ==
  LET k == thread[t].got IN
  /\ thread[t].pc = "insert"
  /\ cache' = IF k \in Resident THEN cache ELSE Append(cache, k)
  /\ Goto(t, "release")
  /\ UNCHANGED <<lock, historyVars>>

(* The with statement ends, also when the compilation failed.              *)
Release(t) ==
  /\ thread[t].pc = "release"
  /\ lock' = NoThread
  /\ thread' = [thread EXCEPT ![t] = Returns(t, thread[t].got)]
  /\ UNCHANGED <<cache, historyVars>>

Step(t) == Lookup(t) \/ Acquire(t) \/ Recheck(t) \/ Compile(t) \/ Evict(t) \/ Insert(t) \/ Release(t)

Next == \E t \in Threads :
          \/ \E op \in Ops, s \in Schemas, d \in Data : Call(t, op, s, d)
          \/ Step(t)

(* A thread that can run is eventually scheduled.  Calls are bounded, so a *)
(* waiting thread gets the lock although threading.Lock is not fair.       *)
Fairness == \A t \in Threads : WF_vars(Step(t))

Spec     == Init /\ [][Next]_vars
FairSpec == Spec /\ Fairness

-----------------------------------------------------------------------------
(* The dict never holds more than its limit, between the eviction and the  *)
(* insertion of concurrent calls either, and holds no key twice.           *)
BoundedCache ==
  /\ Len(cache) <= MaxSize
  /\ \A i, j \in 1 .. Len(cache) : cache[i] = cache[j] => i = j

(* A schema is compiled again only after its validator was evicted, however *)
(* many threads miss it at the same time.                                  *)
CompiledOncePerResidence == \A k \in Keys : compiles[k] <= evictions[k] + 1

(* A finished call of validate_data or validate_params has accepted the    *)
(* data exactly when the schema is empty or compiles to a validator that   *)
(* accepts it: a schema that cannot be compiled lets nothing pass, and no  *)
(* thread is answered by the validator of another schema.                  *)
VerdictsCorrect ==
  \A t \in Threads : LET c == thread[t] IN
    c.pc = "idle" /\ c.op # "get" =>
      (c.result = "valid" <=>
         c.schema = Empty \/ (c.schema \notin Bad /\ c.data \in Valid[Key[c.schema]]))

(* Every call returns: a failed compilation leaves the lock free.          *)
CallsReturn == \A t \in Threads : thread[t].pc # "idle" ~> thread[t].pc = "idle"
=============================================================================
