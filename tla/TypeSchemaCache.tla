--------------------------- MODULE TypeSchemaCache --------------------------
(***************************************************************************)
(* The cache of JSON schemas per Python type (src/rxon/schema.py,          *)
(* extract_json_schema), used by several threads.                          *)
(*                                                                         *)
(* A thread looks a type up without the lock, extracts the schema without  *)
(* the lock on a miss, which calls extract_json_schema again for every     *)
(* nested Struct or dataclass, and takes the lock only to insert.  So two  *)
(* threads can extract the same type at the same time; the one that comes  *)
(* second to the lock does not replace the entry of the first.             *)
(*                                                                         *)
(* A schema is the identity of the dict object that holds it: objects are  *)
(* numbered as they are made, and made[n] says of which type object n is   *)
(* the schema and whether an extractor made it.  A type whose extraction   *)
(* gives None is never cached; no Struct or dataclass is such a type.      *)
(* Calls with None or a dict return at once and are left out.              *)
(*                                                                         *)
(* A type may contain itself: then the calls nest until Python runs out of *)
(* stack.  A RecursionError leaves every call, but for one that hits       *)
(* get_type_hints of a dataclass: that is swallowed, and the dataclass     *)
(* gets a schema made of its raw annotations, in which text stands for     *)
(* the string type.  So does one that names a type which is not defined    *)
(* yet.  Such a schema is truncated (not whole), and so is one that has it *)
(* in a field.  Where in a call the stack ends depends on what is on it    *)
(* below, and is left open.                                                *)
(***************************************************************************)
EXTENDS Integers, Sequences

CONSTANTS
  Threads,
  Types,          \* the types that occur
  Nested,         \* the Structs and dataclasses among the fields of each
  Opaque,         \* the types whose extraction gives None
  Generic,        \* the types that are no classes, list[item] for example
  Dataclasses,    \* the types that are dataclasses, the others among Nested being Structs
  Raw,            \* the nested types a dataclass names other than by text
  Forward,        \* the dataclasses that may name a type before it is defined
  MaxSize,        \* _MAX_TYPE_SCHEMA_CACHE_SIZE
  Room,           \* the nesting of calls that Python has room for, get_type_hints included
  MaxStack,       \* bound: the nesting of calls that it may still have room for
  NoThread

ASSUME TypeCacheAssumption ==
  /\ Nested \in [Types -> Seq(Types)]
  /\ Opaque \subseteq Types /\ Generic \subseteq Types
  /\ \A ty \in Types : \A i \in 1 .. Len(Nested[ty]) : Nested[ty][i] \notin Opaque \cup Generic
  /\ Dataclasses \subseteq Types \ (Generic \cup Opaque)
  /\ Forward \subseteq Dataclasses
  /\ Raw \in [Types -> Seq(Types)]
  /\ \A ty \in Types : \A i \in 1 .. Len(Raw[ty]) :
       \E k \in 1 .. Len(Nested[ty]) : Raw[ty][i] = Nested[ty][k]
  /\ MaxSize \in Nat \ {0} /\ Room \in Nat \ {0} /\ MaxStack \in Nat /\ Room < MaxStack
  /\ NoThread \notin Threads

\* Does the type contain itself, or one that does?
Endless == [ty \in Types |->
  \E S \in SUBSET Types :
    ty \in S /\ \A x \in S : \E i \in 1 .. Len(Nested[x]) : Nested[x][i] \in S]

\* There is room for the calls of every type that does not contain itself.
ASSUME DepthAssumption ==
  \A q \in [1 .. Room + 1 -> Types] :
    (\A i \in 1 .. Room : \E k \in 1 .. Len(Nested[q[i]]) : q[i + 1] = Nested[q[i]][k])
      => Endless[q[1]]

\* A class whose extraction gives None does not contain itself.
ASSUME OpaqueAssumption == \A ty \in Opaque : Endless[ty] => ty \in Generic

VARIABLES
  defined,      \* every name used in an annotation is defined by now: not up to the cache
  cache,        \* _type_schema_cache: its entries in insertion order
  lock,         \* _type_schema_lock: the thread that holds it
  stack,        \* per thread, the calls it is in, the innermost last
  made,         \* the schema objects made so far
  ret           \* per thread, what its last call from outside gave

vars == <<cache, lock, stack, made, ret>>

NoSchema   == 0       \* None
Recursion  == -1      \* RecursionError

Frame == [pc : {"lookup", "extract", "raw", "lock", "check", "evict", "store"},
          type : Types, ext : BOOLEAN, nth : Nat, obj : Nat, whole : BOOLEAN]

Resident == {cache[i].type : i \in 1 .. Len(cache)}

(* Every variable keeps its type; a thread is past the lock exactly while  *)
(* it holds it.                                                            *)
TypeOK ==
  /\ cache \in Seq([type : Types, obj : Nat])
  /\ lock \in Threads \cup {NoThread}
  /\ stack \in [Threads -> Seq(Frame)]
  /\ \A t \in Threads : Len(stack[t]) <= MaxStack
  /\ made \in Seq([type : Types, custom : BOOLEAN, whole : BOOLEAN])
  /\ ret \in [Threads -> Recursion .. Len(made)]
  /\ \A t \in Threads :
       lock = t <=> \E i \in 1 .. Len(stack[t]) : stack[t][i].pc \in {"check", "evict", "store"}

Init ==
  /\ cache = <<>>
  /\ lock = NoThread
  /\ stack = [t \in Threads |-> <<>>]
  /\ made = <<>>
  /\ ret = [t \in Threads |-> NoSchema]

-----------------------------------------------------------------------------
Top(t) == stack[t][Len(stack[t])]

At(t, pc) == stack[t] # <<>> /\ Top(t).pc = pc

SetTop(t, frame) == stack' = [stack EXCEPT ![t][Len(stack[t])] = frame]

Goto(t, pc) == SetTop(t, [Top(t) EXCEPT !.pc = pc])

CachedWithExtractor(ty, ext) == ty \notin Generic     \* mutant: the extractor is forgotten

(* use_cache                                                               *)
Cached(ty, ext) == ~ext /\ ty \notin Generic

NewFrame(ty, ext) ==
  [pc |-> IF Cached(ty, ext) THEN "lookup" ELSE "extract", type |-> ty, ext |-> ext,
   nth |-> 0, obj |-> NoSchema, whole |-> TRUE]

Enter(t, ty, ext) == stack' = [stack EXCEPT ![t] = Append(@, NewFrame(ty, ext))]

(* The calls that are left when the innermost one has returned: the schema *)
(* of the one below is no longer whole if what it got is not.              *)
Below(t, whole) ==
  LET n == Len(stack[t]) - 1
  IN [i \in 1 .. n |-> IF i = n THEN [stack[t][n] EXCEPT !.whole = @ /\ whole] ELSE stack[t][i]]

(* The innermost call returns o, an object that is whole or not.           *)
Return(t, o, whole) ==
  /\ stack' = [stack EXCEPT ![t] = Below(t, whole)]
  /\ ret' = IF Len(stack[t]) = 1 THEN [ret EXCEPT ![t] = o] ELSE ret

Extracting(t) == At(t, "extract") \/ At(t, "raw")

(* The types to extract, as far as they are known.                         *)
Fields(f) == IF f.pc = "raw" THEN Raw[f.type] ELSE Nested[f.type]

-----------------------------------------------------------------------------
(* A call from outside, with an extractor or without.                      *)
Call(t, ty, ext) ==
  /\ stack[t] = <<>>
  /\ Enter(t, ty, ext)
  /\ UNCHANGED <<cache, lock, made, ret>>

LookupLocks(t) ==       \* mutant: the lock is taken before the extraction
  /\ At(t, "lookup")
  /\ \/ \E i \in 1 .. Len(cache) :
          /\ cache[i].type = Top(t).type
          /\ Return(t, cache[i].obj, made[cache[i].obj].whole)
          /\ UNCHANGED lock
     \/ /\ Top(t).type \notin Resident
        /\ lock = NoThread /\ lock' = t
        /\ Goto(t, "extract")
        /\ UNCHANGED ret
  /\ UNCHANGED <<cache, made>>

Lookup(t) ==
  /\ At(t, "lookup")
  /\ \/ \E i \in 1 .. Len(cache) :
          /\ cache[i].type = Top(t).type
          /\ Return(t, cache[i].obj, made[cache[i].obj].whole)
     \/ /\ Top(t).type \notin Resident
        /\ Goto(t, "extract")
        /\ UNCHANGED ret
  /\ UNCHANGED <<cache, lock, made>>

(* The extractor knows a schema for the type.                              *)
Customise(t) ==
  LET f == Top(t) IN
  /\ At(t, "extract") /\ f.ext /\ f.nth = 0
  /\ made' = Append(made, [type |-> f.type, custom |-> TRUE, whole |-> TRUE])
  /\ IF Cached(f.type, f.ext)
     THEN SetTop(t, [f EXCEPT !.pc = "lock", !.obj = Len(made')]) /\ UNCHANGED ret
     ELSE Return(t, Len(made'), TRUE)
  /\ UNCHANGED <<cache, lock>>

HintsAlwaysFail(t) ==      \* mutant: the hints of every dataclass fail
  /\ At(t, "extract") /\ Top(t).nth = 0
  /\ Top(t).type \in Dataclasses
  /\ SetTop(t, [Top(t) EXCEPT !.pc = "raw", !.whole = FALSE])
  /\ UNCHANGED <<cache, lock, made, ret>>

(* get_type_hints of a dataclass has no room left, or does not find a      *)
(* name, and hints = {}.                                                   *)
HintsFail(t) ==
  /\ At(t, "extract") /\ Top(t).nth = 0
  /\ Top(t).type \in Dataclasses
  /\ Len(stack[t]) > Room \/ (Top(t).type \in Forward /\ ~defined)
  /\ SetTop(t, [Top(t) EXCEPT !.pc = "raw", !.whole = FALSE])
  /\ UNCHANGED <<cache, lock, made, ret>>

(* The walk over the field types finds a nested type, which is extracted by *)
(* a call of its own, without the extractor.                               *)
ExtractNested(t) ==
  LET f == Top(t) IN
  /\ Extracting(t)
  /\ f.nth < Len(Fields(f)) /\ Len(stack[t]) < MaxStack
  /\ stack' = [stack EXCEPT ![t] =
       Append([@ EXCEPT ![Len(@)] = [f EXCEPT !.nth = @ + 1]],
              NewFrame(Fields(f)[f.nth + 1], FALSE))]
  /\ UNCHANGED <<cache, lock, made, ret>>

OverflowCaught(t) ==      \* mutant: a nested type that fails counts as any object
  LET f == Top(t) IN
  /\ Extracting(t)
  /\ f.nth < Len(Fields(f)) /\ Len(stack[t]) > Room
  /\ SetTop(t, [f EXCEPT !.nth = @ + 1])
  /\ UNCHANGED <<cache, lock, made, ret>>

(* RecursionError leaves every call; only the extraction of what is no     *)
(* class turns it into None.                                               *)
Overflow(t) ==
  /\ Extracting(t) /\ Len(stack[t]) > Room
  /\ stack' = [stack EXCEPT ![t] = <<>>]
  /\ ret' = [ret EXCEPT ![t] = IF stack[t][1].type \in Generic THEN NoSchema ELSE Recursion]
  /\ UNCHANGED <<cache, lock, made>>

(* The schema is complete; None is not cached.                             *)
Extract(t) ==
  LET f == Top(t) IN
  /\ Extracting(t)
  /\ f.nth = Len(Fields(f))
  /\ \/ /\ f.type \in Opaque
        /\ Return(t, NoSchema, TRUE)
        /\ UNCHANGED made
     \/ /\ f.type \notin Opaque
        /\ made' = Append(made, [type |-> f.type, custom |-> FALSE, whole |-> f.whole])
        /\ \/ /\ Cached(f.type, f.ext)
              /\ SetTop(t, [f EXCEPT !.pc = "lock", !.obj = Len(made')])
              /\ UNCHANGED ret
           \/ /\ ~Cached(f.type, f.ext)
              /\ Return(t, Len(made'), f.whole)
  /\ UNCHANGED <<cache, lock>>

Acquire(t) ==
  /\ At(t, "lock")
  /\ lock = NoThread
  /\ lock' = t
  /\ Goto(t, "check")
  /\ UNCHANGED <<cache, made, ret>>

CheckSkipped(t) ==      \* mutant: the second look into the cache is missing
  /\ At(t, "check")
  /\ Goto(t, "evict")
  /\ UNCHANGED <<cache, lock, made, ret>>

(* if schema_type not in _type_schema_cache: else the lock is released and *)
(* the thread returns the object it made itself.                           *)
Check(t) ==
  /\ At(t, "check")
  /\ \/ /\ Top(t).type \in Resident
        /\ lock' = NoThread
        /\ Return(t, Top(t).obj, Top(t).whole)
     \/ /\ Top(t).type \notin Resident
        /\ Goto(t, "evict")
        /\ UNCHANGED <<lock, ret>>
  /\ UNCHANGED <<cache, made>>

FullTooLate == Len(cache) > MaxSize     \* mutant: off by one

Full == Len(cache) >= MaxSize

Evict(t) ==
  /\ At(t, "evict")
  /\ cache' = IF Full THEN Tail(cache) ELSE cache
  /\ Goto(t, "store")
  /\ UNCHANGED <<lock, made, ret>>

(* The assignment to the dict, the end of the with statement and the       *)
(* return.  An assignment to a key that is there replaces its value.       *)
Store(t) ==
  LET f == Top(t) IN
  /\ At(t, "store")
  /\ cache' = IF f.type \in Resident
              THEN [i \in 1 .. Len(cache) |->
                      IF cache[i].type = f.type THEN [cache[i] EXCEPT !.obj = f.obj] ELSE cache[i]]
              ELSE Append(cache, [type |-> f.type, obj |-> f.obj])
  /\ lock' = NoThread
  /\ Return(t, f.obj, f.whole)
  /\ UNCHANGED <<made>>

Step(t) ==
  \/ Lookup(t) \/ Customise(t) \/ HintsFail(t) \/ ExtractNested(t) \/ Overflow(t) \/ Extract(t)
  \/ Acquire(t) \/ Check(t) \/ Evict(t) \/ Store(t)

Next == \E t \in Threads : \/ \E ty \in Types, ext \in BOOLEAN : Call(t, ty, ext)
                           \/ Step(t)

Spec == Init /\ [][Next]_vars

-----------------------------------------------------------------------------
(* The dict never holds more than its limit, nor a type twice, nor the     *)
(* schema of another type, nor one that an extractor made.                 *)
BoundedTypeCache ==
  /\ Len(cache) <= MaxSize
  /\ \A i, j \in 1 .. Len(cache) : cache[i].type = cache[j].type => i = j
  /\ \A i \in 1 .. Len(cache) : LET o == made[cache[i].obj] IN
       o.type = cache[i].type /\ ~o.custom

\* Is the type in no type that contains itself?
Apart == [ty \in Types |->
  \E S \in SUBSET Types :
    ty \in S /\ \A x \in S : /\ ~Endless[x]
                            /\ \A y \in Types : \A i \in 1 .. Len(Nested[y]) :
                                 Nested[y][i] = x => y \in S]

\* Does the type contain no dataclass that a type that contains itself has,
\* and none that may be looked at too early?
Safe == [ty \in Types |->
  \E S \in SUBSET Types :
    ty \in S /\ \A x \in S : /\ x \in Dataclasses => Apart[x] /\ x \notin Forward
                            /\ \A i \in 1 .. Len(Nested[x]) : Nested[x][i] \in S]

(* What is in the cache is known for what it is: no type that contains     *)
(* itself has a whole schema, whatever threads, evictions and errors were  *)
(* on the way, and a schema is truncated only where a dataclass of a type  *)
(* that contains itself can be the reason, or one that was looked at too   *)
(* early.  So Structs that contain themselves are never cached, and leave  *)
(* nothing truncated behind.                                               *)
CompleteCached ==
  \A i \in 1 .. Len(cache) : LET o == made[cache[i].obj] IN
    /\ o.whole => ~Endless[cache[i].type]
    /\ Safe[cache[i].type] => o.whole

(* While a type stays in the cache its schema object is never replaced,    *)
(* although other threads may have extracted the type meanwhile.           *)
FirstObjectStays ==
  [][\A i \in 1 .. Len(cache), j \in 1 .. Len(cache') :
       cache[i].type = cache'[j].type => cache[i].obj = cache'[j].obj]_vars
=============================================================================
