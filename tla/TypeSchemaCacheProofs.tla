------------------------ MODULE TypeSchemaCacheProofs -----------------------
(***************************************************************************)
(* Proofs that the cache of type schemas stays within its limit, never     *)
(* replaces an entry, and holds truncated schemas only where it may, for   *)
(* any types (recursive ones too), threads and calls and any positive      *)
(* limit.                                                                  *)
(***************************************************************************)
EXTENDS TypeSchemaCache, TLAPS

Walking == {"extract", "raw"}
Past    == {"lock", "check", "evict", "store"}      \* the schema is made
Inside  == {"check", "evict", "store"}              \* the lock is held

Entry  == [type : Types, obj : Nat]
SchemaObject == [type : Types, custom : BOOLEAN, whole : BOOLEAN]

(* The object o may be the schema of ty.                                   *)
Sound(ty, o) ==
  /\ o.type = ty /\ ~o.custom /\ ty \notin Opaque
  /\ o.whole => ~Endless[ty]
  /\ Safe[ty] => o.whole

(* What a call f of a thread knows, the objects being m and the cache c.   *)
(* While a nested call g runs: g extracts the type f has come to.          *)
Linked(f, g) ==
  f.pc \in Walking /\ f.nth \in 1 .. Len(Fields(f)) /\ g.type = Fields(f)[f.nth]

(* If its schema is whole so far, then its first k nested types were found *)
(* in the hints, and none of them contains itself.                         *)
Passed(f, k) ==
  f.pc \notin Past =>
    /\ f.nth <= Len(Fields(f))
    /\ f.whole => f.pc # "raw" /\ \A j \in 1 .. k : ~Endless[Nested[f.type][j]]

(* Past the extraction, its object is what it should be; then it makes     *)
(* sure that the type is not in the cache and that there is a place.       *)
Made(f, m, c) ==
  /\ f.pc \in Past => /\ f.obj \in 1 .. Len(m)
                      /\ Sound(f.type, m[f.obj]) /\ m[f.obj].whole = f.whole
  /\ f.pc \in {"evict", "store"} => \A k \in 1 .. Len(c) : c[k].type # f.type
  /\ f.pc = "store" => Len(c) < MaxSize

(* What is truncated may be; a type apart is part only of types apart, and *)
(* so is the type of the outermost call g.                                 *)
Excused(f, g) ==
  /\ Safe[f.type] => f.whole
  /\ Apart[f.type] => Apart[g.type]

(* Only the outermost call has an extractor.                               *)
FrameGood(s, i, m, c) ==
  /\ i < Len(s) => Linked(s[i], s[i + 1]) /\ Passed(s[i], s[i].nth - 1)
  /\ i = Len(s) => Passed(s[i], s[i].nth)
  /\ Made(s[i], m, c) /\ Excused(s[i], s[1])
  /\ s[i].ext => i = 1

Good(s, m, c) == \A i \in 1 .. Len(s) : FrameGood(s, i, m, c)

(* The cache c is within its limit, and gives for a type a schema it may   *)
(* have.                                                                   *)
CacheGood(c, m) ==
  /\ Len(c) <= MaxSize
  /\ \A i, j \in 1 .. Len(c) : c[i].type = c[j].type => i = j
  /\ \A i \in 1 .. Len(c) : c[i].obj \in 1 .. Len(m) /\ Sound(c[i].type, m[c[i].obj])

IInv == TypeOK /\ CacheGood(cache, made) /\ \A t \in Threads : Good(stack[t], made, cache)

-----------------------------------------------------------------------------
(* Types.                                                                  *)

(* A type none of whose nested types contains itself does not, either.     *)
LEMMA CompleteType ==
  ASSUME NEW ty \in Types, \A j \in 1 .. Len(Nested[ty]) : ~Endless[Nested[ty][j]]
  PROVE  ~Endless[ty]
<1> SUFFICES ASSUME Endless[ty] PROVE FALSE
  OBVIOUS
<1>1. PICK S \in SUBSET Types :
        ty \in S /\ \A x \in S : \E i \in 1 .. Len(Nested[x]) : Nested[x][i] \in S
  BY DEF Endless
<1>2. PICK i \in 1 .. Len(Nested[ty]) : Nested[ty][i] \in S
  BY <1>1
<1>3. Endless[Nested[ty][i]]
  BY <1>1, <1>2 DEF Endless
<1> QED BY <1>2, <1>3

(* The nested types of a safe type are safe.                               *)
LEMMA SafeInside ==
  ASSUME NEW ty \in Types, NEW k \in 1 .. Len(Nested[ty]), Safe[ty]
  PROVE  Safe[Nested[ty][k]]
<1>1. PICK S \in SUBSET Types :
        ty \in S /\ \A x \in S : /\ x \in Dataclasses => Apart[x] /\ x \notin Forward
                                /\ \A i \in 1 .. Len(Nested[x]) : Nested[x][i] \in S
  BY DEF Safe
<1>2. Nested[ty][k] \in S
  BY <1>1
<1> QED BY <1>1, <1>2 DEF Safe

(* A type with a nested type apart is apart.                               *)
LEMMA ApartAround ==
  ASSUME NEW ty \in Types, NEW k \in 1 .. Len(Nested[ty]), Apart[Nested[ty][k]],
         Nested[ty][k] \in Types
  PROVE  Apart[ty]
<1>1. PICK S \in SUBSET Types :
        /\ Nested[ty][k] \in S
        /\ \A x \in S : /\ ~Endless[x]
                        /\ \A y \in Types : \A i \in 1 .. Len(Nested[y]) :
                             Nested[y][i] = x => y \in S
  BY DEF Apart
<1>2. ty \in S
  BY <1>1
<1> QED BY <1>1, <1>2 DEF Apart

(* A type apart does not contain itself.                                   *)
LEMMA ApartEnds ==
  ASSUME NEW ty \in Types, Apart[ty]
  PROVE  ~Endless[ty]
BY DEF Apart

(* A safe dataclass is apart.                                              *)
LEMMA SafeDataclass ==
  ASSUME NEW ty \in Types, Safe[ty], ty \in Dataclasses
  PROVE  Apart[ty] /\ ty \notin Forward
BY DEF Safe

(* The fields of a frame.                                                  *)
LEMMA FieldFacts ==
  ASSUME NEW f \in Frame
  PROVE  /\ f.type \in Types /\ f.nth \in Nat /\ f.whole \in BOOLEAN /\ f.ext \in BOOLEAN
         /\ f.obj \in Nat /\ Nested[f.type] \in Seq(Types) /\ Fields(f) \in Seq(Types)
         /\ Len(Fields(f)) \in Nat /\ Len(Nested[f.type]) \in Nat
         /\ \A i \in 1 .. Len(Fields(f)) :
              /\ Fields(f)[i] \in Types \ (Opaque \cup Generic)
              /\ \E k \in 1 .. Len(Nested[f.type]) : Fields(f)[i] = Nested[f.type][k]
<1>1. f.type \in Types /\ f.nth \in Nat /\ f.whole \in BOOLEAN /\ f.ext \in BOOLEAN /\ f.obj \in Nat
  BY DEF Frame
<1>2. Nested[f.type] \in Seq(Types) /\ Raw[f.type] \in Seq(Types)
  BY <1>1, TypeCacheAssumption
<1>3. CASE f.pc = "raw"
  <2>1. Fields(f) = Raw[f.type]
    BY <1>3 DEF Fields
  <2>2. \A k \in 1 .. Len(Nested[f.type]) : Nested[f.type][k] \notin Opaque \cup Generic
    BY <1>1, TypeCacheAssumption
  <2>3. ASSUME NEW i \in 1 .. Len(Fields(f))
        PROVE  \E k \in 1 .. Len(Nested[f.type]) : Fields(f)[i] = Nested[f.type][k]
    <3>1. \A j \in 1 .. Len(Raw[f.type]) :
            \E k \in 1 .. Len(Nested[f.type]) : Raw[f.type][j] = Nested[f.type][k]
      BY <1>1, TypeCacheAssumption
    <3> QED BY <2>1, <3>1
  <2>4. \A i \in 1 .. Len(Fields(f)) : Fields(f)[i] \in Types
    BY <1>2, <2>1
  <2>5. Fields(f) \in Seq(Types) /\ Len(Fields(f)) \in Nat /\ Len(Nested[f.type]) \in Nat
    BY <1>2, <2>1
  <2>6. ASSUME NEW i \in 1 .. Len(Fields(f)) PROVE Fields(f)[i] \in Types \ (Opaque \cup Generic)
    BY ONLY <2>2, <2>3, <2>4, i \in 1 .. Len(Fields(f))
  <2> QED BY <1>1, <1>2, <2>3, <2>5, <2>6
<1>4. CASE f.pc # "raw"
  <2>1. Fields(f) = Nested[f.type]
    BY <1>4 DEF Fields
  <2> QED BY <1>1, <1>2, <2>1, TypeCacheAssumption
<1> QED BY <1>3, <1>4

(* What a call extracts for the one below is one of its nested types.      *)
LEMMA LinkedNested ==
  ASSUME NEW f \in Frame, NEW g \in Frame, Linked(f, g)
  PROVE  /\ g.type \in Types \ (Opaque \cup Generic)
         /\ \E k \in 1 .. Len(Nested[f.type]) : g.type = Nested[f.type][k]
<1>1. PICK fs : fs = Fields(f)
  OBVIOUS
<1>2. f.nth \in 1 .. Len(fs) /\ g.type = fs[f.nth]
  BY <1>1 DEF Linked
<1>3. \A i \in 1 .. Len(fs) :
        /\ fs[i] \in Types \ (Opaque \cup Generic)
        /\ \E k \in 1 .. Len(Nested[f.type]) : fs[i] = Nested[f.type][k]
  BY <1>1, FieldFacts
<1> QED BY ONLY <1>2, <1>3

(* So a truncated one excuses the one below.                               *)
LEMMA LinkedExcused ==
  ASSUME NEW f \in Frame, NEW g \in Frame, Linked(f, g)
  PROVE  (Safe[f.type] => Safe[g.type]) /\ (Apart[g.type] => Apart[f.type])
<1>1. PICK k \in 1 .. Len(Nested[f.type]) : g.type = Nested[f.type][k]
  BY LinkedNested
<1>2. f.type \in Types /\ g.type \in Types
  BY FieldFacts
<1> QED BY <1>1, <1>2, SafeInside, ApartAround

-----------------------------------------------------------------------------
(* Calls.                                                                  *)

(* A new call has come past nothing.                                       *)
LEMMA FreshFrame ==
  ASSUME NEW f \in Frame, f.nth = 0, f.pc \in {"lookup", "extract"}, NEW m, NEW c
  PROVE  Passed(f, f.nth) /\ Made(f, m, c)
<1>1. Len(Fields(f)) \in Nat
  BY FieldFacts
<1> QED BY <1>1 DEF Passed, Made, Past

(* A sequence with its last element changed and one element more.          *)
LEMMA Appended ==
  ASSUME NEW S, NEW q \in Seq(S), q # <<>>, NEW h \in S, NEW g \in S,
         NEW s, s = Append([q EXCEPT ![Len(q)] = h], g)
  PROVE  /\ s \in Seq(S) /\ Len(s) = Len(q) + 1 /\ s[Len(q)] = h /\ s[Len(q) + 1] = g
         /\ \A i \in 1 .. Len(q) - 1 : s[i] = q[i]
<1> PICK n : n = Len(q)
  OBVIOUS
<1> PICK p : p = [q EXCEPT ![n] = h]
  OBVIOUS
<1>1. n \in Nat \ {0}
  OBVIOUS
<1>2. p \in Seq(S) /\ Len(p) = n /\ p[n] = h /\ \A i \in 1 .. n - 1 : p[i] = q[i]
  BY <1>1
<1>3. s = Append(p, g)
  OBVIOUS
<1>4. s \in Seq(S) /\ Len(s) = n + 1 /\ s[n + 1] = g /\ \A i \in 1 .. n : s[i] = p[i]
  BY <1>1, <1>2, <1>3
<1> QED BY <1>1, <1>2, <1>4

(* The innermost call, h after it has come to its next nested type, begins *)
(* a nested one.                                                           *)
LEMMA NestGood ==
  ASSUME NEW s \in Seq(Frame), NEW m, NEW c, Good(s, m, c), s # <<>>,
         NEW s2 \in Seq(Frame), Len(s2) = Len(s) + 1,
         \A i \in 1 .. Len(s) - 1 : s2[i] = s[i],
         NEW f \in Frame, f = s[Len(s)],
         NEW h \in Frame, s2[Len(s)] = h, NEW g \in Frame, s2[Len(s) + 1] = g,
         h.type = f.type, h.pc = f.pc, h.pc \in Walking, h.nth = f.nth + 1, h.whole = f.whole,
         h.ext => Len(s) = 1, h.nth <= Len(Fields(h)),
         g.nth = 0, g.pc \in {"lookup", "extract"}, g.type = Fields(h)[h.nth], g.ext => FALSE,
         g.whole
  PROVE  Good(s2, m, c)
<1> PICK n : n = Len(s)
  OBVIOUS
<1>1. n \in Nat \ {0} /\ s[n] \in Frame /\ s2[n] \in Frame /\ s2[n + 1] \in Frame
  OBVIOUS
<1>2. s2[1].type = s[1].type
  <2>1. n = 1 \/ 1 \in 1 .. n - 1
    BY <1>1
  <2> QED BY <1>1, <2>1
<1>3. Linked(h, g) /\ Fields(h) = Fields(f)
  <2>1. f.nth \in Nat /\ Len(Fields(h)) \in Nat
    BY FieldFacts
  <2> QED BY <2>1 DEF Linked, Fields
<1>4. FrameGood(s, n, m, c)
  BY <1>1 DEF Good
<1>5. ASSUME NEW i \in 1 .. n - 1 PROVE FrameGood(s2, i, m, c)
  <2>1. /\ Linked(s[i], s[i + 1]) /\ Passed(s[i], s[i].nth - 1) /\ Made(s[i], m, c)
        /\ Excused(s[i], s[1]) /\ (s[i].ext => i = 1)
    BY <1>1 DEF Good, FrameGood
  <2>2. s2[i] = s[i] /\ s2[i + 1].type = s[i + 1].type
    <3>1. i + 1 = n \/ i + 1 \in 1 .. n - 1
      BY <1>1
    <3> QED BY <1>1, <3>1
  <2>3. Excused(s2[i], s2[1])
    BY <1>2, <2>1, <2>2 DEF Excused
  <2> QED BY <1>1, <2>1, <2>2, <2>3 DEF FrameGood, Linked
<1>6. FrameGood(s2, n, m, c)
  <2>1. Passed(f, f.nth) /\ Excused(f, s[1])
    BY <1>1, <1>4 DEF FrameGood
  <2>2. f.nth \in Nat
    BY FieldFacts
  <2>3. Passed(h, h.nth - 1)
    <3>1. h.nth - 1 = f.nth
      BY <2>2
    <3>2. f.pc \notin Past
      BY DEF Past, Walking
    <3> QED BY <1>3, <2>1, <3>1, <3>2 DEF Passed
  <2>4. Made(h, m, c)
    BY DEF Made, Past, Walking
  <2>5. Excused(h, s2[1])
    BY <1>2, <2>1 DEF Excused
  <2> QED BY <1>1, <1>3, <2>3, <2>4, <2>5 DEF FrameGood
<1>7. FrameGood(s2, n + 1, m, c)
  <2>1. Passed(g, g.nth) /\ Made(g, m, c)
    BY FreshFrame
  <2>2. Excused(g, s2[1])
    <3>1. Excused(f, s[1]) /\ (Apart[g.type] => Apart[h.type])
      BY <1>1, <1>3, <1>4, LinkedExcused DEF FrameGood
    <3> QED BY <1>2, <3>1 DEF Excused
  <2> QED BY <1>1, <2>1, <2>2 DEF FrameGood
<1>8. ASSUME NEW i \in 1 .. n + 1 PROVE FrameGood(s2, i, m, c)
  <2>1. i = n + 1 \/ i = n \/ i \in 1 .. n - 1
    BY <1>1
  <2> QED BY <1>5, <1>6, <1>7, <2>1
<1> QED BY <1>1, <1>8 DEF Good

(* A call with what the nested one gave it, whole or not.                  *)
LEMMA Told ==
  ASSUME NEW f \in Frame, NEW w \in BOOLEAN, NEW g, g = [f EXCEPT !.whole = f.whole /\ w]
  PROVE  /\ g \in Frame /\ g.type = f.type /\ g.pc = f.pc /\ g.nth = f.nth /\ g.ext = f.ext
         /\ g.obj = f.obj /\ Fields(g) = Fields(f) /\ g.whole = (f.whole /\ w)
<1>1. /\ g \in Frame /\ g.type = f.type /\ g.pc = f.pc /\ g.nth = f.nth /\ g.ext = f.ext
      /\ g.obj = f.obj /\ g.whole = (f.whole /\ w)
  BY DEF Frame
<1> QED BY <1>1 DEF Fields

(* The innermost call returns.                                             *)
LEMMA PopGood ==
  ASSUME NEW s \in Seq(Frame), NEW m, NEW c, Good(s, m, c), s # <<>>, NEW m2, NEW c2,
         NEW w \in BOOLEAN, Len(s) = 1 \/ ((w => ~Endless[s[Len(s)].type]) /\ (Safe[s[Len(s)].type] => w)),
         NEW s2, s2 = [i \in 1 .. Len(s) - 1 |->
                         IF i = Len(s) - 1 THEN [s[Len(s) - 1] EXCEPT !.whole = @ /\ w] ELSE s[i]]
  PROVE  s2 \in Seq(Frame) /\ Good(s2, m2, c2) /\ Len(s2) = Len(s) - 1
<1> PICK n : n = Len(s)
  OBVIOUS
<1>1. n \in Nat \ {0} /\ \A i \in 1 .. n : s[i] \in Frame
  OBVIOUS
<1>2. /\ s2 \in Seq(Frame) /\ Len(s2) = n - 1
      /\ \A i \in 1 .. n - 1 :
           s2[i] = IF i = n - 1 THEN [s[n - 1] EXCEPT !.whole = s[n - 1].whole /\ w] ELSE s[i]
  <2>1. \A i \in 1 .. n - 1 :
          s2[i] = IF i = n - 1 THEN [s[n - 1] EXCEPT !.whole = s[n - 1].whole /\ w] ELSE s[i]
    BY <1>1
  <2>2. ASSUME NEW i \in 1 .. n - 1 PROVE s2[i] \in Frame
    <3>1. i \in 1 .. n /\ n - 1 \in Int
      BY <1>1
    <3>2. CASE i = n - 1
      BY <1>1, <2>1, <3>1, <3>2, Told
    <3>3. CASE i # n - 1
      BY <1>1, <2>1, <3>1, <3>3
    <3> QED BY <3>2, <3>3
  <2>3. s2 = [i \in 1 .. n - 1 |-> s2[i]]
    OBVIOUS
  <2>4. s2 \in Seq(Frame) /\ Len(s2) = n - 1
    BY <1>1, <2>2, <2>3
  <2> QED BY <2>1, <2>4
<1>3. ASSUME NEW i \in 1 .. n - 1
      PROVE  /\ s2[i].type = s[i].type /\ s2[i].pc = s[i].pc /\ s2[i].nth = s[i].nth
             /\ s2[i].ext = s[i].ext /\ Fields(s2[i]) = Fields(s[i]) /\ s2[i] \in Frame /\ s[i] \in Frame
             /\ IF i = n - 1 THEN s2[i].whole = (s[i].whole /\ w) ELSE s2[i] = s[i]
  <2>1. i \in 1 .. n /\ s[i] \in Frame
    BY <1>1
  <2>2. CASE i = n - 1
    BY <1>2, <2>1, <2>2, Told
  <2>3. CASE i # n - 1
    BY <1>2, <2>1, <2>3
  <2> QED BY <2>2, <2>3
<1>4. ASSUME NEW i \in 1 .. n - 1 PROVE FrameGood(s2, i, m2, c2)
  <2>1. /\ Linked(s[i], s[i + 1]) /\ Passed(s[i], s[i].nth - 1) /\ s[i].pc \in Walking
        /\ Excused(s[i], s[1]) /\ (s[i].ext => i = 1)
    BY <1>1, SMTT(30) DEF Good, FrameGood, Linked
  <2>2. s2[1].type = s[1].type /\ Made(s2[i], m2, c2)
    BY <1>1, <1>3, <2>1 DEF Made, Past, Walking
  <2>3. CASE i < n - 1
    <3>1. s2[i] = s[i] /\ s2[i + 1].type = s[i + 1].type
      BY <1>1, <1>3, <2>3
    <3>2. Excused(s2[i], s2[1])
      BY <2>1, <2>2, <3>1 DEF Excused
    <3> QED BY <1>1, <1>2, <2>1, <2>2, <2>3, <3>1, <3>2, SMTT(30) DEF FrameGood, Linked
  <2>4. CASE i = n - 1
    <3>1. /\ s2[i].whole = (s[i].whole /\ w) /\ n = i + 1 /\ s[n] \in Frame
          /\ (w => ~Endless[s[n].type]) /\ (Safe[s[n].type] => w)
      BY <1>1, <1>3, <2>4, SMTT(30)
    <3>2. Passed(s2[i], s2[i].nth)
      <4>1. s[i].nth \in Nat /\ s[i].nth <= Len(Fields(s[i])) /\ s[i].pc \notin Past
        <5>1. s[i].nth \in Nat /\ s[i].nth \in 1 .. Len(Fields(s[i])) /\ Len(Fields(s[i])) \in Nat
          BY <1>3, <2>1, FieldFacts DEF Linked
        <5>2. s[i].pc \notin Past
          BY <2>1 DEF Past, Walking
        <5> QED BY <5>1, <5>2
      <4>2. ASSUME s2[i].whole
            PROVE  s[i].pc # "raw" /\ \A j \in 1 .. s[i].nth : ~Endless[Nested[s[i].type][j]]
        <5>1. s[i].whole /\ w
          BY <3>1, <4>2
        <5>2. s[i].pc # "raw" /\ \A j \in 1 .. s[i].nth - 1 : ~Endless[Nested[s[i].type][j]]
          BY <2>1, <4>1, <5>1 DEF Passed
        <5>3. ~Endless[Nested[s[i].type][s[i].nth]]
          BY <2>1, <3>1, <5>1, <5>2 DEF Linked, Fields
        <5> QED BY <4>1, <5>2, <5>3
      <4> QED BY <1>3, <4>1, <4>2 DEF Passed
    <3>3. Excused(s2[i], s2[1])
      <4>1. Safe[s[i].type] => Safe[s[n].type]
        BY <1>3, <2>1, <3>1, LinkedExcused
      <4> QED BY <1>3, <2>1, <2>2, <3>1, <4>1 DEF Excused
    <3>4. i = Len(s2) /\ ~(i < Len(s2))
      BY <1>1, <1>2, <2>4
    <3>5. s2[i].ext => i = 1
      BY ONLY <1>3, <2>1, i \in 1 .. n - 1
    <3> QED BY <2>2, <3>2, <3>3, <3>4, <3>5 DEF FrameGood
  <2> QED BY <1>1, <2>3, <2>4
<1> QED BY <1>1, <1>2, <1>4 DEF Good

(* The innermost call goes on, as another frame.                           *)
LEMMA TopGood ==
  ASSUME NEW s \in Seq(Frame), NEW m, NEW c, Good(s, m, c), s # <<>>, NEW m2, NEW c2,
         NEW s2 \in Seq(Frame), Len(s2) = Len(s),
         \A i \in 1 .. Len(s) - 1 : s2[i] = s[i],
         NEW g \in Frame, s2[Len(s)] = g, g.type = s[Len(s)].type, Passed(g, g.nth),
         Safe[g.type] => g.whole, g.ext => Len(s) = 1, Made(g, m2, c2)
  PROVE  Good(s2, m2, c2)
<1> PICK n : n = Len(s)
  OBVIOUS
<1>1. n \in Nat \ {0}
  OBVIOUS
<1>2. s2[1].type = s[1].type
  <2>1. n = 1 \/ 1 \in 1 .. n - 1
    BY <1>1
  <2> QED BY <1>1, <2>1
<1>3. ASSUME NEW i \in 1 .. n - 1 PROVE FrameGood(s2, i, m2, c2)
  <2>1. /\ Linked(s[i], s[i + 1]) /\ Passed(s[i], s[i].nth - 1) /\ Made(s[i], m2, c2)
        /\ Excused(s[i], s[1]) /\ (s[i].ext => i = 1)
    <3>1. FrameGood(s, i, m, c) /\ i < Len(s)
      BY <1>1 DEF Good
    <3>2. s[i].pc \in Walking
      BY <3>1 DEF FrameGood, Linked
    <3>3. Made(s[i], m2, c2)
      BY <3>2 DEF Made, Past, Walking
    <3> QED BY <3>1, <3>3 DEF FrameGood
  <2>2. s2[i] = s[i] /\ s2[i + 1].type = s[i + 1].type
    <3>1. i + 1 = n \/ i + 1 \in 1 .. n - 1
      BY <1>1
    <3> QED BY <1>1, <3>1
  <2>3. Excused(s2[i], s2[1])
    BY <1>2, <2>1, <2>2 DEF Excused
  <2> QED BY <1>1, <2>1, <2>2, <2>3 DEF FrameGood, Linked
<1>4. FrameGood(s2, n, m2, c2)
  <2>1. Excused(s[n], s[1])
    BY <1>1 DEF Good, FrameGood
  <2>2. Excused(s2[n], s2[1])
    BY <1>2, <2>1 DEF Excused
  <2> QED BY <1>1, <2>2 DEF FrameGood
<1>5. ASSUME NEW i \in 1 .. n PROVE FrameGood(s2, i, m2, c2)
  <2>1. i = n \/ i \in 1 .. n - 1
    BY <1>1
  <2> QED BY <1>3, <1>4, <2>1
<1> QED BY <1>1, <1>5 DEF Good

(* Only the innermost call can be past its extraction.                     *)
LEMMA OnlyTop ==
  ASSUME NEW s \in Seq(Frame), NEW m, NEW c, Good(s, m, c)
  PROVE  (\E i \in 1 .. Len(s) : s[i].pc \in Inside) <=> (s # <<>> /\ s[Len(s)].pc \in Inside)
<1>1. \A i \in 1 .. Len(s) : i < Len(s) => s[i].pc \in Walking
  BY DEF Good, FrameGood, Linked
<1> QED BY <1>1 DEF Inside, Walking

(* The objects there are stay where they are when a new one is made.       *)
LEMMA Grown ==
  ASSUME NEW S, NEW m \in Seq(S), NEW m2, m2 = m \/ \E o : m2 = Append(m, o)
  PROVE  Len(m2) >= Len(m) /\ Len(m) \in Nat /\ Len(m2) \in Nat /\ \A i \in 1 .. Len(m) : m2[i] = m[i]
<1>1. CASE m2 = m
  BY <1>1
<1>2. ASSUME NEW o, m2 = Append(m, o)
      PROVE  Len(m2) = Len(m) + 1 /\ Len(m) \in Nat /\ \A i \in 1 .. Len(m) : m2[i] = m[i]
  BY <1>2
<1> QED BY <1>1, <1>2

(* A new object leaves the stacks good, and so does a change of the cache  *)
(* for a thread without the lock.                                          *)
LEMMA OtherGood ==
  ASSUME NEW s \in Seq(Frame), NEW m \in Seq(SchemaObject), NEW m2, NEW c, NEW c2, Good(s, m, c),
         m2 = m \/ \E o : m2 = Append(m, o),
         c2 = c \/ \A i \in 1 .. Len(s) : s[i].pc \notin Inside
  PROVE  Good(s, m2, c2)
<1>1. Len(m2) >= Len(m) /\ Len(m) \in Nat /\ Len(m2) \in Nat /\ \A i \in 1 .. Len(m) : m2[i] = m[i]
  BY Grown
<1>2. ASSUME NEW i \in 1 .. Len(s) PROVE FrameGood(s, i, m2, c2)
  <2>1. FrameGood(s, i, m, c)
    BY DEF Good
  <2>2. Made(s[i], m2, c2)
    BY <1>1, <2>1 DEF FrameGood, Made, Inside, Past
  <2> QED BY <2>1, <2>2 DEF FrameGood
<1> QED BY <1>2 DEF Good

-----------------------------------------------------------------------------
(* The cache.                                                              *)

(* A new object leaves the cache good.                                     *)
LEMMA CacheGrown ==
  ASSUME NEW c, NEW m \in Seq(SchemaObject), NEW m2, CacheGood(c, m),
         m2 = m \/ \E o : m2 = Append(m, o)
  PROVE  CacheGood(c, m2)
<1>1. Len(m2) >= Len(m) /\ Len(m) \in Nat /\ Len(m2) \in Nat /\ \A i \in 1 .. Len(m) : m2[i] = m[i]
  BY Grown
<1>2. ASSUME NEW i \in 1 .. Len(c)
      PROVE  c[i].obj \in 1 .. Len(m2) /\ Sound(c[i].type, m2[c[i].obj])
  <2>1. c[i].obj \in 1 .. Len(m) /\ Sound(c[i].type, m[c[i].obj])
    BY DEF CacheGood
  <2>2. m2[c[i].obj] = m[c[i].obj] /\ c[i].obj \in 1 .. Len(m2)
    BY ONLY <1>1, <2>1
  <2> QED BY ONLY <2>1, <2>2
<1> QED BY <1>2 DEF CacheGood

(* Evicting the first entry makes a place.                                 *)
LEMMA EvictGood ==
  ASSUME NEW c \in Seq(Entry), NEW m, CacheGood(c, m),
         NEW c2, \/ Len(c) >= MaxSize /\ c2 = Tail(c)
                 \/ ~(Len(c) >= MaxSize) /\ c2 = c
  PROVE  /\ c2 \in Seq(Entry) /\ CacheGood(c2, m) /\ Len(c2) < MaxSize
         /\ \A j \in 1 .. Len(c2) : \E i \in 1 .. Len(c) : c2[j] = c[i]
<1>1. Len(c) \in Nat /\ MaxSize \in Nat \ {0}
  BY TypeCacheAssumption
<1>2. CASE Len(c) >= MaxSize
  <2>1. /\ c2 \in Seq(Entry) /\ Len(c2) = Len(c) - 1
        /\ \A i \in 1 .. Len(c) - 1 : c2[i] = c[i + 1]
    BY <1>1, <1>2
  <2>2. \A j \in 1 .. Len(c2) : j + 1 \in 1 .. Len(c) /\ c2[j] = c[j + 1]
    BY <1>1, <2>1
  <2>3. \A i, j \in 1 .. Len(c2) : c2[i].type = c2[j].type => i = j
    <3> SUFFICES ASSUME NEW i \in 1 .. Len(c2), NEW j \in 1 .. Len(c2), c2[i].type = c2[j].type
                 PROVE  i = j
      OBVIOUS
    <3>1. /\ i + 1 \in 1 .. Len(c) /\ j + 1 \in 1 .. Len(c)
          /\ c[i + 1].type = c[j + 1].type
      BY <2>2
    <3>2. i + 1 = j + 1
      BY <3>1 DEF CacheGood
    <3> QED BY ONLY <3>2, i \in 1 .. Len(c2), j \in 1 .. Len(c2), <1>1, <2>1
  <2>4. ASSUME NEW j \in 1 .. Len(c2)
        PROVE  c2[j].obj \in 1 .. Len(m) /\ Sound(c2[j].type, m[c2[j].obj])
    BY <2>2 DEF CacheGood
  <2>5. Len(c2) < MaxSize /\ Len(c2) <= MaxSize
    BY <1>1, <2>1 DEF CacheGood
  <2>6. CacheGood(c2, m)
    BY <2>3, <2>4, <2>5 DEF CacheGood
  <2> QED BY <2>1, <2>2, <2>5, <2>6
<1>3. CASE ~(Len(c) >= MaxSize)
  BY <1>1, <1>3
<1> QED BY <1>2, <1>3

(* Storing a sound schema of a type that is not there.                     *)
LEMMA StoreGood ==
  ASSUME NEW c \in Seq(Entry), NEW m \in Seq(SchemaObject), CacheGood(c, m), Len(c) < MaxSize,
         NEW e \in Entry, \A k \in 1 .. Len(c) : c[k].type # e.type,
         e.obj \in 1 .. Len(m), Sound(e.type, m[e.obj]),
         NEW c2, c2 = Append(c, e)
  PROVE  /\ c2 \in Seq(Entry) /\ CacheGood(c2, m)
         /\ \A j \in 1 .. Len(c2) : c2[j] = e \/ \E i \in 1 .. Len(c) : c2[j] = c[i]
<1>1. Len(c) \in Nat /\ MaxSize \in Nat
  BY TypeCacheAssumption
<1>2. /\ c2 \in Seq(Entry) /\ Len(c2) = Len(c) + 1 /\ c2[Len(c) + 1] = e
      /\ \A i \in 1 .. Len(c) : c2[i] = c[i]
  BY <1>1
<1>3. \A j \in 1 .. Len(c2) : j = Len(c) + 1 \/ j \in 1 .. Len(c)
  BY <1>1, <1>2
<1>4. \A i, j \in 1 .. Len(c2) : c2[i].type = c2[j].type => i = j
  <2> SUFFICES ASSUME NEW i \in 1 .. Len(c2), NEW j \in 1 .. Len(c2), c2[i].type = c2[j].type
               PROVE  i = j
    OBVIOUS
  <2>1. CASE i \in 1 .. Len(c) /\ j \in 1 .. Len(c)
    BY <1>2, <2>1 DEF CacheGood
  <2>2. CASE i = Len(c) + 1 /\ j \in 1 .. Len(c)
    BY <1>2, <2>2
  <2>3. CASE i \in 1 .. Len(c) /\ j = Len(c) + 1
    BY <1>2, <2>3
  <2> QED BY <1>3, <2>1, <2>2, <2>3
<1>5. ASSUME NEW i \in 1 .. Len(c2)
      PROVE  c2[i].obj \in 1 .. Len(m) /\ Sound(c2[i].type, m[c2[i].obj])
  <2>1. CASE i \in 1 .. Len(c)
    BY <1>2, <2>1 DEF CacheGood
  <2>2. CASE i = Len(c) + 1
    BY <1>2, <2>2
  <2> QED BY <1>3, <2>1, <2>2
<1>6. Len(c2) <= MaxSize
  BY <1>1, <1>2
<1>7. CacheGood(c2, m)
  BY <1>4, <1>5, <1>6 DEF CacheGood
<1> QED BY <1>2, <1>3, <1>7

-----------------------------------------------------------------------------
(* What a step does to one thread.                                         *)

(* The innermost call of a thread.                                         *)
LEMMA TopFacts ==
  ASSUME IInv, NEW t \in Threads, stack[t] # <<>>
  PROVE  /\ stack[t] \in Seq(Frame) /\ Len(stack[t]) \in Nat \ {0} /\ Len(stack[t]) <= MaxStack
         /\ Top(t) \in Frame /\ Top(t) = stack[t][Len(stack[t])]
         /\ Good(stack[t], made, cache)
         /\ Passed(Top(t), Top(t).nth) /\ Made(Top(t), made, cache)
         /\ Safe[Top(t).type] => Top(t).whole
         /\ Top(t).ext => Len(stack[t]) = 1
         /\ lock = t <=> Top(t).pc \in Inside
<1>1. stack[t] \in Seq(Frame) /\ Good(stack[t], made, cache) /\ Len(stack[t]) <= MaxStack
  BY DEF IInv, TypeOK
<1>2. Len(stack[t]) \in Nat \ {0} /\ Top(t) \in Frame /\ Top(t) = stack[t][Len(stack[t])]
  BY <1>1 DEF Top
<1>3. FrameGood(stack[t], Len(stack[t]), made, cache)
  BY <1>1, <1>2 DEF Good
<1>4. lock = t <=> \E i \in 1 .. Len(stack[t]) : stack[t][i].pc \in Inside
  BY DEF IInv, TypeOK, Inside
<1>5. lock = t <=> Top(t).pc \in Inside
  BY <1>1, <1>2, <1>4, OnlyTop
<1> QED BY <1>1, <1>2, <1>3, <1>5 DEF FrameGood, Excused

(* The invariant after a step of thread t that leaves it the calls s.      *)
LEMMA Assemble ==
  ASSUME IInv, NEW t \in Threads, NEW s \in Seq(Frame), stack' = [stack EXCEPT ![t] = s],
         Good(s, made', cache'), Len(s) <= MaxStack,
         cache' \in Seq(Entry), CacheGood(cache', made'), cache' = cache \/ lock = t,
         made' \in Seq(SchemaObject), made' = made \/ \E o : made' = Append(made, o),
         ret' \in [Threads -> Recursion .. Len(made')],
         lock' \in Threads \cup {NoThread},
         lock' = t <=> (s # <<>> /\ s[Len(s)].pc \in Inside),
         \A u \in Threads : u # t => (lock' = u <=> lock = u)
  PROVE  IInv'
<1>1. stack \in [Threads -> Seq(Frame)] /\ stack' \in [Threads -> Seq(Frame)]
  BY DEF IInv, TypeOK
<1>2. stack'[t] = s /\ \A u \in Threads : u # t => stack'[u] = stack[u]
  BY <1>1
<1>3. ASSUME NEW u \in Threads PROVE Good(stack'[u], made', cache')
  <2>1. CASE u = t
    BY <1>2, <2>1
  <2>2. CASE u # t
    <3>1. Good(stack[u], made, cache) /\ made \in Seq(SchemaObject)
      BY DEF IInv, TypeOK, SchemaObject
    <3>2. lock = u <=> \E i \in 1 .. Len(stack[u]) : stack[u][i].pc \in Inside
      BY DEF IInv, TypeOK, Inside
    <3>3. cache' = cache \/ \A i \in 1 .. Len(stack[u]) : stack[u][i].pc \notin Inside
      BY <2>2, <3>2
    <3>4. Good(stack[u], made', cache')
      BY <1>1, <3>1, <3>3, OtherGood
    <3> QED BY <1>2, <2>2, <3>4
  <2> QED BY <2>1, <2>2
<1>4. ASSUME NEW u \in Threads
      PROVE  lock' = u <=> \E i \in 1 .. Len(stack'[u]) : stack'[u][i].pc \in Inside
  <2>1. CASE u = t
    BY <1>2, <2>1, OnlyTop
  <2>2. CASE u # t
    BY <1>2, <2>2 DEF IInv, TypeOK, Inside
  <2> QED BY <2>1, <2>2
<1>5. TypeOK'
  <2>1. \A u \in Threads : Len(stack'[u]) <= MaxStack
    BY <1>2 DEF IInv, TypeOK
  <2> QED BY <1>1, <1>4, <2>1 DEF TypeOK, Entry, SchemaObject, Inside
<1> QED BY <1>3, <1>5 DEF IInv

(* The invariant after a step that changes the innermost call only.        *)
LEMMA AfterTop ==
  ASSUME IInv, NEW t \in Threads, stack[t] # <<>>, NEW g \in Frame,
         g.type = Top(t).type, Passed(g, g.nth), Safe[g.type] => g.whole, g.ext = Top(t).ext,
         SetTop(t, g), Made(g, made', cache'), UNCHANGED ret,
         cache' \in Seq(Entry), CacheGood(cache', made'), cache' = cache \/ lock = t,
         made' \in Seq(SchemaObject), made' = made \/ \E o : made' = Append(made, o),
         lock' \in Threads \cup {NoThread}, lock' = t <=> g.pc \in Inside,
         \A u \in Threads : u # t => (lock' = u <=> lock = u)
  PROVE  IInv'
<1> PICK s : s = [stack[t] EXCEPT ![Len(stack[t])] = g]
  OBVIOUS
<1>1. stack \in [Threads -> Seq(Frame)] /\ stack' = [stack EXCEPT ![t] = s]
  BY DEF SetTop, IInv, TypeOK
<1>2. /\ s \in Seq(Frame) /\ Good(s, made', cache') /\ Len(s) = Len(stack[t])
      /\ s[Len(stack[t])] = g
  <2> PICK q : q = stack[t]
    OBVIOUS
  <2> PICK m2 : m2 = made'
    OBVIOUS
  <2> PICK c2 : c2 = cache'
    OBVIOUS
  <2>1. q \in Seq(Frame) /\ Good(q, made, cache) /\ q # <<>> /\ Top(t) = q[Len(q)]
    BY TopFacts
  <2>2. /\ s \in Seq(Frame) /\ Len(s) = Len(q) /\ s[Len(q)] = g
        /\ \A i \in 1 .. Len(q) - 1 : s[i] = q[i]
    BY <2>1
  <2>3. g.type = q[Len(q)].type /\ (g.ext => Len(q) = 1)
    <3>1. Top(t).ext => Len(q) = 1
      BY TopFacts
    <3> QED BY <2>1, <2>2, <3>1
  <2>4. Made(g, m2, c2)
    OBVIOUS
  <2>5. Good(s, m2, c2)
    BY <2>1, <2>2, <2>3, <2>4, TopGood
  <2> QED BY <2>2, <2>5
<1>3. Len(s) <= MaxStack /\ s # <<>> /\ (lock' = t <=> (s # <<>> /\ s[Len(s)].pc \in Inside))
  BY <1>2, TopFacts
<1>4. ret' \in [Threads -> Recursion .. Len(made')]
  <2>1. Len(made) \in Nat /\ Len(made') \in Nat /\ Len(made') >= Len(made) /\ Recursion = -1
    BY DEF IInv, TypeOK, Recursion
  <2>2. ret \in [Threads -> Recursion .. Len(made)]
    BY DEF IInv, TypeOK
  <2> QED BY <2>1, <2>2
<1> QED BY <1>1, <1>2, <1>3, <1>4, Assemble

(* The invariant after a step in which the innermost call returns o.       *)
LEMMA AfterReturn ==
  ASSUME IInv, NEW t \in Threads, stack[t] # <<>>, NEW o \in 0 .. Len(made'), NEW w \in BOOLEAN,
         \/ Len(stack[t]) = 1
         \/ (w => ~Endless[Top(t).type]) /\ (Safe[Top(t).type] => w),
         Return(t, o, w),
         cache' \in Seq(Entry), CacheGood(cache', made'), cache' = cache \/ lock = t,
         made' \in Seq(SchemaObject), made' = made \/ \E x : made' = Append(made, x),
         lock' \in Threads \cup {NoThread}, lock' # t,
         \A u \in Threads : u # t => (lock' = u <=> lock = u)
  PROVE  IInv'
<1> PICK s : s = Below(t, w)
  OBVIOUS
<1>1. stack \in [Threads -> Seq(Frame)] /\ stack' = [stack EXCEPT ![t] = s]
  BY DEF Return, IInv, TypeOK
<1>2. s \in Seq(Frame) /\ Good(s, made', cache') /\ Len(s) = Len(stack[t]) - 1
  <2> PICK q : q = stack[t]
    OBVIOUS
  <2> PICK m2 : m2 = made'
    OBVIOUS
  <2> PICK c2 : c2 = cache'
    OBVIOUS
  <2>1. q \in Seq(Frame) /\ Good(q, made, cache) /\ q # <<>> /\ Top(t) = q[Len(q)]
    BY TopFacts
  <2>2. s = [i \in 1 .. Len(q) - 1 |->
               IF i = Len(q) - 1 THEN [q[Len(q) - 1] EXCEPT !.whole = @ /\ w] ELSE q[i]]
    BY DEF Below
  <2>3. Len(q) = 1 \/ ((w => ~Endless[q[Len(q)].type]) /\ (Safe[q[Len(q)].type] => w))
    BY <2>1
  <2>4. s \in Seq(Frame) /\ Good(s, m2, c2) /\ Len(s) = Len(q) - 1
    BY <2>1, <2>2, <2>3, PopGood, ZenonT(30)
  <2> QED BY <2>4
<1>3. Len(s) <= MaxStack
  BY <1>2, TopFacts, TypeCacheAssumption
<1>4. ~(s # <<>> /\ s[Len(s)].pc \in Inside)
  <2>1. CASE s # <<>>
    <3>1. Len(s) \in 1 .. Len(stack[t]) /\ Len(s) < Len(stack[t]) /\ stack[t][Len(s)] \in Frame
      BY <1>2, <2>1, TopFacts
    <3>2. stack[t][Len(s)].pc \in Walking
      BY <3>1, TopFacts DEF Good, FrameGood, Linked
    <3>3. s[Len(s)].pc = stack[t][Len(s)].pc
      <4>1. s[Len(s)] = [stack[t][Len(s)] EXCEPT !.whole = stack[t][Len(s)].whole /\ w]
        <5> PICK q, n : q = stack[t] /\ n = Len(q) - 1
          OBVIOUS
        <5>1. s = [i \in 1 .. n |-> IF i = n THEN [q[n] EXCEPT !.whole = q[n].whole /\ w] ELSE q[i]]
          BY DEF Below
        <5>2. Len(s) = n /\ n \in 1 .. n
          BY <1>2, <3>1, TopFacts
        <5>3. s[n] = [q[n] EXCEPT !.whole = q[n].whole /\ w]
          BY <5>1, <5>2
        <5> QED BY <5>2, <5>3
      <4> QED BY <3>1, <4>1, Told
    <3> QED BY <3>2, <3>3 DEF Inside, Walking
  <2> QED BY <2>1
<1>5. ret' \in [Threads -> Recursion .. Len(made')]
  <2>1. Len(made) \in Nat /\ Len(made') \in Nat /\ Len(made') >= Len(made) /\ Recursion = -1
    BY DEF IInv, TypeOK, Recursion
  <2>2. ret \in [Threads -> Recursion .. Len(made)]
    BY DEF IInv, TypeOK
  <2>3. o \in Recursion .. Len(made')
    BY <2>1
  <2> QED BY <2>1, <2>2, <2>3 DEF Return
<1> QED BY <1>1, <1>2, <1>3, <1>4, <1>5, Assemble

-----------------------------------------------------------------------------
(* The steps.                                                              *)

(* What the invariant says of the variables by themselves.                 *)
LEMMA TypeFacts ==
  ASSUME IInv
  PROVE  /\ cache \in Seq(Entry) /\ made \in Seq(SchemaObject) /\ CacheGood(cache, made)
         /\ lock \in Threads \cup {NoThread} /\ Len(made) \in Nat /\ Len(cache) \in Nat
         /\ stack \in [Threads -> Seq(Frame)]
         /\ ret \in [Threads -> Recursion .. Len(made)]
         /\ MaxSize \in Nat \ {0} /\ MaxStack \in Nat \ {0} /\ NoThread \notin Threads
         /\ Room \in Nat \ {0} /\ Room < MaxStack
BY TypeCacheAssumption DEF IInv, TypeOK, Entry, SchemaObject

(* A new call is a frame.                                                  *)
LEMMA NewFrameFacts ==
  ASSUME NEW ty \in Types, NEW ext \in BOOLEAN
  PROVE  /\ NewFrame(ty, ext) \in Frame /\ NewFrame(ty, ext).nth = 0
         /\ NewFrame(ty, ext).pc \in {"lookup", "extract"}
         /\ NewFrame(ty, ext).type = ty /\ NewFrame(ty, ext).ext = ext
         /\ NewFrame(ty, ext).whole
BY DEF NewFrame, Frame, NoSchema

(* A call from outside keeps the invariant.                                *)
LEMMA CallInv ==
  ASSUME IInv, NEW t \in Threads, NEW ty \in Types, NEW ext \in BOOLEAN, Call(t, ty, ext)
  PROVE  IInv'
<1> PICK s : s = Append(stack[t], NewFrame(ty, ext))
  OBVIOUS
<1>1. stack' = [stack EXCEPT ![t] = s] /\ stack[t] = <<>> /\ stack[t] \in Seq(Frame)
  BY TypeFacts DEF Call, Enter
<1>2. s \in Seq(Frame) /\ Good(s, made, cache) /\ Len(s) = 1 /\ s[1] = NewFrame(ty, ext)
  <2> PICK f : f = NewFrame(ty, ext)
    OBVIOUS
  <2>2. f \in Frame /\ f.nth = 0 /\ f.pc \in {"lookup", "extract"} /\ s = Append(<<>>, f) /\ f.whole
    BY <1>1, NewFrameFacts
  <2>3. s \in Seq(Frame) /\ Len(s) = 1 /\ s[1] = f
    BY <2>2
  <2>4. FrameGood(s, 1, made, cache)
    <3>1. Excused(f, s[1])
      BY <2>2, <2>3 DEF Excused
    <3> QED BY <2>2, <2>3, <3>1, FreshFrame DEF FrameGood
  <2>5. Good(s, made, cache)
    BY <2>3, <2>4 DEF Good
  <2> QED BY <2>2, <2>3, <2>5
<1>3. ~(s # <<>> /\ s[Len(s)].pc \in Inside)
  BY <1>2, NewFrameFacts DEF Inside
<1>4. lock # t
  BY <1>1 DEF IInv, TypeOK
<1>5. UNCHANGED <<cache, lock, made, ret>> /\ Len(s) <= MaxStack
  BY <1>2, TypeFacts DEF Call
<1> QED BY <1>1, <1>2, <1>3, <1>4, <1>5, TypeFacts, Assemble

(* Looking a type up keeps the invariant: what is found is sound.          *)
LEMMA LookupInv ==
  ASSUME IInv, NEW t \in Threads, Lookup(t)
  PROVE  IInv'
<1>1. PICK f : f = Top(t)
  OBVIOUS
<1>2. stack[t] # <<>> /\ f.pc = "lookup" /\ lock # t /\ f \in Frame /\ UNCHANGED <<cache, lock, made>>
  BY <1>1, TopFacts DEF Lookup, At, Inside
<1>3. ASSUME NEW i \in 1 .. Len(cache), cache[i].type = f.type,
             Return(t, cache[i].obj, made[cache[i].obj].whole)
      PROVE  IInv'
  <2>1. PICK o, w : o = cache[i].obj /\ w = made[o].whole
    OBVIOUS
  <2>2. /\ o \in 0 .. Len(made) /\ w \in BOOLEAN
        /\ (w => ~Endless[f.type]) /\ (Safe[f.type] => w)
    <3>1. CacheGood(cache, made) /\ made \in Seq(SchemaObject) /\ Len(made) \in Nat
      BY TypeFacts
    <3>2. o \in 1 .. Len(made) /\ Sound(f.type, made[o])
      BY <1>3, <2>1, <3>1 DEF CacheGood
    <3>3. made[o].whole \in BOOLEAN
      <4>1. made[o] \in SchemaObject
        BY <3>1, <3>2
      <4> QED BY <4>1 DEF SchemaObject
    <3> QED BY <2>1, <3>1, <3>2, <3>3 DEF Sound
  <2>3. Return(t, o, w)
    BY <1>3, <2>1
  <2> QED BY <1>1, <1>2, <2>2, <2>3, TypeFacts, AfterReturn
<1>4. CASE Goto(t, "extract") /\ UNCHANGED ret
  <2>1. PICK g : g = [f EXCEPT !.pc = "extract"]
    OBVIOUS
  <2>2. /\ g \in Frame /\ g.type = f.type /\ g.nth = f.nth /\ g.ext = f.ext /\ g.whole = f.whole
        /\ g.pc = "extract" /\ SetTop(t, g)
    BY <1>1, <1>2, <1>4, <2>1 DEF Frame, Goto
  <2>3. Passed(g, g.nth) /\ (Safe[g.type] => g.whole)
    <3>1. Passed(f, f.nth) /\ (Safe[f.type] => f.whole)
      BY <1>1, <1>2, TopFacts
    <3> QED BY <1>2, <2>2, <3>1 DEF Passed, Fields, Past
  <2>4. Made(g, made, cache) /\ g.pc \notin Inside
    BY <2>2 DEF Made, Past, Inside
  <2> QED BY <1>1, <1>2, <1>4, <2>2, <2>3, <2>4, TypeFacts, AfterTop
<1> QED BY <1>1, <1>3, <1>4 DEF Lookup

(* An object from the extractor keeps the invariant.                       *)
LEMMA CustomiseInv ==
  ASSUME IInv, NEW t \in Threads, Customise(t)
  PROVE  IInv'
<1>1. stack[t] # <<>> /\ Top(t).pc = "extract" /\ lock # t /\ Len(stack[t]) = 1 /\ Top(t).ext
  BY TopFacts DEF Customise, At, Inside
<1> PICK o : o = [type |-> Top(t).type, custom |-> TRUE, whole |-> TRUE]
  OBVIOUS
<1>2. o \in SchemaObject
  BY <1>1, TopFacts DEF Frame, SchemaObject
<1>3. made' = Append(made, o) /\ UNCHANGED <<cache, lock>> /\ Return(t, Len(made'), TRUE)
  BY <1>1 DEF Customise, Cached
<1>4. made' \in Seq(SchemaObject) /\ Len(made') \in 0 .. Len(made') /\ CacheGood(cache', made')
  <2>1. CacheGood(cache, made) /\ made \in Seq(SchemaObject) /\ UNCHANGED cache
    BY <1>3, TypeFacts
  <2>2. CacheGood(cache, made')
    BY <1>3, <2>1, CacheGrown
  <2> QED BY <1>2, <1>3, <2>1, <2>2
<1> QED BY <1>1, <1>3, <1>4, TypeFacts, AfterReturn

(* Calls that nest deeper than there is room for are in a type that        *)
(* contains itself.                                                        *)
LEMMA DeepIsEndless ==
  ASSUME NEW s \in Seq(Frame), NEW m, NEW c, Good(s, m, c), Len(s) > Room
  PROVE  Endless[s[1].type]
<1> PICK n : n = Room
  OBVIOUS
<1>1. n \in Nat \ {0} /\ Len(s) \in Nat /\ n + 1 \in 1 .. Len(s)
  BY TypeCacheAssumption
<1>2. \A i \in 1 .. n + 1 : s[i] \in Frame /\ s[i].type \in Types
  <2>1. \A i \in 1 .. n + 1 : s[i] \in Frame
    BY <1>1
  <2> QED BY <2>1, FieldFacts
<1>3. PICK q : q = [i \in 1 .. n + 1 |-> s[i].type]
  OBVIOUS
<1>4. q \in [1 .. n + 1 -> Types] /\ \A i \in 1 .. n + 1 : q[i] = s[i].type
  BY <1>2, <1>3
<1>5. ASSUME NEW i \in 1 .. n
      PROVE  \E k \in 1 .. Len(Nested[q[i]]) : q[i + 1] = Nested[q[i]][k]
  <2>1. i \in 1 .. n + 1 /\ i + 1 \in 1 .. n + 1 /\ i \in 1 .. Len(s) /\ i < Len(s)
    BY <1>1
  <2>2. Linked(s[i], s[i + 1])
    BY <2>1 DEF Good, FrameGood
  <2>3. \E k \in 1 .. Len(Nested[s[i].type]) : s[i + 1].type = Nested[s[i].type][k]
    BY <1>2, <2>1, <2>2, LinkedNested
  <2> QED BY <1>4, <2>1, <2>3
<1>6. Endless[q[1]]
  BY <1>4, <1>5, DepthAssumption
<1> QED BY <1>1, <1>4, <1>6

(* get_type_hints without room keeps the invariant: the dataclass is part  *)
(* of a type that contains itself.                                         *)
LEMMA HintsFailInv ==
  ASSUME IInv, NEW t \in Threads, HintsFail(t)
  PROVE  IInv'
<1>1. PICK q, f, g : q = stack[t] /\ f = Top(t) /\ g = [f EXCEPT !.pc = "raw", !.whole = FALSE]
  OBVIOUS
<1>2. /\ q # <<>> /\ q \in Seq(Frame) /\ f = q[Len(q)] /\ f \in Frame /\ f.pc = "extract" /\ f.nth = 0
      /\ f.type \in Dataclasses /\ (Len(q) > Room \/ f.type \in Forward)
      /\ lock # t /\ Good(q, made, cache)
      /\ UNCHANGED <<cache, lock, made, ret>> /\ SetTop(t, g) /\ Len(q) \in Nat \ {0}
  BY <1>1, TopFacts DEF HintsFail, At, Inside
<1>3. /\ g \in Frame /\ g.type = f.type /\ g.nth = 0 /\ g.ext = f.ext /\ g.pc = "raw" /\ ~g.whole
  BY <1>1, <1>2 DEF Frame
<1>4. ~Safe[f.type]
  <2> SUFFICES ASSUME Len(q) > Room PROVE ~Safe[f.type]
    BY <1>2, SafeDataclass, FieldFacts
  <2>1. Endless[q[1].type]
    BY <1>2, DeepIsEndless
  <2>2. q[1].type \in Types /\ f.type \in Types
    <3>1. q[1] \in Frame
      BY <1>2
    <3> QED BY <1>2, <3>1, FieldFacts
  <2>3. ~Apart[q[1].type]
    BY <2>1, <2>2, ApartEnds
  <2>4. Excused(f, q[1])
    BY <1>2 DEF Good, FrameGood
  <2>5. ~Apart[f.type]
    BY <2>3, <2>4 DEF Excused
  <2> QED BY <1>2, <2>2, <2>5, SafeDataclass
<1>5. Passed(g, g.nth)
  BY <1>3, FieldFacts DEF Passed
<1>6. Made(g, made, cache) /\ g.pc \notin Inside
  BY <1>3 DEF Made, Past, Inside
<1> QED BY <1>1, <1>2, <1>3, <1>4, <1>5, <1>6, TypeFacts, AfterTop

(* The walk to the next nested type keeps the invariant.                   *)
LEMMA ExtractNestedInv ==
  ASSUME IInv, NEW t \in Threads, ExtractNested(t)
  PROVE  IInv'
<1>1. PICK q, f : q = stack[t] /\ f = Top(t)
  OBVIOUS
<1>2. /\ q \in Seq(Frame) /\ q # <<>> /\ Len(q) \in Nat \ {0} /\ f \in Frame
      /\ f = q[Len(q)] /\ Len(q) < MaxStack /\ Good(q, made, cache)
  BY <1>1, TopFacts DEF ExtractNested, Extracting, At
<1>3. /\ f.pc \in Walking /\ lock # t /\ f.nth < Len(Fields(f))
      /\ (f.ext => Len(q) = 1)
  BY <1>1, TopFacts DEF ExtractNested, Extracting, At, Inside, Walking
<1>4. PICK h : h = [f EXCEPT !.nth = f.nth + 1]
  OBVIOUS
<1>5. f.nth \in Nat /\ f.type \in Types /\ Fields(f) \in Seq(Types)
  BY <1>2, FieldFacts
<1>6. /\ h \in Frame /\ h.type = f.type /\ h.nth = f.nth + 1 /\ h.pc = f.pc /\ h.whole = f.whole
      /\ (h.ext => Len(q) = 1) /\ Fields(h) = Fields(f)
  <2>1. f \in Frame /\ f.nth + 1 \in Nat
    BY <1>2, <1>5
  <2>2. /\ h \in Frame /\ h.type = f.type /\ h.nth = f.nth + 1 /\ h.pc = f.pc /\ h.whole = f.whole
        /\ (h.ext => f.ext)
    BY <1>4, <2>1 DEF Frame
  <2> QED BY <1>3, <2>2 DEF Fields
<1>7. PICK g : g = NewFrame(Fields(f)[f.nth + 1], FALSE)
  OBVIOUS
<1>8. /\ g \in Frame /\ g.nth = 0 /\ g.pc \in {"lookup", "extract"} /\ (g.ext => FALSE)
      /\ g.type = Fields(f)[f.nth + 1] /\ g.whole
  <2>1. Fields(f)[f.nth + 1] \in Types
    BY <1>3, <1>5
  <2> QED BY <1>7, <2>1, NewFrameFacts
<1>9. PICK s : s = Append([q EXCEPT ![Len(q)] = h], g)
  OBVIOUS
<1>10. stack' = [stack EXCEPT ![t] = s]
  <2>1. stack' = [stack EXCEPT ![t] = Append([stack[t] EXCEPT ![Len(stack[t])] = h], g)]
    BY <1>1, <1>4, <1>7 DEF ExtractNested
  <2> QED BY <1>1, <1>9, <2>1
<1>11. /\ s \in Seq(Frame) /\ Len(s) = Len(q) + 1 /\ s[Len(q)] = h /\ s[Len(q) + 1] = g
       /\ \A i \in 1 .. Len(q) - 1 : s[i] = q[i]
  BY <1>2, <1>6, <1>8, <1>9, Appended
<1>12. Good(s, made, cache)
  <2>1. h.nth <= Len(Fields(h)) /\ g.type = Fields(h)[h.nth] /\ h.pc \in Walking
    BY <1>3, <1>5, <1>6, <1>8
  <2> QED BY <1>2, <1>6, <1>8, <1>11, <2>1, NestGood
<1>13. ~(s # <<>> /\ s[Len(s)].pc \in Inside) /\ Len(s) <= MaxStack
  <2>1. s[Len(s)] = g /\ g.pc \notin Inside
    BY <1>2, <1>8, <1>11 DEF Inside
  <2>2. Len(s) <= MaxStack
    BY <1>2, <1>11, TypeFacts
  <2> QED BY <2>1, <2>2
<1>14. UNCHANGED <<cache, lock, made, ret>>
  BY DEF ExtractNested
<1> QED BY <1>3, <1>10, <1>11, <1>12, <1>13, <1>14, TypeFacts, Assemble

(* RecursionError keeps the invariant: the thread has left every call.     *)
LEMMA OverflowInv ==
  ASSUME IInv, NEW t \in Threads, Overflow(t)
  PROVE  IInv'
<1> PICK s : s = <<>>
  OBVIOUS
<1>1. s \in Seq(Frame) /\ Len(s) = 0 /\ stack' = [stack EXCEPT ![t] = s]
  BY DEF Overflow
<1>2. Good(s, made, cache)
  BY <1>1 DEF Good
<1>3. lock # t
  BY TopFacts DEF Overflow, Extracting, At, Inside
<1>4. UNCHANGED <<cache, lock, made>>
  BY DEF Overflow
<1>5. ret' \in [Threads -> Recursion .. Len(made')]
  <2>1. NoSchema \in Recursion .. Len(made) /\ Recursion \in Recursion .. Len(made)
    BY TypeFacts DEF NoSchema, Recursion
  <2> QED BY <1>4, <2>1, TypeFacts DEF Overflow
<1>6. Len(s) <= MaxStack /\ ~(s # <<>> /\ s[Len(s)].pc \in Inside)
  BY <1>1, TypeFacts
<1>7. /\ Good(s, made', cache') /\ CacheGood(cache', made') /\ cache' \in Seq(Entry)
      /\ made' \in Seq(SchemaObject) /\ lock' \in Threads \cup {NoThread}
  BY <1>2, <1>4, TypeFacts
<1> QED BY <1>1, <1>3, <1>4, <1>5, <1>6, <1>7, Assemble

(* At the end of an extraction, a whole schema is of a type that does not  *)
(* contain itself.                                                         *)
LEMMA ExtractWhole ==
  ASSUME IInv, NEW t \in Threads, Extract(t), NEW f, f = Top(t)
  PROVE  /\ stack[t] # <<>> /\ f \in Frame /\ f.pc \in Walking /\ lock # t
         /\ Safe[f.type] => f.whole
         /\ Passed(f, f.nth)
         /\ f.whole => ~Endless[f.type]
<1>1. /\ stack[t] # <<>> /\ f \in Frame /\ f.pc \in Walking /\ f.nth = Len(Fields(f))
      /\ lock # t /\ (Safe[f.type] => f.whole) /\ Passed(f, f.nth)
  BY TopFacts DEF Extract, Extracting, At, Inside, Walking
<1>2. ASSUME f.whole PROVE ~Endless[f.type]
  <2>1. f.pc # "raw" /\ \A j \in 1 .. f.nth : ~Endless[Nested[f.type][j]]
    BY <1>1, <1>2 DEF Passed, Past, Walking
  <2>2. Fields(f) = Nested[f.type] /\ f.type \in Types
    BY <1>1, <2>1, FieldFacts DEF Fields
  <2> QED BY <1>1, <2>1, <2>2, CompleteType
<1> QED BY <1>1, <1>2

(* The end of an extraction keeps the invariant.                           *)
LEMMA ExtractInv ==
  ASSUME IInv, NEW t \in Threads, Extract(t)
  PROVE  IInv'
<1>1. PICK f : f = Top(t)
  OBVIOUS
<1>2. /\ stack[t] # <<>> /\ f \in Frame /\ f.pc \in Walking
      /\ lock # t /\ (Safe[f.type] => f.whole) /\ Passed(f, f.nth)
  BY <1>1, ExtractWhole
<1>3. f.whole => ~Endless[f.type]
  BY <1>1, ExtractWhole
<1>4. /\ UNCHANGED <<cache, lock>> /\ CacheGood(cache, made) /\ made \in Seq(SchemaObject)
      /\ f.whole \in BOOLEAN
  BY <1>2, TypeFacts, FieldFacts DEF Extract
<1>5. CASE f.type \in Opaque /\ Return(t, NoSchema, TRUE) /\ UNCHANGED made
  <2>1. NoSchema \in 0 .. Len(made')
    BY <1>5, TypeFacts DEF NoSchema
  <2>2. Len(stack[t]) = 1
    <3> PICK q, n : q = stack[t] /\ n = Len(q)
      OBVIOUS
    <3>1. q \in Seq(Frame) /\ n \in Nat \ {0} /\ q[n] = f /\ Good(q, made, cache)
      BY <1>1, <1>2, TopFacts
    <3> SUFFICES ASSUME n # 1 PROVE FALSE
      OBVIOUS
    <3>2. n - 1 \in 1 .. n /\ n - 1 < n /\ (n - 1) + 1 = n
      <4>1. n \in Nat \ {0}
        BY <3>1
      <4> QED BY ONLY <4>1, n # 1
    <3>3. Linked(q[n - 1], f) /\ q[n - 1] \in Frame
      BY <3>1, <3>2 DEF Good, FrameGood
    <3> QED BY <1>2, <1>5, <3>3, LinkedNested
  <2> QED BY <1>1, <1>2, <1>4, <1>5, <2>1, <2>2, TypeFacts, AfterReturn
<1>6. ASSUME f.type \notin Opaque,
             made' = Append(made, [type |-> f.type, custom |-> FALSE, whole |-> f.whole])
      PROVE  /\ made' \in Seq(SchemaObject) /\ Len(made') \in 1 .. Len(made') /\ CacheGood(cache', made')
             /\ Sound(f.type, made'[Len(made')]) /\ made'[Len(made')].whole = f.whole
  <2>1. PICK o : o = [type |-> f.type, custom |-> FALSE, whole |-> f.whole]
    OBVIOUS
  <2>2. o \in SchemaObject /\ o.type = f.type /\ ~o.custom /\ o.whole = f.whole
    BY <1>2, <2>1 DEF Frame, SchemaObject
  <2>3. PICK m2 : m2 = Append(made, o)
    OBVIOUS
  <2>4. m2 \in Seq(SchemaObject) /\ Len(m2) \in 1 .. Len(m2) /\ m2[Len(m2)] = o
    BY <1>4, <2>2, <2>3
  <2>5. CacheGood(cache, m2)
    BY <1>4, <2>3, CacheGrown
  <2>6. Sound(f.type, o)
    BY <1>2, <1>3, <1>6, <2>2 DEF Sound
  <2> QED BY <1>4, <1>6, <2>1, <2>2, <2>3, <2>4, <2>5, <2>6
<1>7. CASE /\ f.type \notin Opaque
           /\ made' = Append(made, [type |-> f.type, custom |-> FALSE, whole |-> f.whole])
           /\ SetTop(t, [f EXCEPT !.pc = "lock", !.obj = Len(made')]) /\ UNCHANGED ret
  <2>1. PICK g : g = [f EXCEPT !.pc = "lock", !.obj = Len(made')]
    OBVIOUS
  <2>2. PICK n \in Nat : n = Len(made')
    BY <1>6, <1>7
  <2>3. /\ g \in Frame /\ g.pc = "lock" /\ g.obj = n /\ g.type = f.type /\ g.nth = f.nth
        /\ g.ext = f.ext /\ g.whole = f.whole
    BY <1>2, <2>1, <2>2 DEF Frame
  <2>4. Made(g, made', cache')
    BY <1>6, <1>7, <2>2, <2>3 DEF Made, Past
  <2>5. SetTop(t, g) /\ g.pc \notin Inside /\ Passed(g, g.nth) /\ (Safe[g.type] => g.whole)
    BY <1>2, <1>7, <2>1, <2>3 DEF Inside, Passed, Past
  <2> QED BY <1>1, <1>2, <1>4, <1>6, <1>7, <2>3, <2>4, <2>5, TypeFacts, AfterTop
<1>8. CASE /\ f.type \notin Opaque
           /\ made' = Append(made, [type |-> f.type, custom |-> FALSE, whole |-> f.whole])
           /\ Return(t, Len(made'), f.whole)
  <2>1. Len(made') \in 0 .. Len(made')
    BY <1>6, <1>8
  <2>2. PICK w \in BOOLEAN : w = f.whole
    BY <1>4
  <2>3. PICK o : o = Len(made')
    OBVIOUS
  <2>4. (w => ~Endless[f.type]) /\ (Safe[f.type] => w) /\ Return(t, o, w)
    BY <1>2, <1>3, <1>8, <2>2, <2>3
  <2>5. /\ o \in 0 .. Len(made') /\ cache' = cache /\ lock' = lock /\ cache' \in Seq(Entry)
        /\ made' \in Seq(SchemaObject) /\ CacheGood(cache', made')
        /\ lock' \in Threads \cup {NoThread} /\ \E x : made' = Append(made, x)
    BY <1>4, <1>6, <1>8, <2>1, <2>3, TypeFacts
  <2> QED BY <1>1, <1>2, <2>4, <2>5, AfterReturn
<1> QED BY <1>1, <1>5, <1>7, <1>8 DEF Extract

(* Taking the lock keeps the invariant.                                    *)
LEMMA AcquireInv ==
  ASSUME IInv, NEW t \in Threads, Acquire(t)
  PROVE  IInv'
<1>1. PICK f, g : f = Top(t) /\ g = [f EXCEPT !.pc = "check"]
  OBVIOUS
<1>2. /\ stack[t] # <<>> /\ f \in Frame /\ f.pc = "lock" /\ Made(f, made, cache)
      /\ (Safe[f.type] => f.whole)
  BY <1>1, TopFacts DEF Acquire, At
<1>3. /\ g \in Frame /\ g.pc = "check" /\ g.obj = f.obj /\ g.type = f.type /\ g.whole = f.whole
      /\ g.ext = f.ext
  BY <1>1, <1>2 DEF Frame
<1>4. SetTop(t, g) /\ UNCHANGED <<cache, made, ret>> /\ lock = NoThread /\ lock' = t
  BY <1>1 DEF Acquire, Goto
<1>5. Made(g, made', cache')
  BY <1>2, <1>3, <1>4 DEF Made, Past
<1>6. g.pc \in Inside /\ Passed(g, g.nth) /\ (Safe[g.type] => g.whole)
  BY <1>2, <1>3 DEF Inside, Passed, Past
<1> QED BY <1>1, <1>2, <1>3, <1>4, <1>5, <1>6, TypeFacts, AfterTop

(* The second look keeps the invariant: the type is not in the cache, or   *)
(* the thread is done.                                                     *)
LEMMA CheckInv ==
  ASSUME IInv, NEW t \in Threads, Check(t)
  PROVE  IInv'
<1>1. PICK f, g : f = Top(t) /\ g = [f EXCEPT !.pc = "evict"]
  OBVIOUS
<1>2. /\ stack[t] # <<>> /\ f \in Frame /\ f.pc = "check" /\ Made(f, made, cache) /\ lock = t
      /\ UNCHANGED <<cache, made>> /\ (Safe[f.type] => f.whole)
  BY <1>1, TopFacts DEF Check, At, Inside
<1>3. /\ (f.whole => ~Endless[f.type]) /\ f.obj \in 0 .. Len(made) /\ f.whole \in BOOLEAN
  BY <1>2, TypeFacts, FieldFacts DEF Made, Past, Sound
<1>4. CASE lock' = NoThread /\ Return(t, f.obj, f.whole)
  <2>1. PICK w \in BOOLEAN : w = f.whole
    BY <1>3
  <2>2. (w => ~Endless[f.type]) /\ (Safe[f.type] => w) /\ Return(t, f.obj, w)
    BY <1>2, <1>3, <1>4, <2>1
  <2> QED BY <1>1, <1>2, <1>3, <1>4, <2>2, TypeFacts, AfterReturn, ZenonT(30)
<1>5. CASE f.type \notin Resident /\ SetTop(t, g) /\ UNCHANGED <<lock, ret>>
  <2>1. /\ g \in Frame /\ g.pc = "evict" /\ g.obj = f.obj /\ g.type = f.type /\ g.whole = f.whole
        /\ g.ext = f.ext
    BY <1>1, <1>2 DEF Frame
  <2>2. \A k \in 1 .. Len(cache) : cache[k].type # f.type
    BY <1>5 DEF Resident
  <2>3. Made(g, made', cache')
    BY <1>2, <2>1, <2>2 DEF Made, Past
  <2>4. g.pc \in Inside /\ Passed(g, g.nth) /\ (Safe[g.type] => g.whole)
    BY <1>2, <2>1 DEF Inside, Passed, Past
  <2> QED BY <1>1, <1>2, <1>5, <2>1, <2>3, <2>4, TypeFacts, AfterTop
<1> QED BY <1>1, <1>4, <1>5 DEF Check, Goto

(* Eviction keeps the invariant.                                           *)
LEMMA EvictInv ==
  ASSUME IInv, NEW t \in Threads, Evict(t)
  PROVE  IInv'
<1>1. PICK f, g : f = Top(t) /\ g = [f EXCEPT !.pc = "store"]
  OBVIOUS
<1>2. /\ stack[t] # <<>> /\ f \in Frame /\ f.pc = "evict" /\ Made(f, made, cache) /\ lock = t
      /\ UNCHANGED <<lock, made, ret>> /\ SetTop(t, g) /\ (Safe[f.type] => f.whole)
  BY <1>1, TopFacts DEF Evict, At, Inside, Goto
<1>3. /\ g \in Frame /\ g.pc = "store" /\ g.obj = f.obj /\ g.type = f.type /\ g.whole = f.whole
      /\ g.ext = f.ext
  BY <1>1, <1>2 DEF Frame
<1>4. PICK c2 : c2 = IF Len(cache) >= MaxSize THEN Tail(cache) ELSE cache
  OBVIOUS
<1>5. cache' = c2
  BY <1>4 DEF Evict, Full
<1>6. /\ c2 \in Seq(Entry) /\ CacheGood(c2, made) /\ Len(c2) < MaxSize
      /\ \A j \in 1 .. Len(c2) : \E i \in 1 .. Len(cache) : c2[j] = cache[i]
  <2>1. PICK c, m : c = cache /\ m = made
    OBVIOUS
  <2>2. /\ c \in Seq(Entry) /\ CacheGood(c, m)
        /\ (Len(c) >= MaxSize /\ c2 = Tail(c)) \/ (~(Len(c) >= MaxSize) /\ c2 = c)
    BY <1>4, <2>1, TypeFacts
  <2>3. /\ c2 \in Seq(Entry) /\ CacheGood(c2, m) /\ Len(c2) < MaxSize
        /\ \A j \in 1 .. Len(c2) : \E i \in 1 .. Len(c) : c2[j] = c[i]
    BY <2>2, EvictGood
  <2> QED BY <2>1, <2>3
<1>7. Made(g, made, c2)
  <2>1. \A k \in 1 .. Len(c2) : c2[k].type # g.type
    BY <1>2, <1>3, <1>6 DEF Made
  <2> QED BY <1>2, <1>3, <1>6, <2>1 DEF Made, Past
<1>8. g.pc \in Inside /\ Passed(g, g.nth) /\ (Safe[g.type] => g.whole)
  BY <1>2, <1>3 DEF Inside, Passed, Past
<1> QED BY <1>1, <1>2, <1>3, <1>5, <1>6, <1>7, <1>8, TypeFacts, AfterTop

(* The insertion keeps the invariant.                                      *)
LEMMA StoreInv ==
  ASSUME IInv, NEW t \in Threads, Store(t)
  PROVE  IInv'
<1>1. PICK f : f = Top(t)
  OBVIOUS
<1>2. /\ stack[t] # <<>> /\ f \in Frame /\ f.pc = "store" /\ Made(f, made, cache) /\ lock = t
      /\ lock' = NoThread /\ UNCHANGED made /\ Return(t, f.obj, f.whole)
      /\ (Safe[f.type] => f.whole)
  BY <1>1, TopFacts DEF Store, At, Inside
<1>3. /\ f.obj \in 1 .. Len(made) /\ Len(cache) < MaxSize
      /\ Sound(f.type, made[f.obj]) /\ made[f.obj].whole = f.whole
      /\ \A k \in 1 .. Len(cache) : cache[k].type # f.type
  BY <1>2 DEF Made, Past
<1>4. PICK e, c2 : e = [type |-> f.type, obj |-> f.obj] /\ c2 = Append(cache, e)
  OBVIOUS
<1>5. e \in Entry /\ e.type = f.type /\ e.obj = f.obj
  BY <1>2, <1>4 DEF Frame, Entry
<1>6. cache' = c2
  <2>1. f.type \notin Resident
    BY <1>3 DEF Resident
  <2> QED BY <1>1, <1>4, <2>1 DEF Store
<1>7. c2 \in Seq(Entry) /\ CacheGood(c2, made)
  BY <1>3, <1>4, <1>5, TypeFacts, StoreGood
<1>8. f.obj \in 0 .. Len(made) /\ (f.whole => ~Endless[f.type]) /\ f.whole \in BOOLEAN
  BY <1>2, <1>3, TypeFacts, FieldFacts DEF Sound
<1>9. PICK w \in BOOLEAN : w = f.whole
  BY <1>8
<1>10. (w => ~Endless[f.type]) /\ (Safe[f.type] => w) /\ Return(t, f.obj, w)
  BY <1>2, <1>8, <1>9
<1> QED BY <1>1, <1>2, <1>6, <1>7, <1>8, <1>10, TypeFacts, AfterReturn, ZenonT(30)

(* The invariant holds initially.                                          *)
LEMMA InitInv == Init => IInv
<1> SUFFICES ASSUME Init PROVE IInv
  OBVIOUS
<1>1. /\ cache = <<>> /\ made = <<>> /\ lock = NoThread
      /\ \A t \in Threads : stack[t] = <<>> /\ ret[t] = NoSchema
      /\ stack = [t \in Threads |-> <<>>] /\ ret = [t \in Threads |-> NoSchema]
  BY DEF Init
<1>2. TypeOK
  <2>1. NoSchema \in Recursion .. Len(made)
    BY <1>1 DEF NoSchema, Recursion
  <2>2. ret \in [Threads -> Recursion .. Len(made)]
    BY <1>1, <2>1
  <2>3. stack \in [Threads -> Seq(Frame)] /\ \A t \in Threads : Len(stack[t]) <= MaxStack
    <3>1. <<>> \in Seq(Frame) /\ Len(<<>>) = 0 /\ MaxStack \in Nat
      BY TypeCacheAssumption
    <3> QED BY <1>1, <3>1
  <2>4. ASSUME NEW t \in Threads
        PROVE  lock = t <=> \E i \in 1 .. Len(stack[t]) : stack[t][i].pc \in {"check", "evict", "store"}
    <3>1. lock # t /\ stack[t] = <<>>
      BY <1>1, TypeCacheAssumption
    <3>2. ~ \E i \in 1 .. Len(stack[t]) : TRUE
      BY <3>1
    <3> QED BY <3>1, <3>2
  <2> QED BY <1>1, <2>2, <2>3, <2>4 DEF TypeOK
<1>3. CacheGood(cache, made)
  BY <1>1, TypeCacheAssumption DEF CacheGood
<1>4. \A t \in Threads : Good(stack[t], made, cache)
  BY <1>1 DEF Good
<1> QED BY <1>2, <1>3, <1>4 DEF IInv

(* Every step keeps the invariant.                                         *)
LEMMA StepInv == IInv /\ [Next]_vars => IInv'
<1> SUFFICES ASSUME IInv, [Next]_vars PROVE IInv'
  OBVIOUS
<1>1. CASE UNCHANGED vars
  BY <1>1 DEF vars, IInv, TypeOK
<1>2. ASSUME NEW t \in Threads, Step(t) PROVE IInv'
  BY <1>2, LookupInv, CustomiseInv, HintsFailInv, ExtractNestedInv, OverflowInv, ExtractInv, AcquireInv,
     CheckInv, EvictInv, StoreInv DEF Step
<1>3. ASSUME NEW t \in Threads, NEW ty \in Types, NEW ext \in BOOLEAN, Call(t, ty, ext)
      PROVE  IInv'
  BY <1>3, CallInv
<1> QED BY <1>1, <1>2, <1>3 DEF Next

(* The invariant holds in every behaviour of the cache.                    *)
LEMMA SpecInv == Spec => []IInv
BY InitInv, StepInv, PTL DEF Spec

-----------------------------------------------------------------------------
(* Every variable keeps its type, and a thread holds the lock exactly      *)
(* between taking it and leaving extract_json_schema's with statement.     *)
THEOREM TypeCorrect == Spec => []TypeOK
<1>1. IInv => TypeOK
  BY DEF IInv
<1> QED BY <1>1, SpecInv, PTL

(* The cache never exceeds _MAX_TYPE_SCHEMA_CACHE_SIZE, holds no type      *)
(* twice, and gives for a type the schema of that type and not one that a  *)
(* custom extractor made.                                                  *)
THEOREM CacheBounded == Spec => []BoundedTypeCache
<1>1. IInv => BoundedTypeCache
  BY DEF IInv, CacheGood, BoundedTypeCache, Sound
<1> QED BY <1>1, SpecInv, PTL

(* A whole schema in the cache is of a type that does not contain itself,  *)
(* and a schema is truncated only where a dataclass is part of the type    *)
(* and of one that contains itself, or was looked at before the names it   *)
(* uses were defined: what get_type_hints swallowed shows nowhere else,    *)
(* and what a failed extraction left behind is sound.                      *)
THEOREM OnlyCompleteCached == Spec => []CompleteCached
<1>1. IInv => CompleteCached
  BY DEF IInv, CacheGood, CompleteCached, Sound
<1> QED BY <1>1, SpecInv, PTL

(* The second look under the lock keeps an entry from being replaced: as   *)
(* long as a type stays in the cache, all callers see one object.          *)
THEOREM FirstStays == Spec => FirstObjectStays
<1>1. ASSUME IInv, [Next]_vars
      PROVE  \A i \in 1 .. Len(cache), j \in 1 .. Len(cache') :
               cache[i].type = cache'[j].type => cache[i].obj = cache'[j].obj
  <2>0. /\ \A i, j \in 1 .. Len(cache) : cache[i].type = cache[j].type => i = j
        /\ cache \in Seq(Entry) /\ CacheGood(cache, made)
    <3>1. cache \in Seq(Entry) /\ CacheGood(cache, made)
      BY <1>1, TypeFacts
    <3>2. \A i, j \in 1 .. Len(cache) : cache[i].type = cache[j].type => i = j
      BY <3>1 DEF CacheGood
    <3> QED BY <3>1, <3>2
  <2>1. CASE UNCHANGED cache
    BY <2>0, <2>1
  <2>2. ASSUME NEW t \in Threads, Evict(t)
        PROVE  \A j \in 1 .. Len(cache') : \E i \in 1 .. Len(cache) : cache'[j] = cache[i]
    <3>1. PICK c, m, c2 : c = cache /\ m = made /\ c2 = cache'
      OBVIOUS
    <3>2. /\ c \in Seq(Entry) /\ CacheGood(c, m)
          /\ (Len(c) >= MaxSize /\ c2 = Tail(c)) \/ (~(Len(c) >= MaxSize) /\ c2 = c)
      BY <2>0, <2>2, <3>1 DEF Evict, Full
    <3>3. \A j \in 1 .. Len(c2) : \E i \in 1 .. Len(c) : c2[j] = c[i]
      BY <3>2, EvictGood
    <3> QED BY <3>1, <3>3
  <2>3. CASE \A j \in 1 .. Len(cache') : \E i \in 1 .. Len(cache) : cache'[j] = cache[i]
    <3> SUFFICES ASSUME NEW i \in 1 .. Len(cache), NEW j \in 1 .. Len(cache'),
                        cache[i].type = cache'[j].type
                 PROVE  cache[i].obj = cache'[j].obj
      OBVIOUS
    <3>1. PICK k \in 1 .. Len(cache) : cache'[j] = cache[k]
      BY <2>3
    <3>2. i = k
      BY <2>0, <3>1
    <3> QED BY <3>1, <3>2
  <2>4. ASSUME NEW t \in Threads, Store(t)
        PROVE  \A i \in 1 .. Len(cache), j \in 1 .. Len(cache') :
                 cache[i].type = cache'[j].type => cache[i].obj = cache'[j].obj
    <3>1. PICK f : f = Top(t)
      OBVIOUS
    <3>2. f \in Frame /\ \A k \in 1 .. Len(cache) : cache[k].type # f.type
      <4>1. f \in Frame /\ f.pc = "store" /\ Made(f, made, cache)
        <5>1. stack[t] # <<>> /\ Top(t).pc = "store"
          BY <2>4 DEF Store, At
        <5>2. Top(t) \in Frame /\ Made(Top(t), made, cache)
          BY <1>1, <5>1, TopFacts
        <5> QED BY <3>1, <5>1, <5>2
      <4> QED BY <4>1 DEF Made
    <3>3. PICK e : e = [type |-> f.type, obj |-> f.obj]
      OBVIOUS
    <3>4. e \in Entry /\ e.type = f.type /\ cache' = Append(cache, e)
      BY <2>4, <3>1, <3>2, <3>3 DEF Store, Resident, Frame, Entry
    <3>5. \A j \in 1 .. Len(cache') :
            cache'[j] = e \/ (j \in 1 .. Len(cache) /\ cache'[j] = cache[j])
      BY <3>4, TypeFacts
    <3> SUFFICES ASSUME NEW i \in 1 .. Len(cache), NEW j \in 1 .. Len(cache'),
                        cache[i].type = cache'[j].type
                 PROVE  cache[i].obj = cache'[j].obj
      OBVIOUS
    <3>6. j \in 1 .. Len(cache) /\ cache'[j] = cache[j]
      BY <3>2, <3>4, <3>5
    <3>7. i = j
      BY <2>0, <3>6
    <3> QED BY <3>6, <3>7
  <2>5. ASSUME NEW t \in Threads, NEW ty \in Types, NEW ext \in BOOLEAN, Call(t, ty, ext)
        PROVE  UNCHANGED cache
    BY <2>5 DEF Call
  <2>6. ASSUME NEW t \in Threads, Step(t) PROVE UNCHANGED cache \/ Evict(t) \/ Store(t)
    BY <2>6 DEF Step, Lookup, Customise, HintsFail, ExtractNested, Overflow, Extract, Acquire, Check
  <2> QED BY <1>1, <2>1, <2>2, <2>3, <2>4, <2>5, <2>6 DEF Next, vars
<1>2. IInv /\ [Next]_vars =>
        [\A i \in 1 .. Len(cache), j \in 1 .. Len(cache') :
           cache[i].type = cache'[j].type => cache[i].obj = cache'[j].obj]_vars
  BY <1>1
<1> QED BY <1>2, SpecInv, PTL DEF Spec, FirstObjectStays
=============================================================================
