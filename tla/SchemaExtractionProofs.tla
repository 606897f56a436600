----------------------- MODULE SchemaExtractionProofs -----------------------
(***************************************************************************)
(* Proofs that extraction uses the cache of type schemas as specified, and *)
(* that attributes and results are the schemas they should be, for any     *)
(* types, functions, blueprints, requests and threads.                     *)
(***************************************************************************)
EXTENDS SchemaExtraction, TypeSchemaCacheProofs, WellFoundedInduction

Schemas  == Types \cup {None, Custom} \cup {Truncated(ty) : ty \in Types}
Item     == [f : Functions, kind : Kinds]
Question == Param \cup [name : {"return"}, type : Types]

IsSeq(s) == s \in Seq({s[i] : i \in 1 .. Len(s)})

(* What extract_json_schema should give for a type.                        *)
Right(o, ty) == IF o = Recursion THEN Fails(ty) ELSE AsSchema(o) \in Fresh(ty)

(* What a request has come to.                                             *)
JobType(j) ==
  /\ j = [pc |-> j.pc, b |-> j.b, plan |-> j.plan, ext |-> j.ext, resolved |-> j.resolved,
          got |-> j.got, results |-> j.results, result |-> j.result]
  /\ j.pc \in {"idle", "attribute", "hints", "types", "answer", "done"}
  /\ j.plan \in Seq(Item) /\ j.ext \in BOOLEAN /\ j.resolved \in BOOLEAN
  /\ j.got \in Seq(Schemas) /\ IsSeq(j.results)
  /\ Len(j.results) <= Len(j.plan)
  /\ j.pc \in {"attribute", "hints", "types", "answer"} => Len(j.results) < Len(j.plan)
  /\ j.pc \in {"attribute", "hints"} => j.got = <<>>
  /\ j.b # NoBlueprint => /\ \E c \in Contracts : c[1] = j.b
                          /\ j.plan = Plan(j.b)

(* The function a request is about, after get_type_hints.                  *)
Known(j, c) ==
  /\ ~j.resolved => Signature[c.f].text /\ c.f \in early
  /\ c.kind = "input" => Signature[c.f].known

(* The schemas it has got are those asked for so far.                      *)
GotRight(j, qs) ==
  /\ Len(j.got) <= Len(qs)
  /\ ~j.ext => \A i \in 1 .. Len(j.got) : j.got[i] \in Fresh(qs[i].type)

(* A call of extract_json_schema for type ty runs, or has answered.        *)
Calling(t, ty) ==
  IF stack[t] = <<>> THEN Right(ret[t], ty) ELSE stack[t][1].type = ty /\ ~stack[t][1].ext

Collecting(t, j) ==
  LET c  == j.plan[Len(j.results) + 1]
      qs == Asked[c.f][c.kind][j.resolved]
  IN /\ j.pc = "hints" /\ c.kind = "input" => Signature[c.f].known
     /\ j.pc \in {"types", "answer"} =>
       /\ Known(j, c) /\ GotRight(j, qs)
       /\ j.pc = "answer" => /\ Len(j.got) < Len(qs)
                             /\ ~j.ext => Calling(t, qs[Len(j.got) + 1].type)

(* The results so far are due, and a contract is made of all of them.      *)
ResultsDue(j) ==
  ~j.ext => \A i \in 1 .. Len(j.results) : j.results[i] \in DueSchemas(j.plan[i].f, j.plan[i].kind)

ContractMade(j) ==
  j.pc = "done" /\ j.b # NoBlueprint =>
    \/ j.result = Raised
    \/ Len(j.results) = Len(j.plan) /\ j.result = Contract(j.b, j.plan, j.results)

JobInv(t, j) == JobType(j) /\ Collecting(t, j) /\ ResultsDue(j) /\ ContractMade(j)

AttributeType ==
  attr = [f \in Functions |-> [input |-> attr[f].input, output |-> attr[f].output]]

EInv ==
  /\ IInv
  /\ job = [t \in Threads |-> job[t]]
  /\ \A t \in Threads : JobInv(t, job[t])
  /\ AttributeType /\ AttributesDue

-----------------------------------------------------------------------------
(* The parts of a sequence.  The induction principle is that every set of  *)
(* numbers has a least one.                                                *)
LEMMA LessRelation ==
  \E R : IsWellFoundedOn(R, Nat) /\ \A i, j \in Nat : <<i, j>> \in R <=> i < j
<1>1. \A i, j \in Nat : <<i, j>> \in OpToRel(<, Nat) <=> i < j
  BY Zenon DEF OpToRel
<1> QED BY <1>1, NatLessThanWellFounded, Zenon

(* Every set of numbers that is not empty has a least one.                 *)
LEMMA Least ==
  ASSUME NEW T, T \subseteq Nat, T # {}
  PROVE  \E n \in T : \A m \in T : n <= m
<1>1. PICK R : IsWellFoundedOn(R, Nat) /\ \A i, j \in Nat : <<i, j>> \in R <=> i < j
  BY LessRelation
<1>2. PICK n \in T : \A m \in T : ~ (<<m, n>> \in R)
  <2>1. IsWellFoundedOn(R, Nat)
    BY <1>1
  <2>2. \E n \in T : \A m \in T : ~ (<<m, n>> \in R)
    BY <2>1, WFMin
  <2> QED BY <2>2
<1>3. \A m \in T : ~ (m < n) /\ m \in Nat /\ n \in Nat
  BY <1>1, <1>2, Zenon
<1>4. \A m \in T : n <= m
  BY <1>3
<1> QED BY <1>4

(* What Where has taken from the first i elements of s.                    *)
Taken(G, s, A, i) ==
  IF i = 0 THEN <<>> ELSE IF s[i] \in A THEN Append(G[i - 1], s[i]) ELSE G[i - 1]

(* The recursive function of Where exists up to place n.                   *)
Exists(S, s, A, n) == \E G \in [0 .. n -> Seq(S)] : \A i \in 0 .. n : G[i] = Taken(G, s, A, i)

LEMMA UptoExists ==
  ASSUME NEW S, NEW s \in Seq(S), NEW A, NEW n \in Nat, n <= Len(s)
  PROVE  Exists(S, s, A, n)
<1>1. PICK T : T = {k \in Nat : k <= Len(s) /\ ~Exists(S, s, A, k)}
  OBVIOUS
<1> SUFFICES ASSUME T # {} PROVE FALSE
  BY <1>1
<1>2. PICK m \in T : \A k \in T : m <= k
  <2>1. T \subseteq Nat
    BY <1>1
  <2> QED BY <2>1, Least
<1>3. m \in Nat /\ m <= Len(s)
  BY <1>1
<1>4. CASE m = 0
  <2>1. PICK G : G = [i \in 0 .. 0 |-> <<>>]
    OBVIOUS
  <2>2. G \in [0 .. 0 -> Seq(S)] /\ \A i \in 0 .. 0 : G[i] = Taken(G, s, A, i)
    BY <2>1 DEF Taken
  <2> QED BY <1>1, <1>4, <2>2 DEF Exists
<1>5. CASE m > 0
  <2>1. m - 1 \notin T /\ m - 1 \in Nat /\ m - 1 <= Len(s)
    BY <1>2, <1>3, <1>5
  <2>2. PICK G \in [0 .. m - 1 -> Seq(S)] : \A i \in 0 .. m - 1 : G[i] = Taken(G, s, A, i)
    BY <1>1, <2>1 DEF Exists
  <2>3. PICK last \in Seq(S) : last = Taken(G, s, A, m)
    <3>1. G[m - 1] \in Seq(S) /\ s[m] \in S
      BY <1>3, <1>5, <2>2
    <3>2. Append(G[m - 1], s[m]) \in Seq(S)
      BY <3>1
    <3>3. Taken(G, s, A, m) \in {G[m - 1], Append(G[m - 1], s[m])}
      BY <1>3, <1>5 DEF Taken
    <3> QED BY <3>1, <3>2, <3>3
  <2>4. PICK H : H = [i \in 0 .. m |-> IF i = m THEN last ELSE G[i]]
    OBVIOUS
  <2>5. H \in [0 .. m -> Seq(S)] /\ H[m] = last /\ \A i \in 0 .. m - 1 : H[i] = G[i]
    BY <1>3, <1>5, <2>4
  <2>6. ASSUME NEW i \in 0 .. m PROVE H[i] = Taken(H, s, A, i)
    <3>1. CASE i = m
      <4>1. H[m - 1] = G[m - 1]
        BY <1>3, <1>5, <2>5
      <4> QED BY <1>3, <1>5, <2>3, <2>5, <3>1, <4>1 DEF Taken
    <3>2. CASE i < m
      <4>1. H[i] = G[i] /\ (i > 0 => H[i - 1] = G[i - 1])
        BY <1>3, <2>5, <3>2
      <4>2. G[i] = Taken(G, s, A, i)
        BY <1>3, <2>2, <3>2
      <4> QED BY <4>1, <4>2 DEF Taken
    <3> QED BY <1>3, <3>1, <3>2
  <2> QED BY <1>1, <1>3, <2>5, <2>6 DEF Exists
<1> QED BY <1>3, <1>4, <1>5

(* Where is what its recursive function gives at the end.                  *)
LEMMA WhereUnfolds ==
  ASSUME NEW S, NEW s \in Seq(S), NEW A
  PROVE  \E G : Where(s, A) = G[Len(s)] /\ \A i \in 0 .. Len(s) : G[i] = Taken(G, s, A, i)
<1>1. PICK n \in Nat : n = Len(s) /\ n <= Len(s)
  OBVIOUS
<1>2. PICK G \in [0 .. Len(s) -> Seq(S)] : \A i \in 0 .. Len(s) : G[i] = Taken(G, s, A, i)
  <2>1. Exists(S, s, A, n)
    BY <1>1, UptoExists
  <2> QED BY <1>1, <2>1 DEF Exists
<1>3. G = [i \in 0 .. Len(s) |-> IF i = 0 THEN <<>>
                                 ELSE IF s[i] \in A THEN Append(G[i - 1], s[i]) ELSE G[i - 1]]
  BY <1>2 DEF Taken
<1>4. PICK C : C = CHOOSE F : F = [i \in 0 .. Len(s) |-> IF i = 0 THEN <<>>
                                     ELSE IF s[i] \in A THEN Append(F[i - 1], s[i]) ELSE F[i - 1]]
  OBVIOUS
<1>5. C = [i \in 0 .. Len(s) |-> IF i = 0 THEN <<>>
                                 ELSE IF s[i] \in A THEN Append(C[i - 1], s[i]) ELSE C[i - 1]]
  BY <1>3, <1>4, Zenon
<1>6. Where(s, A) = C[Len(s)]
  BY <1>4, Zenon DEF Where
<1>7. \A i \in 0 .. Len(s) : C[i] = Taken(C, s, A, i)
  BY <1>5 DEF Taken
<1> QED BY <1>6, <1>7

(* The elements of a sequence differ.                                      *)
Differ(q) == \A i, j \in 1 .. Len(q) : q[i] = q[j] => i = j

(* Where gives the elements that are in A, each of them once if they       *)
(* differ.                                                                 *)
TakenGood(q, S, s, A, i) ==
  /\ q \in Seq(S)
  /\ ToSet(q) = {s[k] : k \in 1 .. i} \cap A
  /\ Differ(s) => Differ(q)

LEMMA WhereFacts ==
  ASSUME NEW S, NEW s \in Seq(S), NEW A
  PROVE  TakenGood(Where(s, A), S, s, A, Len(s))
<1>1. PICK G : Where(s, A) = G[Len(s)] /\ \A i \in 0 .. Len(s) : G[i] = Taken(G, s, A, i)
  BY WhereUnfolds
<1>2. PICK T : T = {i \in 0 .. Len(s) : ~TakenGood(G[i], S, s, A, i)}
  OBVIOUS
<1> SUFFICES ASSUME T # {} PROVE FALSE
  BY <1>1, <1>2
<1>3. PICK m \in T : \A k \in T : m <= k
  <2>1. T \subseteq Nat
    BY <1>2
  <2> QED BY <2>1, Least
<1>4. m \in 0 .. Len(s) /\ ~TakenGood(G[m], S, s, A, m) /\ G[m] = Taken(G, s, A, m)
  BY <1>1, <1>2
<1>5. CASE m = 0
  <2>1. G[m] = <<>>
    BY <1>4, <1>5 DEF Taken
  <2>2. {s[k] : k \in 1 .. 0} = {} /\ ToSet(<<>>) = {} /\ Differ(<<>>) /\ <<>> \in Seq(S)
    BY DEF ToSet, Differ
  <2> QED BY <1>4, <1>5, <2>1, <2>2 DEF TakenGood
<1>6. CASE m > 0
  <2>1. PICK n : n = m - 1
    OBVIOUS
  <2>2. n \in 0 .. Len(s) /\ m \in 1 .. Len(s) /\ m = n + 1 /\ n \in Nat
    BY <1>4, <1>6, <2>1
  <2>3. n \notin T
    BY <1>3, <2>2
  <2>4. PICK q : q = G[n]
    OBVIOUS
  <2>5. q \in Seq(S) /\ ToSet(q) = {s[k] : k \in 1 .. n} \cap A /\ (Differ(s) => Differ(q))
    BY <1>2, <2>2, <2>3, <2>4 DEF TakenGood
  <2>6. PICK e \in S : e = s[m]
    BY <2>2
  <2>7. {s[k] : k \in 1 .. m} = {s[k] : k \in 1 .. n} \cup {e}
    BY <2>2, <2>6
  <2>8. CASE e \notin A
    <3>1. G[m] = q
      BY <1>4, <2>2, <2>4, <2>6, <2>8 DEF Taken
    <3> QED BY <1>4, <2>5, <2>7, <2>8, <3>1 DEF TakenGood
  <2>9. CASE e \in A
    <3>1. PICK r : r = Append(q, e)
      OBVIOUS
    <3>2. G[m] = r
      BY <1>4, <2>2, <2>4, <2>6, <2>9, <3>1 DEF Taken
    <3>3. /\ r \in Seq(S) /\ Len(r) = Len(q) + 1 /\ Len(q) \in Nat /\ r[Len(q) + 1] = e
          /\ \A i \in 1 .. Len(q) : r[i] = q[i]
      BY <2>5, <3>1
    <3>4. ToSet(r) = ToSet(q) \cup {e}
      <4>1. \A i \in 1 .. Len(r) : r[i] \in ToSet(q) \cup {e}
        BY <3>3 DEF ToSet
      <4>2. e \in ToSet(r) /\ \A i \in 1 .. Len(q) : q[i] \in ToSet(r)
        BY <3>3 DEF ToSet
      <4> QED BY <4>1, <4>2 DEF ToSet
    <3>5. Differ(s) => e \notin ToSet(q)
      <4> SUFFICES ASSUME Differ(s), e \in ToSet(q) PROVE FALSE
        OBVIOUS
      <4>1. PICK k \in 1 .. n : e = s[k]
        BY <2>5
      <4>2. k \in 1 .. Len(s) /\ k # m
        BY <2>2
      <4> QED BY <2>2, <2>6, <4>1, <4>2 DEF Differ
    <3>6. Differ(s) => Differ(r)
      BY <2>5, <3>3, <3>5 DEF Differ, ToSet
    <3>7. ToSet(r) = {s[k] : k \in 1 .. m} \cap A
      BY <2>5, <2>7, <2>9, <3>4
    <3> QED BY <1>4, <3>2, <3>3, <3>6, <3>7 DEF TakenGood
  <2> QED BY <2>8, <2>9
<1> QED BY <1>4, <1>5, <1>6
-----------------------------------------------------------------------------
(* What a call of extract_json_schema gives.                               *)

(* What is known of objects stays: an object never changes.                *)
LEMMA MadeGrows ==
  ASSUME IInv, NEW t \in Threads, Step(t)
  PROVE  made' = made \/ \E o : made' = Append(made, o)
BY DEF Step, Lookup, Customise, HintsFail, ExtractNested, Overflow, Extract, Acquire, Check, Evict,
       Store

(* An answer stays right while objects are made.                           *)
LEMMA RightStays ==
  ASSUME NEW o, NEW ty, o \in Recursion .. Len(made), made \in Seq(SchemaObject), Right(o, ty),
         made' = made \/ \E x : made' = Append(made, x)
  PROVE  Right(o, ty)'
<1>1. CASE o \in 1 .. Len(made)
  <2>1. made'[o] = made[o]
    BY <1>1
  <2>2. o # NoSchema /\ o # Recursion
    BY <1>1 DEF NoSchema, Recursion
  <2> QED BY <2>1, <2>2 DEF Right, AsSchema
<1>2. CASE o = NoSchema \/ o = Recursion
  BY <1>2 DEF Right, AsSchema, NoSchema, Recursion
<1> QED BY <1>1, <1>2 DEF NoSchema, Recursion

(* The outermost call of thread t is the one it was, or has answered.      *)
Answers(t, ty) ==
  \/ stack'[t] # <<>> /\ stack'[t][1].type = ty /\ ~stack'[t][1].ext
  \/ stack'[t] = <<>> /\ Right(ret[t], ty)'

(* Changing the innermost call leaves the outermost its type.              *)
LEMMA SetTopAnswers ==
  ASSUME IInv, NEW t \in Threads, stack[t] # <<>>, ~stack[t][1].ext,
         NEW g \in Frame, g.type = Top(t).type, g.ext = Top(t).ext, SetTop(t, g),
         NEW ty, ty = stack[t][1].type
  PROVE  Answers(t, ty)
<1> PICK s : s = stack[t]
  OBVIOUS
<1> PICK s2 : s2 = [s EXCEPT ![Len(s)] = g]
  OBVIOUS
<1>1. s \in Seq(Frame) /\ Len(s) \in Nat \ {0} /\ Top(t) = s[Len(s)]
  BY TopFacts
<1>2. stack'[t] = s2
  <2>1. stack \in [Threads -> Seq(Frame)]
    BY DEF IInv, TypeOK
  <2> QED BY <2>1 DEF SetTop
<1>3. s2 \in Seq(Frame) /\ s2 # <<>> /\ s2[1].type = s[1].type /\ s2[1].ext = s[1].ext
  <2>1. s2 \in Seq(Frame) /\ Len(s2) = Len(s) /\ s2 # <<>>
    BY <1>1
  <2>2. CASE Len(s) = 1
    BY <1>1, <2>2
  <2>3. CASE Len(s) # 1
    BY <1>1, <2>3
  <2> QED BY <2>1, <2>2, <2>3
<1> QED BY <1>2, <1>3 DEF Answers

(* Below the innermost of several calls there is another.                  *)
LEMMA Several == ASSUME NEW n \in Nat \ {0}, n # 1 PROVE 1 \in 1 .. n - 1
OBVIOUS

(* The return of the innermost call is an answer if it is the outermost.   *)
LEMMA ReturnAnswers ==
  ASSUME IInv, NEW t \in Threads, stack[t] # <<>>, ~stack[t][1].ext, NEW o, NEW w, Return(t, o, w),
         NEW ty, ty = stack[t][1].type, NEW inner, inner = Top(t).type, Right(o, inner)'
  PROVE  Answers(t, ty)
<1> PICK s, n : s = stack[t] /\ n = Len(s)
  OBVIOUS
<1> PICK s2 : s2 = Below(t, w)
  OBVIOUS
<1>1. s \in Seq(Frame) /\ n \in Nat \ {0} /\ Top(t) = s[n]
  BY TopFacts
<1>2. stack'[t] = s2
  <2>1. stack \in [Threads -> Seq(Frame)]
    BY DEF IInv, TypeOK
  <2> QED BY <2>1 DEF Return
<1>3. s2 = [i \in 1 .. n - 1 |->
              IF i = n - 1 THEN [s[n - 1] EXCEPT !.whole = s[n - 1].whole /\ w] ELSE s[i]]
  BY DEF Below
<1>4. CASE n = 1
  <2>1. s2 = <<>> /\ Top(t) = s[1]
    BY <1>1, <1>3, <1>4
  <2>2. ret'[t] = o
    BY <1>4 DEF Return, IInv, TypeOK
  <2>3. inner = ty
    BY <2>1
  <2>4. Right(ret[t], ty)'
    BY <2>2, <2>3 DEF Right, AsSchema
  <2> QED BY <1>2, <2>1, <2>4 DEF Answers
<1>5. CASE n # 1
  <2>1. 1 \in 1 .. n - 1 /\ 1 \in DOMAIN s2
    <3>1. 1 \in 1 .. n - 1
      BY <1>1, <1>5, Several, Zenon
    <3> QED BY <1>3, <3>1
  <2>2. s[1] \in Frame
    BY <1>1
  <2>3. s2[1].type = s[1].type /\ s2[1].ext = s[1].ext
    <3>1. CASE n - 1 = 1
      <4>1. s2[1] = [s[1] EXCEPT !.whole = s[1].whole /\ w]
        BY <1>3, <2>1, <3>1
      <4> QED BY <2>2, <4>1 DEF Frame
    <3>2. CASE n - 1 # 1
      BY <1>3, <2>1, <3>2
    <3> QED BY <3>1, <3>2
  <2>4. s2 # <<>>
    <3>1. DOMAIN <<>> = {}
      OBVIOUS
    <3> QED BY <2>1, <3>1, Zenon
  <2> QED BY <1>2, <2>3, <2>4 DEF Answers
<1> QED BY <1>4, <1>5

(* A sound object is the right schema, after a step.                       *)
LEMMA SoundIsRight ==
  ASSUME NEW ty \in Types, NEW o \in Nat \ {0}, Sound(ty, made'[o]), made'[o] \in SchemaObject
  PROVE  Right(o, ty)'
<1>1. o # NoSchema /\ o # Recursion
  BY DEF NoSchema, Recursion
<1>2. made'[o].whole \in BOOLEAN /\ made'[o].type = ty /\ ~made'[o].custom
  BY DEF SchemaObject, Sound
<1>3. CASE made'[o].whole
  <2>1. AsSchema(o)' = IF ty = Unannotated THEN Str ELSE ty
    BY <1>1, <1>2, <1>3 DEF AsSchema
  <2>2. ~Endless[ty] /\ ty \notin Opaque
    BY <1>3 DEF Sound
  <2> QED BY <1>1, <2>1, <2>2 DEF Right, Fresh, Fails
<1>4. CASE ~made'[o].whole
  <2>1. AsSchema(o)' = Truncated(ty)
    BY <1>1, <1>2, <1>4 DEF AsSchema
  <2>2. ~Safe[ty]
    BY <1>4 DEF Sound
  <2> QED BY <1>1, <2>1, <2>2 DEF Right, Fresh
<1> QED BY <1>2, <1>3, <1>4

(* None is right for a type whose extraction fails on the way to None, or  *)
(* for one that is no class.                                               *)
LEMMA NoneIsRight ==
  ASSUME NEW ty \in Types, ty \in Opaque \/ (Endless[ty] /\ ty \in Generic)
  PROVE  Right(NoSchema, ty)'
<1>1. ~Fails(ty) /\ (ty \in Opaque \/ Endless[ty])
  BY OpaqueAssumption DEF Fails
<1>2. None \in Fresh(ty)
  BY <1>1 DEF Fresh
<1>3. NoSchema # Recursion /\ AsSchema(NoSchema)' = None
  BY DEF NoSchema, Recursion, AsSchema
<1> QED BY <1>2, <1>3 DEF Right

(* A frame that goes on.                                                   *)
LEMMA GotoAnswers ==
  ASSUME IInv, NEW t \in Threads, stack[t] # <<>>, ~stack[t][1].ext,
         NEW pc \in {"extract", "check", "evict", "store"}, Goto(t, pc),
         NEW ty, ty = stack[t][1].type
  PROVE  Answers(t, ty)
<1>1. PICK f, g : f = Top(t) /\ g = [f EXCEPT !.pc = pc]
  OBVIOUS
<1>2. f \in Frame
  BY <1>1, TopFacts
<1>3. g \in Frame /\ g.type = f.type /\ g.ext = f.ext
  BY <1>1, <1>2 DEF Frame
<1>4. SetTop(t, g)
  BY <1>1 DEF Goto
<1> QED BY <1>1, <1>3, <1>4, SetTopAnswers

(* Whatever a call does without an extractor, it goes on or gives the      *)
(* schema it should.                                                       *)
LEMMA StepAnswers ==
  ASSUME IInv, NEW t \in Threads, Step(t), ~stack[t][1].ext,
         NEW ty, ty = stack[t][1].type
  PROVE  Answers(t, ty)
<1>1. stack[t] # <<>>
  BY DEF Step, At, Extracting, Lookup, Customise, HintsFail, ExtractNested, Overflow, Extract, Acquire,
         Check, Evict, Store
<1>2. PICK f : f = Top(t)
  OBVIOUS
<1>3. /\ f \in Frame /\ Passed(f, f.nth) /\ Made(f, made, cache)
      /\ f.ext => Len(stack[t]) = 1
      /\ stack[t] \in Seq(Frame) /\ Len(stack[t]) \in Nat \ {0} /\ f = stack[t][Len(stack[t])]
  BY <1>1, <1>2, TopFacts
<1>4. ~f.ext
  BY <1>3
<1>5. PICK inner \in Types : inner = f.type
  BY <1>3 DEF Frame
<1>6. CASE Lookup(t)
  <2>1. ASSUME NEW i \in 1 .. Len(cache), cache[i].type = f.type,
               Return(t, cache[i].obj, made[cache[i].obj].whole)
        PROVE  Answers(t, ty)
    <3>1. PICK o, w : o = cache[i].obj /\ w = made[o].whole
      OBVIOUS
    <3>2. o \in 1 .. Len(made) /\ Sound(inner, made[o]) /\ made \in Seq(SchemaObject)
      BY <1>5, <2>1, <3>1, TypeFacts DEF CacheGood
    <3>3. made' = made
      BY <1>6 DEF Lookup
    <3>4. Sound(inner, made'[o]) /\ made'[o] \in SchemaObject /\ o \in Nat \ {0}
      BY <3>2, <3>3
    <3>5. Right(o, inner)'
      BY <3>4, SoundIsRight
    <3> QED BY <1>1, <1>2, <1>5, <2>1, <3>1, <3>5, ReturnAnswers
  <2> QED BY <1>1, <1>2, <1>6, <2>1, GotoAnswers DEF Lookup
<1>7. CASE Customise(t)
  BY <1>2, <1>4, <1>7 DEF Customise
<1>8. CASE ExtractNested(t)
  <2>1. PICK h, g, s : /\ h = [f EXCEPT !.nth = @ + 1] /\ g = NewFrame(Fields(f)[f.nth + 1], FALSE)
                       /\ s = Append([stack[t] EXCEPT ![Len(stack[t])] = h], g)
    OBVIOUS
  <2>2. f.nth < Len(Fields(f)) /\ stack' = [stack EXCEPT ![t] = s]
    BY <1>2, <1>8, <2>1 DEF ExtractNested
  <2>3. h \in Frame /\ h.type = f.type /\ h.ext = f.ext
    <3>1. PICK n \in Nat : n = f.nth + 1
      BY <1>3 DEF Frame
    <3>2. h = [f EXCEPT !.nth = n]
      BY <2>1, <3>1
    <3> QED BY <1>3, <3>2 DEF Frame
  <2>4. g \in Frame
    <3>1. Fields(f)[f.nth + 1] \in Types
      <4>1. f.nth \in Nat /\ Fields(f) \in Seq(Types)
        BY <1>3, FieldFacts
      <4> QED BY <2>2, <4>1
    <3> QED BY <2>1, <3>1 DEF Frame, NewFrame, NoSchema
  <2>5. /\ s \in Seq(Frame) /\ Len(s) = Len(stack[t]) + 1 /\ s[Len(stack[t])] = h
        /\ \A i \in 1 .. Len(stack[t]) - 1 : s[i] = stack[t][i]
    <3>1. PICK q : q = stack[t]
      OBVIOUS
    <3>2. s = Append([q EXCEPT ![Len(q)] = h], g) /\ q \in Seq(Frame) /\ q # <<>>
      BY <1>1, <1>3, <2>1, <3>1
    <3> QED BY <2>3, <2>4, <3>1, <3>2, Appended
  <2>6. s[1].type = ty /\ ~s[1].ext
    <3>1. CASE Len(stack[t]) = 1
      BY <1>3, <2>3, <2>5, <3>1
    <3>2. CASE Len(stack[t]) # 1
      <4>1. 1 \in 1 .. Len(stack[t]) - 1
        BY <1>3, <3>2, Several, Zenon
      <4> QED BY <2>5, <4>1
    <3> QED BY <3>1, <3>2
  <2>7. stack'[t] = s /\ s # <<>>
    <3>1. stack \in [Threads -> Seq(Frame)]
      BY DEF IInv, TypeOK
    <3> QED BY <1>3, <2>2, <2>5, <3>1
  <2> QED BY <2>6, <2>7 DEF Answers
<1>9. CASE Overflow(t)
  <2>1. Endless[ty] /\ ty \in Types
    <3>1. PICK q : q = stack[t]
      OBVIOUS
    <3>2. q \in Seq(Frame) /\ Good(q, made, cache) /\ Len(q) > Room /\ q # <<>>
      BY <1>1, <1>9, <3>1, TopFacts DEF Overflow
    <3>3. q[1] \in Frame
      BY <3>2
    <3> QED BY <3>1, <3>2, <3>3, DeepIsEndless, FieldFacts
  <2>2. stack'[t] = <<>> /\ ret'[t] = IF ty \in Generic THEN NoSchema ELSE Recursion
    BY <1>9 DEF Overflow, IInv, TypeOK
  <2>3. CASE ty \in Generic
    <3>1. Right(NoSchema, ty)'
      BY <2>1, <2>3, NoneIsRight
    <3>2. Right(ret[t], ty)'
      BY <2>2, <2>3, <3>1 DEF Right, AsSchema
    <3> QED BY <2>2, <3>2 DEF Answers
  <2>4. CASE ty \notin Generic
    <3>1. Right(ret[t], ty)'
      BY <2>1, <2>2, <2>4 DEF Right, Fails
    <3> QED BY <2>2, <3>1 DEF Answers
  <2> QED BY <2>3, <2>4
<1>10. CASE Extract(t)
  <2>1. made' = made \/ made' = Append(made, [type |-> f.type, custom |-> FALSE, whole |-> f.whole])
    BY <1>2, <1>10 DEF Extract
  <2>2. ASSUME f.type \in Opaque, Return(t, NoSchema, TRUE) PROVE Answers(t, ty)
    <3>1. Right(NoSchema, inner)'
      BY <1>5, <2>2, NoneIsRight
    <3> QED BY <1>1, <1>2, <1>5, <2>2, <3>1, ReturnAnswers
  <2>3. ASSUME f.type \notin Opaque,
               made' = Append(made, [type |-> f.type, custom |-> FALSE, whole |-> f.whole]),
               Return(t, Len(made'), f.whole)
        PROVE  Answers(t, ty)
    <3>1. PICK o, x : o = Len(made') /\ x = [type |-> f.type, custom |-> FALSE, whole |-> f.whole]
      OBVIOUS
    <3>2. x \in SchemaObject /\ x.type = inner /\ ~x.custom /\ x.whole = f.whole
      BY <1>3, <1>5, <3>1, FieldFacts DEF SchemaObject
    <3>3. o \in Nat \ {0} /\ made'[o] = x
      BY <2>3, <3>1, <3>2, TypeFacts
    <3>4. (f.whole => ~Endless[inner]) /\ (Safe[inner] => f.whole)
      BY <1>1, <1>2, <1>5, <1>10, ExtractWhole
    <3>5. Sound(inner, x)
      BY <1>5, <2>3, <3>2, <3>4 DEF Sound
    <3>6. Right(o, inner)'
      BY <3>2, <3>3, <3>5, SoundIsRight
    <3> QED BY <1>1, <1>2, <1>5, <2>3, <3>1, <3>6, ReturnAnswers
  <2>4. ASSUME NEW n, SetTop(t, [f EXCEPT !.pc = "lock", !.obj = n]), n \in Nat
        PROVE  Answers(t, ty)
    <3>1. PICK g : g = [f EXCEPT !.pc = "lock", !.obj = n]
      OBVIOUS
    <3>2. g \in Frame /\ g.type = f.type /\ g.ext = f.ext
      BY <1>3, <2>4, <3>1 DEF Frame
    <3> QED BY <1>1, <1>2, <2>4, <3>1, <3>2, SetTopAnswers
  <2>5. Len(made') \in Nat
    BY <2>1, TypeFacts
  <2> QED BY <1>2, <1>10, <2>2, <2>3, <2>4, <2>5 DEF Extract
<1>11. CASE Acquire(t)
  BY <1>1, <1>11, GotoAnswers DEF Acquire
<1>12. ASSUME f.pc \in Past, made' = made, Return(t, f.obj, f.whole) PROVE Answers(t, ty)
  <2>1. PICK o : o = f.obj
    OBVIOUS
  <2>2. o \in 1 .. Len(made) /\ Sound(inner, made[o]) /\ made \in Seq(SchemaObject)
    BY <1>3, <1>5, <1>12, <2>1, TypeFacts DEF Made
  <2>3. Sound(inner, made'[o]) /\ made'[o] \in SchemaObject /\ o \in Nat \ {0}
    BY <1>12, <2>2
  <2>4. Right(o, inner)'
    BY <2>3, SoundIsRight
  <2> QED BY <1>1, <1>2, <1>5, <1>12, <2>1, <2>4, ReturnAnswers
<1>13. CASE Check(t)
  BY <1>1, <1>2, <1>12, <1>13, GotoAnswers DEF Check, At, Past
<1>14. CASE Evict(t)
  BY <1>1, <1>14, GotoAnswers DEF Evict
<1>15. CASE Store(t)
  BY <1>2, <1>12, <1>15 DEF Store, At, Past
<1>16. CASE HintsFail(t)
  <2>1. PICK g : g = [f EXCEPT !.pc = "raw", !.whole = FALSE]
    OBVIOUS
  <2>2. g \in Frame /\ g.type = f.type /\ g.ext = f.ext /\ SetTop(t, g)
    BY <1>2, <1>3, <1>16, <2>1 DEF Frame, HintsFail
  <2> QED BY <1>1, <1>2, <2>2, SetTopAnswers
<1> QED BY <1>6, <1>7, <1>8, <1>9, <1>10, <1>11, <1>13, <1>14, <1>15, <1>16 DEF Step
-----------------------------------------------------------------------------
(* What a signature says.                                                  *)
LEMMA SignatureFacts ==
  ASSUME NEW f \in Functions
  PROVE  /\ Signature[f].params \in Seq(Param)
         /\ Signature[f].returns \in Types \cup {NoneType}
         /\ \A p, q \in ToSet(Signature[f].params) : p.name = q.name => p = q
         /\ Differ(Signature[f].params)
         /\ ToSet(Signature[f].params) \subseteq Param
<1> PICK s : s = Signature[f].params
  OBVIOUS
<1>1. /\ s \in Seq(Param) /\ Signature[f].returns \in Types \cup {NoneType}
      /\ \A i, j \in 1 .. Len(s) : s[i].name = s[j].name => i = j
  BY SignatureAssumption
<1>2. \A p, q \in ToSet(s) : p.name = q.name => p = q
  BY <1>1 DEF ToSet
<1>3. Differ(s) /\ ToSet(s) \subseteq Param
  BY <1>1 DEF Differ, ToSet
<1> QED BY <1>1, <1>2, <1>3

(* Where, for what follows.                                                *)
LEMMA WhereSet ==
  ASSUME NEW S, NEW s \in Seq(S), NEW A
  PROVE  /\ Where(s, A) \in Seq(S) /\ ToSet(Where(s, A)) = ToSet(s) \cap A
         /\ Differ(s) => Differ(Where(s, A))
<1>1. ToSet(s) = {s[k] : k \in 1 .. Len(s)}
  BY DEF ToSet
<1> QED BY <1>1, WhereFacts DEF TakenGood

(* business_params are the parameters the reference has, each once.        *)
LEMMA BusinessFacts ==
  ASSUME NEW f \in Functions, NEW resolved \in BOOLEAN
  PROVE  /\ Business[f][resolved] \in Seq(Param)
         /\ ToSet(Business[f][resolved]) = DueParams(f, resolved)
         /\ Differ(Business[f][resolved])
         /\ DueParams(f, resolved) \subseteq Param
         /\ \A p, q \in DueParams(f, resolved) : p.name = q.name => p = q
<1> PICK s : s = Signature[f].params
  OBVIOUS
<1> PICK A : A = {p \in Param : p.kind \notin {"system", "variadic"}
                                  \cup IF resolved THEN {"header"} ELSE {}}
  OBVIOUS
<1>1. /\ s \in Seq(Param) /\ Differ(s) /\ ToSet(s) \subseteq Param
      /\ \A p, q \in ToSet(s) : p.name = q.name => p = q
  BY SignatureFacts
<1>2. Business[f][resolved] = Where(s, A)
  BY DEF Business
<1>3. ToSet(s) \cap A = DueParams(f, resolved)
  <2>1. \A p \in Param : p.kind \in {"business", "header", "system", "variadic"}
    BY DEF Param
  <2> QED BY <1>1, <2>1 DEF DueParams
<1>4. Where(s, A) \in Seq(Param) /\ ToSet(Where(s, A)) = ToSet(s) \cap A /\ Differ(Where(s, A))
  BY <1>1, WhereSet
<1>5. DueParams(f, resolved) \subseteq ToSet(s)
  BY <1>3
<1> QED BY <1>1, <1>2, <1>3, <1>4, <1>5

(* A sequence of different elements with one element in it.                *)
LEMMA OnlyElement ==
  ASSUME NEW S, NEW s \in Seq(S), Differ(s)
  PROVE  /\ Len(s) = 1 => ToSet(s) = {s[1]}
         /\ \A p : ToSet(s) = {p} => Len(s) = 1
         /\ s = <<>> <=> ToSet(s) = {}
<1>1. ASSUME Len(s) = 1 PROVE ToSet(s) = {s[1]}
  BY <1>1 DEF ToSet
<1>2. ASSUME NEW p, ToSet(s) = {p} PROVE Len(s) = 1
  <2> PICK n \in Nat : n = Len(s)
    OBVIOUS
  <2>1. \A i \in 1 .. Len(s) : s[i] = p
    <3>1. \A i \in DOMAIN s : s[i] \in ToSet(s)
      BY Zenon DEF ToSet
    <3> QED BY <1>2, <3>1
  <2>2. n # 0
    <3>1. p \in ToSet(s)
      BY <1>2
    <3>2. PICK i \in 1 .. Len(s) : s[i] = p
      BY <3>1 DEF ToSet
    <3>3. i \in 1 .. n
      BY <3>2
    <3> QED BY <3>3
  <2>3. ~(n > 1)
    <3> SUFFICES ASSUME n > 1 PROVE FALSE
      OBVIOUS
    <3>1. 1 \in 1 .. Len(s) /\ 2 \in 1 .. Len(s)
      OBVIOUS
    <3> QED BY <2>1, <3>1 DEF Differ
  <2>4. n = 1
    BY <2>2, <2>3
  <2> QED BY <2>4
<1>3. s = <<>> <=> ToSet(s) = {}
  <2>1. s # <<>> => 1 \in DOMAIN s
    OBVIOUS
  <2>2. s = <<>> => DOMAIN s = {}
    OBVIOUS
  <2> QED BY <2>1, <2>2, Zenon DEF ToSet
<1> QED BY <1>1, <1>2, <1>3

(* Whether there is a single parameter.                                    *)
LEMMA SingleFacts ==
  ASSUME NEW f \in Functions, NEW resolved \in BOOLEAN
  PROVE  /\ Business[f][resolved] = <<>> <=> DueParams(f, resolved) = {}
         /\ Single(f, resolved) => DueParams(f, resolved) = {Business[f][resolved][1]}
         /\ \A p : DueParams(f, resolved) = {p} =>
                     Single(f, resolved) /\ Business[f][resolved][1] = p
<1> PICK b : b = Business[f][resolved]
  OBVIOUS
<1> PICK d : d = DueParams(f, resolved)
  OBVIOUS
<1>1. b \in Seq(Param) /\ ToSet(b) = d /\ Differ(b)
  BY BusinessFacts
<1>2. /\ Len(b) = 1 => d = {b[1]}
      /\ \A p : d = {p} => Len(b) = 1
      /\ b = <<>> <=> d = {}
  BY <1>1, OnlyElement
<1> QED BY <1>2 DEF Single

(* The types that are asked for.                                           *)
LEMMA AskedInput ==
  ASSUME NEW f \in Functions, NEW resolved \in BOOLEAN
  PROVE  /\ Asked[f]["input"][resolved] \in Seq(Param)
         /\ Differ(Asked[f]["input"][resolved])
         /\ Untyped(f, resolved) => Asked[f]["input"][resolved] = <<>>
         /\ ~Untyped(f, resolved) =>
              ToSet(Asked[f]["input"][resolved]) =
                {p \in DueParams(f, resolved) :
                   ~Textual(p, resolved)
                     /\ (Single(f, resolved) \/ p.type \notin {Unannotated, AnyType})}
<1> PICK b, d : b = Business[f][resolved] /\ d = DueParams(f, resolved)
  OBVIOUS
<1> PICK A : A = {p \in Param : ~Textual(p, resolved)
                                  /\ (Single(f, resolved) \/ p.type \notin {Unannotated, AnyType})}
  OBVIOUS
<1>1. b \in Seq(Param) /\ Differ(b) /\ ToSet(b) = d /\ d \subseteq Param
  BY BusinessFacts
<1>2. "input" \in Kinds
  BY DEF Kinds
<1>3. CASE Untyped(f, resolved)
  <2>1. Asked[f]["input"][resolved] = <<>>
    BY <1>2, <1>3 DEF Asked
  <2> QED BY <1>3, <2>1 DEF Differ
<1>4. CASE ~Untyped(f, resolved)
  <2>1. Asked[f]["input"][resolved] = Where(b, A)
    BY <1>2, <1>4 DEF Asked
  <2>2. Where(b, A) \in Seq(Param) /\ ToSet(Where(b, A)) = d \cap A /\ Differ(Where(b, A))
    BY <1>1, WhereSet
  <2> QED BY <1>1, <1>4, <2>1, <2>2
<1> QED BY <1>3, <1>4

(* What is asked for has a type.                                           *)
LEMMA AskedFacts ==
  ASSUME NEW f \in Functions, NEW kind \in Kinds, NEW resolved \in BOOLEAN
  PROVE  /\ Asked[f][kind][resolved] \in Seq(Question)
         /\ \A i \in 1 .. Len(Asked[f][kind][resolved]) : Asked[f][kind][resolved][i].type \in Types
<1> PICK q : q = Asked[f][kind][resolved]
  OBVIOUS
<1>1. q \in Seq(Question)
  <2>1. CASE kind = "input"
    <3>1. q \in Seq(Param)
      BY <2>1, AskedInput
    <3> QED BY <3>1 DEF Question
  <2>2. CASE kind = "output"
    <3>1. q = IF resolved /\ Signature[f].returns \notin {NoneType, Dict, Unannotated}
              THEN <<[name |-> "return", type |-> Signature[f].returns]>> ELSE <<>>
      BY <2>2 DEF Asked
    <3>2. Signature[f].returns \notin {NoneType, Dict, Unannotated} =>
            [name |-> "return", type |-> Signature[f].returns] \in Question
      BY SignatureFacts DEF Question
    <3> QED BY <3>1, <3>2
  <2>3. CASE kind = "arg"
    <3>1. q = IF /\ resolved /\ Signature[f].params # <<>>
                 /\ Signature[f].params[1].type # Unannotated
              THEN <<Signature[f].params[1]>> ELSE <<>>
      BY <2>3 DEF Asked
    <3>2. Signature[f].params # <<>> => Signature[f].params[1] \in Question
      BY SignatureFacts DEF Question
    <3> QED BY <3>1, <3>2
  <2> QED BY <2>1, <2>2, <2>3 DEF Kinds
<1>2. \A x \in Question : x.type \in Types
  BY DEF Question, Param
<1> QED BY <1>1, <1>2

(* What the answers of the calls are for the right schemas.                *)
GotAll(f, kind, resolved, got) ==
  /\ got \in Seq(Schemas) /\ Len(got) = Len(Asked[f][kind][resolved])
  /\ \A i \in 1 .. Len(got) : got[i] \in Fresh(Asked[f][kind][resolved][i].type)

(* The types that say nothing have no nested types.                        *)
LEMMA PlainIsComplete ==
  ASSUME NEW ty \in {AnyType, Dict, Unannotated}
  PROVE  ~Endless[ty] /\ ty \in Types
<1>1. ty \in Types /\ Len(Nested[ty]) = 0
  BY SchemaAssumption
<1> QED BY <1>1, CompleteType

(* A parameter that is asked for is found among the answers.               *)
LEMMA AnswerFound ==
  ASSUME NEW f \in Functions, NEW resolved \in BOOLEAN, NEW got,
         GotAll(f, "input", resolved, got), NEW p \in DueParams(f, resolved),
         NEW here, here = {i \in DOMAIN got : Asked[f]["input"][resolved][i].name = p.name},
         ~Untyped(f, resolved), ~Textual(p, resolved)
  PROVE  IF Single(f, resolved) \/ p.type \notin {Unannotated, AnyType}
         THEN \E i \in here : here = {i} /\ got[i] \in Fresh(p.type)
         ELSE here = {}
<1> PICK q : q = Asked[f]["input"][resolved]
  OBVIOUS
<1> PICK d : d = DueParams(f, resolved)
  OBVIOUS
<1>1. /\ q \in Seq(Param) /\ Differ(q)
      /\ ToSet(q) = {x \in d : ~Textual(x, resolved)
                                 /\ (Single(f, resolved) \/ x.type \notin {Unannotated, AnyType})}
  BY AskedInput
<1>2. \A x, y \in d : x.name = y.name => x = y
  BY BusinessFacts
<1>3. /\ DOMAIN got = 1 .. Len(q) /\ here = {i \in 1 .. Len(q) : q[i].name = p.name}
      /\ \A i \in 1 .. Len(q) : got[i] \in Fresh(q[i].type)
  BY DEF GotAll
<1>4. \A i \in 1 .. Len(q) : q[i] \in ToSet(q)
  BY <1>1 DEF ToSet
<1>5. \A i \in here : i \in 1 .. Len(q) /\ q[i] = p
  BY <1>1, <1>2, <1>3, <1>4
<1>6. CASE Single(f, resolved) \/ p.type \notin {Unannotated, AnyType}
  <2>1. p \in ToSet(q)
    BY <1>1, <1>6
  <2>2. PICK k \in 1 .. Len(q) : q[k] = p
    BY <1>1, <2>1 DEF ToSet
  <2>3. here = {k}
    BY <1>1, <1>3, <1>5, <2>2 DEF Differ
  <2> QED BY <1>3, <1>6, <2>2, <2>3
<1>7. CASE ~(Single(f, resolved) \/ p.type \notin {Unannotated, AnyType})
  <2>1. \A i \in here : FALSE
    BY <1>1, <1>4, <1>5, <1>7
  <2> QED BY <1>7, <2>1
<1> QED BY <1>6, <1>7

(* The schema of a property is one it should be.                           *)
LEMMA PropertyIsDue ==
  ASSUME NEW f \in Functions, NEW resolved \in BOOLEAN, NEW got,
         GotAll(f, "input", resolved, got), NEW p \in DueParams(f, resolved),
         ~Untyped(f, resolved)
  PROVE  Property(f, resolved, p, got) \in DueProperty(f, resolved, p)
<1> PICK here : here = {i \in DOMAIN got : Asked[f]["input"][resolved][i].name = p.name}
  OBVIOUS
<1>1. CASE Textual(p, resolved)
  BY <1>1 DEF Textual, Property, DueProperty
<1>2. CASE ~Textual(p, resolved)
  <2>1. /\ Single(f, resolved) <=> DueParams(f, resolved) = {p}
    BY SingleFacts
  <2>2. Property(f, resolved, p, got) =
          IF here = {} THEN AnyType
          ELSE Or(got[CHOOSE i \in here : TRUE], IF Single(f, resolved) THEN Str ELSE AnyType)
    BY <1>2 DEF Property
  <2>3. DueProperty(f, resolved, p) =
          IF Single(f, resolved) THEN {Or(s, Str) : s \in Fresh(p.type)}
          ELSE IF p.type = Unannotated THEN {AnyType} ELSE {Or(s, AnyType) : s \in Fresh(p.type)}
    BY <1>2, <2>1 DEF DueProperty, Textual
  <2>4. CASE Single(f, resolved) \/ p.type \notin {Unannotated, AnyType}
    <3>1. PICK i \in here : here = {i} /\ got[i] \in Fresh(p.type)
      <4>1. IF Single(f, resolved) \/ p.type \notin {Unannotated, AnyType}
            THEN \E i \in here : here = {i} /\ got[i] \in Fresh(p.type)
            ELSE here = {}
        BY <1>2, AnswerFound
      <4> QED BY ONLY <2>4, <4>1
    <3>2. (CHOOSE k \in here : TRUE) = i
      BY <3>1
    <3>3. Property(f, resolved, p, got) = Or(got[i], IF Single(f, resolved) THEN Str ELSE AnyType)
      BY <2>2, <3>1, <3>2
    <3> QED BY <2>3, <2>4, <3>1, <3>3
  <2>5. CASE ~(Single(f, resolved) \/ p.type \notin {Unannotated, AnyType})
    <3>1. here = {}
      BY <1>2, <2>5, AnswerFound
    <3>2. Property(f, resolved, p, got) = AnyType
      BY <2>2, <3>1
    <3>3. CASE p.type = Unannotated
      BY <2>3, <2>5, <3>2, <3>3
    <3>4. CASE p.type # Unannotated
      <4>1. p.type = AnyType /\ ~Fails(AnyType)
        BY <2>5, <3>4, PlainIsComplete DEF Fails
      <4>2. \E s \in Fresh(AnyType) : Or(s, AnyType) = AnyType
        BY <3>4, <4>1 DEF Fresh, Or
      <4> QED BY <2>3, <2>5, <3>2, <3>4, <4>1, <4>2
    <3> QED BY <3>3, <3>4
  <2> QED BY <2>4, <2>5
<1> QED BY <1>1, <1>2

(* Untyped says of the parameters what the reference says of them.         *)
LEMMA UntypedFacts ==
  ASSUME NEW f \in Functions, NEW resolved \in BOOLEAN
  PROVE  Untyped(f, resolved) <=>
           \/ DueParams(f, resolved) = {}
           \/ \E p \in DueParams(f, resolved) :
                DueParams(f, resolved) = {p} /\ p.name = "input"
                  /\ p.type \in {Unannotated} \cup IF resolved THEN {AnyType, Dict} ELSE {}
<1> PICK b, d : b = Business[f][resolved] /\ d = DueParams(f, resolved)
  OBVIOUS
<1>1. /\ b = <<>> <=> d = {}
      /\ Len(b) = 1 => d = {b[1]}
      /\ \A p : d = {p} => Len(b) = 1 /\ b[1] = p
  BY SingleFacts DEF Single
<1>2. ASSUME Untyped(f, resolved), d # {}
      PROVE  \E p \in d : d = {p} /\ p.name = "input"
                            /\ p.type \in {Unannotated} \cup IF resolved THEN {AnyType, Dict} ELSE {}
  <2>1. /\ Len(b) = 1 /\ b[1].name = "input"
        /\ b[1].type \in {Unannotated} \cup IF resolved THEN {AnyType, Dict} ELSE {}
    BY <1>1, <1>2 DEF Untyped
  <2> QED BY <1>1, <2>1
<1>3. ASSUME NEW p \in d, d = {p}, p.name = "input",
             p.type \in {Unannotated} \cup IF resolved THEN {AnyType, Dict} ELSE {}
      PROVE  Untyped(f, resolved)
  BY <1>1, <1>3 DEF Untyped
<1>4. d = {} => Untyped(f, resolved)
  BY <1>1 DEF Untyped
<1> QED BY <1>2, <1>3, <1>4

(* An element of a sequence has a place.                                   *)
LEMMA ElementPlace ==
  ASSUME NEW S, NEW s \in Seq(S), NEW p \in ToSet(s)
  PROVE  \E i \in 1 .. Len(s) : s[i] = p
<1>1. \E i \in DOMAIN s : s[i] = p
  BY Zenon DEF ToSet
<1> QED BY <1>1

(* Without resolved hints nothing fails.                                   *)
LEMMA FailureIsResolved ==
  ASSUME NEW f \in Functions, NEW resolved \in BOOLEAN,
         NEW i \in 1 .. Len(Asked[f]["input"][resolved]),
         Fails(Asked[f]["input"][resolved][i].type)
  PROVE  resolved /\ Asked[f]["input"][resolved][i] \in DueParams(f, resolved)
<1> PICK q : q = Asked[f]["input"][resolved]
  OBVIOUS
<1>1. q \in Seq(Param) /\ q # <<>>
  BY AskedInput
<1>2. ~Untyped(f, resolved)
  BY <1>1, AskedInput
<1>3. q[i] \in ToSet(q)
  BY <1>1 DEF ToSet
<1>4. q[i] \in DueParams(f, resolved) /\ ~Textual(q[i], resolved)
  BY <1>2, <1>3, AskedInput
<1>5. q[i].type # Unannotated
  BY PlainIsComplete DEF Fails
<1> QED BY <1>4, <1>5 DEF Textual

(* If a call failed, the input schema may fail.                            *)
LEMMA InputRaises ==
  ASSUME NEW f \in Functions, NEW resolved \in BOOLEAN, Signature[f].known,
         NEW i \in 1 .. Len(Asked[f]["input"][resolved]),
         Fails(Asked[f]["input"][resolved][i].type)
  PROVE  Raised \in DueInput(f, resolved)
<1> PICK p : p = Asked[f]["input"][resolved][i]
  OBVIOUS
<1>1. resolved /\ p \in DueParams(f, resolved) /\ Fails(p.type)
  BY FailureIsResolved
<1> QED BY <1>1 DEF DueInput

(* A schema is no failure.                                                 *)
LEMMA FreshIsNoFailure ==
  ASSUME NEW ty \in Types, NEW s \in Fresh(ty)
  PROVE  s # Raised
<1>1. Str \in Types /\ Raised \notin Types \cup {None}
  BY SchemaAssumption
<1>2. Truncated(ty) # Raised
  BY DEF Truncated, Raised
<1> QED BY <1>1, <1>2 DEF Fresh

(* An object whose properties are due is due.                              *)
LEMMA ObjectIsDue ==
  ASSUME NEW f, NEW resolved, NEW d,
         NEW props \in [{p.name : p \in d} -> UNION {DueProperty(f, resolved, p) : p \in d}],
         \A n \in {p.name : p \in d} :
           props[n] \in DueProperty(f, resolved, CHOOSE p \in d : p.name = n)
  PROVE  Object(props, {p.name : p \in {x \in d : ~x.default}}) \in DueObject(f, resolved, d)
BY Zenon DEF DueObject

(* If none did, it is one it should be, and no failure.                    *)
LEMMA InputIsDue ==
  ASSUME NEW f \in Functions, NEW resolved \in BOOLEAN, Signature[f].known, NEW got,
         GotAll(f, "input", resolved, got)
  PROVE  Input(f, resolved, got) \in DueInput(f, resolved) /\ Input(f, resolved, got) # Raised
<1> PICK b, d, q : /\ b = Business[f][resolved] /\ d = DueParams(f, resolved)
                   /\ q = Asked[f]["input"][resolved]
  OBVIOUS
<1>1. b \in Seq(Param) /\ ToSet(b) = d /\ d \subseteq Param
  BY BusinessFacts
<1>2. Raised # None
  BY SchemaAssumption
<1>3. CASE Untyped(f, resolved)
  <2>1. Input(f, resolved, got) = None
    BY <1>3 DEF Input
  <2>2. None \in DueInput(f, resolved)
    BY <1>3, UntypedFacts DEF DueInput
  <2> QED BY <1>2, <2>1, <2>2
<1>4. ASSUME ~Untyped(f, resolved)
      PROVE  /\ d # {}
             /\ ~ \E p \in d : d = {p} /\ p.name = "input"
                    /\ p.type \in {Unannotated} \cup IF resolved THEN {AnyType, Dict} ELSE {}
  BY <1>4, UntypedFacts
<1>5. CASE ~Untyped(f, resolved) /\ Single(f, resolved) /\ ~Textual(b[1], resolved)
           /\ b[1].type \in Structured
  <2>1. d = {b[1]} /\ b[1] \in Param
    BY <1>1, <1>5, SingleFacts
  <2>2. Input(f, resolved, got) = got[1]
    BY <1>5 DEF Input
  <2>3. resolved
    BY <1>5, SchemaAssumption DEF Textual
  <2>4. (CHOOSE p \in d : TRUE) = b[1]
    BY <2>1
  <2>5. Fresh(b[1].type) \subseteq DueInput(f, resolved)
    <3>1. resolved /\ \E p \in d : d = {p} /\ p.type \in Structured
      BY <1>5, <2>1, <2>3
    <3> QED BY <1>4, <1>5, <2>4, <3>1 DEF DueInput
  <2>6. q \in Seq(Param) /\ Differ(q) /\ ToSet(q) = {b[1]}
    <3>1. /\ q \in Seq(Param) /\ Differ(q)
          /\ ToSet(q) = {p \in d : ~Textual(p, resolved)
                                     /\ (Single(f, resolved) \/ p.type \notin {Unannotated, AnyType})}
      BY <1>5, AskedInput
    <3> QED BY <1>5, <2>1, <3>1
  <2>7. Len(q) = 1 /\ q[1] = b[1]
    <3>1. Len(q) = 1
      BY <2>6, OnlyElement
    <3>2. ToSet(q) = {q[1]}
      BY <2>6, <3>1, OnlyElement
    <3> QED BY <2>6, <3>1, <3>2
  <2>8. got[1] \in Fresh(b[1].type)
    BY <2>7 DEF GotAll
  <2>9. b[1].type \in Types
    BY <2>1 DEF Param
  <2> QED BY <2>2, <2>5, <2>8, <2>9, FreshIsNoFailure
<1>6. CASE ~Untyped(f, resolved)
           /\ ~(Single(f, resolved) /\ ~Textual(b[1], resolved) /\ b[1].type \in Structured)
  <2>1. PICK names : names = {p.name : p \in d}
    OBVIOUS
  <2>2. PICK required : required = {p.name : p \in {x \in d : ~x.default}}
    OBVIOUS
  <2>3. PICK props : props = [n \in names |-> Property(f, resolved, CHOOSE p \in d : p.name = n, got)]
    OBVIOUS
  <2>4. Input(f, resolved, got) = Object(props, required)
    BY <1>1, <1>6, <2>1, <2>2, <2>3 DEF Input
  <2>5. DueObject(f, resolved, d) \subseteq DueInput(f, resolved)
    <3>1. ~(resolved /\ \E p \in d : d = {p} /\ p.type \in Structured)
      BY <1>6, SingleFacts DEF Textual
    <3> QED BY <1>4, <1>6, <3>1 DEF DueInput
  <2>6. PICK values : values = UNION {DueProperty(f, resolved, p) : p \in d}
    OBVIOUS
  <2>7. ASSUME NEW n \in names
        PROVE  /\ props[n] \in DueProperty(f, resolved, CHOOSE p \in d : p.name = n)
               /\ props[n] \in values
    <3>1. PICK r : r = CHOOSE p \in d : p.name = n
      OBVIOUS
    <3>2. r \in d
      BY <2>1, <3>1
    <3>3. props[n] \in DueProperty(f, resolved, r)
      BY <1>6, <2>3, <3>1, <3>2, PropertyIsDue
    <3> QED BY <2>6, <3>1, <3>2, <3>3
  <2>8. props \in [names -> values]
    BY <2>3, <2>7
  <2>9. Object(props, required) \in DueObject(f, resolved, d)
    <3>1. props \in [{p.name : p \in d} -> UNION {DueProperty(f, resolved, p) : p \in d}]
      BY ONLY <2>1, <2>6, <2>8, Zenon
    <3>2. \A n \in {p.name : p \in d} :
            props[n] \in DueProperty(f, resolved, CHOOSE p \in d : p.name = n)
      BY ONLY <2>1, <2>7, Zenon
    <3>3. Object(props, {p.name : p \in {x \in d : ~x.default}}) \in DueObject(f, resolved, d)
      BY ONLY <3>1, <3>2, ObjectIsDue
    <3> QED BY ONLY <2>2, <3>3, Zenon
  <2>10. \A x, y : Object(x, y) # Raised
    BY DEF Object, Raised
  <2> QED BY <2>4, <2>5, <2>9, <2>10
<1> QED BY <1>3, <1>5, <1>6

(* What is due for a type that is asked for.                               *)
Answered(ty) == Fresh(ty) \cup IF Fails(ty) THEN {None} ELSE {}

(* The other schemas are asked for where they are due.                     *)
LEMMA OtherIsAsked ==
  ASSUME NEW f \in Functions, NEW kind \in {"output", "arg"}, NEW resolved \in BOOLEAN
  PROVE  \/ Asked[f][kind][resolved] = <<>> /\ Due[f][kind][resolved] = {None}
         \/ \E x \in Question : /\ Asked[f][kind][resolved] = <<x>>
                                /\ Due[f][kind][resolved] = Answered(x.type)
<1> PICK sg : sg = Signature[f]
  OBVIOUS
<1>1. kind \in Kinds /\ kind # "input"
  BY DEF Kinds
<1>2. CASE kind = "output"
  <2>1. PICK x : x = [name |-> "return", type |-> sg.returns]
    OBVIOUS
  <2>2. Asked[f][kind][resolved] = IF resolved /\ sg.returns \notin {NoneType, Dict, Unannotated}
                                   THEN <<x>> ELSE <<>>
    BY <1>1, <1>2, <2>1 DEF Asked
  <2>3. Due[f][kind][resolved] = IF ~resolved \/ sg.returns \in {NoneType, Unannotated, Dict}
                                 THEN {None} ELSE Answered(sg.returns)
    BY <1>1, <1>2 DEF Due, Answered
  <2>4. sg.returns # NoneType => x \in Question
    BY <2>1, SignatureFacts DEF Question
  <2> QED BY <2>1, <2>2, <2>3, <2>4
<1>3. CASE kind = "arg" /\ sg.params = <<>>
  <2>1. Asked[f][kind][resolved] = <<>>
    BY <1>1, <1>3 DEF Asked
  <2>2. Due[f][kind][resolved] = {None}
    BY <1>1, <1>3 DEF Due
  <2> QED BY <2>1, <2>2
<1>4. CASE kind = "arg" /\ sg.params # <<>>
  <2>1. PICK x : x = sg.params[1]
    OBVIOUS
  <2>2. x \in Param /\ x \in Question /\ x.type # NoneType
    <3>1. x \in Param
      BY <1>4, <2>1, SignatureFacts
    <3>2. x.type \in Types
      BY <3>1 DEF Param
    <3> QED BY <3>1, <3>2, SchemaAssumption DEF Question
  <2>3. Asked[f][kind][resolved] = IF resolved /\ x.type # Unannotated THEN <<x>> ELSE <<>>
    BY <1>1, <1>4, <2>1 DEF Asked
  <2>4. Due[f][kind][resolved] = IF ~resolved \/ x.type \in {NoneType, Unannotated}
                                 THEN {None} ELSE Answered(x.type)
    BY <1>1, <1>4, <2>1 DEF Due, Answered
  <2> QED BY <2>2, <2>3, <2>4
<1> QED BY <1>2, <1>3, <1>4

(* A sequence of one element is not empty.                                 *)
LEMMA Lone == ASSUME NEW S, NEW s \in Seq(S), Len(s) = 1 PROVE s # <<>>
OBVIOUS

(* What is computed when every call gave what it should is due.            *)
LEMMA ComputedIsDue ==
  ASSUME NEW f \in Functions, NEW kind \in Kinds, NEW resolved \in BOOLEAN, NEW got,
         kind = "input" => Signature[f].known, GotAll(f, kind, resolved, got)
  PROVE  /\ Computed(f, kind, resolved, got) \in Due[f][kind][resolved]
         /\ Computed(f, kind, resolved, got) # Raised
<1>1. CASE kind = "input"
  <2>1. Due[f][kind][resolved] = DueInput(f, resolved)
    BY <1>1 DEF Due
  <2> QED BY <1>1, <2>1, InputIsDue DEF Computed
<1>2. CASE kind # "input"
  <2>1. kind \in {"output", "arg"}
    BY <1>2 DEF Kinds
  <2>2. CASE Asked[f][kind][resolved] = <<>> /\ Due[f][kind][resolved] = {None}
    <3>1. got = <<>>
      BY <2>2 DEF GotAll
    <3> QED BY <1>2, <2>2, <3>1, SchemaAssumption DEF Computed
  <2>3. ASSUME NEW x \in Question, Asked[f][kind][resolved] = <<x>>,
               Due[f][kind][resolved] = Answered(x.type)
        PROVE  /\ Computed(f, kind, resolved, got) \in Due[f][kind][resolved]
               /\ Computed(f, kind, resolved, got) # Raised
    <3>1. Len(got) = 1 /\ got[1] \in Fresh(x.type) /\ got # <<>>
      <4>1. PICK q : q = Asked[f][kind][resolved]
        OBVIOUS
      <4>2. got \in Seq(Schemas) /\ Len(got) = Len(q) /\ \A i \in 1 .. Len(got) : got[i] \in Fresh(q[i].type)
        BY <4>1 DEF GotAll
      <4>3. q = <<x>> /\ Len(q) = 1 /\ q[1] = x
        BY <2>3, <4>1
      <4>4. Len(got) = 1 /\ got # <<>>
        <5>1. got \in Seq(Schemas) /\ Len(got) = 1
          BY <4>2, <4>3, Zenon
        <5> QED BY <5>1, Lone, Zenon
      <4>5. got[1] \in Fresh(q[1].type)
        BY <4>2, <4>4
      <4> QED BY <4>3, <4>4, <4>5
    <3>2. x.type \in Types
      BY DEF Question, Param
    <3>3. got[1] # Raised
      BY <3>1, <3>2, FreshIsNoFailure
    <3> QED BY <1>2, <2>3, <3>1, <3>3 DEF Computed, Answered
  <2> QED BY <2>1, <2>2, <2>3, OtherIsAsked
<1> QED BY <1>1, <1>2

(* If a call failed, the schema may fail, or be None.                      *)
LEMMA FailureIsDue ==
  ASSUME NEW f \in Functions, NEW kind \in Kinds, NEW resolved \in BOOLEAN,
         kind = "input" => Signature[f].known,
         NEW i \in 1 .. Len(Asked[f][kind][resolved]), Fails(Asked[f][kind][resolved][i].type)
  PROVE  (IF kind = "input" THEN Raised ELSE None) \in Due[f][kind][resolved]
<1>1. CASE kind = "input"
  <2>1. Due[f][kind][resolved] = DueInput(f, resolved)
    BY <1>1 DEF Due
  <2> QED BY <1>1, <2>1, InputRaises
<1>2. CASE kind # "input"
  <2>1. kind \in {"output", "arg"}
    BY <1>2 DEF Kinds
  <2>2. PICK x \in Question :
          Asked[f][kind][resolved] = <<x>> /\ Due[f][kind][resolved] = Answered(x.type)
    BY <2>1, OtherIsAsked
  <2>3. Fails(x.type)
    BY <2>2
  <2> QED BY <1>2, <2>2, <2>3 DEF Answered
<1> QED BY <1>1, <1>2

(* The schema is one of those due, once the function was looked at.        *)
LEMMA DueNow ==
  ASSUME NEW f \in Functions, NEW kind \in Kinds, NEW resolved \in BOOLEAN,
         ~resolved => Signature[f].text /\ f \in early
  PROVE  Due[f][kind][resolved] \subseteq DueSchemas(f, kind)
BY DEF DueSchemas

(* What was due stays due while more functions are looked at.              *)
LEMMA DueStays ==
  ASSUME NEW f, NEW kind, early \subseteq early', NEW r, r \in DueSchemas(f, kind)
  PROVE  r \in DueSchemas(f, kind)'
BY DEF DueSchemas
-----------------------------------------------------------------------------
(* Extraction uses the cache as specified.                                 *)

(* A request that runs is about a function.                                *)
LEMMA CurrentFacts ==
  ASSUME EInv, NEW t \in Threads, NEW j, j = job[t], NEW c, c = Current(t),
         j.pc \in {"attribute", "hints", "types", "answer"}
  PROVE  /\ JobType(j) /\ Collecting(t, j) /\ ResultsDue(j) /\ ContractMade(j)
         /\ c = j.plan[Len(j.results) + 1] /\ c \in Item /\ c.f \in Functions /\ c.kind \in Kinds
         /\ Len(j.results) \in Nat /\ Len(j.results) < Len(j.plan) /\ j.plan \in Seq(Item)
         /\ j.ext \in BOOLEAN /\ j.resolved \in BOOLEAN /\ j.got \in Seq(Schemas)
<1>1. JobType(j) /\ Collecting(t, j) /\ ResultsDue(j) /\ ContractMade(j)
  BY DEF EInv, JobInv
<1>2. c = j.plan[Len(j.results) + 1]
  BY DEF Current
<1>3. /\ Len(j.results) < Len(j.plan) /\ j.plan \in Seq(Item) /\ IsSeq(j.results)
      /\ j.ext \in BOOLEAN /\ j.resolved \in BOOLEAN /\ j.got \in Seq(Schemas)
  BY <1>1 DEF JobType
<1>4. PICK n \in Nat : n = Len(j.results)
  <2>1. PICK s, S : s = j.results /\ s \in Seq(S)
    BY <1>3 DEF IsSeq
  <2> QED BY <2>1
<1>5. n + 1 \in 1 .. Len(j.plan)
  BY <1>3, <1>4
<1>6. c \in Item
  BY <1>2, <1>3, <1>4, <1>5
<1> QED BY <1>1, <1>2, <1>3, <1>4, <1>6 DEF Item

(* The length of a sequence is a number.                                   *)
LEMMA Lengths == ASSUME NEW S, NEW s \in Seq(S) PROVE Len(s) \in Nat
OBVIOUS

(* A sequence that is not empty has a first element.                       *)
LEMMA FirstFacts ==
  ASSUME NEW S, NEW s \in Seq(S), s # <<>>
  PROVE  s[1] \in S /\ 0 < Len(s)
OBVIOUS

(* What is left of a sequence after its first n elements.                  *)
LEMMA Rest ==
  ASSUME NEW S, NEW s \in Seq(S), NEW n \in 0 .. Len(s)
  PROVE  /\ SubSeq(s, n + 1, Len(s)) = <<>> <=> n = Len(s)
         /\ n < Len(s) => SubSeq(s, n + 1, Len(s))[1] = s[n + 1]
<1> PICK m \in Nat : m = Len(s)
  OBVIOUS
<1> PICK r : r = SubSeq(s, n + 1, m)
  OBVIOUS
<1>1. CASE n = m
  <2>1. Len(r) = 0 /\ r \in Seq(S)
    BY <1>1
  <2> QED BY <1>1, <2>1
<1>2. CASE n < m
  <2>1. r \in Seq(S) /\ Len(r) = m - n
    BY <1>2
  <2>2. r[1] = s[n + 1]
    BY <1>2
  <2>3. r # <<>>
    <3> SUFFICES ASSUME r = <<>> PROVE FALSE
      OBVIOUS
    <3>1. Len(<<>>) = 0
      OBVIOUS
    <3>2. Len(r) = 0
      BY <3>1, Zenon
    <3>3. m - n # 0
      BY <1>2
    <3> QED BY <2>1, <3>2, <3>3
  <2> QED BY <1>2, <2>2, <2>3
<1> QED BY <1>1, <1>2

(* The next type to ask for.                                               *)
LEMMA PendingFacts ==
  ASSUME EInv, NEW t \in Threads, NEW j, j = job[t], NEW c, c = Current(t), j.pc = "types",
         NEW qs, qs = Asked[c.f][c.kind][j.resolved]
  PROVE  /\ Pending(t) = <<>> <=> Len(j.got) = Len(qs)
         /\ Pending(t) # <<>> => /\ Len(j.got) + 1 \in 1 .. Len(qs)
                                 /\ Pending(t)[1] = qs[Len(j.got) + 1]
                                 /\ Pending(t)[1].type \in Types
         /\ GotRight(j, qs) /\ Known(j, c)
<1>1. /\ c.f \in Functions /\ c.kind \in Kinds /\ j.resolved \in BOOLEAN /\ j.got \in Seq(Schemas)
      /\ Collecting(t, j) /\ c = j.plan[Len(j.results) + 1]
  BY CurrentFacts
<1>2. GotRight(j, qs) /\ Known(j, c)
  BY <1>1 DEF Collecting
<1>3. PICK n \in Nat : n = Len(j.got)
  BY <1>1, Lengths, Zenon
<1>4. n \in 0 .. Len(qs) /\ Len(qs) \in Nat /\ qs \in Seq(Question) /\ \A i \in 1 .. Len(qs) : qs[i].type \in Types
  <2>1. qs \in Seq(Question) /\ \A i \in 1 .. Len(qs) : qs[i].type \in Types
    BY <1>1, AskedFacts
  <2>2. n <= Len(qs) /\ Len(qs) \in Nat
    <3>1. n <= Len(qs)
      BY <1>2, <1>3, Zenon DEF GotRight
    <3>2. Len(qs) \in Nat
      BY <2>1, Lengths, Zenon
    <3> QED BY <3>1, <3>2, Zenon
  <2>3. n \in 0 .. Len(qs)
    BY ONLY <2>2, n \in Nat
  <2> QED BY <2>1, <2>2, <2>3, Zenon
<1>5. Pending(t) = SubSeq(qs, n + 1, Len(qs))
  BY <1>3 DEF Pending
<1>6. /\ Pending(t) = <<>> <=> n = Len(qs)
      /\ n < Len(qs) => Pending(t)[1] = qs[n + 1]
  <2>1. /\ SubSeq(qs, n + 1, Len(qs)) = <<>> <=> n = Len(qs)
        /\ n < Len(qs) => SubSeq(qs, n + 1, Len(qs))[1] = qs[n + 1]
    BY <1>4, Rest
  <2> QED BY <1>5, <2>1
<1>7. n # Len(qs) => n < Len(qs) /\ n + 1 \in 1 .. Len(qs)
  BY ONLY <1>4
<1> QED BY <1>2, <1>3, <1>4, <1>6, <1>7

(* Every step of extraction is a step of the cache, or does not touch it.  *)
LEMMA NextIsCached ==
  ASSUME EInv, [ContractNext]_allVars
  PROVE  [Next]_vars
<1>1. ASSUME NEW t \in Threads, NEW d \in Direct, AskSchema(t, d[1], d[2]) PROVE Next
  <2>1. d[1] \in Types /\ d[2] \in BOOLEAN
    BY RequestAssumption
  <2>2. Call(t, d[1], d[2])
    BY <1>1 DEF AskSchema
  <2> QED BY <2>1, <2>2 DEF Next
<1>2. ASSUME NEW t \in Threads, AskType(t) PROVE Next
  <2>1. PICK j, c : j = job[t] /\ c = Current(t)
    OBVIOUS
  <2>2. j.pc = "types" /\ Pending(t) # <<>> /\ Call(t, Pending(t)[1].type, j.ext)
    BY <1>2, <2>1 DEF AskType
  <2>3. Pending(t)[1].type \in Types
    BY <2>1, <2>2, PendingFacts
  <2>4. j.ext \in BOOLEAN
    BY <2>1, <2>2, CurrentFacts
  <2> QED BY <2>2, <2>3, <2>4 DEF Next
<1>3. ASSUME NEW t \in Threads, Step(t) PROVE Next
  BY <1>3 DEF Next
<1>4. ASSUME NEW t \in Threads, Attribute(t) \/ Hints(t) \/ Answer(t) \/ Finish(t)
      PROVE  UNCHANGED vars
  BY <1>4 DEF Attribute, Hints, Answer, Finish, vars
<1>5. ASSUME NEW t \in Threads, NEW b, NEW plan, NEW ext, Ask(t, b, plan, ext)
      PROVE  UNCHANGED vars
  BY <1>5 DEF Ask, vars
<1>6. ASSUME Define \/ UNCHANGED allVars PROVE UNCHANGED vars
  BY <1>6 DEF Define, allVars, vars
<1> QED BY <1>1, <1>2, <1>3, <1>4, <1>5, <1>6 DEF ContractNext, ContractStep, AskFunction, AskContract
-----------------------------------------------------------------------------
(* The invariant.                                                          *)

(* A call that a thread does not work on stays as it is.                   *)
LEMMA CallingStays ==
  ASSUME IInv, NEW u \in Threads, NEW ty, Calling(u, ty),
         stack'[u] = stack[u], ret'[u] = ret[u], made' = made \/ \E x : made' = Append(made, x)
  PROVE  Calling(u, ty)'
<1>1. CASE stack[u] = <<>>
  <2>1. PICK o : o = ret[u]
    OBVIOUS
  <2>2. o \in Recursion .. Len(made) /\ made \in Seq(SchemaObject) /\ Right(o, ty)
    BY <1>1, <2>1 DEF Calling, IInv, TypeOK, SchemaObject
  <2>3. Right(o, ty)'
    BY <2>2, RightStays
  <2>4. Right(ret[u], ty)'
    BY <2>1, <2>3 DEF Right, AsSchema
  <2> QED BY <1>1, <2>4 DEF Calling
<1>2. CASE stack[u] # <<>>
  BY <1>2 DEF Calling
<1> QED BY <1>1, <1>2

(* A request that a thread does not work on stays as it is.                *)
LEMMA OtherJob ==
  ASSUME IInv, NEW u \in Threads, NEW j, JobInv(u, j), early \subseteq early',
         stack'[u] = stack[u], ret'[u] = ret[u], made' = made \/ \E x : made' = Append(made, x)
  PROVE  JobInv(u, j)'
<1>1. JobType(j)' /\ ContractMade(j)'
  BY DEF JobInv, JobType, ContractMade
<1>2. ResultsDue(j)'
  BY DueStays DEF JobInv, ResultsDue
<1>3. Collecting(u, j)'
  <2>1. Collecting(u, j)
    BY DEF JobInv
  <2>2. \A c : Known(j, c) => Known(j, c)'
    BY DEF Known
  <2>3. \A ty : Calling(u, ty) => Calling(u, ty)'
    BY CallingStays
  <2> QED BY <2>1, <2>2, <2>3 DEF Collecting, GotRight
<1> QED BY <1>1, <1>2, <1>3 DEF JobInv

(* When one thread comes to job j, the others keeping theirs, the          *)
(* invariant is kept.                                                      *)
LEMMA JobMoves ==
  ASSUME EInv, NEW t \in Threads, NEW j, job' = [job EXCEPT ![t] = j], JobInv(t, j)',
         IInv', early \subseteq early', made' = made \/ \E x : made' = Append(made, x),
         \A u \in Threads \ {t} : stack'[u] = stack[u] /\ ret'[u] = ret[u],
         AttributeType', AttributesDue'
  PROVE  EInv'
<1>1. /\ job = [u \in Threads |-> job[u]] /\ IInv
      /\ \A u \in Threads : JobInv(u, job[u])
  BY DEF EInv
<1>2. job' = [u \in Threads |-> job'[u]] /\ job'[t] = j
      /\ \A u \in Threads \ {t} : job'[u] = job[u]
  BY <1>1
<1>3. ASSUME NEW u \in Threads PROVE JobInv(u, job[u])'
  <2>1. PICK k : k = job'[u]
    OBVIOUS
  <2>2. JobInv(u, k)'
    <3>1. CASE u = t
      BY <1>2, <2>1, <3>1
    <3>2. CASE u # t
      <4>1. JobInv(u, k)
        BY <1>1, <1>2, <2>1, <3>2
      <4> QED BY <1>1, <3>2, <4>1, OtherJob
    <3> QED BY <3>1, <3>2
  <2>3. JobType(k)' /\ Collecting(u, k)' /\ ResultsDue(k)' /\ ContractMade(k)'
    BY <2>2 DEF JobInv
  <2>4. JobType(job[u])'
    BY <2>1, <2>3 DEF JobType
  <2>5. ResultsDue(job[u])'
    BY <2>1, <2>3 DEF ResultsDue
  <2>6. ContractMade(job[u])'
    BY <2>1, <2>3 DEF ContractMade
  <2>7. Collecting(u, job[u])'
    BY <2>1, <2>3 DEF Collecting, Known, GotRight, Calling
  <2> QED BY <2>4, <2>5, <2>6, <2>7 DEF JobInv
<1> QED BY <1>2, <1>3 DEF EInv

(* The attributes stay due while functions are looked at.                  *)
LEMMA AttributesStay ==
  ASSUME EInv, attr' = attr, early \subseteq early'
  PROVE  AttributeType' /\ AttributesDue'
<1>1. AttributeType'
  BY DEF EInv, AttributeType
<1>2. ASSUME NEW f \in Functions, NEW kind, NEW r, r \in DueSchemas(f, kind)
      PROVE  r \in DueSchemas(f, kind)'
  BY <1>2, DueStays
<1> QED BY <1>1, <1>2 DEF EInv, AttributesDue

(* A job that does not collect.                                            *)
LEMMA IdleJob ==
  ASSUME NEW t \in Threads, NEW j, JobType(j), ContractMade(j), ResultsDue(j)',
         j.pc \in {"idle", "attribute", "done"}
  PROVE  JobInv(t, j)'
<1>1. JobType(j)' /\ ContractMade(j)'
  BY DEF JobType, ContractMade
<1>2. Collecting(t, j)'
  BY DEF Collecting
<1> QED BY <1>1, <1>2 DEF JobInv
(* The functions a contract needs are functions.                           *)
LEMMA StartFacts ==
  ASSUME NEW x \in Contracts, NEW b, b = x[1]
  PROVE  StartHandler(b) \in Functions \cup {None}
<1> PICK S : S = [state : STRING, func : Functions]
  OBVIOUS
<1> PICK s, A : s = b.conditional /\ A = {k \in ToSet(b.conditional) : k.state = b.start}
  OBVIOUS
<1>1. s \in Seq(S) /\ \A h \in DOMAIN b.handlers : b.handlers[h] \in Functions
  BY RequestAssumption
<1>2. PICK cs : cs = Where(s, A)
  OBVIOUS
<1>3. cs \in Seq(S)
  BY <1>1, <1>2, WhereSet
<1>4. cs # <<>> => cs[1].func \in Functions
  <2>1. cs # <<>> => cs[1] \in S
    BY <1>3, FirstFacts, Zenon
  <2> QED BY <2>1
<1>5. StartHandler(b) = IF b.start = "" THEN None
                        ELSE IF b.start \in DOMAIN b.handlers THEN b.handlers[b.start]
                        ELSE IF cs = <<>> THEN None ELSE cs[1].func
  BY <1>2 DEF StartHandler
<1> QED BY <1>1, <1>4, <1>5

(* The handlers of the end states that have one, in their order.           *)
LEMMA EndFacts ==
  ASSUME NEW x \in Contracts, NEW b, b = x[1], NEW es, es = Where(b.ends, DOMAIN b.handlers)
  PROVE  /\ es \in Seq(STRING) /\ ToSet(es) = ToSet(b.ends) \cap DOMAIN b.handlers
         /\ [i \in DOMAIN es |-> [f |-> b.handlers[es[i]], kind |-> "output"]] \in Seq(Item)
<1> PICK s : s = b.ends
  OBVIOUS
<1>1. s \in Seq(STRING) /\ \A h \in DOMAIN b.handlers : b.handlers[h] \in Functions
  BY RequestAssumption
<1>2. es \in Seq(STRING) /\ ToSet(es) = ToSet(s) \cap DOMAIN b.handlers
  BY <1>1, WhereSet
<1>3. ASSUME NEW i \in DOMAIN es PROVE [f |-> b.handlers[es[i]], kind |-> "output"] \in Item
  <2>1. es[i] \in ToSet(es)
    BY <1>2, Zenon DEF ToSet
  <2>2. es[i] \in DOMAIN b.handlers
    BY <1>2, <2>1, Zenon
  <2>3. b.handlers[es[i]] \in Functions
    BY <1>1, <2>2, Zenon
  <2> QED BY <2>3 DEF Item, Kinds
<1>4. PICK n \in Nat : DOMAIN es = 1 .. n
  BY <1>2
<1>5. [i \in DOMAIN es |-> [f |-> b.handlers[es[i]], kind |-> "output"]] \in Seq(Item)
  <2>1. \A i \in 1 .. n : [f |-> b.handlers[es[i]], kind |-> "output"] \in Item
    BY <1>3, <1>4
  <2>2. [i \in 1 .. n |-> [f |-> b.handlers[es[i]], kind |-> "output"]] \in Seq(Item)
    BY <2>1
  <2> QED BY <1>4, <2>2
<1> QED BY <1>2, <1>5

(* A plan is a sequence of functions and which of their schemas is needed. *)
LEMMA PlanFacts ==
  ASSUME NEW x \in Contracts, NEW b, b = x[1]
  PROVE  Plan(b) \in Seq(Item)
<1> PICK start : start = StartHandler(b)
  OBVIOUS
<1> PICK head : head = IF start = None THEN <<>> ELSE <<[f |-> start, kind |-> "input"]>>
  OBVIOUS
<1> PICK es : es = Where(b.ends, DOMAIN b.handlers)
  OBVIOUS
<1> PICK tail : tail = [i \in DOMAIN es |-> [f |-> b.handlers[es[i]], kind |-> "output"]]
  OBVIOUS
<1>1. head \in Seq(Item)
  <2>1. start # None => [f |-> start, kind |-> "input"] \in Item
    BY StartFacts DEF Item, Kinds
  <2> QED BY <2>1
<1>2. tail \in Seq(Item)
  BY EndFacts
<1>3. Plan(b) = head \o tail
  BY DEF Plan
<1> QED BY ONLY <1>1, <1>2, <1>3

(* Asking keeps the invariant.                                             *)
LEMMA AskInv ==
  ASSUME EInv, NEW t \in Threads, NEW b, NEW plan \in Seq(Item), NEW ext \in BOOLEAN,
         Ask(t, b, plan, ext), IInv',
         b # NoBlueprint => plan = Plan(b) /\ \E x \in Contracts : x[1] = b
  PROVE  EInv'
<1>1. PICK pc, r : /\ pc = (IF plan = <<>> THEN "done" ELSE "attribute")
                   /\ r = IF plan = <<>> THEN Contract(b, plan, <<>>) ELSE None
  OBVIOUS
<1>2. PICK j : j = [NoJob EXCEPT !.pc = pc, !.b = b, !.plan = plan, !.ext = ext, !.result = r]
  OBVIOUS
<1>3. /\ j.pc = pc /\ j.b = b /\ j.plan = plan /\ j.ext = ext /\ j.resolved = FALSE
      /\ j.got = <<>> /\ j.results = <<>> /\ j.result = r
      /\ j = [pc |-> j.pc, b |-> j.b, plan |-> j.plan, ext |-> j.ext, resolved |-> j.resolved,
              got |-> j.got, results |-> j.results, result |-> j.result]
  BY ONLY <1>2 DEF NoJob
<1>4. job' = [job EXCEPT ![t] = j] /\ UNCHANGED <<vars, early, attr>>
  BY <1>1, <1>2, Zenon DEF Ask, SetJob
<1>5. Len(<<>>) = 0 /\ IsSeq(<<>>) /\ <<>> \in Seq(Schemas)
  BY DEF IsSeq
<1>6. Len(plan) \in Nat /\ (plan # <<>> => 0 < Len(plan))
  BY Lengths, FirstFacts, Zenon
<1>7. JobType(j)
  <2>1. j.plan \in Seq(Item) /\ j.ext \in BOOLEAN /\ j.resolved \in BOOLEAN
    BY <1>3
  <2>2. j.got \in Seq(Schemas) /\ IsSeq(j.results) /\ Len(j.results) = 0
    BY <1>3, <1>5
  <2>3. 0 <= Len(j.plan) /\ (j.pc = "attribute" => 0 < Len(j.plan))
    BY <1>1, <1>3, <1>6
  <2>4. j.b # NoBlueprint => (\E x \in Contracts : x[1] = j.b) /\ j.plan = Plan(j.b)
    BY <1>3
  <2> QED BY <1>1, <1>3, <2>1, <2>2, <2>3, <2>4 DEF JobType
<1>8. ContractMade(j)
  BY <1>1, <1>3, <1>5 DEF ContractMade
<1>9. ResultsDue(j)'
  <2>1. Len(j.results) = 0
    BY <1>3, <1>5
  <2> QED BY <2>1 DEF ResultsDue
<1>10. JobInv(t, j)'
  BY <1>1, <1>3, <1>7, <1>8, <1>9, IdleJob
<1>11. AttributeType' /\ AttributesDue'
  BY <1>4, AttributesStay
<1> QED BY <1>4, <1>10, <1>11, JobMoves DEF vars
(* Calls of a thread without a job leave jobs alone.                       *)
LEMMA AskSchemaInv ==
  ASSUME EInv, NEW t \in Threads, NEW ty, NEW ext, AskSchema(t, ty, ext), IInv'
  PROVE  EInv'
<1> PICK j : j = job[t]
  OBVIOUS
<1>1. /\ job' = [job EXCEPT ![t] = j] /\ early' = early /\ attr' = attr /\ made' = made
      /\ \A u \in Threads \ {t} : stack'[u] = stack[u] /\ ret'[u] = ret[u]
  <2>1. job = [u \in Threads |-> job[u]] /\ stack \in [Threads -> Seq(Frame)]
    BY DEF EInv, IInv, TypeOK
  <2>2. UNCHANGED <<early, attr, job, made, ret>> /\ Enter(t, ty, ext)
    BY DEF AskSchema, Call
  <2> QED BY <2>1, <2>2 DEF Enter
<1>2. JobType(j) /\ ContractMade(j) /\ ResultsDue(j) /\ j.pc \in {"idle", "done"}
  <2>1. JobInv(t, j)
    BY DEF EInv
  <2>2. j.pc \in {"idle", "done"}
    BY DEF AskSchema, Running
  <2> QED BY <2>1, <2>2 DEF JobInv
<1>3. JobInv(t, j)'
  <2>1. ResultsDue(j)'
    BY <1>1, <1>2, DueStays DEF ResultsDue
  <2> QED BY <1>2, <2>1, IdleJob
<1>4. AttributeType' /\ AttributesDue'
  BY <1>1, AttributesStay
<1> QED BY <1>1, <1>3, <1>4, JobMoves

(* A step of a call keeps the invariant.                                   *)
LEMMA CacheStepInv ==
  ASSUME EInv, NEW t \in Threads, Step(t), UNCHANGED funVars, IInv'
  PROVE  EInv'
<1> PICK j : j = job[t]
  OBVIOUS
<1>1. job' = [job EXCEPT ![t] = j] /\ early' = early /\ attr' = attr
  <2>1. job = [u \in Threads |-> job[u]]
    BY DEF EInv
  <2> QED BY <2>1 DEF funVars
<1>2. made' = made \/ \E x : made' = Append(made, x)
  BY MadeGrows DEF EInv
<1>3. ASSUME NEW u \in Threads \ {t} PROVE stack'[u] = stack[u] /\ ret'[u] = ret[u]
  <2>1. stack \in [Threads -> Seq(Frame)] /\ ret \in [Threads -> Recursion .. Len(made)]
    BY DEF EInv, IInv, TypeOK
  <2> QED BY <2>1 DEF Step, Lookup, Customise, HintsFail, ExtractNested, Overflow, Extract, Acquire,
                      Check, Evict, Store, Goto, SetTop, Return
<1>4. JobInv(t, j)
  BY DEF EInv
<1>5. JobType(j)' /\ ContractMade(j)' /\ ResultsDue(j)'
  <2>1. ResultsDue(j)'
    BY <1>1, <1>4, DueStays DEF JobInv, ResultsDue
  <2> QED BY <1>4, <2>1 DEF JobInv, JobType, ContractMade
<1>6. stack[t] # <<>>
  BY DEF Step, At, Extracting, Lookup, Customise, HintsFail, ExtractNested, Overflow, Extract, Acquire,
         Check, Evict, Store
<1>7. ASSUME NEW ty, Calling(t, ty) PROVE Calling(t, ty)'
  <2>1. stack[t][1].type = ty /\ ~stack[t][1].ext
    BY <1>6, <1>7 DEF Calling
  <2>2. Answers(t, ty)
    BY <2>1, StepAnswers DEF EInv
  <2> QED BY <2>2 DEF Answers, Calling
<1>8. Collecting(t, j)'
  <2>1. Collecting(t, j)
    BY <1>4 DEF JobInv
  <2>2. \A c : Known(j, c) => Known(j, c)'
    BY <1>1 DEF Known
  <2> QED BY <1>7, <2>1, <2>2 DEF Collecting, GotRight
<1>9. AttributeType' /\ AttributesDue'
  BY <1>1, AttributesStay
<1>10. JobInv(t, j)'
  BY <1>5, <1>8 DEF JobInv
<1> QED BY <1>1, <1>2, <1>3, <1>9, <1>10, JobMoves

(* A result is delivered.                                                  *)
LEMMA DeliverInv ==
  ASSUME EInv, NEW t \in Threads, NEW j, j = job[t], NEW c, c = Current(t),
         j.pc \in {"attribute", "types", "answer"}, NEW r, Deliver(t, r), early' = early,
         ~j.ext => r \in DueSchemas(c.f, c.kind)
  PROVE  \E k : job' = [job EXCEPT ![t] = k] /\ JobInv(t, k)'
<1>1. /\ JobType(j) /\ ResultsDue(j) /\ c = j.plan[Len(j.results) + 1]
      /\ Len(j.results) \in Nat /\ Len(j.results) < Len(j.plan) /\ j.plan \in Seq(Item)
      /\ j.ext \in BOOLEAN /\ j.resolved \in BOOLEAN
  BY CurrentFacts
<1> PICK n \in Nat : n = Len(j.results)
  BY <1>1
<1> PICK old, b, plan : old = j.results /\ b = j.b /\ plan = j.plan
  OBVIOUS
<1> PICK rs : rs = Append(old, r)
  OBVIOUS
<1>2. Len(rs) = n + 1 /\ rs[n + 1] = r /\ (\A i \in 1 .. n : rs[i] = old[i]) /\ IsSeq(rs)
  <2>1. PICK S : S = {old[i] : i \in 1 .. n} \cup {r}
    OBVIOUS
  <2>2. old \in Seq({old[i] : i \in 1 .. n}) /\ Len(old) = n
    BY <1>1 DEF JobType, IsSeq
  <2>3. old \in Seq(S) /\ r \in S
    BY <2>1, <2>2
  <2>4. rs \in Seq(S) /\ Len(rs) = n + 1 /\ rs[n + 1] = r /\ \A i \in 1 .. n : rs[i] = old[i]
    BY <2>2, <2>3
  <2>5. rs \in Seq({rs[i] : i \in 1 .. Len(rs)})
    BY ONLY <2>4
  <2> QED BY <2>4, <2>5 DEF IsSeq
<1>3. PICK pc, result :
        /\ pc = (IF r = Raised \/ Len(rs) = Len(plan) THEN "done" ELSE "attribute")
        /\ result = IF r = Raised \/ b = NoBlueprint THEN r
                    ELSE IF Len(rs) = Len(plan) THEN Contract(b, plan, rs) ELSE None
  OBVIOUS
<1>4. PICK k : k = [j EXCEPT !.pc = pc, !.results = rs, !.got = <<>>, !.result = result]
  OBVIOUS
<1>5. job' = [job EXCEPT ![t] = k]
  BY <1>3, <1>4 DEF Deliver, SetJob
<1>6. /\ k.pc = pc /\ k.b = b /\ k.plan = plan /\ k.ext = j.ext /\ k.resolved = j.resolved
      /\ k.got = <<>> /\ k.results = rs /\ k.result = result
      /\ k = [pc |-> k.pc, b |-> k.b, plan |-> k.plan, ext |-> k.ext, resolved |-> k.resolved,
              got |-> k.got, results |-> k.results, result |-> k.result]
  <2>1. PICK p, e, y, g, x : p = j.pc /\ e = j.ext /\ y = j.resolved /\ g = j.got /\ x = j.result
    OBVIOUS
  <2>2. j = [pc |-> p, b |-> b, plan |-> plan, ext |-> e, resolved |-> y, got |-> g,
             results |-> old, result |-> x]
    BY <1>1, <2>1 DEF JobType
  <2>3. /\ k.pc = pc /\ k.b = b /\ k.plan = plan /\ k.ext = e /\ k.resolved = y
        /\ k.got = <<>> /\ k.results = rs /\ k.result = result
        /\ k = [pc |-> k.pc, b |-> k.b, plan |-> k.plan, ext |-> k.ext, resolved |-> k.resolved,
                got |-> k.got, results |-> k.results, result |-> k.result]
    BY ONLY <1>4, <2>2
  <2> QED BY <2>1, <2>3
<1>7. Len(plan) \in Nat /\ n < Len(plan)
  BY <1>1, Lengths, Zenon
<1>8. JobType(k)
  <2>1. k.plan \in Seq(Item) /\ k.ext \in BOOLEAN /\ k.resolved \in BOOLEAN
    BY <1>1, <1>6
  <2>2. k.got \in Seq(Schemas) /\ IsSeq(k.results) /\ Len(k.results) = n + 1
    BY <1>2, <1>6
  <2>3. n + 1 <= Len(k.plan) /\ (k.pc = "attribute" => n + 1 < Len(k.plan))
    BY <1>2, <1>3, <1>6, <1>7
  <2>4. k.b # NoBlueprint => (\E x \in Contracts : x[1] = k.b) /\ k.plan = Plan(k.b)
    BY <1>1, <1>6 DEF JobType
  <2> QED BY <1>3, <1>6, <2>1, <2>2, <2>3, <2>4 DEF JobType
<1>9. ContractMade(k)
  BY <1>3, <1>6 DEF ContractMade
<1>10. ResultsDue(k)'
  <2> SUFFICES ASSUME ~k.ext, NEW i \in 1 .. Len(k.results)
               PROVE  k.results[i] \in DueSchemas(k.plan[i].f, k.plan[i].kind)'
    BY DEF ResultsDue
  <2>1. i \in 1 .. n + 1 /\ ~j.ext /\ k.results[i] = rs[i] /\ k.plan[i] = plan[i]
    BY <1>2, <1>6
  <2>2. CASE i = n + 1
    <3>1. rs[i] \in DueSchemas(plan[i].f, plan[i].kind)
      BY <1>1, <1>2, <2>1, <2>2
    <3> QED BY <2>1, <3>1, DueStays
  <2>3. CASE i \in 1 .. n
    <3>1. old[i] \in DueSchemas(plan[i].f, plan[i].kind)
      BY <1>1, <2>1, <2>3 DEF ResultsDue
    <3>2. rs[i] \in DueSchemas(plan[i].f, plan[i].kind)
      BY <1>2, <2>3, <3>1
    <3> QED BY <2>1, <3>2, DueStays
  <2> QED BY <2>1, <2>2, <2>3
<1>11. JobInv(t, k)'
  BY <1>3, <1>6, <1>8, <1>9, <1>10, IdleJob
<1> QED BY <1>5, <1>11
(* A job that goes on: only its place, its hints or its answers change.    *)
GoesOn(j, k, pc, resolved, got) ==
  /\ k.pc = pc /\ k.b = j.b /\ k.plan = j.plan /\ k.ext = j.ext /\ k.resolved = resolved
  /\ k.got = got /\ k.results = j.results /\ k.result = j.result
  /\ k = [pc |-> k.pc, b |-> k.b, plan |-> k.plan, ext |-> k.ext, resolved |-> k.resolved,
          got |-> k.got, results |-> k.results, result |-> k.result]

(* Only its place changes.                                                *)
LEMMA PlaceChanges ==
  ASSUME NEW j, JobType(j), NEW pc, NEW k, k = [j EXCEPT !.pc = pc]
  PROVE  GoesOn(j, k, pc, j.resolved, j.got)
<1>1. PICK p, b, plan, e, y, g, s, x :
        /\ p = j.pc /\ b = j.b /\ plan = j.plan /\ e = j.ext /\ y = j.resolved /\ g = j.got
        /\ s = j.results /\ x = j.result
  OBVIOUS
<1>2. j = [pc |-> p, b |-> b, plan |-> plan, ext |-> e, resolved |-> y, got |-> g,
           results |-> s, result |-> x]
  BY <1>1 DEF JobType
<1>3. k = [j EXCEPT !.pc = pc]
  OBVIOUS
<1>4. /\ k.pc = pc /\ k.b = b /\ k.plan = plan /\ k.ext = e /\ k.resolved = y
      /\ k.got = g /\ k.results = s /\ k.result = x
      /\ k = [pc |-> k.pc, b |-> k.b, plan |-> k.plan, ext |-> k.ext, resolved |-> k.resolved,
              got |-> k.got, results |-> k.results, result |-> k.result]
  BY ONLY <1>2, <1>3
<1> QED BY <1>1, <1>4 DEF GoesOn

(* Its place and its hints change.                                        *)
LEMMA HintsChange ==
  ASSUME NEW j, JobType(j), NEW pc, NEW resolved, NEW k, k = [j EXCEPT !.pc = pc, !.resolved = resolved]
  PROVE  GoesOn(j, k, pc, resolved, j.got)
<1>1. PICK p, b, plan, e, y, g, s, x :
        /\ p = j.pc /\ b = j.b /\ plan = j.plan /\ e = j.ext /\ y = j.resolved /\ g = j.got
        /\ s = j.results /\ x = j.result
  OBVIOUS
<1>2. j = [pc |-> p, b |-> b, plan |-> plan, ext |-> e, resolved |-> y, got |-> g,
           results |-> s, result |-> x]
  BY <1>1 DEF JobType
<1>3. k = [j EXCEPT !.pc = pc, !.resolved = resolved]
  OBVIOUS
<1>4. /\ k.pc = pc /\ k.b = b /\ k.plan = plan /\ k.ext = e /\ k.resolved = resolved
      /\ k.got = g /\ k.results = s /\ k.result = x
      /\ k = [pc |-> k.pc, b |-> k.b, plan |-> k.plan, ext |-> k.ext, resolved |-> k.resolved,
              got |-> k.got, results |-> k.results, result |-> k.result]
  BY ONLY <1>2, <1>3
<1> QED BY <1>1, <1>4 DEF GoesOn

(* Its place and its answers change.                                      *)
LEMMA AnswersChange ==
  ASSUME NEW j, JobType(j), NEW pc, NEW got, NEW k, k = [j EXCEPT !.pc = pc, !.got = got]
  PROVE  GoesOn(j, k, pc, j.resolved, got)
<1>1. PICK p, b, plan, e, y, g, s, x :
        /\ p = j.pc /\ b = j.b /\ plan = j.plan /\ e = j.ext /\ y = j.resolved /\ g = j.got
        /\ s = j.results /\ x = j.result
  OBVIOUS
<1>2. j = [pc |-> p, b |-> b, plan |-> plan, ext |-> e, resolved |-> y, got |-> g,
           results |-> s, result |-> x]
  BY <1>1 DEF JobType
<1>3. k = [j EXCEPT !.pc = pc, !.got = got]
  OBVIOUS
<1>4. /\ k.pc = pc /\ k.b = b /\ k.plan = plan /\ k.ext = e /\ k.resolved = y
      /\ k.got = got /\ k.results = s /\ k.result = x
      /\ k = [pc |-> k.pc, b |-> k.b, plan |-> k.plan, ext |-> k.ext, resolved |-> k.resolved,
              got |-> k.got, results |-> k.results, result |-> k.result]
  BY ONLY <1>2, <1>3
<1> QED BY <1>1, <1>4 DEF GoesOn

(* Then all that is left to show is that its answers are those asked for.  *)
LEMMA GoesOnInv ==
  ASSUME NEW t \in Threads, NEW j, JobType(j), ResultsDue(j),
         j.pc \in {"attribute", "hints", "types", "answer"}, early \subseteq early',
         NEW pc \in {"hints", "types", "answer"}, NEW resolved \in BOOLEAN,
         NEW got \in Seq(Schemas), pc = "hints" => got = <<>>,
         NEW k, GoesOn(j, k, pc, resolved, got), Collecting(t, k)'
  PROVE  JobInv(t, k)'
<1>1. /\ k.pc = pc /\ k.b = j.b /\ k.plan = j.plan /\ k.ext = j.ext /\ k.resolved = resolved
      /\ k.got = got /\ k.results = j.results /\ k.result = j.result
      /\ k = [pc |-> k.pc, b |-> k.b, plan |-> k.plan, ext |-> k.ext, resolved |-> k.resolved,
              got |-> k.got, results |-> k.results, result |-> k.result]
  BY DEF GoesOn
<1>2. JobType(k)
  BY <1>1 DEF JobType
<1>3. ContractMade(k)
  BY <1>1 DEF ContractMade
<1>4. ResultsDue(k)'
  BY <1>1, DueStays DEF ResultsDue
<1>5. JobType(k)' /\ ContractMade(k)'
  BY <1>2, <1>3 DEF JobType, ContractMade
<1> QED BY <1>4, <1>5 DEF JobInv

(* The attribute is read, or the hints come next.                          *)
LEMMA AttributeInv ==
  ASSUME EInv, NEW t \in Threads, Attribute(t), IInv'
  PROVE  EInv'
<1> PICK j, c : j = job[t] /\ c = Current(t)
  OBVIOUS
<1>1. j.pc = "attribute" /\ UNCHANGED <<cache, lock, stack, made, ret, early, attr>>
  BY DEF Attribute, vars
<1>2. /\ JobType(j) /\ ResultsDue(j) /\ c = j.plan[Len(j.results) + 1]
      /\ c \in Item /\ c.f \in Functions /\ c.kind \in Kinds /\ j.resolved \in BOOLEAN
  BY <1>1, CurrentFacts
<1>3. AttributeType' /\ AttributesDue'
  BY <1>1, AttributesStay
<1>4. ASSUME NEW r, Deliver(t, r), ~j.ext => r \in DueSchemas(c.f, c.kind) PROVE EInv'
  <2>1. PICK k : job' = [job EXCEPT ![t] = k] /\ JobInv(t, k)'
    BY <1>1, <1>4, DeliverInv
  <2> QED BY <1>1, <1>3, <2>1, JobMoves
<1>5. CASE Read(t)
  <2>1. Deliver(t, attr[c.f][c.kind])
    BY <1>5 DEF Attribute
  <2>2. attr[c.f][c.kind] \in DueSchemas(c.f, c.kind)
    <3>1. c.kind \in {"input", "output"} /\ attr[c.f][c.kind] # Unset
      BY <1>2, <1>5 DEF Read, Kinds
    <3>2. CASE c.kind = "input"
      <4>1. attr[c.f].input # Unset
        BY <3>1, <3>2
      <4>2. attr[c.f].input \in DueSchemas(c.f, "input")
        BY <1>2, <4>1 DEF EInv, AttributesDue
      <4> QED BY <3>2, <4>2
    <3>3. CASE c.kind = "output"
      <4>1. attr[c.f].output # Unset
        BY <3>1, <3>3
      <4>2. attr[c.f].output \in DueSchemas(c.f, "output")
        BY <1>2, <4>1 DEF EInv, AttributesDue
      <4> QED BY <3>3, <4>2
    <3> QED BY <3>1, <3>2, <3>3
  <2> QED BY <1>4, <2>1, <2>2
<1>6. CASE ~Read(t) /\ c.kind = "input" /\ ~Signature[c.f].known
  <2>1. Deliver(t, None)
    BY <1>6 DEF Attribute
  <2>2. Due[c.f]["input"][TRUE] = {None}
    BY <1>2, <1>6 DEF Due, DueInput, Kinds
  <2>3. None \in DueSchemas(c.f, c.kind)
    BY <1>6, <2>2 DEF DueSchemas
  <2> QED BY <1>4, <2>1, <2>3
<1>7. CASE ~Read(t) /\ ~(c.kind = "input" /\ ~Signature[c.f].known)
  <2>1. SetJob(t, [j EXCEPT !.pc = "hints"])
    BY <1>7 DEF Attribute
  <2>2. PICK k : k = [j EXCEPT !.pc = "hints"]
    OBVIOUS
  <2>3. GoesOn(j, k, "hints", j.resolved, j.got)
    BY <1>2, <2>2, PlaceChanges
  <2>4. Collecting(t, k)'
    BY <1>2, <1>7, <2>3 DEF Collecting, GoesOn
  <2>5. j.got = <<>> /\ j.got \in Seq(Schemas)
    BY <1>1, <1>2 DEF JobType
  <2>6. JobInv(t, k)'
    BY <1>1, <1>2, <2>3, <2>4, <2>5, GoesOnInv
  <2>7. job' = [job EXCEPT ![t] = k]
    BY <2>1, <2>2 DEF SetJob
  <2> QED BY <1>1, <1>3, <2>6, <2>7, JobMoves
<1> QED BY <1>5, <1>6, <1>7
(* The hints are resolved, or the function is noted as looked at early.    *)
LEMMA HintsInv ==
  ASSUME EInv, NEW t \in Threads, Hints(t), IInv'
  PROVE  EInv'
<1> PICK j, c : j = job[t] /\ c = Current(t)
  OBVIOUS
<1>1. /\ j.pc = "hints" /\ UNCHANGED <<cache, lock, stack, made, ret, attr>>
      /\ early \subseteq early'
  BY DEF Hints, vars
<1>2. /\ JobType(j) /\ ResultsDue(j) /\ c = j.plan[Len(j.results) + 1] /\ Collecting(t, j)
      /\ c \in Item /\ c.f \in Functions /\ c.kind \in Kinds
  BY <1>1, CurrentFacts
<1>3. PICK y : y = (defined \/ ~Signature[c.f].text)
  OBVIOUS
<1>4. PICK k : k = [j EXCEPT !.pc = "types", !.resolved = y]
  OBVIOUS
<1>5. job' = [job EXCEPT ![t] = k]
  BY <1>3, <1>4 DEF Hints, SetJob
<1>6. GoesOn(j, k, "types", y, j.got)
  BY <1>2, <1>4, HintsChange
<1>7. j.got = <<>> /\ j.got \in Seq(Schemas) /\ y \in BOOLEAN
  BY <1>1, <1>2, <1>3 DEF JobType
<1>8. Known(k, c)'
  <2>1. ~y => c.f \in early' /\ Signature[c.f].text
    BY <1>3 DEF Hints
  <2>2. c.kind = "input" => Signature[c.f].known
    BY <1>1, <1>2 DEF Collecting
  <2> QED BY <1>6, <2>1, <2>2 DEF Known, GoesOn
<1>9. Collecting(t, k)'
  <2>1. PICK qs : qs = Asked[c.f][c.kind][y]
    OBVIOUS
  <2>2. Len(qs) \in Nat
    BY <1>2, <1>7, <2>1, AskedFacts, Lengths, Zenon
  <2>3. k.got = <<>> /\ k.pc = "types" /\ c = k.plan[Len(k.results) + 1]
        /\ qs = Asked[c.f][c.kind][k.resolved]
    BY <1>2, <1>6, <1>7, <2>1 DEF GoesOn
  <2>4. GotRight(k, qs)
    <3>1. Len(k.got) = 0
      BY <2>3
    <3> QED BY <2>2, <3>1 DEF GotRight
  <2>5. GotRight(k, qs)'
    BY <2>4 DEF GotRight
  <2> QED BY <1>8, <2>3, <2>5 DEF Collecting
<1>10. JobInv(t, k)'
  BY <1>1, <1>2, <1>6, <1>7, <1>9, GoesOnInv
<1> QED BY <1>1, <1>5, <1>10, AttributesStay, JobMoves

(* A type is asked for.                                                    *)
LEMMA AskTypeInv ==
  ASSUME EInv, NEW t \in Threads, AskType(t), IInv'
  PROVE  EInv'
<1> PICK j, c : j = job[t] /\ c = Current(t)
  OBVIOUS
<1> PICK qs, n : qs = Asked[c.f][c.kind][j.resolved] /\ n = Len(j.got)
  OBVIOUS
<1> PICK ty : ty = Pending(t)[1].type
  OBVIOUS
<1> PICK k : k = [j EXCEPT !.pc = "answer"]
  OBVIOUS
<1>1. /\ j.pc = "types" /\ Pending(t) # <<>> /\ Call(t, ty, j.ext)
      /\ job' = [job EXCEPT ![t] = k] /\ UNCHANGED <<early, attr>>
  BY DEF AskType, SetJob
<1>2. /\ JobType(j) /\ ResultsDue(j) /\ c = j.plan[Len(j.results) + 1] /\ Collecting(t, j)
      /\ c \in Item /\ c.f \in Functions /\ c.kind \in Kinds /\ j.got \in Seq(Schemas)
      /\ j.ext \in BOOLEAN /\ j.resolved \in BOOLEAN
  BY <1>1, CurrentFacts
<1>3. n + 1 \in 1 .. Len(qs) /\ ty = qs[n + 1].type /\ GotRight(j, qs) /\ Known(j, c)
  <2>0. EInv /\ j = job[t] /\ c = Current(t) /\ j.pc = "types" /\ qs = Asked[c.f][c.kind][j.resolved]
        /\ Pending(t) # <<>>
    BY <1>1
  <2>1. GotRight(j, qs) /\ Known(j, c)
    BY ONLY <2>0, PendingFacts, t \in Threads
  <2>2. Len(j.got) + 1 \in 1 .. Len(qs)
    BY ONLY <2>0, PendingFacts, t \in Threads, Zenon
  <2>3. Pending(t)[1] = qs[Len(j.got) + 1]
    BY ONLY <2>0, PendingFacts, t \in Threads
  <2> QED BY <2>1, <2>2, <2>3, Zenon
<1>4. /\ stack[t] = <<>> /\ stack' = [stack EXCEPT ![t] = Append(@, NewFrame(ty, j.ext))]
      /\ UNCHANGED <<made, ret>>
  BY <1>1 DEF Call, Enter
<1>5. stack'[t] = <<NewFrame(ty, j.ext)>> /\ \A u \in Threads \ {t} : stack'[u] = stack[u]
  <2>1. stack \in [Threads -> Seq(Frame)]
    BY DEF EInv, IInv, TypeOK
  <2> QED BY <1>4, <2>1
<1>6. GoesOn(j, k, "answer", j.resolved, j.got)
  BY <1>2, PlaceChanges
<1>7. ~j.ext => Calling(t, ty)'
  <2>1. stack'[t] # <<>> /\ stack'[t][1] = NewFrame(ty, j.ext)
    BY <1>5
  <2> QED BY <2>1 DEF Calling, NewFrame
<1>8. Collecting(t, k)'
  <2>1. /\ k.pc = "answer" /\ c = k.plan[Len(k.results) + 1] /\ k.got = j.got /\ k.ext = j.ext
        /\ k.resolved = j.resolved
    BY <1>2, <1>6 DEF GoesOn
  <2>2. Known(k, c)'
    BY <1>1, <1>3, <2>1 DEF Known
  <2>3. GotRight(k, qs)'
    BY <1>3, <2>1 DEF GotRight
  <2>4. Len(k.got) < Len(qs)
    <3>1. n \in Nat /\ Len(qs) \in Nat
      BY <1>2, AskedFacts, Lengths, Zenon
    <3>2. n < Len(qs)
      BY ONLY <1>3, <3>1
    <3>3. Len(k.got) = n
      BY <2>1, Zenon
    <3> QED BY <3>2, <3>3, Zenon
  <2> QED BY <1>3, <1>7, <2>1, <2>2, <2>3, <2>4 DEF Collecting
<1>9. JobInv(t, k)'
  BY <1>1, <1>2, <1>6, <1>8, GoesOnInv
<1> QED BY <1>1, <1>4, <1>5, <1>9, AttributesStay, JobMoves

(* A result is left in the attribute and delivered.                        *)
LEMMA ConcludeInv ==
  ASSUME EInv, NEW t \in Threads, NEW j, j = job[t], NEW c, c = Current(t),
         j.pc \in {"types", "answer"}, NEW r, Conclude(t, r),
         ~j.ext => r \in DueSchemas(c.f, c.kind) /\ r # Raised,
         UNCHANGED <<cache, lock, stack, made, ret, early>>, IInv'
  PROVE  EInv'
<1>1. c \in Item /\ c.f \in Functions /\ c.kind \in Kinds
  BY CurrentFacts
<1>2. PICK k : job' = [job EXCEPT ![t] = k] /\ JobInv(t, k)'
  BY DeliverInv DEF Conclude
<1>3. CASE attr' = attr
  BY <1>2, <1>3, AttributesStay, JobMoves
<1>4. CASE Stored(t)
  <2>1. /\ attr' = [attr EXCEPT ![c.f][c.kind] = r] /\ c.kind \in {"input", "output"}
        /\ r \in DueSchemas(c.f, c.kind) /\ r # Raised
    BY <1>1, <1>4 DEF Conclude, Stored, Kinds
  <2>2. attr = [f \in Functions |-> [input |-> attr[f].input, output |-> attr[f].output]]
    BY DEF EInv, AttributeType
  <2>3. PICK a, x, y : a = attr[c.f] /\ x = a.input /\ y = a.output
    OBVIOUS
  <2>4. a = [input |-> x, output |-> y]
    BY <1>1, <2>2, <2>3
  <2>5. PICK z : z = [a EXCEPT ![c.kind] = r]
    OBVIOUS
  <2>6. attr' = [attr EXCEPT ![c.f] = z]
    BY <1>1, <2>1, <2>2, <2>3, <2>5
  <2>7. /\ z = [input |-> z.input, output |-> z.output]
        /\ z.input = IF c.kind = "input" THEN r ELSE x
        /\ z.output = IF c.kind = "output" THEN r ELSE y
    <3>1. CASE c.kind = "input"
      <4>1. z = [a EXCEPT !["input"] = r]
        BY <2>5, <3>1
      <4>2. z.input = r /\ z.output = y /\ z = [input |-> z.input, output |-> z.output]
        BY ONLY <2>4, <4>1
      <4> QED BY <3>1, <4>2
    <3>2. CASE c.kind = "output"
      <4>1. z = [a EXCEPT !["output"] = r]
        BY <2>5, <3>2
      <4>2. z.input = x /\ z.output = r /\ z = [input |-> z.input, output |-> z.output]
        BY ONLY <2>4, <4>1
      <4> QED BY <3>2, <4>2
    <3> QED BY <2>1, <3>1, <3>2
  <2>8. AttributeType'
    <3>1. /\ attr' = [f \in Functions |-> IF f = c.f THEN z ELSE attr[f]]
          /\ \A f \in Functions : attr[f] = [input |-> attr[f].input, output |-> attr[f].output]
      BY <2>2, <2>6
    <3>2. \A f \in Functions : attr'[f] = [input |-> attr'[f].input, output |-> attr'[f].output]
      BY <2>7, <3>1
    <3> QED BY <3>1, <3>2 DEF AttributeType
  <2>9. AttributesDue'
    <3> SUFFICES ASSUME NEW f \in Functions
                 PROVE  /\ attr'[f].input \in {Unset} \cup (DueSchemas(f, "input") \ {Raised})
                        /\ attr'[f].output \in {Unset} \cup DueSchemas(f, "output")
      BY DEF AttributesDue, DueSchemas
    <3>1. /\ attr[f].input \in {Unset} \cup (DueSchemas(f, "input") \ {Raised})
          /\ attr[f].output \in {Unset} \cup DueSchemas(f, "output")
      BY DEF EInv, AttributesDue
    <3>2. CASE f # c.f
      BY <2>2, <2>6, <3>1, <3>2
    <3>3. CASE f = c.f
      <4>1. attr'[f] = z /\ x = attr[f].input /\ y = attr[f].output
        BY <1>1, <2>2, <2>3, <2>6, <3>3
      <4> QED BY <2>1, <2>7, <3>1, <3>3, <4>1
    <3> QED BY <3>2, <3>3
  <2> QED BY <1>2, <2>8, <2>9, JobMoves
<1> QED BY <1>3, <1>4 DEF Conclude
(* A call has answered, or failed.                                         *)
LEMMA AnswerInv ==
  ASSUME EInv, NEW t \in Threads, Answer(t), IInv'
  PROVE  EInv'
<1> PICK j, c : j = job[t] /\ c = Current(t)
  OBVIOUS
<1> PICK qs, n, o : qs = Asked[c.f][c.kind][j.resolved] /\ n = Len(j.got) /\ o = ret[t]
  OBVIOUS
<1>1. /\ j.pc = "answer" /\ stack[t] = <<>>
      /\ UNCHANGED <<cache, lock, stack, made, ret, early>>
  BY DEF Answer, vars
<1>2. /\ JobType(j) /\ ResultsDue(j) /\ c = j.plan[Len(j.results) + 1] /\ Collecting(t, j)
      /\ c \in Item /\ c.f \in Functions /\ c.kind \in Kinds /\ j.got \in Seq(Schemas)
      /\ j.ext \in BOOLEAN /\ j.resolved \in BOOLEAN
  BY <1>1, CurrentFacts
<1>3. /\ qs \in Seq(Question) /\ n \in Nat /\ Len(qs) \in Nat
  BY <1>2, AskedFacts, Lengths, Zenon
<1>4. Known(j, c) /\ GotRight(j, qs) /\ n < Len(qs)
  BY <1>1, <1>2 DEF Collecting
<1>5. n \in Nat /\ Len(qs) \in Nat /\ n < Len(qs)
  BY <1>3, <1>4, Zenon
<1>6. PICK ty : ty = qs[n + 1].type
  OBVIOUS
<1>7. ~j.ext => Right(o, ty)
  BY <1>1, <1>2, <1>6 DEF Collecting, Calling
<1>8. CASE o # Recursion
  <2>1. PICK s : s = AsSchema(o)
    OBVIOUS
  <2>2. PICK got : got = Append(j.got, s)
    OBVIOUS
  <2>3. PICK k : k = [j EXCEPT !.pc = "types", !.got = got]
    OBVIOUS
  <2>4. job' = [job EXCEPT ![t] = k] /\ attr' = attr
    <3>1. SetJob(t, [j EXCEPT !.pc = "types", !.got = Append(@, AsSchema(ret[t]))]) /\ attr' = attr
      BY <1>8 DEF Answer
    <3> QED BY <2>1, <2>2, <2>3, <3>1 DEF SetJob
  <2>5. GoesOn(j, k, "types", j.resolved, got)
    BY <1>2, <2>3, AnswersChange
  <2>6. s \in Schemas
    <3>1. made \in Seq(SchemaObject) /\ o \in Recursion .. Len(made)
      BY DEF EInv, IInv, TypeOK, SchemaObject
    <3>2. CASE o = NoSchema
      BY <2>1, <3>2 DEF AsSchema, Schemas
    <3>3. CASE o # NoSchema
      <4>1. o \in 1 .. Len(made)
        BY <1>8, <3>1, <3>3 DEF NoSchema, Recursion
      <4>2. made[o] \in SchemaObject
        BY <3>1, <4>1
      <4> QED BY <2>1, <3>3, <4>2, SchemaAssumption DEF AsSchema, Schemas, SchemaObject
    <3> QED BY <3>2, <3>3
  <2>7. /\ got \in Seq(Schemas) /\ Len(got) = n + 1 /\ got[n + 1] = s
        /\ \A i \in 1 .. n : got[i] = j.got[i]
    <3>1. PICK g : g = j.got
      OBVIOUS
    <3>2. g \in Seq(Schemas) /\ got = Append(g, s) /\ n = Len(g)
      BY <1>2, <2>2, <3>1
    <3>3. /\ got \in Seq(Schemas) /\ Len(got) = n + 1 /\ got[n + 1] = s
          /\ \A i \in 1 .. n : got[i] = g[i]
      BY ONLY <2>6, <3>2
    <3> QED BY <3>1, <3>3
  <2>8. GotRight(k, qs)
    <3>1. k.got = got /\ k.ext = j.ext
      BY <2>5 DEF GoesOn
    <3>2. n + 1 <= Len(qs)
      BY ONLY <1>5
    <3>3. ASSUME ~j.ext, NEW i \in 1 .. n + 1
          PROVE  got[i] \in Fresh(qs[i].type)
      <4>1. CASE i = n + 1
        <5>1. s \in Fresh(ty)
          BY <1>7, <1>8, <2>1, <3>3 DEF Right
        <5> QED BY <1>6, <2>7, <4>1, <5>1
      <4>2. CASE i \in 1 .. n
        <5>1. j.got[i] \in Fresh(qs[i].type)
          BY <1>4, <3>3, <4>2 DEF GotRight
        <5> QED BY <2>7, <4>2, <5>1
      <4>3. i = n + 1 \/ i \in 1 .. n
        BY ONLY <1>5, i \in 1 .. n + 1
      <4> QED BY ONLY <4>1, <4>2, <4>3
    <3> QED BY <2>7, <3>1, <3>2, <3>3 DEF GotRight
  <2>9. Collecting(t, k)'
    <3>1. k.pc = "types" /\ c = k.plan[Len(k.results) + 1] /\ k.resolved = j.resolved
      BY <1>2, <2>5 DEF GoesOn
    <3>2. Known(k, c)'
      BY <1>1, <1>4, <3>1 DEF Known
    <3>3. GotRight(k, qs)'
      BY <2>8 DEF GotRight
    <3> QED BY <3>1, <3>2, <3>3 DEF Collecting
  <2>10. JobInv(t, k)'
    BY <1>1, <1>2, <2>5, <2>7, <2>9, GoesOnInv
  <2> QED BY <1>1, <2>4, <2>10, AttributesStay, JobMoves
<1>9. CASE o = Recursion
  <2>1. ~j.ext => (IF c.kind = "input" THEN Raised ELSE None) \in Due[c.f][c.kind][j.resolved]
    <3> SUFFICES ASSUME ~j.ext
                 PROVE  (IF c.kind = "input" THEN Raised ELSE None) \in Due[c.f][c.kind][j.resolved]
      OBVIOUS
    <3>1. n + 1 \in 1 .. Len(qs)
      BY ONLY <1>5
    <3>2. Fails(qs[n + 1].type)
      BY <1>6, <1>7, <1>9 DEF Right
    <3>3. c.kind = "input" => Signature[c.f].known
      BY <1>4 DEF Known
    <3> QED BY <1>2, <3>1, <3>2, <3>3, FailureIsDue
  <2>2. ~j.ext => Due[c.f][c.kind][j.resolved] \subseteq DueSchemas(c.f, c.kind)
    <3>1. ~j.resolved => Signature[c.f].text /\ c.f \in early
      BY <1>4 DEF Known
    <3> QED BY <1>2, <3>1, DueNow
  <2>3. CASE c.kind = "input"
    <3>1. Deliver(t, Raised) /\ attr' = attr
      BY <1>9, <2>3 DEF Answer
    <3>2. ~j.ext => Raised \in DueSchemas(c.f, c.kind)
      BY <2>1, <2>2, <2>3
    <3>3. PICK k : job' = [job EXCEPT ![t] = k] /\ JobInv(t, k)'
      BY <1>1, <3>1, <3>2, DeliverInv
    <3> QED BY <1>1, <3>1, <3>3, AttributesStay, JobMoves
  <2>4. CASE c.kind # "input"
    <3>1. Conclude(t, None)
      BY <1>9, <2>4 DEF Answer
    <3>2. ~j.ext => None \in DueSchemas(c.f, c.kind)
      BY <2>1, <2>2, <2>4
    <3>3. None # Raised
      BY SchemaAssumption
    <3> QED BY <1>1, <3>1, <3>2, <3>3, ConcludeInv
  <2> QED BY <2>3, <2>4
<1> QED BY <1>8, <1>9

(* All calls have answered.                                                *)
LEMMA FinishInv ==
  ASSUME EInv, NEW t \in Threads, Finish(t), IInv'
  PROVE  EInv'
<1> PICK j, c : j = job[t] /\ c = Current(t)
  OBVIOUS
<1> PICK qs, r : /\ qs = Asked[c.f][c.kind][j.resolved]
                 /\ r = Computed(c.f, c.kind, j.resolved, j.got)
  OBVIOUS
<1>1. /\ j.pc = "types" /\ Pending(t) = <<>> /\ Conclude(t, r)
      /\ UNCHANGED <<cache, lock, stack, made, ret, early>>
  BY DEF Finish, vars
<1>2. /\ c \in Item /\ c.f \in Functions /\ c.kind \in Kinds /\ j.got \in Seq(Schemas)
      /\ j.ext \in BOOLEAN /\ j.resolved \in BOOLEAN
  BY <1>1, CurrentFacts
<1>3. EInv /\ j = job[t] /\ c = Current(t) /\ j.pc = "types"
      /\ qs = Asked[c.f][c.kind][j.resolved] /\ Pending(t) = <<>>
  BY <1>1
<1>4. GotRight(j, qs) /\ Known(j, c)
  BY ONLY <1>3, PendingFacts, t \in Threads
<1>5. Len(j.got) = Len(qs)
  BY ONLY <1>3, PendingFacts, t \in Threads
<1>6. ASSUME ~j.ext PROVE r \in DueSchemas(c.f, c.kind) /\ r # Raised
  <2>1. GotAll(c.f, c.kind, j.resolved, j.got)
    <3>1. \A i \in 1 .. Len(j.got) : j.got[i] \in Fresh(qs[i].type)
      BY <1>4, <1>6 DEF GotRight
    <3> QED BY <1>2, <1>5, <3>1 DEF GotAll
  <2>2. c.kind = "input" => Signature[c.f].known
    BY <1>4 DEF Known
  <2>3. r \in Due[c.f][c.kind][j.resolved] /\ r # Raised
    BY <1>2, <2>1, <2>2, ComputedIsDue
  <2>4. ~j.resolved => Signature[c.f].text /\ c.f \in early
    BY <1>4 DEF Known
  <2> QED BY <1>2, <2>3, <2>4, DueNow
<1> QED BY <1>1, <1>6, ConcludeInv
(* The invariant holds initially.                                          *)
LEMMA ExtractionInit == ContractInit => EInv
<1> SUFFICES ASSUME ContractInit PROVE EInv
  OBVIOUS
<1>1. IInv
  BY InitInv DEF ContractInit
<1>2. /\ job = [t \in Threads |-> NoJob] /\ early = {}
      /\ attr = [f \in Functions |-> [input |-> Unset, output |-> Unset]]
  BY DEF ContractInit
<1>3. PICK j : j = NoJob
  OBVIOUS
<1>4. /\ j.pc = "idle" /\ j.b = NoBlueprint /\ j.plan = <<>> /\ j.ext = FALSE /\ j.resolved = FALSE
      /\ j.got = <<>> /\ j.results = <<>> /\ j.result = None
      /\ j = [pc |-> j.pc, b |-> j.b, plan |-> j.plan, ext |-> j.ext, resolved |-> j.resolved,
              got |-> j.got, results |-> j.results, result |-> j.result]
  BY ONLY <1>3 DEF NoJob
<1>5. Len(<<>>) = 0 /\ IsSeq(<<>>) /\ <<>> \in Seq(Schemas) /\ <<>> \in Seq(Item)
  BY DEF IsSeq
<1>6. JobType(j)
  <2>1. j.plan \in Seq(Item) /\ j.ext \in BOOLEAN /\ j.resolved \in BOOLEAN
    BY <1>4, <1>5
  <2>2. j.got \in Seq(Schemas) /\ IsSeq(j.results) /\ Len(j.results) <= Len(j.plan)
    BY <1>4, <1>5
  <2> QED BY <1>4, <2>1, <2>2 DEF JobType
<1>7. ResultsDue(j)
  <2>1. Len(j.results) = 0
    BY <1>4, <1>5
  <2> QED BY <2>1 DEF ResultsDue
<1>8. ASSUME NEW t \in Threads PROVE JobInv(t, j)
  BY <1>4, <1>6, <1>7 DEF JobInv, Collecting, ContractMade
<1>9. AttributeType /\ AttributesDue
  BY <1>2 DEF AttributeType, AttributesDue
<1>10. ASSUME NEW t \in Threads PROVE JobInv(t, job[t])
  <2>1. job[t] = j
    BY <1>2, <1>3
  <2> QED BY <1>8, <2>1
<1> QED BY <1>1, <1>2, <1>9, <1>10 DEF EInv

(* Every step keeps the invariant.                                         *)
LEMMA ExtractionStep == EInv /\ [ContractNext]_allVars => EInv'
<1> SUFFICES ASSUME EInv, [ContractNext]_allVars PROVE EInv'
  OBVIOUS
<1>1. IInv'
  <2>1. IInv /\ [Next]_vars
    BY NextIsCached DEF EInv
  <2> QED BY <2>1, StepInv
<1>2. CASE Define \/ UNCHANGED allVars
  <2>1. UNCHANGED <<cache, lock, stack, made, ret, early, attr, job>>
    BY <1>2 DEF Define, vars, allVars, funVars
  <2>2. ASSUME NEW t \in Threads PROVE EInv'
    <3> PICK j : j = job[t]
      OBVIOUS
    <3>1. JobInv(t, j) /\ job' = [job EXCEPT ![t] = j]
      BY <2>1 DEF EInv
    <3>2. JobInv(t, j)'
      BY <2>1, <3>1, OtherJob DEF EInv
    <3> QED BY <1>1, <2>1, <3>1, <3>2, AttributesStay, JobMoves
  <2>3. CASE Threads = {}
    <3>1. AttributeType' /\ AttributesDue'
      BY <2>1, AttributesStay
    <3> QED BY <1>1, <2>1, <2>3, <3>1 DEF EInv
  <2> QED BY <2>2, <2>3
<1>3. ASSUME NEW t \in Threads, NEW d \in Direct, AskSchema(t, d[1], d[2]) PROVE EInv'
  BY <1>1, <1>3, AskSchemaInv
<1>4. ASSUME NEW t \in Threads, NEW a \in Asks, AskFunction(t, a[1], a[2], a[3]) PROVE EInv'
  <2>1. PICK f, kind, ext : f = a[1] /\ kind = a[2] /\ ext = a[3]
    OBVIOUS
  <2>2. f \in Functions /\ kind \in Kinds /\ ext \in BOOLEAN
    BY <2>1, RequestAssumption
  <2>3. PICK plan, b : plan = <<[f |-> f, kind |-> kind]>> /\ b = NoBlueprint
    OBVIOUS
  <2>4. plan \in Seq(Item)
    <3>1. [f |-> f, kind |-> kind] \in Item
      BY <2>2 DEF Item
    <3> QED BY <2>3, <3>1
  <2>5. Ask(t, b, plan, ext)
    BY <1>4, <2>1, <2>3 DEF AskFunction
  <2> QED BY <1>1, <2>2, <2>3, <2>4, <2>5, AskInv
<1>5. ASSUME NEW t \in Threads, NEW x \in Contracts, AskContract(t, x[1], x[2]) PROVE EInv'
  <2>1. PICK b, plan, ext : b = x[1] /\ plan = Plan(b) /\ ext = x[2]
    OBVIOUS
  <2>2. plan \in Seq(Item) /\ ext \in BOOLEAN
    BY <2>1, PlanFacts, RequestAssumption
  <2>3. Ask(t, b, plan, ext)
    BY <1>5, <2>1 DEF AskContract
  <2> QED BY <1>1, <2>1, <2>2, <2>3, AskInv
<1>6. ASSUME NEW t \in Threads, ContractStep(t) PROVE EInv'
  BY <1>1, <1>6, CacheStepInv, AttributeInv, HintsInv, AskTypeInv, AnswerInv, FinishInv
     DEF ContractStep
<1> QED BY <1>2, <1>3, <1>4, <1>5, <1>6 DEF ContractNext

(* The invariant holds in every behaviour of extraction.                   *)
LEMMA ExtractionInv == ContractSpec => []EInv
BY ExtractionInit, ExtractionStep, PTL DEF ContractSpec

-----------------------------------------------------------------------------
(* All functions of schema.py use the cache of type schemas as its         *)
(* specification says: their calls of extract_json_schema are its calls    *)
(* from outside.  So what is proved of the cache holds of all of them.     *)
THEOREM UsesCacheAsSpecified == ContractSpec => Spec
<1>1. ContractInit => Init
  BY DEF ContractInit
<1>2. EInv /\ [ContractNext]_allVars => [Next]_vars
  BY NextIsCached
<1> QED BY <1>1, <1>2, ExtractionInv, PTL DEF ContractSpec, Spec

(* An attribute _rxon_input_schema or _rxon_output_schema that is set      *)
(* holds the schema the function should have: whatever was cached or       *)
(* evicted, no custom extractor leaves a trace, and nothing is kept of an  *)
(* input whose extraction failed.                                          *)
THEOREM AttributesAreDue == ContractSpec => []AttributesDue
<1>1. EInv => AttributesDue
  BY DEF EInv
<1> QED BY <1>1, ExtractionInv, PTL
-----------------------------------------------------------------------------
(* What a contract is made of.                                             *)

(* The handlers of the end states that have one.                           *)
Ends(b) == {b.handlers[s] : s \in ToSet(b.ends) \cap DOMAIN b.handlers}

(* The plan of a contract: the start handler comes first, the others are   *)
(* those of the end states.                                                *)
LEMMA PlanParts ==
  ASSUME NEW x \in Contracts, NEW b, b = x[1], NEW plan, plan = Plan(b),
         NEW ends, ends = Ends(b)
  PROVE  /\ plan \in Seq(Item)
         /\ IF StartHandler(b) = None THEN plan # <<>> => plan[1].kind = "output"
            ELSE plan # <<>> /\ plan[1] = [f |-> StartHandler(b), kind |-> "input"]
         /\ \A i \in 1 .. Len(plan) : plan[i].kind = "output" => plan[i].f \in ends
         /\ \A g \in ends : \E i \in 1 .. Len(plan) : plan[i].kind = "output" /\ plan[i].f = g
<1> PICK start : start = StartHandler(b)
  OBVIOUS
<1> PICK head : head = IF start = None THEN <<>> ELSE <<[f |-> start, kind |-> "input"]>>
  OBVIOUS
<1> PICK es : es = Where(b.ends, DOMAIN b.handlers)
  OBVIOUS
<1> PICK tail : tail = [i \in DOMAIN es |-> [f |-> b.handlers[es[i]], kind |-> "output"]]
  OBVIOUS
<1>1. head \in Seq(Item)
  <2>1. start # None => [f |-> start, kind |-> "input"] \in Item
    BY StartFacts DEF Item, Kinds
  <2> QED BY <2>1
<1>2. tail \in Seq(Item) /\ es \in Seq(STRING) /\ ToSet(es) = ToSet(b.ends) \cap DOMAIN b.handlers
  BY EndFacts, ZenonT(30)
<1>3. plan = head \o tail
  BY DEF Plan
<1>4. PICK h, m \in Nat : h = Len(head) /\ m = Len(tail)
  BY <1>1, <1>2, Lengths, Zenon
<1>5. /\ plan \in Seq(Item) /\ Len(plan) = h + m
      /\ \A i \in 1 .. h : plan[i] = head[i]
      /\ \A i \in 1 .. m : plan[h + i] = tail[i]
  BY ONLY <1>1, <1>2, <1>3, <1>4
<1>6. DOMAIN es = 1 .. m /\ \A i \in 1 .. m : tail[i] = [f |-> b.handlers[es[i]], kind |-> "output"]
  <2>1. DOMAIN tail = DOMAIN es
    BY Zenon
  <2>2. DOMAIN tail = 1 .. m
    BY ONLY <1>2, <1>4
  <2>3. \A i \in DOMAIN es : tail[i] = [f |-> b.handlers[es[i]], kind |-> "output"]
    BY Zenon
  <2> QED BY <2>1, <2>2, <2>3
<1>7. ASSUME NEW i \in 1 .. m PROVE tail[i].kind = "output" /\ tail[i].f \in ends
  <2>1. es[i] \in ToSet(es)
    BY <1>6, Zenon DEF ToSet
  <2>2. b.handlers[es[i]] \in ends
    BY <1>2, <2>1, Zenon DEF Ends
  <2> QED BY <1>6, <2>2
<1>8. ASSUME NEW g \in ends PROVE \E i \in 1 .. m : tail[i].kind = "output" /\ tail[i].f = g
  <2>1. PICK s \in ToSet(es) : g = b.handlers[s]
    BY <1>2, Zenon DEF Ends
  <2>2. PICK i \in DOMAIN es : es[i] = s
    BY Zenon DEF ToSet
  <2>3. i \in 1 .. m /\ tail[i].kind = "output" /\ tail[i].f = g
    BY <1>6, <2>1, <2>2
  <2> QED BY <2>3
<1>9. /\ start = None => h = 0
      /\ start # None => h = 1 /\ head[1] = [f |-> start, kind |-> "input"]
  <2>1. Len(<<>>) = 0 /\ Len(<<[f |-> start, kind |-> "input"]>>) = 1
    OBVIOUS
  <2> QED BY <1>4, <2>1
<1>10. IF start = None THEN plan # <<>> => plan[1].kind = "output"
       ELSE plan # <<>> /\ plan[1] = [f |-> start, kind |-> "input"]
  <2>1. CASE start = None
    <3>1. plan # <<>> => 0 < Len(plan)
      BY <1>5, FirstFacts, Zenon
    <3>2. plan # <<>> => 1 \in 1 .. m
      BY ONLY <1>4, <1>5, <1>9, <2>1, <3>1
    <3>3. plan # <<>> => plan[1] = tail[1]
      BY ONLY <1>5, <1>9, <2>1, <3>2
    <3> QED BY <1>7, <2>1, <3>2, <3>3
  <2>2. CASE start # None
    <3>1. h = 1
      BY <1>9, <2>2, Zenon
    <3>2. plan[1] = head[1]
      BY ONLY <1>5, <3>1
    <3>3. 0 < Len(plan)
      BY ONLY <1>4, <1>5, <3>1
    <3>4. Len(<<>>) = 0
      OBVIOUS
    <3>5. plan # <<>>
      BY ONLY <3>3, <3>4
    <3> QED BY <1>9, <2>2, <3>2, <3>5
  <2> QED BY <2>1, <2>2
<1>11. ASSUME NEW i \in 1 .. Len(plan), plan[i].kind = "output" PROVE plan[i].f \in ends
  <2>1. i \in 1 .. h \/ i - h \in 1 .. m
    BY ONLY <1>4, <1>5
  <2>2. CASE i \in 1 .. h
    <3>1. start # None /\ i = 1
      BY ONLY <1>9, <2>2
    <3>2. plan[i].kind = "input"
      BY <1>10, <3>1
    <3> QED BY <1>11, <3>2
  <2>3. CASE i - h \in 1 .. m
    <3>1. plan[i] = tail[i - h]
      BY ONLY <1>4, <1>5, <2>3
    <3> QED BY <1>7, <2>3, <3>1
  <2> QED BY <2>1, <2>2, <2>3
<1>12. ASSUME NEW g \in ends PROVE \E i \in 1 .. Len(plan) : plan[i].kind = "output" /\ plan[i].f = g
  <2>1. PICK i \in 1 .. m : tail[i].kind = "output" /\ tail[i].f = g
    BY <1>8
  <2>2. h + i \in 1 .. Len(plan) /\ plan[h + i] = tail[i]
    BY ONLY <1>4, <1>5
  <2> QED BY <2>1, <2>2
<1> QED BY <1>5, <1>10, <1>11, <1>12
(* A contract is made of the schemas that are due.                         *)
LEMMA ContractOfDue ==
  ASSUME NEW j, JobType(j), ResultsDue(j), ContractMade(j), j.pc = "done", ~j.ext,
         j.b # NoBlueprint, j.result # Raised,
         NEW ends, ends = Ends(j.b)
  PROVE  /\ j.result.input \in IF StartHandler(j.b) = None THEN {None}
                               ELSE DueSchemas(StartHandler(j.b), "input")
         /\ ends \cap early = {} => OutputDue(ends, j.result.output)
<1> PICK b, plan, rs : b = j.b /\ plan = j.plan /\ rs = j.results
  OBVIOUS
<1> PICK outs : outs = {i \in DOMAIN plan : plan[i].kind = "output"}
  OBVIOUS
<1>1. PICK x \in Contracts : b = x[1] /\ plan = Plan(b)
  BY DEF JobType
<1>2. /\ plan \in Seq(Item)
      /\ IF StartHandler(b) = None THEN plan # <<>> => plan[1].kind = "output"
         ELSE plan # <<>> /\ plan[1] = [f |-> StartHandler(b), kind |-> "input"]
      /\ \A i \in 1 .. Len(plan) : plan[i].kind = "output" => plan[i].f \in ends
      /\ \A g \in ends : \E i \in 1 .. Len(plan) : plan[i].kind = "output" /\ plan[i].f = g
  <2>1. ends = Ends(b)
    OBVIOUS
  <2> QED BY <1>1, <2>1, PlanParts
<1>3. Len(rs) = Len(plan) /\ j.result = Contract(b, plan, rs)
  BY DEF ContractMade
<1>4. \A i \in 1 .. Len(plan) : rs[i] \in DueSchemas(plan[i].f, plan[i].kind)
  BY <1>3 DEF ResultsDue
<1>5. /\ j.result.input = IF plan # <<>> /\ plan[1].kind = "input" THEN rs[1] ELSE None
      /\ j.result.output = AnyOf({rs[i] : i \in outs} \ {None, AnyType})
  BY <1>3 DEF Contract
<1>6. j.result.input \in IF StartHandler(b) = None THEN {None} ELSE DueSchemas(StartHandler(b), "input")
  <2>1. CASE StartHandler(b) = None
    BY <1>2, <1>5, <2>1
  <2>2. CASE StartHandler(b) # None
    <3>1. plan # <<>> /\ plan[1] = [f |-> StartHandler(b), kind |-> "input"]
      BY <1>2, <2>2
    <3>2. 1 \in 1 .. Len(plan)
      <4>1. 0 < Len(plan) /\ Len(plan) \in Nat
        BY <1>2, <3>1, FirstFacts, Lengths, Zenon
      <4> QED BY ONLY <4>1
    <3>3. rs[1] \in DueSchemas(StartHandler(b), "input")
      BY <1>4, <3>1, <3>2
    <3> QED BY <1>5, <2>2, <3>1, <3>3
  <2> QED BY <2>1, <2>2
<1>7. ASSUME ends \cap early = {}
      PROVE  OutputDue(ends, j.result.output)
  <2>1. DOMAIN plan = 1 .. Len(plan)
    BY ONLY <1>2
  <2>2. \A i \in outs : i \in 1 .. Len(plan) /\ plan[i].kind = "output" /\ plan[i].f \in ends
    BY <1>2, <2>1, Zenon
  <2>3. \A g \in ends : \E i \in outs : plan[i].f = g
    <3> SUFFICES ASSUME NEW g \in ends PROVE \E i \in outs : plan[i].f = g
      OBVIOUS
    <3>1. PICK i \in 1 .. Len(plan) : plan[i].kind = "output" /\ plan[i].f = g
      BY <1>2, Zenon
    <3>2. i \in outs
      BY <2>1, <3>1, Zenon
    <3> QED BY <3>1, <3>2, Zenon
  <2>4. \A g \in ends : DueSchemas(g, "output") = Due[g]["output"][TRUE]
    BY <1>7 DEF DueSchemas
  <2>5. \A i \in outs : rs[i] \in Due[plan[i].f]["output"][TRUE]
    <3> SUFFICES ASSUME NEW i \in outs PROVE rs[i] \in Due[plan[i].f]["output"][TRUE]
      OBVIOUS
    <3>1. i \in 1 .. Len(plan) /\ plan[i].kind = "output" /\ plan[i].f \in ends
      BY <2>2, Zenon
    <3>2. rs[i] \in DueSchemas(plan[i].f, "output")
      BY <1>4, <3>1, Zenon
    <3> QED BY <2>4, <3>1, <3>2, Zenon
  <2>6. PICK S : S = {rs[i] : i \in outs}
    OBVIOUS
  <2>7. S \in SUBSET UNION {Due[g]["output"][TRUE] : g \in ends}
    <3>1. PICK U : U = UNION {Due[g]["output"][TRUE] : g \in ends}
      OBVIOUS
    <3>2. ASSUME NEW i \in outs PROVE rs[i] \in U
      <4>1. plan[i].f \in ends /\ rs[i] \in Due[plan[i].f]["output"][TRUE]
        BY <2>2, <2>5, Zenon
      <4> QED BY ONLY <3>1, <4>1, Zenon
    <3>3. \A y \in S : y \in U
      BY <2>6, <3>2, Zenon
    <3> QED BY ONLY <3>1, <3>3, Zenon
  <2>8. ASSUME NEW g \in ends PROVE S \cap Due[g]["output"][TRUE] # {}
    <3>1. PICK i \in outs : plan[i].f = g
      BY <2>3
    <3>2. rs[i] \in Due[g]["output"][TRUE] /\ rs[i] \in S
      BY <2>5, <2>6, <3>1, Zenon
    <3> QED BY ONLY <3>2
  <2>9. j.result.output = AnyOf(S \ {None, AnyType})
    BY <1>5, <2>6, Zenon
  <2> QED BY <2>7, <2>8, <2>9, Zenon DEF OutputDue
<1> QED BY <1>6, <1>7

(* What the outcome of a request should be.                                *)
Proper(j) ==
  /\ \A i \in DOMAIN j.results : j.results[i] \in DueSchemas(j.plan[i].f, j.plan[i].kind)
  /\ j.b # NoBlueprint /\ j.result # Raised =>
       /\ j.result.input \in IF StartHandler(j.b) = None THEN {None}
                             ELSE DueSchemas(StartHandler(j.b), "input")
       /\ Ends(j.b) \cap early = {} => OutputDue(Ends(j.b), j.result.output)

LEMMA OutcomeIsProper ==
  ASSUME EInv, NEW t \in Threads, NEW j, j = job[t], j.pc = "done", ~j.ext
  PROVE  Proper(j)
<1>1. JobType(j) /\ ResultsDue(j) /\ ContractMade(j)
  BY DEF EInv, JobInv
<1>2. \A i \in DOMAIN j.results : j.results[i] \in DueSchemas(j.plan[i].f, j.plan[i].kind)
  <2>1. PICK s, S : s = j.results /\ s \in Seq(S)
    BY <1>1 DEF JobType, IsSeq
  <2>2. DOMAIN s = 1 .. Len(s)
    BY ONLY <2>1
  <2> QED BY <1>1, <2>1, <2>2 DEF ResultsDue
<1>3. ASSUME j.b # NoBlueprint, j.result # Raised, NEW ends, ends = Ends(j.b)
      PROVE  /\ j.result.input \in IF StartHandler(j.b) = None THEN {None}
                                   ELSE DueSchemas(StartHandler(j.b), "input")
             /\ ends \cap early = {} => OutputDue(ends, j.result.output)
  BY <1>1, <1>3, ContractOfDue
<1> QED BY <1>2, <1>3 DEF Proper

(* What is handed out without an extractor is the schema of the function,  *)
(* and extract_skill_contract gives the schemas of the start handler and   *)
(* of the handlers of the end states, whatever other threads ask for       *)
(* meanwhile.                                                              *)
THEOREM ContractsAreDue == ContractSpec => []ContractDue
<1>1. EInv => \A t \in Threads : job[t].pc = "done" /\ ~job[t].ext => Proper(job[t])
  BY OutcomeIsProper
<1>2. (\A t \in Threads : job[t].pc = "done" /\ ~job[t].ext => Proper(job[t])) => ContractDue
  BY DEF ContractDue, Proper, Ends
<1> QED BY <1>1, <1>2, ExtractionInv, PTL
=============================================================================
