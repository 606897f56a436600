---------------------------- MODULE SigningProofs ---------------------------
(***************************************************************************)
(* Proofs about Signing, for every set of payloads, data, keys and ignored *)
(* fields and every limit.  The first part is about paths, the second      *)
(* about the canonical form, the third about the signature on its way.     *)
(***************************************************************************)
EXTENDS Signing, SequenceTheorems, TLAPS

Path == Seq(Name)

(* The elements of a prefix.                                               *)
LEMMA PrefixElements ==
  ASSUME NEW p \in Path, NEW i \in 0 .. Len(p)
  PROVE  /\ SubSeq(p, 1, i) \in Path
         /\ Len(SubSeq(p, 1, i)) = i
         /\ \A j \in 1 .. i : SubSeq(p, 1, i)[j] = p[j]
<1>1. Len(p) \in Nat /\ \A j \in 1 .. Len(p) : p[j] \in Name
  BY LenProperties, ElementOfSeq DEF Path
<1>2. i \in Int /\ i >= 0 /\ \A j \in 1 .. i : p[j] \in Name
  BY <1>1
<1>3. SubSeq(p, 1, i) \in Seq(Name) /\ Len(SubSeq(p, 1, i)) = (IF 1 <= i THEN i - 1 + 1 ELSE 0)
      /\ \A j \in 1 .. i - 1 + 1 : SubSeq(p, 1, i)[j] = p[1 + j - 1]
  BY <1>2, SubSeqProperties
<1>4. \A j \in 1 .. i : j \in 1 .. i - 1 + 1 /\ 1 + j - 1 = j
  BY <1>2
<1>5. Len(SubSeq(p, 1, i)) = i
  BY <1>2, <1>3
<1> QED BY <1>3, <1>4, <1>5 DEF Path

LEMMA PathEqual ==
  ASSUME NEW p \in Path, NEW q \in Path, Len(p) = Len(q), \A i \in 1 .. Len(p) : p[i] = q[i]
  PROVE  p = q
BY SeqEqual DEF Path

(* What it means to be a prefix.                                           *)
LEMMA PrefixMeans ==
  ASSUME NEW q \in Path, NEW p \in Path
  PROVE  IsPrefix(q, p) <=> Len(q) <= Len(p) /\ \A i \in 1 .. Len(q) : q[i] = p[i]
<1>1. Len(p) \in Nat /\ Len(q) \in Nat
  BY LenProperties DEF Path
<1>2. SubSeq(q, 1, Len(q)) = q
  BY SubSeqFull DEF Path
<1>3. CASE Len(q) <= Len(p)
  <2>1. Len(q) \in 0 .. Len(p)
    BY <1>1, <1>3
  <2>2. /\ SubSeq(p, 1, Len(q)) \in Path
        /\ Len(SubSeq(p, 1, Len(q))) = Len(q)
        /\ \A j \in 1 .. Len(q) : SubSeq(p, 1, Len(q))[j] = p[j]
    BY <2>1, PrefixElements
  <2>3. q = SubSeq(p, 1, Len(q)) <=> \A i \in 1 .. Len(q) : q[i] = p[i]
    <3>1. ASSUME \A i \in 1 .. Len(q) : q[i] = p[i]
          PROVE  q = SubSeq(p, 1, Len(q))
      <4>1. \A i \in 1 .. Len(q) : q[i] = SubSeq(p, 1, Len(q))[i]
        BY <2>2, <3>1
      <4> QED BY ONLY q \in Path, <2>2, <4>1, PathEqual
    <3> QED BY <2>2, <3>1
  <2> QED BY <1>2, <1>3, <2>3 DEF IsPrefix
<1>4. CASE ~(Len(q) <= Len(p))
  BY <1>4 DEF IsPrefix
<1> QED BY <1>3, <1>4

LEMMA PrefixRefl ==
  ASSUME NEW p \in Path
  PROVE  IsPrefix(p, p)
BY PrefixMeans, LenProperties DEF Path

LEMMA PrefixTrans ==
  ASSUME NEW p \in Path, NEW q \in Path, NEW r \in Path, IsPrefix(p, q), IsPrefix(q, r)
  PROVE  IsPrefix(p, r)
<1>1. Len(p) \in Nat /\ Len(q) \in Nat /\ Len(r) \in Nat
  BY LenProperties DEF Path
<1>2. Len(p) <= Len(q) /\ (\A i \in 1 .. Len(p) : p[i] = q[i])
      /\ Len(q) <= Len(r) /\ (\A i \in 1 .. Len(q) : q[i] = r[i])
  BY PrefixMeans
<1>3. Len(p) <= Len(r) /\ \A i \in 1 .. Len(p) : p[i] = r[i]
  BY <1>1, <1>2
<1> QED BY <1>3, PrefixMeans

LEMMA PrefixAnti ==
  ASSUME NEW p \in Path, NEW q \in Path, IsPrefix(p, q), IsPrefix(q, p)
  PROVE  p = q
<1>1. Len(p) \in Nat /\ Len(q) \in Nat
  BY LenProperties DEF Path
<1>2. Len(p) <= Len(q) /\ Len(q) <= Len(p) /\ \A i \in 1 .. Len(p) : p[i] = q[i]
  BY PrefixMeans
<1>3. Len(p) = Len(q)
  BY <1>1, <1>2
<1> QED BY <1>2, <1>3, PathEqual

LEMMA RootFacts ==
  /\ <<>> \in Path /\ Len(<<>>) = 0
  /\ \A p \in Path : IsPrefix(<<>>, p) /\ (IsPrefix(p, <<>>) => p = <<>>)
<1>1. <<>> \in Path /\ Len(<<>>) = 0
  BY EmptySeq DEF Path
<1>2. ASSUME NEW p \in Path
      PROVE  IsPrefix(<<>>, p)
  <2>1. Len(p) \in Nat
    BY LenProperties DEF Path
  <2> QED BY <1>1, <2>1, PrefixMeans
<1> QED BY <1>1, <1>2, PrefixAnti

(* A path that is not empty is an entry of its Front.                      *)
LEMMA FrontFacts ==
  ASSUME NEW p \in Path, p # <<>>
  PROVE  /\ Len(p) \in Nat \ {0}
         /\ Front(p) \in Path /\ Len(Front(p)) = Len(p) - 1
         /\ \A i \in 1 .. Len(p) - 1 : Front(p)[i] = p[i]
         /\ IsPrefix(Front(p), p) /\ Front(p) # p
         /\ p[1] \in Name /\ Last(p) \in Name
<1>1. Len(p) \in Nat \ {0}
  BY EmptySeq DEF Path
<1>2. Len(p) - 1 \in 0 .. Len(p)
  BY <1>1
<1>3. /\ Front(p) \in Path /\ Len(Front(p)) = Len(p) - 1
      /\ \A i \in 1 .. Len(p) - 1 : Front(p)[i] = p[i]
  BY <1>2, PrefixElements DEF Front
<1>4. IsPrefix(Front(p), p)
  <2>1. Len(Front(p)) <= Len(p) /\ \A i \in 1 .. Len(Front(p)) : Front(p)[i] = p[i]
    BY <1>1, <1>3
  <2> QED BY <1>3, <2>1, PrefixMeans
<1>5. Front(p) # p
  BY <1>1, <1>3
<1>6. 1 \in 1 .. Len(p) /\ Len(p) \in 1 .. Len(p)
  BY <1>1
<1>7. p[1] \in Name /\ Last(p) \in Name
  BY <1>6, ElementOfSeq DEF Path, Last
<1> QED BY <1>1, <1>3, <1>4, <1>5, <1>7

(* The prefixes of p are p and those of its Front.                         *)
LEMMA PrefixStep ==
  ASSUME NEW p \in Path, NEW q \in Path, IsPrefix(q, p), q # p
  PROVE  p # <<>> /\ IsPrefix(q, Front(p))
<1>1. p # <<>>
  BY RootFacts
<1>2. Len(p) \in Nat /\ Len(q) \in Nat
  BY LenProperties DEF Path
<1>3. Len(q) <= Len(p) /\ \A i \in 1 .. Len(q) : q[i] = p[i]
  BY PrefixMeans
<1>4. Len(q) # Len(p)
  BY <1>3, PathEqual
<1>5. /\ Front(p) \in Path /\ Len(Front(p)) = Len(p) - 1
      /\ \A i \in 1 .. Len(p) - 1 : Front(p)[i] = p[i]
  BY <1>1, FrontFacts
<1>6. Len(q) <= Len(Front(p)) /\ \A i \in 1 .. Len(q) : q[i] = Front(p)[i]
  BY <1>2, <1>3, <1>4, <1>5
<1> QED BY <1>1, <1>5, <1>6, PrefixMeans

(* Two paths of which one is a prefix of the other begin alike.            *)
LEMMA SameFirst ==
  ASSUME NEW p \in Path, NEW q \in Path, IsPrefix(q, p), q # <<>>
  PROVE  p # <<>> /\ p[1] = q[1]
<1>1. Len(q) \in Nat \ {0}
  BY FrontFacts
<1>2. 1 \in 1 .. Len(q)
  BY <1>1
<1> QED BY <1>2, PrefixMeans, RootFacts

LEMMA OneElement ==
  ASSUME NEW S, NEW e \in S
  PROVE  <<e>> \in Seq(S)
OBVIOUS

(* Paths of one key.                                                       *)
LEMMA Singles ==
  ASSUME NEW k \in Name
  PROVE  /\ <<k>> \in Path /\ <<k>> # <<>> /\ Len(<<k>>) = 1 /\ <<k>>[1] = k
         /\ Front(<<k>>) = <<>> /\ Last(<<k>>) = k
         /\ \A q \in Path : IsPrefix(q, <<k>>) => q = <<>> \/ q = <<k>>
<1>1. <<k>> \in Path /\ <<k>> # <<>> /\ Len(<<k>>) = 1 /\ <<k>>[1] = k
  <2>1. <<k>> \in Path
    BY OneElement DEF Path
  <2>2. Len(<<k>>) = 1
    OBVIOUS
  <2>3. <<k>>[1] = k
    OBVIOUS
  <2>4. <<k>> # <<>>
    BY <2>2, RootFacts
  <2> QED BY <2>1, <2>2, <2>3, <2>4
<1>2. Front(<<k>>) \in Path /\ Len(Front(<<k>>)) = 0
  <2>1. Front(<<k>>) \in Path /\ Len(Front(<<k>>)) = Len(<<k>>) - 1
    BY <1>1, FrontFacts
  <2> QED BY <1>1, <2>1
<1>3. Front(<<k>>) = <<>>
  BY <1>2, EmptySeq DEF Path
<1>4. ASSUME NEW q \in Path, IsPrefix(q, <<k>>), q # <<k>>
      PROVE  q = <<>>
  BY <1>1, <1>3, <1>4, PrefixStep, RootFacts
<1> QED BY <1>1, <1>3, <1>4 DEF Last

(* A path whose Front is empty has one key.                                *)
LEMMA FrontEmpty ==
  ASSUME NEW p \in Path, p # <<>>, Front(p) = <<>>
  PROVE  p = <<p[1]>> /\ Last(p) = p[1]
<1>1. Len(p) \in Nat /\ Len(p) - 1 = 0 /\ p[1] \in Name
  BY FrontFacts, RootFacts
<1>2. Len(p) = 1
  BY <1>1
<1>3. <<p[1]>> \in Path /\ Len(<<p[1]>>) = 1 /\ <<p[1]>>[1] = p[1]
  BY <1>1, Singles
<1>4. \A i \in 1 .. Len(p) : p[i] = <<p[1]>>[i]
  BY <1>2, <1>3
<1>5. p = <<p[1]>>
  BY <1>2, <1>3, <1>4, PathEqual
<1> QED BY <1>2, <1>5 DEF Last

-----------------------------------------------------------------------------
(* Values.                                                                 *)
Containers == {"list", "dict", "model"}

LEMMA PrefixesAre ==
  ASSUME NEW p \in Path, NEW q
  PROVE  q \in Prefixes(p) <=> q \in Path /\ IsPrefix(q, p)
<1>1. Len(p) \in Nat
  BY LenProperties DEF Path
<1>2. ASSUME q \in Prefixes(p)
      PROVE  q \in Path /\ IsPrefix(q, p)
  <2>1. PICK l \in 0 .. Len(p) : q = SubSeq(p, 1, l)
    BY <1>2 DEF Prefixes
  <2>2. q \in Path /\ Len(q) = l /\ \A j \in 1 .. l : q[j] = p[j]
    BY <2>1, PrefixElements
  <2>3. Len(q) <= Len(p) /\ \A j \in 1 .. Len(q) : q[j] = p[j]
    BY <1>1, <2>2
  <2> QED BY <2>2, <2>3, PrefixMeans
<1>3. ASSUME q \in Path, IsPrefix(q, p)
      PROVE  q \in Prefixes(p)
  <2>1. Len(q) \in Nat /\ Len(q) <= Len(p) /\ \A i \in 1 .. Len(q) : q[i] = p[i]
    BY <1>3, LenProperties, PrefixMeans DEF Path
  <2>2. Len(q) \in 0 .. Len(p)
    BY <1>1, <2>1
  <2>3. /\ SubSeq(p, 1, Len(q)) \in Path /\ Len(SubSeq(p, 1, Len(q))) = Len(q)
        /\ \A j \in 1 .. Len(q) : SubSeq(p, 1, Len(q))[j] = p[j]
    BY <2>2, PrefixElements
  <2>4. \A j \in 1 .. Len(q) : q[j] = SubSeq(p, 1, Len(q))[j]
    BY <2>1, <2>3
  <2>5. q = SubSeq(p, 1, Len(q))
    BY ONLY q \in Path, <2>3, <2>4, PathEqual
  <2> QED BY <2>2, <2>5 DEF Prefixes
<1> QED BY <1>2, <1>3

(* What is above a node of a value.                                        *)
LEMMA ValueFacts ==
  ASSUME NEW n, IsValue(n)
  PROVE  /\ n = [p \in DOMAIN n |-> n[p]]
         /\ DOMAIN n \subseteq Path /\ <<>> \in DOMAIN n
         /\ \A p \in DOMAIN n : IsNode(n[p])
         /\ \A p \in DOMAIN n, q \in Path :
              IsPrefix(q, p) /\ q # p => q \in DOMAIN n /\ n[q].kind \in Containers
         /\ \A p \in DOMAIN n : p # <<>> => Front(p) \in DOMAIN n /\ n[Front(p)].kind \in Containers
<1>1. /\ n = [p \in DOMAIN n |-> n[p]] /\ DOMAIN n \subseteq Path /\ <<>> \in DOMAIN n
      /\ \A p \in DOMAIN n : IsNode(n[p])
  BY DEF IsValue, Path
<1>2. ASSUME NEW p \in DOMAIN n, NEW q \in Path, IsPrefix(q, p), q # p
      PROVE  q \in DOMAIN n /\ n[q].kind \in Containers
  <2>1. q \in Prefixes(p) \ {p}
    BY <1>1, <1>2, PrefixesAre
  <2> QED BY <2>1 DEF IsValue, Containers
<1>3. ASSUME NEW p \in DOMAIN n, p # <<>>
      PROVE  Front(p) \in DOMAIN n /\ n[Front(p)].kind \in Containers
  BY <1>1, <1>2, <1>3, FrontFacts
<1> QED BY <1>1, <1>2, <1>3

LEMMA ValueFrom ==
  ASSUME NEW n, n = [p \in DOMAIN n |-> n[p]], DOMAIN n \subseteq Path, <<>> \in DOMAIN n,
         \A p \in DOMAIN n : IsNode(n[p]),
         \A p \in DOMAIN n, q \in Path :
           IsPrefix(q, p) /\ q # p => q \in DOMAIN n /\ n[q].kind \in Containers
  PROVE  IsValue(n)
<1>1. ASSUME NEW p \in DOMAIN n, NEW q \in Prefixes(p) \ {p}
      PROVE  q \in DOMAIN n /\ n[q].kind \in {"list", "dict", "model"}
  <2>1. q \in Path /\ IsPrefix(q, p) /\ q # p
    BY <1>1, PrefixesAre
  <2> QED BY <2>1 DEF Containers
<1> QED BY <1>1 DEF IsValue, Path

(* The kinds of nodes.                                                     *)
LEMMA NodeKinds ==
  ASSUME NEW x, IsNode(x)
  PROVE  /\ x.kind \in {"atom", "list", "dict", "model", "text"}
         /\ x.kind = "atom" => x = Atom(x.atom)
         /\ x.kind = "list" => x = List
         /\ x.kind = "model" => x = Model
         /\ x.kind = "dict" => x = Dict(x.order, x.other)
         /\ \A a : x = Atom(a) => x.kind = "atom" /\ x.atom = a
BY DEF IsNode, Atom, List, Model, Dict, Text

LEMMA Nodes ==
  /\ IsNode(List) /\ List.kind = "list" /\ IsNode(Model) /\ Model.kind = "model"
  /\ \A a : IsNode(Atom(a)) /\ Atom(a).kind = "atom" /\ Atom(a).atom = a
  /\ \A o, s : IsNode(Dict(o, s)) /\ Dict(o, s).kind = "dict"
  /\ \A m : IsNode(Text(m)) /\ Text(m).kind = "text"
BY DEF IsNode, Atom, List, Model, Dict, Text

(* dumps and the reference leave out the same entries, except that dumps   *)
(* writes null.                                                            *)
NullLike(n, p) ==
  p # <<>> /\ n[Front(p)].kind \in {"dict", "model"} /\ n[p] \in {Atom("null"), Atom("nan")}

LEMMA SilentIs ==
  ASSUME NEW n, NEW p
  PROVE  Silent(n, p) <=> NullLike(n, p) \/ Omitted(n, p)
BY DEF Silent, NullLike, Omitted

LEMMA ReachedDown ==
  ASSUME NEW n, IsValue(n)
  PROVE  /\ Reached(n) \subseteq DOMAIN n /\ <<>> \in Reached(n)
         /\ \A p \in Reached(n), q \in Path :
              IsPrefix(q, p) => q \in Reached(n) /\ ~Omitted(n, q) /\ (q # p => ~Unconvertible(n, q))
<1>1. DOMAIN n \subseteq Path /\ <<>> \in DOMAIN n
  BY ValueFacts
<1>2. <<>> \in Reached(n)
  BY <1>1, RootFacts DEF Reached, Omitted
<1>3. ASSUME NEW p \in Reached(n), NEW q \in Path, IsPrefix(q, p)
      PROVE  q \in Reached(n) /\ ~Omitted(n, q) /\ (q # p => ~Unconvertible(n, q))
  <2>1. p \in DOMAIN n /\ p \in Path
    BY <1>1 DEF Reached
  <2>2. q \in DOMAIN n
    BY <1>3, <2>1, ValueFacts
  <2>3. ASSUME NEW r \in DOMAIN n, IsPrefix(r, q)
        PROVE  ~Omitted(n, r) /\ (r # q => ~Unconvertible(n, r))
    <3>1. r \in Path /\ IsPrefix(r, p)
      BY <1>1, <1>3, <2>1, <2>3, PrefixTrans
    <3>2. r = p => r = q
      BY <1>1, <1>3, <2>1, <2>3, PrefixAnti
    <3> QED BY <3>1, <3>2 DEF Reached
  <2> QED BY <1>3, <2>2, <2>3 DEF Reached
<1> QED BY <1>2, <1>3 DEF Reached

LEMMA SaidIs ==
  ASSUME NEW n, IsValue(n)
  PROVE  Said(n) = {p \in Reached(n) : ~NullLike(n, p)}
<1>1. DOMAIN n \subseteq Path
  BY ValueFacts
<1>2. ASSUME NEW p \in Said(n)
      PROVE  p \in Reached(n) /\ ~NullLike(n, p)
  <2>1. p \in DOMAIN n /\ p \in Path /\ IsPrefix(p, p)
    BY <1>1, PrefixRefl DEF Said
  <2>2. ~Silent(n, p)
    BY <2>1 DEF Said
  <2>3. \A q \in DOMAIN n : IsPrefix(q, p) => ~Omitted(n, q) /\ (q # p => ~Unconvertible(n, q))
    BY SilentIs DEF Said
  <2> QED BY <2>1, <2>2, <2>3, SilentIs DEF Reached
<1>3. ASSUME NEW p \in Reached(n), ~NullLike(n, p)
      PROVE  p \in Said(n)
  <2>1. p \in DOMAIN n /\ p \in Path
    BY <1>1 DEF Reached
  <2>2. ASSUME NEW q \in DOMAIN n, IsPrefix(q, p)
        PROVE  ~Silent(n, q) /\ (q # p => ~Unconvertible(n, q))
    <3>1. ~Omitted(n, q) /\ (q # p => ~Unconvertible(n, q))
      BY <2>2 DEF Reached
    <3>2. CASE q = p
      BY <1>3, <3>1, <3>2, SilentIs
    <3>3. CASE q # p
      <4>1. n[q].kind \in Containers
        BY <1>1, <2>1, <2>2, <3>3, ValueFacts
      <4>2. n[q] \notin {Atom("null"), Atom("nan")}
        BY <4>1, Nodes DEF Containers
      <4> QED BY <3>1, <4>2, SilentIs DEF NullLike
    <3> QED BY <3>2, <3>3
  <2> QED BY <2>1, <2>2 DEF Said
<1> QED BY <1>2, <1>3

LEMMA SaidDown ==
  ASSUME NEW n, IsValue(n)
  PROVE  /\ Said(n) \subseteq Reached(n) /\ Said(n) \subseteq DOMAIN n /\ <<>> \in Said(n)
         /\ \A p \in Said(n), q \in Path : IsPrefix(q, p) => q \in Said(n)
<1>1. Said(n) \subseteq Reached(n) /\ Said(n) \subseteq DOMAIN n /\ <<>> \in Said(n)
  BY SaidIs, ReachedDown DEF NullLike
<1>2. ASSUME NEW p \in Said(n), NEW q \in Path, IsPrefix(q, p)
      PROVE  q \in Said(n)
  <2>1. p \in DOMAIN n /\ DOMAIN n \subseteq Path
    BY <1>1, ValueFacts
  <2>2. q \in DOMAIN n
    BY <1>2, <2>1, ValueFacts
  <2>3. ASSUME NEW r \in DOMAIN n, IsPrefix(r, q)
        PROVE  ~Silent(n, r) /\ (r # q => ~Unconvertible(n, r))
    <3>1. IsPrefix(r, p)
      BY <1>2, <2>1, <2>3, PrefixTrans
    <3>2. r = p => r = q
      BY <1>2, <2>1, <2>3, PrefixAnti
    <3> QED BY <3>1, <3>2 DEF Said
  <2> QED BY <2>2, <2>3 DEF Said
<1> QED BY <1>1, <1>2

(* A number beyond 64 bits is said wherever dumps comes to it.             *)
LEMMA BigIsSaid ==
  ASSUME NEW n, IsValue(n), NEW p \in Reached(n), n[p] = Atom("big")
  PROVE  p \in Said(n)
<1>1. n[p] \notin {Atom("null"), Atom("nan")}
  BY DEF Atom
<1> QED BY <1>1, SaidIs DEF NullLike

-----------------------------------------------------------------------------
(* What dumps makes of a node, case by case.                               *)
LEMMA EncodedIs ==
  ASSUME NEW n, NEW p, IsNode(n[p])
  PROVE  /\ n[p].kind = "list" => Encoded(n, p) = List
         /\ n[p].kind = "dict" => Encoded(n, p) = Dict(KeyOrder, {})
         /\ n[p].kind = "text" => Encoded(n, p) = n[p]
         /\ n[p].kind = "model" =>
              Encoded(n, p) = IF Unconvertible(n, p) THEN Text(At(n, p)) ELSE Dict(KeyOrder, {})
         /\ n[p].kind = "atom" =>
              Encoded(n, p) = Atom(IF n[p].atom = "obj" THEN "obj.str"
                                   ELSE IF n[p].atom = "nan" THEN "null" ELSE n[p].atom)
<1>1. n[p].kind # "atom" => n[p] # Atom("obj") /\ n[p] # Atom("nan")
  BY Nodes
<1>2. n[p].kind = "list" => Encoded(n, p) = List
  BY <1>1, NodeKinds DEF Encoded
<1>3. n[p].kind = "dict" => Encoded(n, p) = Dict(KeyOrder, {})
  BY <1>1 DEF Encoded
<1>4. n[p].kind = "text" => Encoded(n, p) = n[p]
  BY <1>1 DEF Encoded
<1>5. n[p].kind = "model" =>
         Encoded(n, p) = IF Unconvertible(n, p) THEN Text(At(n, p)) ELSE Dict(KeyOrder, {})
  BY <1>1 DEF Encoded, default_handler
<1>6. ASSUME n[p].kind = "atom"
      PROVE  Encoded(n, p) = Atom(IF n[p].atom = "obj" THEN "obj.str"
                                  ELSE IF n[p].atom = "nan" THEN "null" ELSE n[p].atom)
  <2>1. n[p] = Atom(n[p].atom)
    BY <1>6, NodeKinds
  <2>2. (n[p] = Atom("obj") <=> n[p].atom = "obj") /\ (n[p] = Atom("nan") <=> n[p].atom = "nan")
    BY <2>1, NodeKinds
  <2> QED BY <1>6, <2>1, <2>2 DEF Encoded, default_handler
<1> QED BY <1>2, <1>3, <1>4, <1>5, <1>6

LEMMA LeafFacts ==
  /\ \A x : DOMAIN Leaf(x) = {<<>>} /\ Root(Leaf(x)) = x /\ Leaf(x) = [p \in {<<>>} |-> x]
  /\ \A e : Fails(Raised(e)) /\ Root(Raised(e)).error = e
  /\ Root(Null) = Atom("null") /\ DOMAIN Null = {<<>>} /\ ~Fails(Null)
BY DEF Leaf, Root, Raised, Fails, Null, Atom

LEMMA LeafValue ==
  ASSUME NEW a
  PROVE  IsValue(Leaf(Atom(a)))
<1>1. DOMAIN Leaf(Atom(a)) = {<<>>} /\ Leaf(Atom(a))[<<>>] = Atom(a)
  BY LeafFacts DEF Root
<1>2. Leaf(Atom(a)) = [p \in DOMAIN Leaf(Atom(a)) |-> Leaf(Atom(a))[p]]
  BY <1>1, LeafFacts
<1>3. \A p \in DOMAIN Leaf(Atom(a)) : IsNode(Leaf(Atom(a))[p])
  BY <1>1, Nodes
<1>4. DOMAIN Leaf(Atom(a)) \subseteq Path
  BY <1>1, RootFacts
<1>5. \A p \in DOMAIN Leaf(Atom(a)), q \in Path : IsPrefix(q, p) => q = p
  BY <1>1, RootFacts
<1> QED BY <1>1, <1>2, <1>3, <1>4, <1>5, ValueFrom

(* No value is an exception.                                               *)
LEMMA ValueHolds ==
  ASSUME NEW n, IsValue(n)
  PROVE  ~Fails(n) /\ IsNode(Root(n))
BY ValueFacts, NodeKinds DEF Fails, Root

(* The name of an atom in the canonical form.                              *)
Norm(a) == Whole(IF a = "obj" THEN "obj.str" ELSE IF a = "nan" THEN "null" ELSE a)

LEMMA NormFacts ==
  ASSUME NEW a
  PROVE  /\ Norm(a) \notin {"obj", "nan", "zero.0", "one.0", "big.0"}
         /\ Norm(a) = "big" <=> a \in {"big", "big.0"}
         /\ Norm(a) = "null" <=> a \in {"null", "nan"}
         /\ Norm(a) = "zero" <=> a \in {"zero", "zero.0"}
         /\ a \notin {"obj", "nan", "zero.0", "one.0", "big.0"} => Norm(a) = a
         /\ a \in {"obj", "obj.str"} <=> Norm(a) = "obj.str"
         /\ a \in {"one", "one.0"} <=> Norm(a) = "one"
BY DEF Norm, Whole

(* The node of the canonical form at path p.                               *)
Final(n, p) == Finalized(Encoded(n, p))

LEMMA FinalIs ==
  ASSUME NEW n, NEW p, IsNode(n[p])
  PROVE  /\ n[p].kind = "list" => Final(n, p) = List
         /\ n[p].kind = "dict" => Final(n, p) = Dict(KeyOrder, {})
         /\ n[p].kind = "text" => Final(n, p) = n[p]
         /\ n[p].kind = "model" =>
              Final(n, p) = IF Unconvertible(n, p) THEN Text(At(n, p)) ELSE Dict(KeyOrder, {})
         /\ n[p].kind = "atom" => Final(n, p) = Atom(Norm(n[p].atom))
         /\ IsNode(Final(n, p)) /\ Final(n, p).kind # "model"
<1>1. \A x : x.kind # "atom" => Finalized(x) = x
  BY DEF Finalized
<1>2. \A a : Finalized(Atom(a)) = Atom(Whole(a))
  BY Nodes DEF Finalized
<1>3. n[p].kind = "list" => Final(n, p) = List
  BY <1>1, EncodedIs, Nodes DEF Final
<1>4. n[p].kind = "dict" => Final(n, p) = Dict(KeyOrder, {})
  BY <1>1, EncodedIs, Nodes DEF Final
<1>5. n[p].kind = "text" => Final(n, p) = n[p]
  BY <1>1, EncodedIs DEF Final
<1>6. n[p].kind = "model" =>
         Final(n, p) = IF Unconvertible(n, p) THEN Text(At(n, p)) ELSE Dict(KeyOrder, {})
  BY <1>1, EncodedIs, Nodes DEF Final
<1>7. n[p].kind = "atom" => Final(n, p) = Atom(Norm(n[p].atom))
  BY <1>2, EncodedIs DEF Final, Norm
<1>8. n[p].kind \in {"atom", "list", "dict", "model", "text"}
  BY NodeKinds
<1>9. IsNode(Final(n, p)) /\ Final(n, p).kind # "model"
  BY <1>3, <1>4, <1>5, <1>6, <1>7, <1>8, Nodes
<1> QED BY <1>3, <1>4, <1>5, <1>6, <1>7, <1>9

LEMMA DumpedIs ==
  ASSUME NEW n
  PROVE  /\ (\E p \in Reached(n) : n[p] = Atom("big")) =>
              Fails(Dumped(n)) /\ Root(Dumped(n)).error = "TypeError"
         /\ (\A p \in Reached(n) : n[p] # Atom("big")) => Dumped(n) = [p \in Reached(n) |-> Encoded(n, p)]
BY LeafFacts DEF Dumped

(* What dumps gives is a value without models and without dicts in other   *)
(* orders.                                                                 *)
LEMMA DumpedValue ==
  ASSUME NEW n, IsValue(n), \A p \in Reached(n) : n[p] # Atom("big")
  PROVE  /\ Dumped(n) = [p \in Reached(n) |-> Encoded(n, p)]
         /\ IsValue(Dumped(n)) /\ ~Fails(Dumped(n))
         /\ Kept(Dumped(n)) = Said(n)
<1> DEFINE j == [p \in Reached(n) |-> Encoded(n, p)]
<1>1. Dumped(n) = j
  BY DumpedIs
<1>2. /\ Reached(n) \subseteq DOMAIN n /\ DOMAIN n \subseteq Path /\ <<>> \in Reached(n)
      /\ \A p \in DOMAIN n : IsNode(n[p])
  BY ReachedDown, ValueFacts
<1>3. \A p \in Reached(n) : IsNode(Encoded(n, p))
  <2>1. ASSUME NEW p \in Reached(n)
        PROVE  IsNode(Encoded(n, p))
    <3>1. n[p].kind \in {"atom", "list", "dict", "model", "text"} /\ IsNode(n[p])
      BY <1>2, NodeKinds
    <3> QED BY <3>1, EncodedIs, Nodes
  <2> QED BY <2>1
<1>4. ASSUME NEW p \in Reached(n), NEW q \in Path, IsPrefix(q, p), q # p
      PROVE  /\ q \in Reached(n) /\ n[q].kind \in Containers
             /\ Encoded(n, q).kind \in Containers
             /\ Encoded(n, q).kind = "dict" <=> n[q].kind \in {"dict", "model"}
  <2>1. q \in Reached(n) /\ ~Unconvertible(n, q)
    BY <1>4, ReachedDown
  <2>2. n[q].kind \in Containers /\ IsNode(n[q])
    BY <1>2, <1>4, ValueFacts
  <2>3. CASE n[q].kind = "list"
    BY <2>1, <2>2, <2>3, EncodedIs, Nodes DEF Containers
  <2>4. CASE n[q].kind \in {"dict", "model"}
    <3>1. Encoded(n, q) = Dict(KeyOrder, {})
      BY <2>1, <2>2, <2>4, EncodedIs
    <3> QED BY <2>1, <2>2, <2>4, <3>1, Nodes DEF Containers
  <2> QED BY <2>2, <2>3, <2>4 DEF Containers
<1>5. IsValue(j)
  <2>1. j = [p \in DOMAIN j |-> j[p]] /\ DOMAIN j = Reached(n)
    OBVIOUS
  <2>2. \A p \in DOMAIN j : IsNode(j[p])
    BY <1>3
  <2>3. \A p \in DOMAIN j, q \in Path : IsPrefix(q, p) /\ q # p => q \in DOMAIN j /\ j[q].kind \in Containers
    BY <1>4
  <2>4. DOMAIN j \subseteq Path /\ <<>> \in DOMAIN j
    BY <1>2
  <2> HIDE DEF j
  <2> QED BY <2>1, <2>2, <2>3, <2>4, ValueFrom
<1>6. Kept(j) = {p \in Reached(n) : ~(p # <<>> /\ j[Front(p)].kind = "dict" /\ j[p] = Atom("null"))}
  BY DEF Kept
<1>7. ASSUME NEW p \in Reached(n)
      PROVE  (p # <<>> /\ j[Front(p)].kind = "dict" /\ j[p] = Atom("null")) <=> NullLike(n, p)
  <2>1. p \in Path /\ IsNode(n[p])
    BY <1>2
  <2>2. p # <<>> => /\ Front(p) \in Reached(n)
                    /\ j[Front(p)].kind = "dict" <=> n[Front(p)].kind \in {"dict", "model"}
    BY <1>4, <2>1, FrontFacts
  <2>3. j[p] = Encoded(n, p)
    OBVIOUS
  <2>4. Encoded(n, p) = Atom("null") <=> n[p] \in {Atom("null"), Atom("nan")}
    <3>1. CASE n[p].kind = "atom"
      <4>1. n[p] = Atom(n[p].atom)
        BY <2>1, <3>1, NodeKinds
      <4>2. Encoded(n, p) = Atom(IF n[p].atom = "obj" THEN "obj.str"
                                 ELSE IF n[p].atom = "nan" THEN "null" ELSE n[p].atom)
        BY <2>1, <3>1, EncodedIs
      <4>3. \A a, b : Atom(a) = Atom(b) <=> a = b
        BY DEF Atom
      <4>4. Encoded(n, p) = Atom("null") <=> n[p].atom \in {"null", "nan"}
        BY <4>2, <4>3
      <4> QED BY <4>1, <4>3, <4>4
    <3>2. CASE n[p].kind # "atom"
      <4>1. n[p].kind \in {"list", "dict", "model", "text"}
        BY <2>1, <3>2, NodeKinds
      <4>2. Encoded(n, p).kind # "atom"
        BY <2>1, <4>1, EncodedIs, Nodes
      <4> QED BY <3>2, <4>2, Nodes
    <3> QED BY <3>1, <3>2
  <2> QED BY <2>2, <2>3, <2>4 DEF NullLike
<1>8. Kept(j) = Said(n)
  BY <1>6, <1>7, SaidIs
<1>9. ~Fails(j)
  BY <1>5, ValueHolds
<1> QED BY <1>1, <1>5, <1>8, <1>9

-----------------------------------------------------------------------------
(* The canonical form.                                                     *)
Normal(t) ==
  /\ IsValue(t)
  /\ \A p \in DOMAIN t :
       /\ t[p].kind # "model"
       /\ t[p].kind = "dict" => t[p] = Dict(KeyOrder, {})
       /\ t[p].kind = "atom" => t[p].atom \notin {"obj", "nan", "zero.0", "one.0", "big.0"}
       /\ p # <<>> /\ t[Front(p)].kind = "dict" => t[p] # Atom("null")
       /\ Len(p) <= MaxDepth

Clean(t) == Normal(t) /\ \A p \in DOMAIN t : t[p] # Atom("big")

LEMMA ToDictSteps ==
  ASSUME NEW n, IsValue(n)
  PROVE  to_dict(n) = IF Fails(Dumped(n)) THEN Dumped(n) ELSE _finalize_structure(Dumped(n))
<1>1. CASE n # Null
  BY <1>1 DEF to_dict
<1>2. CASE n = Null
  <2>1. DOMAIN n = {<<>>} /\ n[<<>>] = Atom("null")
    BY <1>2, LeafFacts DEF Root
  <2>2. Reached(n) = {<<>>}
    BY <2>1, ReachedDown
  <2>3. Encoded(n, <<>>) = Atom("null")
    BY <2>1, EncodedIs, Nodes
  <2>4. Atom("null") # Atom("big")
    BY DEF Atom
  <2>5. Dumped(n) = [p \in {<<>>} |-> Encoded(n, p)]
    BY <2>1, <2>2, <2>4, DumpedIs
  <2>6. Dumped(n) = n
    BY <1>2, <2>3, <2>5 DEF Null, Leaf
  <2>7. Kept(n) = {<<>>}
    BY <2>1 DEF Kept
  <2>8. \A p \in Kept(n) : ~(Len(p) > MaxDepth)
    BY <2>7, RootFacts, DepthAssumption
  <2>9. Finalized(Atom("null")) = Atom("null")
    BY DEF Finalized, Atom, Whole
  <2>10. _finalize_structure(n) = [p \in {<<>>} |-> Finalized(n[p])]
    BY <2>7, <2>8 DEF _finalize_structure
  <2>11. _finalize_structure(n) = n
    BY <1>2, <2>1, <2>9, <2>10 DEF Null, Leaf
  <2> QED BY <1>2, <2>6, <2>11, LeafFacts DEF to_dict
<1> QED BY <1>1, <1>2

(* to_dict gives a value, or an exception with a reason.                   *)
LEMMA ToDictIs ==
  ASSUME NEW n, IsValue(n)
  PROVE  \/ /\ Fails(to_dict(n)) /\ Root(to_dict(n)).error = "TypeError"
            /\ \E p \in Said(n) : n[p] = Atom("big")
         \/ /\ Fails(to_dict(n)) /\ Root(to_dict(n)).error = "RecursionError"
            /\ TooDeep(n)
         \/ /\ ~Fails(to_dict(n)) /\ ~TooDeep(n) /\ \A p \in Reached(n) : n[p] # Atom("big")
            /\ to_dict(n) = [p \in Said(n) |-> Final(n, p)]
            /\ IsValue(to_dict(n))
<1>1. CASE \E p \in Reached(n) : n[p] = Atom("big")
  <2>1. Fails(Dumped(n)) /\ Root(Dumped(n)).error = "TypeError"
    BY <1>1, DumpedIs
  <2>2. \E p \in Said(n) : n[p] = Atom("big")
    BY <1>1, BigIsSaid
  <2> QED BY <2>1, <2>2, ToDictSteps
<1>2. CASE \A p \in Reached(n) : n[p] # Atom("big")
  <2>1. /\ Dumped(n) = [p \in Reached(n) |-> Encoded(n, p)]
        /\ ~Fails(Dumped(n)) /\ Kept(Dumped(n)) = Said(n)
    BY <1>2, DumpedValue
  <2>2. to_dict(n) = _finalize_structure(Dumped(n))
    BY <2>1, ToDictSteps
  <2>3. CASE TooDeep(n)
    <3>1. to_dict(n) = Raised("RecursionError")
      BY <2>1, <2>2, <2>3 DEF _finalize_structure, TooDeep
    <3> QED BY <2>3, <3>1, LeafFacts
  <2>4. CASE ~TooDeep(n)
    <3>1. to_dict(n) = [p \in Said(n) |-> Finalized(Dumped(n)[p])]
      BY <2>1, <2>2, <2>4 DEF _finalize_structure, TooDeep
    <3>2. Said(n) \subseteq Reached(n) /\ Said(n) \subseteq DOMAIN n /\ <<>> \in Said(n)
      BY SaidDown
    <3>3. \A p \in Said(n) : Finalized(Dumped(n)[p]) = Final(n, p)
      BY <2>1, <3>2 DEF Final
    <3>4. to_dict(n) = [p \in Said(n) |-> Final(n, p)]
      BY <3>1, <3>3
    <3> DEFINE t == [p \in Said(n) |-> Final(n, p)]
    <3>5. IsValue(t)
      <4>1. t = [p \in DOMAIN t |-> t[p]] /\ <<>> \in DOMAIN t
        BY <3>2
      <4>2. DOMAIN n \subseteq Path /\ \A p \in DOMAIN n : IsNode(n[p])
        BY ValueFacts
      <4>3. \A p \in DOMAIN t : IsNode(t[p])
        BY <3>2, <4>2, FinalIs
      <4>4. ASSUME NEW p \in DOMAIN t, NEW q \in Path, IsPrefix(q, p), q # p
            PROVE  q \in DOMAIN t /\ t[q].kind \in Containers
        <5>1. q \in Said(n) /\ ~Unconvertible(n, q)
          BY <3>2, <4>4, SaidDown, ReachedDown
        <5>2. n[q].kind \in Containers /\ IsNode(n[q])
          BY <3>2, <4>2, <4>4, <5>1, ValueFacts
        <5>3. Final(n, q).kind \in Containers
          BY <5>1, <5>2, FinalIs, Nodes DEF Containers
        <5> QED BY <5>1, <5>3
      <4>5. DOMAIN t \subseteq Path
        BY <3>2, <4>2
      <4> HIDE DEF t
      <4> QED BY <4>1, <4>3, <4>4, <4>5, ValueFrom
    <3>6. ~Fails(t)
      BY <3>5, ValueHolds
    <3> QED BY <1>2, <2>4, <3>4, <3>5, <3>6
  <2> QED BY <2>3, <2>4
<1> QED BY <1>1, <1>2

LEMMA ToDictNormal ==
  ASSUME NEW n, IsValue(n), ~Fails(to_dict(n))
  PROVE  /\ to_dict(n) = [p \in Said(n) |-> Final(n, p)] /\ DOMAIN to_dict(n) = Said(n)
         /\ Normal(to_dict(n)) /\ ~TooDeep(n)
<1> DEFINE t == to_dict(n)
<1>1. t = [p \in Said(n) |-> Final(n, p)] /\ IsValue(t) /\ ~TooDeep(n)
  BY ToDictIs
<1>2. /\ DOMAIN n \subseteq Path /\ Said(n) \subseteq DOMAIN n /\ \A p \in DOMAIN n : IsNode(n[p])
      /\ Said(n) = {p \in Reached(n) : ~NullLike(n, p)}
  BY ValueFacts, SaidDown, SaidIs
<1>3. ASSUME NEW p \in Said(n)
      PROVE  /\ t[p].kind # "model"
             /\ t[p].kind = "dict" => t[p] = Dict(KeyOrder, {})
             /\ t[p].kind = "atom" => t[p].atom \notin {"obj", "nan", "zero.0", "one.0", "big.0"}
             /\ t[p] = Atom("null") => n[p] \in {Atom("null"), Atom("nan")}
  <2>1. t[p] = Final(n, p) /\ IsNode(n[p])
    BY <1>1, <1>2
  <2>2. n[p].kind \in {"atom", "list", "dict", "model", "text"}
    BY <2>1, NodeKinds
  <2>3. CASE n[p].kind = "atom"
    <3>1. t[p] = Atom(Norm(n[p].atom)) /\ n[p] = Atom(n[p].atom)
      BY <2>1, <2>3, FinalIs, NodeKinds
    <3>2. t[p].kind = "atom" /\ t[p].atom = Norm(n[p].atom)
      BY <3>1, Nodes
    <3>3. t[p] = Atom("null") => n[p].atom \in {"null", "nan"}
      BY <3>2, Nodes, NormFacts
    <3> QED BY <3>1, <3>2, <3>3, NormFacts
  <2>4. CASE n[p].kind # "atom"
    <3>1. t[p] \in {List, Dict(KeyOrder, {})} \/ t[p].kind = "text"
      BY <2>1, <2>2, <2>4, FinalIs, Nodes
    <3> QED BY <3>1, Nodes
  <2> QED BY <2>3, <2>4
<1>4. ASSUME NEW p \in Said(n), p # <<>>, t[Front(p)].kind = "dict"
      PROVE  t[p] # Atom("null")
  <2>1. p \in Path /\ Front(p) \in Path /\ IsPrefix(Front(p), p) /\ Front(p) # p
    BY <1>2, <1>4, FrontFacts
  <2>2. Front(p) \in Said(n) /\ n[Front(p)].kind \in Containers
    BY <1>2, <1>4, <2>1, SaidDown, ValueFacts
  <2>3. t[Front(p)] = Final(n, Front(p)) /\ IsNode(n[Front(p)])
    BY <1>1, <1>2, <2>2
  <2>4. n[Front(p)].kind # "list"
    BY <1>4, <2>3, FinalIs, Nodes
  <2>5. n[Front(p)].kind \in {"dict", "model"}
    BY <2>2, <2>4 DEF Containers
  <2> QED BY <1>2, <1>3, <1>4, <2>5 DEF NullLike
<1>5. ASSUME NEW p \in Said(n)
      PROVE  Len(p) <= MaxDepth
  <2>1. Len(p) \in Nat
    BY <1>2, LenProperties DEF Path
  <2> QED BY <1>1, <2>1, DepthAssumption DEF TooDeep
<1>6. DOMAIN t = Said(n)
  BY <1>1
<1>7. Normal(t)
  <2> HIDE DEF t
  <2> QED BY <1>1, <1>3, <1>4, <1>5, <1>6 DEF Normal
<1> QED BY <1>1, <1>6, <1>7

(* dumps changes nothing in a canonical form, and neither does to_dict.    *)
LEMMA NormalDumped ==
  ASSUME NEW t, Normal(t)
  PROVE  /\ Reached(t) = DOMAIN t /\ Said(t) = DOMAIN t
         /\ Clean(t) => Dumped(t) = t /\ to_dict(t) = t
         /\ ~Clean(t) => /\ Fails(Dumped(t)) /\ Root(Dumped(t)).error = "TypeError"
                         /\ \E p \in DOMAIN t : t[p] = Atom("big")
<1>1. /\ IsValue(t) /\ t = [p \in DOMAIN t |-> t[p]] /\ DOMAIN t \subseteq Path
      /\ \A p \in DOMAIN t : IsNode(t[p])
      /\ \A p \in DOMAIN t : p # <<>> => Front(p) \in DOMAIN t
  BY ValueFacts DEF Normal
<1>2. \A p \in DOMAIN t : ~Omitted(t, p) /\ ~Unconvertible(t, p)
  BY <1>1 DEF Omitted, Unconvertible, Normal
<1>3. Reached(t) = DOMAIN t
  BY <1>2 DEF Reached
<1>4. \A p \in DOMAIN t : t[p] # Atom("nan")
  BY Nodes DEF Normal
<1>5. \A p \in DOMAIN t : ~NullLike(t, p)
  BY <1>1, <1>4 DEF NullLike, Normal
<1>6. Said(t) = DOMAIN t
  BY <1>1, <1>3, <1>5, SaidIs
<1>7. \A p \in DOMAIN t : Encoded(t, p) = t[p] /\ Final(t, p) = t[p]
  <2>1. ASSUME NEW p \in DOMAIN t
        PROVE  Encoded(t, p) = t[p] /\ Final(t, p) = t[p]
    <3>1. IsNode(t[p]) /\ t[p].kind \in {"atom", "list", "dict", "text"}
      BY <1>1, NodeKinds DEF Normal
    <3>2. CASE t[p].kind = "list"
      BY <3>1, <3>2, EncodedIs, FinalIs, NodeKinds
    <3>3. CASE t[p].kind = "text"
      BY <3>1, <3>3, EncodedIs, FinalIs
    <3>4. CASE t[p].kind = "dict"
      BY <3>1, <3>4, EncodedIs, FinalIs DEF Normal
    <3>5. CASE t[p].kind = "atom"
      <4>1. t[p] = Atom(t[p].atom) /\ t[p].atom \notin {"obj", "nan", "zero.0", "one.0", "big.0"}
        BY <3>1, <3>5, NodeKinds DEF Normal
      <4>2. Encoded(t, p) = Atom(t[p].atom)
        BY <3>1, <3>5, <4>1, EncodedIs
      <4>3. Final(t, p) = Atom(t[p].atom)
        BY <3>1, <3>5, <4>1, FinalIs, NormFacts
      <4> QED BY <4>1, <4>2, <4>3
    <3> QED BY <3>1, <3>2, <3>3, <3>4, <3>5
  <2> QED BY <2>1
<1>8. ASSUME Clean(t)
      PROVE  Dumped(t) = t /\ to_dict(t) = t
  <2>1. \A p \in Reached(t) : t[p] # Atom("big")
    BY <1>3, <1>8 DEF Clean
  <2>2. Dumped(t) = [p \in DOMAIN t |-> Encoded(t, p)]
    BY <1>3, <2>1, DumpedIs
  <2>3. Dumped(t) = t
    BY <1>1, <1>7, <2>2
  <2>4. ~TooDeep(t)
    <3>1. \A p \in DOMAIN t : Len(p) \in Nat /\ Len(p) <= MaxDepth
      BY <1>1, LenProperties DEF Path, Normal
    <3> QED BY <1>6, <3>1, DepthAssumption DEF TooDeep
  <2>5. ~\E p \in Said(t) : t[p] = Atom("big")
    BY <1>6, <1>8 DEF Clean
  <2>6. to_dict(t) = [p \in DOMAIN t |-> Final(t, p)]
    BY <1>1, <1>6, <2>4, <2>5, ToDictIs
  <2> QED BY <1>1, <1>7, <2>3, <2>6
<1>9. ASSUME ~Clean(t)
      PROVE  /\ Fails(Dumped(t)) /\ Root(Dumped(t)).error = "TypeError"
             /\ \E p \in DOMAIN t : t[p] = Atom("big")
  BY <1>3, <1>9, DumpedIs DEF Clean
<1> QED BY <1>3, <1>6, <1>8, <1>9

-----------------------------------------------------------------------------
(* Leaving out entries of the value itself.                                *)
Outside(p, ks) == p = <<>> \/ p[1] \notin ks

LEMMA OutsideDown ==
  ASSUME NEW ks, NEW p \in Path, NEW q \in Path, Outside(p, ks), IsPrefix(q, p)
  PROVE  Outside(q, ks)
BY SameFirst DEF Outside

LEMMA OutsideUp ==
  ASSUME NEW ks, NEW p \in Path, NEW q \in Path, Outside(q, ks), IsPrefix(q, p), q # <<>>
  PROVE  Outside(p, ks)
BY SameFirst DEF Outside

LEMMA WithoutFacts ==
  ASSUME NEW n, IsValue(n), NEW ks
  PROVE  /\ IsValue(Without(n, ks)) /\ Root(Without(n, ks)) = Root(n)
         /\ DOMAIN Without(n, ks) = {p \in DOMAIN n : Outside(p, ks)}
         /\ \A p \in DOMAIN Without(n, ks) : Without(n, ks)[p] = n[p]
<1> DEFINE m == Without(n, ks)
<1>1. m = [p \in {q \in DOMAIN n : Outside(q, ks)} |-> n[p]]
  BY DEF Without, Outside
<1>2. DOMAIN m = {p \in DOMAIN n : Outside(p, ks)} /\ \A p \in DOMAIN m : m[p] = n[p]
  BY <1>1
<1>3. m = [p \in DOMAIN m |-> m[p]]
  BY <1>1
<1>4. DOMAIN n \subseteq Path /\ <<>> \in DOMAIN n /\ \A p \in DOMAIN n : IsNode(n[p])
  BY ValueFacts
<1>5. <<>> \in DOMAIN m
  BY <1>2, <1>4 DEF Outside
<1>6. ASSUME NEW p \in DOMAIN m, NEW q \in Path, IsPrefix(q, p), q # p
      PROVE  q \in DOMAIN m /\ m[q].kind \in Containers
  <2>1. p \in DOMAIN n /\ p \in Path /\ Outside(p, ks)
    BY <1>2, <1>4
  <2>2. q \in DOMAIN n /\ n[q].kind \in Containers
    BY <1>6, <2>1, ValueFacts
  <2>3. Outside(q, ks)
    BY <1>6, <2>1, OutsideDown
  <2> QED BY <1>2, <2>2, <2>3
<1>7. IsValue(m)
  <2> HIDE DEF m
  <2>1. DOMAIN m \subseteq Path /\ \A p \in DOMAIN m : IsNode(m[p])
    BY <1>2, <1>4
  <2> QED BY <1>3, <1>5, <1>6, <2>1, ValueFrom
<1> QED BY <1>2, <1>5, <1>7 DEF Root

LEMMA WithoutNormal ==
  ASSUME NEW t, Normal(t), NEW ks
  PROVE  Normal(Without(t, ks)) /\ (Clean(t) => Clean(Without(t, ks)))
<1> DEFINE m == Without(t, ks)
<1>1. /\ IsValue(t) /\ IsValue(m) /\ DOMAIN m \subseteq DOMAIN t
      /\ \A p \in DOMAIN m : m[p] = t[p]
  BY WithoutFacts DEF Normal
<1>2. \A p \in DOMAIN m : p # <<>> => Front(p) \in DOMAIN m
  BY <1>1, ValueFacts
<1> HIDE DEF m
<1>3. Normal(m)
  BY <1>1, <1>2 DEF Normal
<1>4. Clean(t) => Clean(m)
  BY <1>1, <1>3 DEF Clean
<1> QED BY <1>3, <1>4 DEF m

(* Two values that differ only in the entries ks.                          *)
Agree(m, n, ks) ==
  /\ m[<<>>].kind = n[<<>>].kind
  /\ \A p \in Path : Outside(p, ks) =>
       (p \in DOMAIN m <=> p \in DOMAIN n) /\ (p \in DOMAIN m /\ p # <<>> => m[p] = n[p])

LEMMA AgreeUnconvertible ==
  ASSUME NEW ks, NEW m, NEW n, IsValue(m), IsValue(n), Agree(m, n, ks),
         NEW q \in DOMAIN n, Outside(q, ks), q # <<>>, Unconvertible(n, q)
  PROVE  Unconvertible(m, q)
<1>1. q \in Path /\ DOMAIN n \subseteq Path
  BY ValueFacts
<1>2. PICK r \in DOMAIN n : IsPrefix(q, r) /\ n[r] = Atom("obj")
  BY DEF Unconvertible
<1>3. r \in Path /\ Outside(r, ks) /\ r # <<>>
  BY <1>1, <1>2, OutsideUp, RootFacts
<1>4. r \in DOMAIN m /\ m[r] = Atom("obj")
  BY <1>2, <1>3 DEF Agree
<1>5. m[q].kind = "model"
  BY <1>1 DEF Agree, Unconvertible
<1> QED BY <1>2, <1>4, <1>5 DEF Unconvertible

LEMMA AgreeSaid ==
  ASSUME NEW ks, NEW m, NEW n, IsValue(m), IsValue(n), Agree(m, n, ks),
         ~Unconvertible(n, <<>>), NEW p \in Said(m), Outside(p, ks)
  PROVE  p \in Said(n)
<1>1. DOMAIN n \subseteq Path /\ DOMAIN m \subseteq Path
  BY ValueFacts
<1>2. p \in DOMAIN m /\ p \in Path /\ p \in DOMAIN n
  BY <1>1 DEF Said, Agree
<1>3. ASSUME NEW q \in DOMAIN n, Outside(q, ks)
      PROVE  q \in DOMAIN m /\ n[q].kind = m[q].kind /\ (q # <<>> => n[q] = m[q])
  BY <1>1, <1>3 DEF Agree
<1>4. ASSUME NEW q \in DOMAIN n, IsPrefix(q, p)
      PROVE  ~Silent(n, q) /\ (q # p => ~Unconvertible(n, q))
  <2>1. q \in Path /\ Outside(q, ks)
    BY <1>1, <1>2, <1>4, OutsideDown
  <2>2. q \in DOMAIN m /\ ~Silent(m, q) /\ (q # p => ~Unconvertible(m, q))
    BY <1>3, <1>4, <2>1 DEF Said
  <2>3. q # p => ~Unconvertible(n, q)
    BY <2>1, <2>2, AgreeUnconvertible
  <2>4. CASE q = <<>>
    BY <2>3, <2>4 DEF Silent
  <2>5. CASE q # <<>>
    <3>1. Front(q) \in Path /\ IsPrefix(Front(q), q) /\ Front(q) \in DOMAIN n
      BY <2>1, <2>5, FrontFacts, ValueFacts
    <3>2. Outside(Front(q), ks)
      BY <2>1, <3>1, OutsideDown
    <3>3. n[q] = m[q] /\ n[Front(q)].kind = m[Front(q)].kind
      BY <1>3, <2>1, <2>5, <3>1, <3>2
    <3>4. Inside(m, Front(q)) => Inside(n, Front(q))
      <4>1. ASSUME NEW r \in DOMAIN m, IsPrefix(r, Front(q)), r # Front(q), m[r].kind = "model"
            PROVE  r \in DOMAIN n /\ n[r].kind = "model"
        <5>1. r \in Path /\ Outside(r, ks)
          BY <1>1, <3>1, <3>2, <4>1, OutsideDown
        <5>2. r \in DOMAIN n
          BY <4>1, <5>1 DEF Agree
        <5> QED BY <1>3, <4>1, <5>1, <5>2
      <4> QED BY <4>1 DEF Inside
    <3>5. Inside(n, Front(q)) => Inside(m, Front(q))
      <4>1. ASSUME NEW r \in DOMAIN n, IsPrefix(r, Front(q)), r # Front(q), n[r].kind = "model"
            PROVE  r \in DOMAIN m /\ m[r].kind = "model"
        <5>1. r \in Path /\ Outside(r, ks)
          BY <1>1, <3>1, <3>2, <4>1, OutsideDown
        <5> QED BY <1>3, <4>1, <5>1
      <4> QED BY <4>1 DEF Inside
    <3>6. Silent(n, q) => Silent(m, q)
      BY <3>3, <3>4, <3>5 DEF Silent
    <3> QED BY <2>2, <2>3, <3>6
  <2> QED BY <2>4, <2>5
<1> QED BY <1>2, <1>4 DEF Said

LEMMA AgreeSym ==
  ASSUME NEW ks, NEW m, NEW n, Agree(m, n, ks)
  PROVE  Agree(n, m, ks)
BY DEF Agree

LEMMA WithoutAgrees ==
  ASSUME NEW n, IsValue(n), NEW ks
  PROVE  Agree(Without(n, ks), n, ks)
BY WithoutFacts DEF Agree, Root

(* The part of a path below a prefix.                                      *)
LEMMA PrefixRest ==
  ASSUME NEW p \in Path, NEW r \in Path, IsPrefix(p, r)
  PROVE  p \o SubSeq(r, Len(p) + 1, Len(r)) = r
<1>1. /\ Len(p) \in Nat /\ Len(r) \in Nat /\ Len(p) <= Len(r) /\ (\A i \in 1 .. Len(p) : p[i] = r[i])
      /\ \A i \in 1 .. Len(r) : r[i] \in Name
  BY PrefixMeans, LenProperties, ElementOfSeq DEF Path
<1> DEFINE x == SubSeq(r, Len(p) + 1, Len(r))
<1>2. \A i \in Len(p) + 1 .. Len(r) : r[i] \in Name
  BY <1>1
<1>3. Len(p) + 1 \in Int /\ Len(r) \in Int
  BY <1>1
<1>4. /\ x \in Seq(Name)
      /\ Len(x) = IF Len(p) + 1 <= Len(r) THEN Len(r) - (Len(p) + 1) + 1 ELSE 0
      /\ \A i \in 1 .. Len(r) - (Len(p) + 1) + 1 : x[i] = r[Len(p) + 1 + i - 1]
  BY <1>2, <1>3, SubSeqProperties
<1> HIDE DEF x
<1>5. Len(x) = Len(r) - Len(p)
  BY <1>1, <1>4
<1>6. \A i \in 1 .. Len(r) - Len(p) : x[i] = r[Len(p) + i]
  <2>1. ASSUME NEW i \in 1 .. Len(r) - Len(p)
        PROVE  x[i] = r[Len(p) + i]
    <3>1. i \in 1 .. Len(r) - (Len(p) + 1) + 1 /\ Len(p) + 1 + i - 1 = Len(p) + i
      BY <1>1
    <3> QED BY <1>4, <3>1
  <2> QED BY <2>1
<1>7. /\ p \o x \in Path /\ Len(p \o x) = Len(p) + Len(x)
      /\ \A i \in 1 .. Len(p) + Len(x) : (p \o x)[i] = IF i <= Len(p) THEN p[i] ELSE x[i - Len(p)]
  BY <1>4, ConcatProperties DEF Path
<1>8. ASSUME NEW i \in 1 .. Len(r)
      PROVE  (p \o x)[i] = r[i]
  <2>1. CASE i <= Len(p)
    BY <1>1, <1>5, <1>7, <2>1
  <2>2. CASE ~(i <= Len(p))
    <3>1. i - Len(p) \in 1 .. Len(r) - Len(p) /\ Len(p) + (i - Len(p)) = i
      BY <1>1, <2>2
    <3>2. x[i - Len(p)] = r[i]
      BY <1>6, <3>1
    <3> QED BY <1>1, <1>5, <1>7, <2>2, <3>2
  <2> QED BY <2>1, <2>2
<1>9. Len(p \o x) = Len(r)
  BY <1>1, <1>5, <1>7
<1>10. p \o x = r
  BY <1>7, <1>8, <1>9, PathEqual
<1> QED BY <1>10 DEF x

(* What two values have in common below a path.                            *)
LEMMA AtAgree ==
  ASSUME NEW p \in Path, NEW m, NEW n, DOMAIN m \subseteq Path, DOMAIN n \subseteq Path,
         \A r \in Path : IsPrefix(p, r) =>
           (r \in DOMAIN m <=> r \in DOMAIN n) /\ (r \in DOMAIN m => m[r] = n[r])
  PROVE  At(m, p) = At(n, p)
<1> DEFINE S == {s \in DOMAIN m : IsPrefix(p, s)}
           D == {SubSeq(r, Len(p) + 1, Len(r)) : r \in S}
<1>1. S = {s \in DOMAIN n : IsPrefix(p, s)}
  OBVIOUS
<1>2. At(m, p) = [x \in D |-> m[p \o x]]
  BY DEF At
<1>3. At(n, p) = [x \in D |-> n[p \o x]]
  BY <1>1 DEF At
<1>4. ASSUME NEW x \in D
      PROVE  m[p \o x] = n[p \o x]
  <2>1. PICK r \in S : x = SubSeq(r, Len(p) + 1, Len(r))
    OBVIOUS
  <2>2. r \in Path /\ r \in DOMAIN m /\ IsPrefix(p, r)
    OBVIOUS
  <2>3. p \o x = r
    BY <2>1, <2>2, PrefixRest
  <2> QED BY <2>2, <2>3
<1> HIDE DEF D
<1> QED BY <1>2, <1>3, <1>4

(* A model inside both that becomes its str() becomes the same one.        *)
LEMMA AgreeText ==
  ASSUME NEW ks, NEW m, NEW n, IsValue(m), IsValue(n), Agree(m, n, ks),
         NEW p \in DOMAIN m, p # <<>>, Outside(p, ks)
  PROVE  /\ Unconvertible(m, p) <=> Unconvertible(n, p)
         /\ At(m, p) = At(n, p)
<1>1. DOMAIN m \subseteq Path /\ DOMAIN n \subseteq Path /\ p \in DOMAIN n /\ p \in Path /\ Agree(n, m, ks)
  BY ValueFacts, AgreeSym DEF Agree
<1>2. Unconvertible(m, p) <=> Unconvertible(n, p)
  BY <1>1, AgreeUnconvertible
<1>3. ASSUME NEW r \in Path, IsPrefix(p, r)
      PROVE  (r \in DOMAIN m <=> r \in DOMAIN n) /\ (r \in DOMAIN m => m[r] = n[r])
  <2>1. Outside(r, ks) /\ r # <<>>
    BY <1>1, <1>3, OutsideUp, RootFacts
  <2> QED BY <2>1 DEF Agree
<1>4. At(m, p) = At(n, p)
  BY <1>1, <1>3, AtAgree
<1> QED BY <1>2, <1>4

(* The canonical form of two values agrees where they do.                  *)
LEMMA AgreeFinal ==
  ASSUME NEW ks, NEW m, NEW n, IsValue(m), IsValue(n), Agree(m, n, ks),
         Root(m).kind \in {"dict", "model"}, ~Opaque(m), ~Opaque(n),
         NEW p \in DOMAIN m, Outside(p, ks)
  PROVE  Final(m, p) = Final(n, p)
<1>1. p \in Path /\ p \in DOMAIN n /\ IsNode(m[p]) /\ IsNode(n[p])
  BY ValueFacts DEF Agree
<1>2. m[p].kind = n[p].kind /\ (p # <<>> => m[p] = n[p]) /\ (p = <<>> => m[p].kind \in {"dict", "model"})
  BY <1>1 DEF Agree, Root
<1>3. m[p].kind \in {"atom", "list", "dict", "model", "text"}
  BY <1>1, NodeKinds
<1>4. CASE m[p].kind \in {"list", "dict"}
  BY <1>1, <1>2, <1>4, FinalIs
<1>5. CASE m[p].kind \in {"atom", "text"}
  BY <1>1, <1>2, <1>5, FinalIs
<1>6. CASE m[p].kind = "model"
  <2>1. Unconvertible(m, p) <=> Unconvertible(n, p)
    BY AgreeText DEF Opaque
  <2>2. Unconvertible(m, p) => At(m, p) = At(n, p)
    BY AgreeText DEF Opaque
  <2>3. n[p].kind = "model"
    BY <1>2, <1>6
  <2>4. /\ Final(m, p) = IF Unconvertible(m, p) THEN Text(At(m, p)) ELSE Dict(KeyOrder, {})
        /\ Final(n, p) = IF Unconvertible(n, p) THEN Text(At(n, p)) ELSE Dict(KeyOrder, {})
    BY <1>1, <1>6, <2>3, FinalIs
  <2>5. CASE Unconvertible(m, p)
    BY <2>1, <2>2, <2>4, <2>5
  <2>6. CASE ~Unconvertible(m, p)
    BY <2>1, <2>4, <2>6
  <2> QED BY <2>5, <2>6
<1> QED BY <1>3, <1>4, <1>5, <1>6

(* What a node means, kind by kind.                                        *)
LEMMA MeaningIs ==
  ASSUME NEW n, NEW p, IsNode(n[p])
  PROVE  /\ Unconvertible(n, p) => Meaning(n, p) = Text(At(n, p))
         /\ ~Unconvertible(n, p) /\ n[p].kind \in {"dict", "model"} => Meaning(n, p) = [kind |-> "mapping"]
         /\ n[p].kind \in {"list", "text"} => Meaning(n, p) = n[p]
         /\ n[p].kind = "atom" => Meaning(n, p) = Atom(Norm(n[p].atom))
<1>1. Unconvertible(n, p) => n[p].kind = "model"
  BY DEF Unconvertible
<1>2. \A a : n[p] = Atom(a) => n[p].kind = "atom" /\ n[p].atom = a
  BY Nodes
<1>3. Unconvertible(n, p) => Meaning(n, p) = Text(At(n, p))
  BY <1>1, <1>2 DEF Meaning
<1>4. ~Unconvertible(n, p) /\ n[p].kind \in {"dict", "model"} => Meaning(n, p) = [kind |-> "mapping"]
  BY <1>2 DEF Meaning
<1>5. n[p].kind \in {"list", "text"} => Meaning(n, p) = n[p]
  BY <1>1, <1>2 DEF Meaning
<1>6. ASSUME n[p].kind = "atom"
      PROVE  Meaning(n, p) = Atom(Norm(n[p].atom))
  <2>1. n[p] = Atom(n[p].atom) /\ ~Unconvertible(n, p)
    BY <1>1, <1>6, NodeKinds
  <2>2. \A a : n[p] = Atom(a) <=> n[p].atom = a
    BY <1>2, <2>1
  <2> QED BY <1>6, <2>1, <2>2 DEF Meaning, Norm, Whole
<1> QED BY <1>3, <1>4, <1>5, <1>6

(* The canonical form means what the value means.                          *)
LEMMA FinalMeans ==
  ASSUME NEW n, NEW p, IsNode(n[p]), NEW t, t[p] = Final(n, p)
  PROVE  Meaning(t, p) = Meaning(n, p)
<1>1. n[p].kind \in {"atom", "list", "dict", "model", "text"}
  BY NodeKinds
<1>2. IsNode(t[p]) /\ t[p].kind # "model"
  BY FinalIs
<1>3. ~Unconvertible(t, p)
  BY <1>2 DEF Unconvertible
<1>4. CASE n[p].kind \in {"list", "text"}
  <2>1. t[p] = n[p]
    BY <1>4, FinalIs, NodeKinds
  <2> QED BY <1>2, <1>4, <2>1, MeaningIs
<1>5. CASE n[p].kind = "dict"
  <2>1. t[p].kind = "dict" /\ ~Unconvertible(n, p)
    BY <1>5, FinalIs, Nodes DEF Unconvertible
  <2> QED BY <1>2, <1>3, <1>5, <2>1, MeaningIs
<1>6. CASE n[p].kind = "model" /\ ~Unconvertible(n, p)
  <2>1. t[p].kind = "dict"
    BY <1>6, FinalIs, Nodes
  <2> QED BY <1>2, <1>3, <1>6, <2>1, MeaningIs
<1>7. CASE n[p].kind = "model" /\ Unconvertible(n, p)
  <2>1. t[p] = Text(At(n, p)) /\ t[p].kind = "text"
    BY <1>7, FinalIs, Nodes
  <2> QED BY <1>2, <1>7, <2>1, MeaningIs
<1>8. CASE n[p].kind = "atom"
  <2>1. n[p] = Atom(n[p].atom) /\ t[p] = Atom(Norm(n[p].atom))
    BY <1>8, FinalIs, NodeKinds
  <2>2. t[p].kind = "atom" /\ t[p].atom = Norm(n[p].atom)
    BY <2>1, Nodes
  <2>3. Norm(Norm(n[p].atom)) = Norm(n[p].atom)
    BY NormFacts
  <2> QED BY <1>2, <1>8, <2>2, <2>3, MeaningIs
<1> QED BY <1>1, <1>4, <1>5, <1>6, <1>7, <1>8

(* Conversely the canonical form is determined by what is meant.           *)
Rendered(x) == IF x.kind = "mapping" THEN Dict(KeyOrder, {}) ELSE x

LEMMA FinalRendered ==
  ASSUME NEW n, NEW p, IsNode(n[p])
  PROVE  Final(n, p) = Rendered(Meaning(n, p))
<1>1. n[p].kind \in {"atom", "list", "dict", "model", "text"}
  BY NodeKinds
<1>2. Rendered([kind |-> "mapping"]) = Dict(KeyOrder, {})
  BY DEF Rendered
<1>3. CASE n[p].kind \in {"list", "text"}
  <2>1. Meaning(n, p) = n[p] /\ n[p].kind # "mapping"
    BY <1>3, MeaningIs
  <2>2. Final(n, p) = n[p]
    BY <1>3, FinalIs, NodeKinds
  <2> QED BY <2>1, <2>2 DEF Rendered
<1>4. CASE n[p].kind \in {"dict", "model"} /\ ~Unconvertible(n, p)
  <2>1. Meaning(n, p) = [kind |-> "mapping"]
    BY <1>4, MeaningIs
  <2>2. Final(n, p) = Dict(KeyOrder, {})
    BY <1>4, FinalIs
  <2> QED BY <1>2, <2>1, <2>2
<1>5. CASE Unconvertible(n, p)
  <2>1. n[p].kind = "model"
    BY <1>5 DEF Unconvertible
  <2>2. Meaning(n, p) = Text(At(n, p)) /\ Final(n, p) = Text(At(n, p))
    BY <1>5, <2>1, MeaningIs, FinalIs
  <2>3. Text(At(n, p)).kind # "mapping"
    BY Nodes
  <2> QED BY <2>2, <2>3 DEF Rendered
<1>6. CASE n[p].kind = "atom"
  <2>1. Meaning(n, p) = Atom(Norm(n[p].atom)) /\ Final(n, p) = Atom(Norm(n[p].atom))
    BY <1>6, MeaningIs, FinalIs
  <2>2. Atom(Norm(n[p].atom)).kind # "mapping"
    BY Nodes
  <2> QED BY <2>1, <2>2 DEF Rendered
<1> QED BY <1>1, <1>3, <1>4, <1>5, <1>6

LEMMA FinalBig ==
  ASSUME NEW n, NEW p, IsNode(n[p]), Final(n, p) = Atom("big")
  PROVE  n[p] \in {Atom("big"), Atom("big.0")}
<1>1. n[p].kind \in {"atom", "list", "dict", "model", "text"}
  BY NodeKinds
<1>2. n[p].kind = "atom"
  BY <1>1, FinalIs, Nodes
<1>3. n[p] = Atom(n[p].atom) /\ Atom(Norm(n[p].atom)) = Atom("big")
  BY <1>2, FinalIs, NodeKinds
<1>4. Norm(n[p].atom) = "big"
  BY <1>3, Nodes
<1> QED BY <1>3, <1>4, NormFacts

(* The root of the canonical form.                                         *)
LEMMA FinalRoot ==
  ASSUME NEW n, IsValue(n), ~Fails(to_dict(n))
  PROVE  /\ Root(n).kind = "dict" => Root(to_dict(n)).kind = "dict"
         /\ Root(n).kind = "model" /\ ~Unconvertible(n, <<>>) => Root(to_dict(n)).kind = "dict"
         /\ Root(n).kind \notin {"dict", "model"} => Root(to_dict(n)).kind # "dict"
         /\ Root(n).kind = "list" => Root(to_dict(n)) = List
<1>1. <<>> \in Said(n) /\ IsNode(n[<<>>])
  BY SaidDown, ValueFacts
<1>2. Root(to_dict(n)) = Final(n, <<>>)
  BY <1>1, ToDictNormal DEF Root
<1>3. n[<<>>].kind \in {"atom", "list", "dict", "model", "text"}
  BY <1>1, NodeKinds
<1> QED BY <1>1, <1>2, <1>3, FinalIs, Nodes DEF Root

(* What json_dumps writes.                                                 *)
LEMMA JsonIs ==
  ASSUME NEW n, IsValue(n)
  PROVE  \/ /\ ~Fails(json_dumps(n)) /\ ~Fails(to_dict(n))
            /\ json_dumps(n) = to_dict(n) /\ Clean(json_dumps(n)) /\ ~TooDeep(n)
         \/ /\ Fails(json_dumps(n)) /\ Root(json_dumps(n)).error = "TypeError"
            /\ Says(n, {"big", "big.0"})
         \/ /\ Fails(json_dumps(n)) /\ Root(json_dumps(n)).error = "RecursionError" /\ TooDeep(n)
<1>1. CASE Fails(to_dict(n))
  <2>1. json_dumps(n) = to_dict(n)
    BY <1>1 DEF json_dumps
  <2> QED BY <1>1, <2>1, ToDictIs DEF Says
<1>2. CASE ~Fails(to_dict(n))
  <2>1. Normal(to_dict(n)) /\ json_dumps(n) = Dumped(to_dict(n)) /\ ~TooDeep(n)
    BY <1>2, ToDictNormal DEF json_dumps
  <2>2. CASE Clean(to_dict(n))
    BY <1>2, <2>1, <2>2, NormalDumped
  <2>3. CASE ~Clean(to_dict(n))
    <3>1. PICK p \in DOMAIN to_dict(n) : to_dict(n)[p] = Atom("big")
      BY <2>1, <2>3, NormalDumped
    <3>2. p \in Said(n) /\ Final(n, p) = Atom("big") /\ IsNode(n[p])
      BY <1>2, <3>1, ToDictNormal, SaidDown, ValueFacts
    <3>3. Says(n, {"big", "big.0"})
      BY <3>2, FinalBig DEF Says
    <3> QED BY <2>1, <2>3, <3>3, NormalDumped
  <2> QED BY <2>2, <2>3
<1> QED BY <1>1, <1>2

(* What is signed.                                                         *)
Trimmed(t, ks) == IF Root(t).kind = "dict" THEN Without(t, ks) ELSE t

LEMMA TrimmedFacts ==
  ASSUME NEW t, Normal(t), NEW ks
  PROVE  /\ Normal(Trimmed(t, ks)) /\ (Clean(t) => Clean(Trimmed(t, ks)))
         /\ DOMAIN Trimmed(t, ks) \subseteq DOMAIN t
         /\ \A p \in DOMAIN Trimmed(t, ks) : Trimmed(t, ks)[p] = t[p]
<1>1. CASE Root(t).kind = "dict"
  <2>1. Trimmed(t, ks) = Without(t, ks) /\ IsValue(t)
    BY <1>1 DEF Trimmed, Normal
  <2>2. /\ DOMAIN Without(t, ks) \subseteq DOMAIN t
        /\ \A p \in DOMAIN Without(t, ks) : Without(t, ks)[p] = t[p]
    BY <2>1, WithoutFacts
  <2>3. Normal(Without(t, ks)) /\ (Clean(t) => Clean(Without(t, ks)))
    BY WithoutNormal
  <2> QED BY <2>1, <2>2, <2>3
<1>2. CASE Root(t).kind # "dict"
  <2>1. Trimmed(t, ks) = t
    BY <1>2 DEF Trimmed
  <2> QED BY <2>1
<1> QED BY <1>1, <1>2

LEMMA MessageIs ==
  ASSUME NEW n, IsValue(n), NEW w, w \notin Chain, NEW ig
  PROVE  \/ /\ ~Fails(to_dict(n)) /\ ~Fails(Message(n, w, ig))
            /\ Message(n, w, ig) = Trimmed(to_dict(n), Unsigned(ig))
            /\ Clean(Message(n, w, ig)) /\ ~TooDeep(n)
         \/ /\ Fails(Message(n, w, ig)) /\ Root(Message(n, w, ig)).error = "TypeError"
            /\ Says(n, {"big", "big.0"})
         \/ /\ Fails(Message(n, w, ig)) /\ Root(Message(n, w, ig)).error = "RecursionError" /\ TooDeep(n)
<1> DEFINE t == to_dict(n)
           c == Trimmed(t, Unsigned(ig))
<1>1. CASE Fails(t)
  <2>1. Message(n, w, ig) = t
    BY <1>1 DEF Message
  <2> QED BY <1>1, <2>1, ToDictIs DEF Says
<1>2. CASE ~Fails(t)
  <2>1. Normal(t) /\ ~TooDeep(n) /\ Message(n, w, ig) = Dumped(c)
    BY <1>2, ToDictNormal DEF Message, Trimmed
  <2>2. Normal(c) /\ DOMAIN c \subseteq DOMAIN t /\ \A p \in DOMAIN c : c[p] = t[p]
    BY <2>1, TrimmedFacts
  <2>3. CASE Clean(c)
    <3>1. Message(n, w, ig) = c
      BY <2>1, <2>2, <2>3, NormalDumped
    <3>2. ~Fails(c)
      BY <2>2, ValueHolds DEF Normal
    <3> QED BY <1>2, <2>1, <2>3, <3>1, <3>2
  <2>4. CASE ~Clean(c)
    <3>1. PICK p \in DOMAIN c : c[p] = Atom("big")
      BY <2>2, <2>4, NormalDumped
    <3>2. p \in Said(n) /\ Final(n, p) = Atom("big") /\ IsNode(n[p])
      BY <1>2, <2>2, <3>1, ToDictNormal, SaidDown, ValueFacts
    <3>3. Says(n, {"big", "big.0"})
      BY <3>2, FinalBig DEF Says
    <3>4. Fails(Dumped(c)) /\ Root(Dumped(c)).error = "TypeError"
      BY <2>2, <2>4, NormalDumped
    <3> QED BY <2>1, <3>3, <3>4
  <2> QED BY <2>3, <2>4
<1> QED BY <1>1, <1>2

(* The message says what the content says.                                 *)
LEMMA MessageMeans ==
  ASSUME NEW n, IsValue(n), ~Opaque(n), ~Fails(to_dict(n)), NEW ks,
         NEW c, c = IF Mapping(n) THEN Without(n, ks) ELSE n,
         NEW m, m = Trimmed(to_dict(n), ks)
  PROVE  [p \in Said(c) |-> Meaning(c, p)] = [p \in DOMAIN m |-> Meaning(m, p)]
<1> DEFINE t == to_dict(n)
<1>1. /\ t = [p \in Said(n) |-> Final(n, p)] /\ DOMAIN t = Said(n) /\ Normal(t)
      /\ Said(n) \subseteq DOMAIN n /\ <<>> \in DOMAIN n /\ DOMAIN n \subseteq Path
      /\ \A p \in DOMAIN n : IsNode(n[p])
      /\ ~Unconvertible(n, <<>>)
  BY ToDictNormal, SaidDown, ValueFacts DEF Opaque
<1>2. \A p \in Said(n) : t[p].kind # "model" /\ Meaning(t, p) = Meaning(n, p)
  <2>1. ASSUME NEW p \in Said(n)
        PROVE  t[p].kind # "model" /\ Meaning(t, p) = Meaning(n, p)
    <3>1. t[p] = Final(n, p) /\ IsNode(n[p])
      BY <1>1
    <3> HIDE DEF t
    <3> QED BY <3>1, FinalMeans, FinalIs
  <2> QED BY <2>1
<1>3. CASE Mapping(n)
  <2>1. Root(t).kind = "dict"
    BY <1>1, <1>3, FinalRoot DEF Mapping
  <2>2. m = Without(t, ks) /\ c = Without(n, ks)
    BY <1>3, <2>1 DEF Trimmed
  <2>3. /\ IsValue(c) /\ DOMAIN c = {p \in DOMAIN n : Outside(p, ks)} /\ Root(c) = Root(n)
        /\ \A p \in DOMAIN c : c[p] = n[p]
    <3>1. /\ IsValue(Without(n, ks)) /\ Root(Without(n, ks)) = Root(n)
          /\ DOMAIN Without(n, ks) = {p \in DOMAIN n : Outside(p, ks)}
          /\ \A p \in DOMAIN Without(n, ks) : Without(n, ks)[p] = n[p]
      BY WithoutFacts
    <3> QED BY ONLY <2>2, <3>1
  <2>4. DOMAIN m = {p \in Said(n) : Outside(p, ks)} /\ \A p \in DOMAIN m : m[p] = t[p]
    <3>1. IsValue(t)
      BY <1>1 DEF Normal
    <3>2. /\ DOMAIN Without(t, ks) = {p \in DOMAIN t : Outside(p, ks)}
          /\ \A p \in DOMAIN Without(t, ks) : Without(t, ks)[p] = t[p]
      BY <3>1, WithoutFacts
    <3>3. DOMAIN t = Said(n)
      BY <1>1
    <3> HIDE DEF t
    <3> QED BY ONLY <2>2, <3>2, <3>3
  <2>5. Agree(c, n, ks) /\ Agree(n, c, ks)
    BY <2>2, WithoutAgrees, AgreeSym
  <2>6. ~Unconvertible(n, <<>>) /\ ~Unconvertible(c, <<>>)
    <3>1. ~Unconvertible(n, <<>>)
      BY <1>1
    <3>2. DOMAIN c \subseteq DOMAIN n /\ c[<<>>] = n[<<>>] /\ \A p \in DOMAIN c : c[p] = n[p]
      BY <2>3 DEF Root
    <3>3. ~Unconvertible(c, <<>>)
      BY ONLY <3>1, <3>2 DEF Unconvertible
    <3> QED BY <3>1, <3>3
  <2>7. Said(c) = DOMAIN m
    <3>1. ASSUME NEW p \in Said(c)
          PROVE  p \in DOMAIN m
      <4>1. p \in DOMAIN c /\ Outside(p, ks)
        BY <2>3 DEF Said
      <4> QED BY <2>3, <2>4, <2>5, <2>6, <4>1, AgreeSaid
    <3>2. ASSUME NEW p \in DOMAIN m
          PROVE  p \in Said(c)
      <4>1. p \in Said(n) /\ Outside(p, ks)
        BY <2>4
      <4> QED BY <2>3, <2>5, <2>6, <4>1, AgreeSaid
    <3> QED BY <3>1, <3>2
  <2>8. ASSUME NEW p \in DOMAIN m
        PROVE  Meaning(c, p) = Meaning(m, p)
    <3>1. p \in Said(n) /\ p \in DOMAIN n /\ p \in DOMAIN c /\ Outside(p, ks) /\ m[p] = t[p] /\ c[p] = n[p]
      BY <1>1, <2>3, <2>4
    <3>2. IsNode(n[p]) /\ t[p] = Final(n, p)
      BY <1>1, <3>1
    <3>3. Meaning(m, p) = Meaning(n, p)
      BY <3>1, <3>2, FinalMeans
    <3>4. /\ Unconvertible(c, p) <=> Unconvertible(n, p)
          /\ Unconvertible(c, p) => At(c, p) = At(n, p)
      BY <2>3, <2>5, <2>6, <3>1, AgreeText
    <3>5. Meaning(c, p) = Meaning(n, p)
      BY <3>1, <3>4 DEF Meaning
    <3> QED BY <3>3, <3>5
  <2> QED BY <2>7, <2>8
<1>4. CASE ~Mapping(n)
  <2>1. Root(t).kind # "dict"
    BY <1>4, FinalRoot DEF Mapping
  <2>2. m = t /\ c = n
    BY <1>4, <2>1 DEF Trimmed
  <2> QED BY <1>1, <1>2, <2>2
<1> QED BY <1>3, <1>4

-----------------------------------------------------------------------------
(* A new entry.                                                            *)
LEMMA TailFacts ==
  ASSUME NEW p \in Path, p # <<>>
  PROVE  /\ Tail(p) \in Path /\ Len(Tail(p)) = Len(p) - 1
         /\ \A i \in 1 .. Len(p) - 1 : Tail(p)[i] = p[i + 1]
BY HeadTailProperties DEF Path

LEMMA JoinFacts ==
  ASSUME NEW s \in Path, NEW q \in Path, Len(s) = 1
  PROVE  /\ s \o q \in Path /\ Len(s \o q) = 1 + Len(q) /\ (s \o q)[1] = s[1]
         /\ \A i \in 1 .. Len(q) : (s \o q)[i + 1] = q[i]
<1>1. PICK r : r = s \o q
  OBVIOUS
<1>2. /\ r \in Seq(Name) /\ Len(r) = Len(s) + Len(q)
      /\ \A i \in 1 .. Len(s) + Len(q) : r[i] = IF i <= Len(s) THEN s[i] ELSE q[i - Len(s)]
  BY <1>1, ConcatProperties DEF Path
<1>3. Len(q) \in Nat
  BY LenProperties DEF Path
<1>4. r[1] = s[1] /\ \A i \in 1 .. Len(q) : r[i + 1] = q[i]
  <2>1. 1 \in 1 .. Len(s) + Len(q) /\ 1 <= Len(s)
    BY <1>3
  <2>2. ASSUME NEW i \in 1 .. Len(q)
        PROVE  r[i + 1] = q[i]
    <3>1. i + 1 \in 1 .. Len(s) + Len(q) /\ ~(i + 1 <= Len(s)) /\ (i + 1) - Len(s) = i
      BY <1>3
    <3> QED BY <1>2, <3>1
  <2> QED BY <1>2, <2>1, <2>2
<1> QED BY <1>1, <1>2, <1>4 DEF Path

LEMMA GraftFacts ==
  ASSUME NEW k \in Name, NEW q \in Path
  PROVE  /\ <<k>> \o q \in Path /\ <<k>> \o q # <<>>
         /\ (<<k>> \o q)[1] = k /\ Tail(<<k>> \o q) = q
<1> DEFINE r == <<k>> \o q
<1>1. <<k>> \in Path /\ Len(<<k>>) = 1 /\ <<k>>[1] = k /\ Len(q) \in Nat
  BY Singles, LenProperties DEF Path
<1>2. r \in Path /\ Len(r) = 1 + Len(q) /\ r[1] = <<k>>[1] /\ \A i \in 1 .. Len(q) : r[i + 1] = q[i]
  BY <1>1, JoinFacts
<1> HIDE DEF r
<1>3. r # <<>>
  BY <1>1, <1>2, RootFacts
<1>4. Tail(r) \in Path /\ Len(Tail(r)) = Len(q) /\ \A i \in 1 .. Len(q) : Tail(r)[i] = r[i + 1]
  <2>1. Tail(r) \in Path /\ Len(Tail(r)) = Len(r) - 1 /\ \A i \in 1 .. Len(r) - 1 : Tail(r)[i] = r[i + 1]
    BY <1>2, <1>3, TailFacts
  <2>2. Len(r) - 1 = Len(q)
    BY <1>1, <1>2
  <2> QED BY <2>1, <2>2
<1>5. \A i \in 1 .. Len(Tail(r)) : Tail(r)[i] = q[i]
  BY <1>2, <1>4
<1>6. Tail(r) = q
  BY <1>4, <1>5, PathEqual
<1> QED BY <1>2, <1>3, <1>6 DEF r

(* A path is its first key and the rest.                                   *)
LEMMA SplitFacts ==
  ASSUME NEW p \in Path, p # <<>>
  PROVE  p[1] \in Name /\ Tail(p) \in Path /\ p = <<p[1]>> \o Tail(p)
<1>1. p[1] \in Name /\ Tail(p) \in Path
  BY FrontFacts, TailFacts
<1>2. Len(p) \in Nat \ {0}
  BY FrontFacts
<1>3. 1 \in 1 .. Len(p) /\ Len(p) \in 1 .. Len(p)
  BY <1>2
<1>4. SubSeq(p, 1, Len(p)) = <<p[1]>> \o SubSeq(p, 1 + 1, Len(p))
  BY <1>3, SubSeqRecursiveFirst DEF Path
<1>5. SubSeq(p, 1, Len(p)) = p /\ Tail(p) = SubSeq(p, 2, Len(p))
  BY SubSeqFull, TailIsSubSeq DEF Path
<1> QED BY <1>1, <1>4, <1>5

LEMMA PrefixTail ==
  ASSUME NEW p \in Path, NEW q \in Path, IsPrefix(q, p), q # <<>>
  PROVE  p # <<>> /\ q[1] = p[1] /\ IsPrefix(Tail(q), Tail(p)) /\ (Tail(q) = Tail(p) => q = p)
<1>1. p # <<>> /\ q[1] = p[1]
  BY SameFirst
<1>2. Len(p) \in Nat \ {0} /\ Len(q) \in Nat \ {0}
  BY <1>1, FrontFacts
<1>3. Len(q) <= Len(p) /\ \A i \in 1 .. Len(q) : q[i] = p[i]
  BY PrefixMeans
<1>4. /\ Tail(p) \in Path /\ Len(Tail(p)) = Len(p) - 1 /\ \A i \in 1 .. Len(p) - 1 : Tail(p)[i] = p[i + 1]
      /\ Tail(q) \in Path /\ Len(Tail(q)) = Len(q) - 1 /\ \A i \in 1 .. Len(q) - 1 : Tail(q)[i] = q[i + 1]
  BY <1>1, TailFacts
<1>5. Len(Tail(q)) <= Len(Tail(p))
  BY <1>2, <1>3, <1>4
<1>6. ASSUME NEW i \in 1 .. Len(Tail(q))
      PROVE  Tail(q)[i] = Tail(p)[i]
  <2>1. i \in 1 .. Len(q) - 1 /\ i \in 1 .. Len(p) - 1 /\ i + 1 \in 1 .. Len(q)
    BY <1>2, <1>3, <1>4
  <2> QED BY <1>3, <1>4, <2>1
<1>7. IsPrefix(Tail(q), Tail(p))
  BY <1>4, <1>5, <1>6, PrefixMeans
<1>8. Tail(q) = Tail(p) => q = p
  BY <1>1, SplitFacts
<1> QED BY <1>1, <1>7, <1>8

LEMMA PutFacts ==
  ASSUME NEW n, IsValue(n), Mapping(n), NEW v, IsValue(v), NEW k \in Name
  PROVE  /\ IsValue(Put(n, k, v)) /\ Root(Put(n, k, v)).kind = Root(n).kind
         /\ Agree(Put(n, k, v), n, {k})
         /\ \A p \in DOMAIN Put(n, k, v) : ~Outside(p, {k}) =>
              Tail(p) \in DOMAIN v /\ Put(n, k, v)[p] = v[Tail(p)]
<1> DEFINE root == IF Root(n).kind = "dict"
                   THEN Dict(IF Has(n, k) THEN Root(n).order ELSE Append(Root(n).order, k), Root(n).other \ {k})
                   ELSE Root(n)
           below == {<<k>> \o q : q \in DOMAIN v}
           beside == {q \in DOMAIN n : q = <<>> \/ q[1] # k}
<1>1. PICK m : m = Put(n, k, v)
  OBVIOUS
<1>2. m = [p \in beside \cup below |-> IF p = <<>> THEN root ELSE IF p[1] = k THEN v[Tail(p)] ELSE n[p]]
  BY <1>1 DEF Put
<1>3. /\ DOMAIN n \subseteq Path /\ <<>> \in DOMAIN n /\ \A p \in DOMAIN n : IsNode(n[p])
      /\ DOMAIN v \subseteq Path /\ <<>> \in DOMAIN v /\ \A p \in DOMAIN v : IsNode(v[p])
  BY ValueFacts
<1>4. IsNode(root) /\ root.kind = Root(n).kind /\ root.kind \in Containers
  BY <1>3, Nodes DEF Mapping, Root, Containers
<1>5. \A p : p \in below => p \in Path /\ p # <<>> /\ p[1] = k /\ Tail(p) \in DOMAIN v
  <2>1. ASSUME NEW p \in below
        PROVE  p \in Path /\ p # <<>> /\ p[1] = k /\ Tail(p) \in DOMAIN v
    <3>1. PICK q \in DOMAIN v : p = <<k>> \o q
      BY <2>1
    <3>2. q \in Path
      BY <1>3
    <3> QED BY <3>1, <3>2, GraftFacts
  <2> QED BY <2>1
<1>6. \A p \in Path : p # <<>> /\ p[1] = k /\ Tail(p) \in DOMAIN v => p \in below
  BY SplitFacts
<1>7. <<>> \in beside
  BY <1>3
<1> HIDE DEF root, below, beside
<1>8. /\ DOMAIN m = beside \cup below /\ m = [p \in DOMAIN m |-> m[p]]
      /\ m[<<>>] = root
      /\ \A p \in below : m[p] = v[Tail(p)]
      /\ \A p \in beside : p # <<>> => m[p] = n[p]
  BY <1>2, <1>5, <1>7 DEF beside
<1>9. \A p \in DOMAIN m : p \in Path /\ IsNode(m[p])
  BY <1>3, <1>4, <1>5, <1>8 DEF beside
<1>10. ASSUME NEW p \in DOMAIN m, NEW q \in Path, IsPrefix(q, p), q # p
       PROVE  q \in DOMAIN m /\ m[q].kind \in Containers
  <2>1. CASE q = <<>>
    BY <1>4, <1>7, <1>8, <2>1
  <2>2. CASE q # <<>> /\ p \in beside
    <3>1. p # <<>> /\ p[1] = q[1] /\ p \in DOMAIN n /\ p[1] # k
      BY <1>9, <1>10, <2>2, SameFirst DEF beside
    <3>2. q \in DOMAIN n /\ n[q].kind \in Containers
      BY <1>10, <3>1, ValueFacts
    <3>3. q \in beside
      BY <3>1, <3>2 DEF beside
    <3> QED BY <1>8, <2>2, <3>2, <3>3
  <2>3. CASE q # <<>> /\ p \in below
    <3>1. q[1] = k /\ IsPrefix(Tail(q), Tail(p)) /\ Tail(q) # Tail(p)
      BY <1>5, <1>9, <1>10, <2>3, PrefixTail
    <3>2. Tail(q) \in Path /\ Tail(p) \in DOMAIN v
      BY <1>5, <2>3, SplitFacts
    <3>3. Tail(q) \in DOMAIN v /\ v[Tail(q)].kind \in Containers
      BY <3>1, <3>2, ValueFacts
    <3>4. q \in below
      BY <1>6, <2>3, <3>1, <3>3
    <3> QED BY <1>8, <3>3, <3>4
  <2> QED BY <1>8, <2>1, <2>2, <2>3
<1>11. IsValue(m)
  BY <1>7, <1>8, <1>9, <1>10, ValueFrom
<1>12. Root(m).kind = Root(n).kind
  BY <1>4, <1>8 DEF Root
<1>13. Agree(m, n, {k})
  <2>1. ASSUME NEW p \in Path, Outside(p, {k})
        PROVE  (p \in DOMAIN m <=> p \in DOMAIN n) /\ (p \in DOMAIN m /\ p # <<>> => m[p] = n[p])
    <3>1. p \notin below
      BY <1>5, <2>1 DEF Outside
    <3>2. p \in beside <=> p \in DOMAIN n
      BY <2>1 DEF Outside, beside
    <3> QED BY <1>8, <3>1, <3>2
  <2> QED BY <1>12, <2>1 DEF Agree, Root
<1>14. ASSUME NEW p \in DOMAIN m, ~Outside(p, {k})
       PROVE  Tail(p) \in DOMAIN v /\ m[p] = v[Tail(p)]
  <2>1. p \in below
    BY <1>8, <1>14 DEF Outside, beside
  <2> QED BY <1>5, <1>8, <2>1
<1> QED BY <1>1, <1>11, <1>12, <1>13, <1>14

(* JSON stays JSON.                                                        *)
LEMMA PutJSON ==
  ASSUME NEW n, IsJSON(n), Root(n).kind = "dict", NEW v, IsJSON(v), NEW k \in Name
  PROVE  IsJSON(Put(n, k, v))
<1>1. PICK m : m = Put(n, k, v)
  OBVIOUS
<1>2. /\ IsValue(m) /\ Root(m).kind = "dict" /\ Agree(m, n, {k})
      /\ \A p \in DOMAIN m : ~Outside(p, {k}) => Tail(p) \in DOMAIN v /\ m[p] = v[Tail(p)]
  BY <1>1, PutFacts, SMTT(30) DEF IsJSON, Mapping
<1>3. DOMAIN m \subseteq Path
  BY <1>2, ValueFacts
<1>4. \A p \in DOMAIN m : Outside(p, {k}) /\ p # <<>> => p \in DOMAIN n /\ m[p] = n[p]
  BY <1>2, <1>3 DEF Agree
<1>5. m[<<>>].kind = "dict"
  BY <1>2 DEF Root
<1>6. ASSUME NEW p \in DOMAIN m
      PROVE  m[p].kind # "model" /\ m[p] \notin {Atom("obj"), Atom("nan"), Atom("big")}
  <2>1. CASE p = <<>>
    BY <1>5, <2>1, Nodes
  <2>2. CASE Outside(p, {k}) /\ p # <<>>
    <3>1. p \in DOMAIN n /\ m[p] = n[p]
      BY <1>4, <2>2
    <3> QED BY ONLY <3>1, IsJSON(n) DEF IsJSON
  <2>3. CASE ~Outside(p, {k})
    <3>1. Tail(p) \in DOMAIN v /\ m[p] = v[Tail(p)]
      BY <1>2, <2>3
    <3> QED BY ONLY <3>1, IsJSON(v) DEF IsJSON
  <2> QED BY <2>1, <2>2, <2>3
<1> QED BY <1>1, <1>2, <1>6 DEF IsJSON

(* The signature that the sender attaches changes nothing that is signed.  *)
LEMMA AttachFacts ==
  ASSUME NEW n, IsValue(n), Mapping(n), ~Fails(to_dict(n)), NEW k \in Name, NEW ks, k \in ks,
         \A p \in DOMAIN n : p # <<>> /\ p[1] = k /\ Root(n).kind = "model" => n[p] # Atom("obj"),
         NEW m, m = Put(n, k, Leaf(Atom("text"))), ~Opaque(m), ~Fails(to_dict(m))
  PROVE  Trimmed(to_dict(m), ks) = Trimmed(to_dict(n), ks)
<1>1. IsValue(m) /\ Root(m).kind = Root(n).kind /\ Agree(m, n, {k}) /\ Agree(n, m, {k})
  BY PutFacts, LeafValue, AgreeSym
<1>2. \A p : Outside(p, ks) => Outside(p, {k})
  BY DEF Outside
<1>3. DOMAIN n \subseteq Path /\ DOMAIN m \subseteq Path /\ <<>> \in DOMAIN n /\ <<>> \in DOMAIN m
  BY <1>1, ValueFacts
<1>4. ~Unconvertible(m, <<>>)
  BY DEF Opaque
<1>5. ~Unconvertible(n, <<>>)
  <2>1. SUFFICES ASSUME Unconvertible(n, <<>>)
                 PROVE  FALSE
    OBVIOUS
  <2>2. PICK r \in DOMAIN n : n[r] = Atom("obj")
    BY <2>1 DEF Unconvertible
  <2>3. n[<<>>].kind = "model" /\ m[<<>>].kind = "model"
    BY <1>1, <2>1 DEF Unconvertible, Root
  <2>4. r # <<>>
    BY <2>2, <2>3, Nodes
  <2>5. r[1] # k
    BY <2>2, <2>3, <2>4 DEF Root
  <2>6. r \in Path /\ Outside(r, {k})
    BY <1>3, <2>5 DEF Outside
  <2>7. r \in DOMAIN m /\ m[r] = Atom("obj") /\ IsPrefix(<<>>, r)
    BY <1>1, <2>2, <2>4, <2>6, RootFacts DEF Agree
  <2>8. Unconvertible(m, <<>>)
    BY <2>3, <2>7 DEF Unconvertible
  <2> QED BY <1>3, <1>4, <2>8
<1>6. \A p : Outside(p, {k}) => (p \in Said(m) <=> p \in Said(n))
  BY <1>1, <1>3, <1>4, <1>5, AgreeSaid
<1>7. /\ to_dict(m) = [p \in Said(m) |-> Final(m, p)] /\ to_dict(n) = [p \in Said(n) |-> Final(n, p)]
      /\ Said(m) \subseteq DOMAIN m /\ Said(n) \subseteq DOMAIN n
  BY <1>1, ToDictNormal, SaidDown
<1>8. \A p \in Said(n) : Outside(p, {k}) => Final(m, p) = Final(n, p)
  <2>1. ASSUME NEW p \in Said(n), Outside(p, {k})
        PROVE  Final(m, p) = Final(n, p)
    <3>1. p \in DOMAIN n /\ p \in DOMAIN m
      BY <1>1, <1>3, <1>7, <2>1 DEF Agree
    <3>2. Root(m).kind \in {"dict", "model"} /\ ~Opaque(m) /\ ~Opaque(n)
      BY <1>1, <1>4, <1>5 DEF Mapping, Opaque
    <3> QED BY <1>1, <2>1, <3>1, <3>2, AgreeFinal
  <2> QED BY <2>1
<1>9. Root(to_dict(m)).kind = "dict" /\ Root(to_dict(n)).kind = "dict"
  BY <1>1, <1>3, <1>4, <1>5, FinalRoot DEF Mapping
<1>10. /\ Trimmed(to_dict(m), ks) = [p \in {q \in Said(m) : Outside(q, ks)} |-> Final(m, p)]
       /\ Trimmed(to_dict(n), ks) = [p \in {q \in Said(n) : Outside(q, ks)} |-> Final(n, p)]
  BY <1>7, <1>9 DEF Trimmed, Without, Outside
<1>11. {q \in Said(m) : Outside(q, ks)} = {q \in Said(n) : Outside(q, ks)}
  BY <1>2, <1>6
<1>12. \A p \in {q \in Said(n) : Outside(q, ks)} : Final(m, p) = Final(n, p)
  BY <1>2, <1>8
<1> QED BY ONLY <1>10, <1>11, <1>12

-----------------------------------------------------------------------------
(* What from_dict makes of a canonical form.                               *)
LEMMA FromDictFails ==
  ASSUME NEW w, IsValue(w), Fails(from_dict(w))
  PROVE  /\ Root(from_dict(w)).error = "ValueError" /\ Root(w).kind = "dict"
         /\ \E k \in Fields : IF Has(w, k) THEN ~HasType(w, k) ELSE k \in Required
<1>1. Root(w).kind = "dict"
  BY ValueHolds DEF from_dict
<1> DEFINE Refused == \E k \in Fields : IF Has(w, k) THEN ~HasType(w, k) ELSE k \in Required
<1>2. CASE Refused
  BY <1>1, <1>2, LeafFacts DEF from_dict
<1>3. CASE ~Refused
  <2>1. Root(from_dict(w)) = Model
    BY <1>1, <1>3 DEF from_dict, Root
  <2> QED BY <2>1, Nodes DEF Fails
<1> QED BY <1>2, <1>3

LEMMA CleanJSON ==
  ASSUME NEW w, Clean(w)
  PROVE  IsJSON(w)
BY Nodes DEF Clean, Normal, IsJSON

LEMMA FromDictFacts ==
  ASSUME NEW w, IsJSON(w), Root(w).kind = "dict", ~Fails(from_dict(w)),
         NEW g, g = from_dict(w)
  PROVE  /\ IsValue(g) /\ Root(g) = Model /\ ~Opaque(g)
         /\ Clean(w) => ~TooDeep(g) /\ ~Says(g, {"big", "big.0"})
         /\ Clean(w) /\ (\A k \in Name : <<k>> \in DOMAIN w => k \in Fields \ Private /\ w[<<k>>] # Default(k))
              => to_dict(g) = w
<1> DEFINE D == {<<>>} \cup {<<k>> : k \in Fields} \cup {q \in DOMAIN w : q # <<>> /\ q[1] \in Fields}
<1>1. g = [p \in D |-> IF p = <<>> THEN Model ELSE IF p \in DOMAIN w THEN w[p] ELSE Default(p[1])]
  BY LeafFacts DEF from_dict
<1>2. /\ IsValue(w) /\ DOMAIN w \subseteq Path /\ <<>> \in DOMAIN w
      /\ \A p \in DOMAIN w : /\ IsNode(w[p]) /\ w[p].kind # "model"
                             /\ w[p] \notin {Atom("obj"), Atom("nan"), Atom("big")}
                             /\ Clean(w) => Len(p) <= MaxDepth /\ w[p] # Atom("big.0")
  <2>1. IsValue(w) /\ DOMAIN w \subseteq Path /\ <<>> \in DOMAIN w /\ \A p \in DOMAIN w : IsNode(w[p])
    BY ValueFacts DEF IsJSON
  <2>2. \A p \in DOMAIN w : w[p].kind # "model" /\ w[p] \notin {Atom("obj"), Atom("nan"), Atom("big")}
    BY DEF IsJSON
  <2>3. Clean(w) => \A p \in DOMAIN w : Len(p) <= MaxDepth /\ w[p] # Atom("big.0")
    BY Nodes DEF Clean, Normal
  <2> QED BY <2>1, <2>2, <2>3
<1>3. Fields \subseteq Name
  BY NameAssumption
<1>4. \A k \in Fields : /\ <<k>> \in Path /\ <<k>> # <<>> /\ <<k>>[1] = k /\ Front(<<k>>) = <<>> /\ Last(<<k>>) = k
                        /\ \A q \in Path : IsPrefix(q, <<k>>) => q = <<>> \/ q = <<k>>
  BY <1>3, Singles
<1>5. /\ DOMAIN g = D /\ g = [p \in DOMAIN g |-> g[p]] /\ g[<<>>] = Model /\ <<>> \in D
      /\ \A p \in D \cap DOMAIN w : p # <<>> => g[p] = w[p]
      /\ \A p \in D \ DOMAIN w : p \in {<<k>> : k \in Fields} /\ g[p] = Default(p[1])
  BY <1>1, <1>2
<1>6. \A k : Default(k) \in {Atom("zero"), Atom("null")}
  BY DEF Default
<1>7. \A p \in D : p \in Path
  BY <1>2, <1>4, RootFacts
<1>8. ASSUME NEW p \in DOMAIN w, p \in D, NEW q \in Path, IsPrefix(q, p), q # <<>>
      PROVE  q \in D /\ q \in DOMAIN w
  <2>1. p # <<>> /\ p[1] = q[1] /\ p \in Path
    BY <1>2, <1>8, SameFirst
  <2>2. p[1] \in Fields
    BY <1>4, <1>8, <2>1
  <2>3. q \in DOMAIN w
    BY <1>2, <1>8, ValueFacts
  <2> QED BY <1>8, <2>1, <2>2, <2>3
<1> HIDE DEF D
<1>9. IsValue(g)
  <2>1. \A p \in DOMAIN g : IsNode(g[p])
    BY <1>2, <1>5, <1>6, Nodes
  <2>2. ASSUME NEW p \in DOMAIN g, NEW q \in Path, IsPrefix(q, p), q # p
        PROVE  q \in DOMAIN g /\ g[q].kind \in Containers
    <3>1. CASE q = <<>>
      BY <1>5, <3>1, Nodes DEF Containers
    <3>2. CASE q # <<>> /\ p \in DOMAIN w
      <4>1. q \in D /\ q \in DOMAIN w
        BY <1>5, <1>8, <2>2, <3>2
      <4>2. w[q].kind \in Containers
        BY <1>2, <2>2, <3>2, ValueFacts
      <4> QED BY <1>5, <3>2, <4>1, <4>2
    <3>3. CASE q # <<>> /\ p \notin DOMAIN w
      BY <1>4, <1>5, <2>2, <3>3
    <3> QED BY <3>1, <3>2, <3>3
  <2>3. DOMAIN g \subseteq Path /\ <<>> \in DOMAIN g
    BY <1>5, <1>7
  <2> QED BY <1>5, <2>1, <2>2, <2>3, ValueFrom
<1>10. \A p \in DOMAIN g : /\ g[p] \notin {Atom("obj"), Atom("big")}
                           /\ Clean(w) => g[p] # Atom("big.0")
  <2>1. Model.kind # "atom" /\ \A a, b : Atom(a) = Atom(b) <=> a = b
    BY DEF Model, Atom
  <2> QED BY <1>2, <1>5, <1>6, <2>1, Nodes
<1>11. (\A q \in DOMAIN g : ~Unconvertible(g, q)) /\ (Clean(w) => ~Says(g, {"big", "big.0"}))
  <2>1. \A q \in DOMAIN g : ~Unconvertible(g, q)
    BY <1>10 DEF Unconvertible
  <2>2. Clean(w) => ~Says(g, {"big", "big.0"})
    BY <1>9, <1>10, SaidDown DEF Says
  <2> QED BY <2>1, <2>2
<1>12. Said(g) \subseteq DOMAIN w
  <2>1. ASSUME NEW p \in D \ DOMAIN w
        PROVE  Silent(g, p)
    <3>1. PICK k \in Fields : p = <<k>>
      BY <1>5, <2>1
    <3>2. p # <<>> /\ Front(p) = <<>> /\ Last(p) = k /\ p[1] = k
      BY <1>4, <3>1
    <3>3. g[p] = Default(Last(p)) /\ g[Front(p)].kind = "model"
      BY <1>5, <2>1, <3>2, Nodes
    <3> QED BY <3>2, <3>3 DEF Silent
  <2>2. ASSUME NEW p \in Said(g)
        PROVE  p \in DOMAIN w
    <3>1. p \in D /\ p \in Path
      BY <1>5, <1>7 DEF Said
    <3>2. ~Silent(g, p)
      BY <1>5, <3>1, PrefixRefl DEF Said
    <3> QED BY <2>1, <3>1, <3>2
  <2> QED BY <2>2
<1>13. ASSUME Clean(w)
       PROVE  ~TooDeep(g)
  <2>1. \A p \in DOMAIN w : Len(p) \in Nat /\ Len(p) <= MaxDepth
    BY <1>2, <1>13, LenProperties DEF Path
  <2> QED BY <1>12, <2>1, DepthAssumption DEF TooDeep
<1>14. ASSUME Clean(w), \A k \in Name : <<k>> \in DOMAIN w => k \in Fields \ Private /\ w[<<k>>] # Default(k)
       PROVE  to_dict(g) = w
  <2>1. DOMAIN w \subseteq D
    <3>1. ASSUME NEW p \in DOMAIN w, p # <<>>
          PROVE  p[1] \in Fields
      <4>1. p \in Path /\ p[1] \in Name
        BY <1>2, <3>1, FrontFacts
      <4>2. <<p[1]>> \in Path /\ Len(<<p[1]>>) = 1 /\ <<p[1]>>[1] = p[1] /\ Len(p) \in Nat \ {0}
        BY <3>1, <4>1, Singles, FrontFacts
      <4>3. Len(<<p[1]>>) <= Len(p) /\ \A i \in 1 .. Len(<<p[1]>>) : <<p[1]>>[i] = p[i]
        BY <4>2
      <4>4. <<p[1]>> \in DOMAIN w
        <5>1. IsPrefix(<<p[1]>>, p)
          BY <4>1, <4>2, <4>3, PrefixMeans
        <5> QED BY <1>2, <3>1, <4>1, <4>2, <5>1, ValueFacts
      <4> QED BY <1>14, <4>1, <4>4
    <3> QED BY <3>1 DEF D
  <2>2. ASSUME NEW q \in DOMAIN w
        PROVE  ~Silent(g, q)
    <3>1. CASE q = <<>>
      BY <3>1 DEF Silent
    <3>2. CASE q # <<>> /\ Front(q) = <<>>
      <4>1. q \in Path /\ q = <<q[1]>> /\ Last(q) = q[1] /\ q[1] \in Name
        BY <1>2, <3>2, FrontEmpty, FrontFacts
      <4>2. q[1] \in Fields \ Private /\ w[q] # Default(q[1])
        BY <1>14, <4>1
      <4>3. w[q] # Atom("null") /\ w[q] # Atom("nan")
        BY <1>2, <1>14, <3>2 DEF Clean, Normal, Root
      <4>4. g[q] = w[q]
        BY <1>5, <2>1, <3>2
      <4> QED BY <3>2, <4>1, <4>2, <4>3, <4>4 DEF Silent
    <3>3. CASE q # <<>> /\ Front(q) # <<>>
      <4>1. Front(q) \in DOMAIN w /\ g[q] = w[q] /\ g[Front(q)] = w[Front(q)]
        BY <1>2, <1>5, <2>1, <3>3, ValueFacts
      <4>2. w[Front(q)].kind # "model" /\ w[q] # Atom("nan")
        BY <1>2, <4>1
      <4>3. w[Front(q)].kind = "dict" => w[q] # Atom("null")
        BY <1>14, <3>3 DEF Clean, Normal
      <4> QED BY <4>1, <4>2, <4>3 DEF Silent
    <3> QED BY <3>1, <3>2, <3>3
  <2>3. Said(g) = DOMAIN w
    <3>1. ASSUME NEW p \in DOMAIN w
          PROVE  p \in Said(g)
      <4>1. ASSUME NEW q \in DOMAIN g, IsPrefix(q, p)
            PROVE  q \in DOMAIN w
        BY <1>2, <1>5, <1>7, <1>8, <2>1, <4>1
      <4>2. \A q \in DOMAIN g : ~Unconvertible(g, q)
        BY <1>11
      <4> QED BY <1>5, <2>1, <2>2, <4>1, <4>2 DEF Said
    <3> QED BY <1>12, <3>1
  <2>4. ~Fails(to_dict(g))
    <3>1. ~\E p \in Said(g) : g[p] = Atom("big")
      BY <1>9, <1>10, SaidDown
    <3> QED BY <1>9, <1>13, <1>14, <3>1, ToDictIs
  <2>5. to_dict(g) = [p \in DOMAIN w |-> Final(g, p)]
    BY <1>9, <2>3, <2>4, ToDictNormal
  <2>6. to_dict(w) = w /\ \A p \in DOMAIN w : Final(w, p) = w[p]
    <3>1. to_dict(w) = w /\ Said(w) = DOMAIN w /\ ~Fails(w)
      BY <1>2, <1>14, NormalDumped, ValueHolds DEF Clean
    <3>2. to_dict(w) = [p \in DOMAIN w |-> Final(w, p)]
      BY <1>2, <3>1, ToDictNormal
    <3> QED BY <3>1, <3>2
  <2>7. ASSUME NEW p \in DOMAIN w
        PROVE  Final(g, p) = w[p]
    <3>1. CASE p = <<>>
      <4>1. ~Unconvertible(g, p) /\ g[p] = Model
        BY <1>5, <1>11, <3>1
      <4>2. Final(g, p) = Dict(KeyOrder, {})
        BY <4>1, FinalIs, Nodes
      <4>3. w[p] = Dict(KeyOrder, {})
        BY <1>14, <3>1 DEF Clean, Normal, Root
      <4> QED BY <4>2, <4>3
    <3>2. CASE p # <<>>
      <4>1. g[p] = w[p] /\ IsNode(w[p]) /\ w[p].kind \in {"atom", "list", "dict", "text"}
        BY <1>2, <1>5, <2>1, <3>2, NodeKinds
      <4>2. Final(g, p) = Final(w, p)
        <5>1. CASE w[p].kind = "list"
          BY <4>1, <5>1, FinalIs
        <5>2. CASE w[p].kind = "dict"
          BY <4>1, <5>2, FinalIs
        <5>3. CASE w[p].kind = "atom"
          BY <4>1, <5>3, FinalIs
        <5>4. CASE w[p].kind = "text"
          BY <4>1, <5>4, FinalIs
        <5> QED BY <4>1, <5>1, <5>2, <5>3, <5>4
      <4> QED BY <2>6, <4>2
    <3> QED BY <3>1, <3>2
  <2>8. w = [p \in DOMAIN w |-> w[p]]
    BY <1>2, ValueFacts
  <2> QED BY <2>5, <2>7, <2>8
<1>15. ~Opaque(g)
  BY <1>9, <1>11, ValueFacts DEF Opaque
<1> QED BY <1>5, <1>9, <1>11, <1>13, <1>14, <1>15 DEF Root

-----------------------------------------------------------------------------
(* json_dumps and calculate_dict_hash write the same for two values if and *)
(* only if these say the same: key order, None, whole floats, keys that    *)
(* are no strings, and models instead of dicts make no difference to the   *)
(* bytes that are hashed, everything else does.                            *)
THEOREM SameBytesSameMeaning ==
  ASSUME NEW m, NEW n, IsValue(m), IsValue(n), ~Fails(json_dumps(m)), ~Fails(json_dumps(n))
  PROVE  json_dumps(m) = json_dumps(n) <=> Equivalent(m, n)
<1>1. /\ json_dumps(m) = to_dict(m) /\ ~Fails(to_dict(m))
      /\ json_dumps(n) = to_dict(n) /\ ~Fails(to_dict(n))
  BY JsonIs
<1>2. /\ to_dict(m) = [p \in Said(m) |-> Final(m, p)] /\ DOMAIN to_dict(m) = Said(m)
      /\ to_dict(n) = [p \in Said(n) |-> Final(n, p)] /\ DOMAIN to_dict(n) = Said(n)
  BY <1>1, ToDictNormal
<1>3. (\A p \in Said(m) : IsNode(m[p])) /\ (\A p \in Said(n) : IsNode(n[p]))
  BY SaidDown, ValueFacts
<1>4. ASSUME to_dict(m) = to_dict(n)
      PROVE  Equivalent(m, n)
  <2>1. Said(m) = Said(n)
    BY <1>2, <1>4
  <2>2. ASSUME NEW p \in Said(m)
        PROVE  Meaning(m, p) = Meaning(n, p)
    <3>1. to_dict(m)[p] = Final(m, p)
      BY <1>2, <2>2
    <3>2. to_dict(m)[p] = Final(n, p)
      BY <1>2, <1>4, <2>1, <2>2
    <3>3. Meaning(to_dict(m), p) = Meaning(m, p)
      BY <1>3, <2>2, <3>1, FinalMeans
    <3>4. Meaning(to_dict(m), p) = Meaning(n, p)
      BY <1>3, <2>1, <2>2, <3>2, FinalMeans
    <3> QED BY <3>3, <3>4
  <2> QED BY <2>1, <2>2 DEF Equivalent
<1>5. ASSUME Equivalent(m, n)
      PROVE  to_dict(m) = to_dict(n)
  <2>1. [p \in Said(m) |-> Meaning(m, p)] = [p \in Said(n) |-> Meaning(n, p)]
    BY <1>5 DEF Equivalent
  <2>2. Said(m) = Said(n)
    BY ONLY <2>1
  <2>3. \A p \in Said(m) : Meaning(m, p) = Meaning(n, p)
    BY ONLY <2>1, <2>2
  <2>4. \A p \in Said(m) : Final(m, p) = Final(n, p)
    BY <1>3, <2>2, <2>3, FinalRendered
  <2> QED BY ONLY <1>2, <2>2, <2>4
<1> QED BY <1>1, <1>4, <1>5

(* The round trip of to_dict is consistent: what has been written and read *)
(* back is written in the same way, and a model made of it says the same   *)
(* unless it drops a field or one that has its default.                    *)
THEOREM RoundTrip ==
  ASSUME NEW n, IsValue(n), NEW w, w = json_dumps(n), ~Fails(w)
  PROVE  /\ IsValue(w) /\ json_dumps(w) = w /\ to_dict(w) = w
         /\ Root(w).kind = "dict" /\ ~Fails(from_dict(w))
              /\ (\A k \in Name : Has(w, k) => k \in Fields \ Private /\ w[<<k>>] # Default(k))
            => json_dumps(from_dict(w)) = w
<1>1. Clean(w)
  BY JsonIs
<1>2. IsValue(w) /\ to_dict(w) = w /\ Dumped(w) = w
  BY <1>1, NormalDumped DEF Clean, Normal
<1>3. json_dumps(w) = w
  BY <1>2 DEF json_dumps
<1>4. ASSUME Root(w).kind = "dict", ~Fails(from_dict(w)),
             \A k \in Name : Has(w, k) => k \in Fields \ Private /\ w[<<k>>] # Default(k)
      PROVE  json_dumps(from_dict(w)) = w
  <2>1. to_dict(from_dict(w)) = w
    BY <1>1, <1>4, CleanJSON, FromDictFacts DEF Has
  <2> QED BY <1>2, <2>1 DEF json_dumps
<1> QED BY <1>2, <1>3, <1>4

-----------------------------------------------------------------------------
(* Chains.                                                                 *)
LEMMA ChainFacts ==
  ASSUME NEW n, IsValue(n), IsChain(n)
  PROVE  /\ Root(n) = List /\ ~Fails(n) /\ ~Mapping(n)
         /\ Dumped(n) = n
         /\ ~Fails(to_dict(n)) => to_dict(n) = n
         /\ ~Says(n, {"big", "big.0"})
<1>1. /\ n = [p \in DOMAIN n |-> n[p]] /\ DOMAIN n \subseteq Path /\ <<>> \in DOMAIN n
      /\ \A p \in DOMAIN n : IsNode(n[p]) /\ (p # <<>> => Front(p) \in DOMAIN n)
  BY ValueFacts
<1>2. \A p \in DOMAIN n : n[p] = List \/ n[p] = Atom("text")
  BY DEF IsChain
<1>3. n[<<>>] = List
  BY <1>1 DEF IsChain
<1>4. \A p \in DOMAIN n : /\ n[p].kind \notin {"dict", "model", "raise"}
                          /\ n[p] \notin {Atom("big"), Atom("big.0")}
  BY <1>2, Nodes
<1>5. \A p \in DOMAIN n : ~Omitted(n, p) /\ ~Unconvertible(n, p) /\ ~NullLike(n, p)
  BY <1>1, <1>4 DEF Omitted, Unconvertible, NullLike
<1>6. Reached(n) = DOMAIN n
  BY <1>5 DEF Reached
<1>7. Said(n) = DOMAIN n
  BY <1>5, <1>6, SaidIs
<1>8. \A p \in DOMAIN n : Encoded(n, p) = n[p] /\ Final(n, p) = n[p]
  <2>1. ASSUME NEW p \in DOMAIN n
        PROVE  Encoded(n, p) = n[p] /\ Final(n, p) = n[p]
    <3>1. CASE n[p] = List
      BY <1>1, <3>1, EncodedIs, FinalIs, Nodes
    <3>2. CASE n[p] = Atom("text")
      <4>1. n[p].kind = "atom" /\ n[p].atom = "text" /\ Norm("text") = "text"
        BY <3>2, Nodes, NormFacts
      <4> QED BY <1>1, <3>2, <4>1, EncodedIs, FinalIs
    <3> QED BY <1>2, <3>1, <3>2
  <2> QED BY <2>1
<1>9. Dumped(n) = n
  <2>1. Dumped(n) = [p \in DOMAIN n |-> Encoded(n, p)]
    BY <1>4, <1>6, DumpedIs
  <2> QED BY <1>1, <1>8, <2>1
<1>10. ASSUME ~Fails(to_dict(n))
       PROVE  to_dict(n) = n
  <2>1. to_dict(n) = [p \in DOMAIN n |-> Final(n, p)]
    BY <1>7, <1>10, ToDictNormal
  <2> QED BY <1>1, <1>8, <2>1
<1>11. ~Says(n, {"big", "big.0"})
  BY <1>4, <1>7 DEF Says
<1> QED BY <1>3, <1>4, <1>1, <1>9, <1>10, <1>11, Nodes DEF Root, Fails, Mapping

-----------------------------------------------------------------------------
(* The invariant.                                                          *)

\* The fields of a model, as SigningAssumption has them.
Typed(n) ==
  Root(n) = Model =>
    /\ \A p \in DOMAIN n \ {<<>>} : p[1] \in Fields /\ (p[1] = "security" => n[p] # Atom("obj"))
    /\ Has(n, "step") => n[<<"step">>] # Atom("zero.0")

PayloadInv ==
  IsValue(payload) /\ Typed(payload) /\ (way \in Chain => IsChain(payload))

\* Attaching changes the payload but not what is signed of it.
SignatureInv ==
  /\ pc \in {"signed", "attached", "sent", "got"} =>
       /\ key # "" /\ sig = [key |-> key, msg |-> sig.msg] /\ KeyError(way, key) = ""
       /\ ~Opaque(payload) /\ ~Fails(to_dict(payload)) => sig.msg = Message(payload, way, ignore)
  /\ pc = "signed" => sig.msg = Message(payload, way, ignore) /\ ~Fails(sig.msg)

\* What travels is in canonical form until it is replaced.
WireInv ==
  pc \in {"sent", "got"} =>
    /\ IsJSON(wire) /\ ~Fails(to_dict(payload)) /\ ~TooDeep(payload)
    /\ intact => wire = to_dict(payload) /\ Clean(wire) /\ (way \in Chain => wire = payload)

GotInv == pc = "got" => got \in {wire, from_dict(wire)} /\ ~Fails(got)

IInv ==
  PayloadInv /\ SignatureInv /\ WireInv /\ GotInv
    /\ SignedVerifies /\ AcceptedSaysTheSame /\ FailsOnlyAtLimits

LEMMA MessageFrom ==
  ASSUME NEW n, NEW w, w \notin Chain, NEW ig, ~Fails(to_dict(n))
  PROVE  Message(n, w, ig) = Dumped(Trimmed(to_dict(n), Unsigned(ig)))
BY DEF Message, Trimmed

(* Why there is no message.                                                *)
LEMMA MessageFails ==
  ASSUME NEW n, IsValue(n), NEW w, NEW ig, Fails(Message(n, w, ig))
  PROVE  LET e == Root(Message(n, w, ig)).error IN
         \/ e = "TypeError" /\ Says(n, {"big", "big.0"})
         \/ e = "RecursionError" /\ TooDeep(n)
<1>1. CASE w \in Chain
  <2>1. Message(n, w, ig) = Dumped(n)
    BY <1>1 DEF Message
  <2>2. PICK p \in Reached(n) : n[p] = Atom("big")
    BY <2>1, DumpedValue
  <2> QED BY <2>1, <2>2, BigIsSaid, DumpedIs DEF Says
<1>2. CASE w \notin Chain
  BY <1>2, MessageIs
<1> QED BY <1>1, <1>2

LEMMA PairFacts ==
  ASSUME NEW a, NEW b, NEW r, r = [key |-> a, msg |-> b]
  PROVE  r.key = a /\ r.msg = b
OBVIOUS

LEMMA InitStep ==
  ASSUME Init
  PROVE  IInv
<1>1. PayloadInv
  <2>1. IsValue(payload)
    BY SigningAssumption DEF Init
  <2>2. Typed(payload)
    BY SigningAssumption DEF Init, Typed
  <2> QED BY <2>1, <2>2 DEF Init, PayloadInv
<1>2. pc = "signing"
  BY DEF Init
<1> QED BY <1>1, <1>2 DEF IInv, SignatureInv, WireInv, GotInv, SignedVerifies, AcceptedSaysTheSame, FailsOnlyAtLimits

(* While the payload is not yet verified, only an exception matters.       *)
LEMMA Unverified ==
  ASSUME pc' # "verified",
         pc' \in {"sent", "got"} => ~TooDeep(payload)',
         pc' = "raised" =>
           \/ result' = "RecursionError" /\ TooDeep(payload)'
           \/ result' = "TypeError" /\ (key' = "rsa" \/ Says(payload, {"big", "big.0"})')
           \/ result' = "ValueError" /\ (key' \in {"", "junk"} \/ ~intact' \/ Unfit(payload)')
  PROVE  SignedVerifies' /\ AcceptedSaysTheSame' /\ FailsOnlyAtLimits'
BY DEF SignedVerifies, AcceptedSaysTheSame, FailsOnlyAtLimits

LEMMA SignStep ==
  ASSUME IInv, Sign
  PROVE  IInv'
<1> DEFINE m == Message(payload, way, ignore)
<1>1. /\ payload' = payload /\ way' = way /\ key' = key /\ ignore' = ignore
      /\ wire' = wire /\ intact' = intact /\ got' = got /\ pc = "signing"
  BY DEF Sign
<1>2. IsValue(payload) /\ (way \in Chain => IsChain(payload))
  BY DEF IInv, PayloadInv
<1>3. PayloadInv'
  BY <1>1 DEF IInv, PayloadInv
<1>4. CASE key # "" /\ ~Fails(m) /\ KeyError(way, key) = ""
  <2>1. pc' = "signed" /\ sig' = [key |-> key, msg |-> m]
    BY <1>4 DEF Sign
  <2>2. sig' = [key |-> key, msg |-> sig'.msg] /\ sig'.msg = m
    BY <2>1
  <2>3. SignatureInv'
    BY <1>1, <1>4, <2>1, <2>2 DEF SignatureInv
  <2>4. WireInv' /\ GotInv'
    BY <2>1 DEF WireInv, GotInv
  <2>5. SignedVerifies' /\ AcceptedSaysTheSame' /\ FailsOnlyAtLimits'
    BY <2>1, Unverified
  <2> QED BY <1>3, <2>3, <2>4, <2>5 DEF IInv
<1>5. CASE ~(key # "" /\ ~Fails(m) /\ KeyError(way, key) = "")
  <2>1. \/ pc' = "raised" /\ key = "" /\ result' = "ValueError"
        \/ pc' = "raised" /\ Fails(m) /\ result' = Root(m).error
        \/ pc' = "raised" /\ KeyError(way, key) # "" /\ result' = KeyError(way, key)
    <3>1. Fails(m) => Root(m).error # ""
      BY <1>2, MessageFails
    <3> QED BY <1>5, <3>1 DEF Sign
  <2>2. KeyError(way, key) # "" =>
          \/ KeyError(way, key) = "ValueError" /\ key \in {"", "junk"}
          \/ KeyError(way, key) = "TypeError" /\ key = "rsa"
    BY DEF KeyError
  <2>3. Fails(m) => \/ Root(m).error = "TypeError" /\ Says(payload, {"big", "big.0"})
                    \/ Root(m).error = "RecursionError" /\ TooDeep(payload)
    BY <1>2, MessageFails
  <2>4. pc' = "raised"
    BY <2>1
  <2>5. \/ result' = "RecursionError" /\ TooDeep(payload)
        \/ result' = "TypeError" /\ (key = "rsa" \/ Says(payload, {"big", "big.0"}))
        \/ result' = "ValueError" /\ key \in {"", "junk"}
    BY <2>1, <2>2, <2>3
  <2>6. SignedVerifies' /\ AcceptedSaysTheSame' /\ FailsOnlyAtLimits'
    BY <1>1, <2>4, <2>5, Unverified
  <2>7. SignatureInv' /\ WireInv' /\ GotInv'
    BY <2>4 DEF SignatureInv, WireInv, GotInv
  <2> QED BY <1>3, <2>6, <2>7 DEF IInv
<1> QED BY <1>4, <1>5

(* The signature goes where it is not signed.                              *)
LEMMA AttachedMessage ==
  ASSUME NEW n, IsValue(n), Typed(n), Mapping(n), NEW w, w \notin Chain, NEW ig,
         ~Fails(Message(n, w, ig)), NEW k \in {"security", "_signature"},
         Root(n).kind = "model" => k = "security"
  PROVE  LET m == Put(n, k, Leaf(Atom("text"))) IN
         /\ IsValue(m) /\ Typed(m)
         /\ ~Opaque(m) /\ ~Fails(to_dict(m)) => Message(m, w, ig) = Message(n, w, ig)
<1> DEFINE m == Put(n, k, Leaf(Atom("text")))
           ks == Unsigned(ig)
<1>1. k \in Name /\ k \in ks /\ Fields \subseteq Name
  BY NameAssumption DEF Fields, Private, Unsigned
<1>2. IsValue(Leaf(Atom("text")))
  BY LeafValue
<1>3. /\ IsValue(m) /\ Root(m).kind = Root(n).kind /\ Agree(m, n, {k})
      /\ \A p \in DOMAIN m : ~Outside(p, {k}) =>
           Tail(p) \in DOMAIN Leaf(Atom("text")) /\ m[p] = Leaf(Atom("text"))[Tail(p)]
  BY <1>1, <1>2, PutFacts
<1>4. \A p \in DOMAIN m : ~Outside(p, {k}) => m[p] = Atom("text")
  BY <1>3, LeafFacts DEF Root
<1>5. ~Fails(to_dict(n)) /\ Message(n, w, ig) = Trimmed(to_dict(n), ks) /\ Clean(Message(n, w, ig))
  BY MessageIs
<1>6. DOMAIN m \subseteq Path
  BY <1>3, ValueFacts
<1> HIDE DEF m, ks
<1>7. Typed(m)
  <2>1. SUFFICES ASSUME Root(m) = Model
                 PROVE  /\ \A p \in DOMAIN m \ {<<>>} :
                             p[1] \in Fields /\ (p[1] = "security" => m[p] # Atom("obj"))
                        /\ Has(m, "step") => m[<<"step">>] # Atom("zero.0")
    BY DEF Typed
  <2>2. Root(n).kind = "model"
    BY <1>3, <2>1, Nodes
  <2>3. Root(n) = Model /\ k = "security"
    BY <2>2, ValueHolds, NodeKinds
  <2>4. ASSUME NEW p \in DOMAIN m \ {<<>>}
        PROVE  p[1] \in Fields /\ (p[1] = "security" => m[p] # Atom("obj"))
    <3>1. CASE p[1] = k
      <4>1. m[p] = Atom("text")
        BY <1>4, <3>1 DEF Outside
      <4> QED BY <2>3, <3>1, <4>1 DEF Fields, Atom
    <3>2. CASE p[1] # k
      <4>1. p \in DOMAIN n /\ m[p] = n[p]
        BY <1>3, <1>6, <3>2 DEF Agree, Outside
      <4> QED BY <2>3, <4>1 DEF Typed
    <3> QED BY <3>1, <3>2
  <2>5. ASSUME Has(m, "step")
        PROVE  m[<<"step">>] # Atom("zero.0")
    <3>1. "step" \in Name
      BY <1>1 DEF Fields
    <3>2. <<"step">> \in Path /\ <<"step">> # <<>> /\ <<"step">>[1] = "step"
      BY <3>1, Singles
    <3>3. Outside(<<"step">>, {k})
      BY <2>3, <3>2 DEF Outside
    <3>4. <<"step">> \in DOMAIN n /\ m[<<"step">>] = n[<<"step">>]
      BY <1>3, <2>5, <3>2, <3>3 DEF Agree, Has
    <3> QED BY <2>3, <3>4 DEF Typed, Has
  <2> QED BY <2>4, <2>5
<1>8. ASSUME ~Opaque(m), ~Fails(to_dict(m))
      PROVE  Message(m, w, ig) = Message(n, w, ig)
  <2>1. \A p \in DOMAIN n : p # <<>> /\ p[1] = k /\ Root(n).kind = "model" => n[p] # Atom("obj")
    <3>1. Root(n).kind = "model" => Root(n) = Model
      BY ValueHolds, NodeKinds
    <3> QED BY <3>1 DEF Typed
  <2>2. Trimmed(to_dict(m), ks) = Trimmed(to_dict(n), ks)
    BY <1>1, <1>5, <1>8, <2>1, AttachFacts DEF m
  <2>3. Message(m, w, ig) = Dumped(Trimmed(to_dict(n), ks))
    BY <1>8, <2>2, MessageFrom DEF ks
  <2>4. Message(m, w, ig) = Dumped(Message(n, w, ig))
    BY <1>5, <2>3
  <2> QED BY <1>5, <2>4, NormalDumped DEF Clean
<1> QED BY <1>3, <1>7, <1>8 DEF m

LEMMA AttachStep ==
  ASSUME IInv, Attach
  PROVE  IInv'
<1>1. PICK k \in IF Root(payload).kind = "model" THEN {"security"} ELSE {"security", "_signature"} :
        payload' = Put(payload, k, Leaf(Atom("text")))
  BY DEF Attach
<1>2. /\ pc = "signed" /\ Mapping(payload) /\ pc' = "attached"
      /\ way' = way /\ key' = key /\ ignore' = ignore /\ sig' = sig
  BY DEF Attach
<1>3. /\ IsValue(payload) /\ Typed(payload)
      /\ key # "" /\ sig = [key |-> key, msg |-> sig.msg] /\ KeyError(way, key) = ""
      /\ sig.msg = Message(payload, way, ignore) /\ ~Fails(sig.msg)
  BY <1>2 DEF IInv, PayloadInv, SignatureInv
<1>4. way \notin Chain
  BY <1>2, <1>3, ChainFacts DEF IInv, PayloadInv
<1>5. k \in {"security", "_signature"} /\ (Root(payload).kind = "model" => k = "security")
  BY <1>1
<1>6. /\ IsValue(payload') /\ Typed(payload')
      /\ ~Opaque(payload') /\ ~Fails(to_dict(payload')) =>
           Message(payload', way, ignore) = Message(payload, way, ignore)
  BY <1>1, <1>2, <1>3, <1>4, <1>5, AttachedMessage
<1>7. PayloadInv'
  BY <1>2, <1>4, <1>6 DEF PayloadInv
<1>8. SignatureInv'
  BY <1>2, <1>3, <1>6 DEF SignatureInv
<1>9. WireInv' /\ GotInv' /\ SignedVerifies' /\ AcceptedSaysTheSame' /\ FailsOnlyAtLimits'
  BY <1>2, Unverified DEF WireInv, GotInv
<1> QED BY <1>7, <1>8, <1>9 DEF IInv

LEMMA SendStep ==
  ASSUME IInv, Send
  PROVE  IInv'
<1> DEFINE j == json_dumps(payload)
<1>1. /\ pc \in {"signed", "attached"}
      /\ payload' = payload /\ way' = way /\ key' = key /\ ignore' = ignore
      /\ sig' = sig /\ intact' = intact /\ got' = got
  BY DEF Send
<1>2. IsValue(payload) /\ (way \in Chain => IsChain(payload))
  BY DEF IInv, PayloadInv
<1>3. PayloadInv'
  BY <1>1 DEF IInv, PayloadInv
<1>4. CASE ~Fails(j)
  <2>1. pc' = "sent" /\ wire' = j
    BY <1>4 DEF Send
  <2>2. /\ ~Fails(to_dict(payload)) /\ j = to_dict(payload) /\ Clean(j) /\ ~TooDeep(payload)
    BY <1>2, <1>4, JsonIs
  <2>3. way \in Chain => j = payload
    BY <1>2, <2>2, ChainFacts
  <2>4. IsJSON(j)
    BY <2>2, CleanJSON
  <2>5. WireInv'
    BY <1>1, <2>1, <2>2, <2>3, <2>4 DEF WireInv
  <2>6. SignatureInv'
    BY <1>1, <2>1 DEF IInv, SignatureInv
  <2>7. GotInv' /\ SignedVerifies' /\ AcceptedSaysTheSame' /\ FailsOnlyAtLimits'
    BY <1>1, <2>1, <2>2, Unverified DEF GotInv
  <2> QED BY <1>3, <2>5, <2>6, <2>7 DEF IInv
<1>5. CASE Fails(j)
  <2>1. pc' = "raised" /\ result' = Root(j).error
    BY <1>5 DEF Send
  <2>2. \/ result' = "RecursionError" /\ TooDeep(payload)
        \/ result' = "TypeError" /\ Says(payload, {"big", "big.0"})
    BY <1>2, <1>5, <2>1, JsonIs
  <2>3. SignedVerifies' /\ AcceptedSaysTheSame' /\ FailsOnlyAtLimits'
    BY <1>1, <2>1, <2>2, Unverified
  <2> QED BY <1>3, <2>1, <2>3 DEF IInv, SignatureInv, WireInv, GotInv
<1> QED BY <1>4, <1>5

LEMMA ReplaceStep ==
  ASSUME IInv, Replace
  PROVE  IInv'
<1>1. /\ pc = "sent" /\ intact' = FALSE
      /\ pc' = pc /\ payload' = payload /\ way' = way /\ key' = key /\ ignore' = ignore
      /\ sig' = sig /\ got' = got /\ result' = result
  BY DEF Replace
<1>2. IsJSON(wire) /\ ~Fails(to_dict(payload)) /\ ~TooDeep(payload)
  BY <1>1 DEF IInv, WireInv
<1>3. IsJSON(wire')
  <2>1. CASE wire' \in Data
    BY <2>1, SigningAssumption
  <2>2. CASE wire' \notin Data
    <3>1. PICK v \in Data : Root(wire).kind = "dict" /\ wire' = Put(wire, "data", v)
      BY <2>2 DEF Replace
    <3>2. "data" \in Name /\ IsJSON(v)
      BY NameAssumption, SigningAssumption DEF Fields
    <3> QED BY <1>2, <3>1, <3>2, PutJSON
  <2> QED BY <2>1, <2>2
<1>4. PayloadInv' /\ SignatureInv'
  BY <1>1 DEF IInv, PayloadInv, SignatureInv
<1>5. WireInv' /\ GotInv' /\ SignedVerifies' /\ AcceptedSaysTheSame' /\ FailsOnlyAtLimits'
  BY <1>1, <1>2, <1>3, Unverified DEF WireInv, GotInv
<1> QED BY <1>4, <1>5 DEF IInv

LEMMA ReceiveStep ==
  ASSUME IInv, Receive
  PROVE  IInv'
<1>1. PICK g \in {wire, from_dict(wire)} :
        IF Fails(g) THEN pc' = "raised" /\ result' = Root(g).error /\ UNCHANGED got
                    ELSE pc' = "got" /\ got' = g /\ UNCHANGED result
  BY DEF Receive
<1>2. /\ pc = "sent"
      /\ payload' = payload /\ way' = way /\ key' = key /\ ignore' = ignore
      /\ sig' = sig /\ wire' = wire /\ intact' = intact
  BY DEF Receive
<1>3. /\ IsJSON(wire) /\ ~Fails(to_dict(payload)) /\ ~TooDeep(payload) /\ IsValue(payload)
      /\ intact => wire = to_dict(payload)
  BY <1>2 DEF IInv, WireInv, PayloadInv
<1>4. PayloadInv'
  BY <1>2 DEF IInv, PayloadInv
<1>5. CASE Fails(g)
  <2>1. IsValue(wire) /\ ~Fails(wire)
    BY <1>3, ValueHolds DEF IsJSON
  <2>2. /\ Root(g).error = "ValueError"
        /\ \E k \in Fields : IF Has(wire, k) THEN ~HasType(wire, k) ELSE k \in Required
    BY <1>5, <2>1, FromDictFails
  <2>3. pc' = "raised" /\ result' = "ValueError" /\ (~intact \/ Unfit(payload))
    <3>1. intact => DOMAIN wire = Said(payload)
      BY <1>3, ToDictNormal
    <3> QED BY <1>1, <1>3, <1>5, <2>2, <3>1 DEF Has, Unfit
  <2>4. SignedVerifies' /\ AcceptedSaysTheSame' /\ FailsOnlyAtLimits'
    BY <1>2, <2>3, Unverified
  <2> QED BY <1>4, <2>3, <2>4 DEF IInv, SignatureInv, WireInv, GotInv
<1>6. CASE ~Fails(g)
  <2>1. pc' = "got" /\ got' = g
    BY <1>1, <1>6
  <2>2. SignatureInv' /\ WireInv'
    BY <1>2, <2>1 DEF IInv, SignatureInv, WireInv
  <2>3. GotInv'
    BY <1>2, <1>6, <2>1 DEF GotInv
  <2>4. SignedVerifies' /\ AcceptedSaysTheSame' /\ FailsOnlyAtLimits'
    BY <1>2, <1>3, <2>1, Unverified
  <2> QED BY <1>4, <2>2, <2>3, <2>4 DEF IInv
<1> QED BY <1>5, <1>6

-----------------------------------------------------------------------------
(* The receiver's payload.                                                 *)

(* A model that arrives has the fields it was sent with.                   *)
LEMMA SentFields ==
  ASSUME NEW n, IsValue(n), Typed(n), Root(n).kind = "model",
         NEW w, w = to_dict(n), ~Fails(w), Clean(w), Root(w).kind = "dict",
         NEW k \in Name, <<k>> \in DOMAIN w
  PROVE  k \in Fields \ Private /\ w[<<k>>] # Default(k)
<1>1. /\ <<k>> \in Path /\ <<k>> # <<>> /\ <<k>>[1] = k
      /\ Front(<<k>>) = <<>> /\ Last(<<k>>) = k
  BY Singles
<1>2. w = [p \in Said(n) |-> Final(n, p)] /\ DOMAIN w = Said(n)
  BY ToDictNormal
<1>3. DOMAIN n \subseteq Path /\ <<k>> \in DOMAIN n /\ <<k>> \in Said(n) /\ IsNode(n[<<k>>]) /\ n[<<>>] = Model
  BY <1>2, SaidDown, ValueFacts, ValueHolds, NodeKinds DEF Root
<1>4. ~Silent(n, <<k>>)
  BY <1>1, <1>3, PrefixRefl DEF Said
<1>5. ~Inside(n, <<>>)
  BY <1>3, RootFacts DEF Inside
<1>6. k \in Fields \ Private
  <2>1. k \in Fields
    BY <1>1, <1>3 DEF Typed, Root
  <2>2. k \notin Private
    BY <1>1, <1>3, <1>4, <1>5, Nodes DEF Silent
  <2> QED BY <2>1, <2>2
<1>7. n[<<k>>] # Default(k)
  BY <1>1, <1>3, <1>4, Nodes DEF Silent
<1>8. w[<<k>>] # Atom("null")
  BY <1>1, <1>2, <1>3 DEF Clean, Normal, Root
<1>9. ASSUME k = "step", w[<<k>>] = Atom("zero")
      PROVE  FALSE
  <2>1. Final(n, <<k>>) = Atom("zero")
    BY <1>2, <1>3, <1>9
  <2>2. n[<<k>>].kind = "atom"
    <3>1. n[<<k>>].kind \in {"atom", "list", "dict", "model", "text"}
      BY <1>3, NodeKinds
    <3> QED BY <1>3, <2>1, <3>1, FinalIs, Nodes
  <2>3. n[<<k>>] = Atom(n[<<k>>].atom) /\ Atom(Norm(n[<<k>>].atom)) = Atom("zero")
    BY <1>3, <2>1, <2>2, FinalIs, NodeKinds
  <2>4. n[<<k>>].atom \in {"zero", "zero.0"}
    BY <2>3, Nodes, NormFacts
  <2>5. n[<<k>>] # Atom("zero")
    BY <1>7, <1>9 DEF Default
  <2>6. n[<<k>>] # Atom("zero.0")
    BY <1>3, <1>9 DEF Typed, Root, Has
  <2> QED BY <2>3, <2>4, <2>5, <2>6
<1> QED BY <1>6, <1>8, <1>9 DEF Default

(* What was sent can be verified.                                          *)
LEMMA ReceivedIs ==
  ASSUME NEW w, IsJSON(w), NEW g \in {w, from_dict(w)}, ~Fails(g)
  PROVE  /\ IsValue(g) /\ ~Opaque(g)
         /\ Clean(w) => ~TooDeep(g) /\ ~Says(g, {"big", "big.0"})
         /\ g = w \/ Root(g) = Model
         /\ Root(g).kind # "model" => g = w
         /\ Root(w).kind # "dict" => g = w
<1>1. CASE g = w
  <2>1. IsValue(w) /\ \A p \in DOMAIN w : w[p].kind # "model"
    BY DEF IsJSON
  <2>2. ~Opaque(w)
    BY <2>1, ValueFacts DEF Opaque, Unconvertible
  <2>3. ASSUME Clean(w)
        PROVE  ~TooDeep(w) /\ ~Says(w, {"big", "big.0"})
    <3>1. Said(w) = DOMAIN w
      BY <2>3, NormalDumped DEF Clean
    <3>2. \A p \in DOMAIN w : Len(p) <= MaxDepth /\ w[p] \notin {Atom("big"), Atom("big.0")}
      BY <2>3, Nodes DEF Clean, Normal
    <3>3. \A p \in DOMAIN w : Len(p) \in Nat
      BY <2>1, ValueFacts, LenProperties DEF Path
    <3>4. ~Says(w, {"big", "big.0"})
      BY <3>1, <3>2 DEF Says
    <3> QED BY <3>1, <3>2, <3>3, <3>4, DepthAssumption DEF TooDeep
  <2> QED BY <1>1, <2>1, <2>2, <2>3
<1>2. CASE g # w
  <2>1. g = from_dict(w) /\ Root(w).kind = "dict"
    BY <1>2 DEF from_dict
  <2>2. /\ IsValue(g) /\ Root(g) = Model /\ ~Opaque(g)
        /\ Clean(w) => ~TooDeep(g) /\ ~Says(g, {"big", "big.0"})
    BY <2>1, FromDictFacts
  <2> QED BY <2>1, <2>2, Nodes
<1> QED BY <1>1, <1>2

(* Only the chain that was signed has its message.                         *)
LEMMA ChainSame ==
  ASSUME NEW n, IsValue(n), IsChain(n),
         NEW w, IsJSON(w), NEW g \in {w, from_dict(w)}, ~Fails(g), Dumped(g) = n
  PROVE  g = n
<1>1. IsValue(g) /\ ~Opaque(g) /\ (g = w \/ Root(g) = Model)
  BY ReceivedIs
<1>2. Root(n) = List /\ ~Fails(n) /\ \A p \in DOMAIN n : n[p] \in {List, Atom("text")}
  BY ChainFacts DEF IsChain
<1>3. n = [p \in Reached(g) |-> Encoded(g, p)]
  BY <1>1, <1>2, DumpedIs
<1>4. /\ g = [p \in DOMAIN g |-> g[p]] /\ Reached(g) \subseteq DOMAIN g /\ <<>> \in Reached(g)
      /\ DOMAIN g \subseteq Path /\ \A p \in DOMAIN g : IsNode(g[p]) /\ (p # <<>> => Front(p) \in DOMAIN g)
  BY <1>1, ReachedDown, ValueFacts
<1>5. CASE Root(g) = Model
  <2>1. Encoded(g, <<>>) = Dict(KeyOrder, {})
    BY <1>1, <1>4, <1>5, EncodedIs, Nodes DEF Root, Opaque
  <2> QED BY <1>2, <1>3, <1>4, <2>1, Nodes DEF Root
<1>6. CASE g = w
  <2>1. \A p \in DOMAIN g : g[p].kind # "model" /\ g[p] \notin {Atom("obj"), Atom("nan")}
    BY <1>6 DEF IsJSON
  <2>2. Reached(g) = DOMAIN g
    <3>1. \A p \in DOMAIN g : ~Omitted(g, p) /\ ~Unconvertible(g, p)
      BY <1>4, <2>1 DEF Omitted, Unconvertible
    <3> QED BY <3>1 DEF Reached
  <2>3. ASSUME NEW p \in DOMAIN g
        PROVE  Encoded(g, p) = g[p]
    <3>1. g[p].kind # "dict"
      <4>1. g[p].kind = "dict" => Encoded(g, p) = Dict(KeyOrder, {})
        BY <1>4, EncodedIs
      <4>2. Encoded(g, p) \in {List, Atom("text")}
        BY <1>2, <1>3, <2>2
      <4> QED BY <4>1, <4>2, Nodes
    <3> QED BY <2>1, <3>1 DEF Encoded
  <2> QED BY <1>3, <1>4, <2>2, <2>3
<1> QED BY <1>1, <1>5, <1>6

(* The message of what arrives is the one that was signed, if nothing was  *)
(* replaced and the receiver sees a model only where there was one.        *)
LEMMA ReceivedMessage ==
  ASSUME NEW n, IsValue(n), Typed(n), ~Opaque(n), ~Fails(to_dict(n)),
         NEW w, w = to_dict(n), Clean(w), NEW g, g = w \/ g = from_dict(w), ~Fails(g),
         Root(g).kind = "model" => Root(n).kind = "model",
         NEW y, y \notin Chain, NEW ig
  PROVE  Message(g, y, ig) = Message(n, y, ig)
<1>1. ~Fails(w) /\ to_dict(w) = w /\ IsJSON(w)
  BY NormalDumped, CleanJSON DEF Clean
<1>2. CASE g = w
  BY <1>1, <1>2, MessageFrom
<1>3. CASE g # w
  <2>1. Root(w).kind = "dict" /\ g = from_dict(w)
    BY <1>3 DEF from_dict
  <2>2. Root(n).kind = "model"
    BY <1>1, <1>3, ReceivedIs
  <2>3. \A k \in Name : <<k>> \in DOMAIN w => k \in Fields \ Private /\ w[<<k>>] # Default(k)
    BY <1>1, <2>1, <2>2, SentFields
  <2>4. to_dict(g) = w
    BY <1>1, <2>1, <2>3, FromDictFacts
  <2> QED BY <1>1, <2>4, MessageFrom
<1> QED BY <1>2, <1>3

(* Payloads with the same message say the same.                            *)
LEMMA SameMessage ==
  ASSUME NEW m, NEW n, IsValue(m), IsValue(n), ~Opaque(m), ~Opaque(n),
         ~Fails(to_dict(m)), ~Fails(to_dict(n)),
         NEW y, y \notin Chain, NEW ig,
         ~Fails(Message(m, y, ig)), Message(m, y, ig) = Message(n, y, ig),
         NEW c, c = IF Mapping(m) THEN Without(m, Unsigned(ig)) ELSE m,
         NEW d, d = IF Mapping(n) THEN Without(n, Unsigned(ig)) ELSE n
  PROVE  Equivalent(c, d)
<1> DEFINE s == Trimmed(to_dict(m), Unsigned(ig))
           t == Trimmed(to_dict(n), Unsigned(ig))
<1>1. Message(m, y, ig) = s
  BY MessageIs
<1>2. Message(n, y, ig) = t
  BY MessageIs
<1>3. [p \in Said(c) |-> Meaning(c, p)] = [p \in DOMAIN s |-> Meaning(s, p)]
  BY MessageMeans
<1>4. [p \in Said(d) |-> Meaning(d, p)] = [p \in DOMAIN t |-> Meaning(t, p)]
  BY MessageMeans
<1>5. s = t
  BY <1>1, <1>2
<1> QED BY <1>3, <1>4, <1>5 DEF Equivalent

LEMMA GotMessage ==
  ASSUME IInv, pc = "got", intact, ~Opaque(payload), way \notin Chain,
         Root(got).kind = "model" => Root(payload).kind = "model"
  PROVE  Message(got, way, ignore) = Message(payload, way, ignore)
<1>1. IsValue(payload) /\ Typed(payload)
  BY DEF IInv, PayloadInv
<1>2. wire = to_dict(payload) /\ Clean(wire) /\ ~Fails(to_dict(payload))
  BY DEF IInv, WireInv
<1>3. (got = wire \/ got = from_dict(wire)) /\ ~Fails(got)
  BY DEF IInv, GotInv
<1> QED BY <1>1, <1>2, <1>3, ReceivedMessage

LEMMA VerifyStep ==
  ASSUME IInv, Verify
  PROVE  IInv'
<1>1. PICK k \in Keys \cup {""}, s \in {sig, NoSig, Garbled} :
        result' = verify_signature(got, s, k, way, ignore) /\ key' = k /\ sig' = s
  BY DEF Verify
<1>2. /\ pc = "got" /\ pc' = "verified"
      /\ payload' = payload /\ way' = way /\ ignore' = ignore
      /\ wire' = wire /\ intact' = intact /\ got' = got
  BY DEF Verify
<1> DEFINE m == Message(got, way, ignore)
<1>3. /\ IsValue(payload) /\ Typed(payload) /\ (way \in Chain => IsChain(payload))
      /\ key # "" /\ sig = [key |-> key, msg |-> sig.msg] /\ KeyError(way, key) = ""
      /\ ~Opaque(payload) => sig.msg = Message(payload, way, ignore)
      /\ IsJSON(wire) /\ ~Fails(to_dict(payload)) /\ ~TooDeep(payload)
      /\ intact => wire = to_dict(payload) /\ Clean(wire) /\ (way \in Chain => wire = payload)
      /\ got \in {wire, from_dict(wire)} /\ ~Fails(got)
  BY <1>2 DEF IInv, PayloadInv, SignatureInv, WireInv, GotInv
<1>4. /\ IsValue(got) /\ ~Opaque(got)
      /\ intact => ~TooDeep(got) /\ ~Says(got, {"big", "big.0"})
      /\ Root(wire).kind # "dict" => got = wire
  BY <1>3, ReceivedIs
<1>5. Fails(m) => \/ Root(m).error = "TypeError" /\ ~intact /\ Says(got, {"big", "big.0"})
                  \/ Root(m).error = "RecursionError" /\ ~intact /\ TooDeep(got)
  BY <1>4, MessageFails
<1>6. NoSig.key = "" /\ Garbled.key = "" /\ sig.key = key
  BY <1>3, PairFacts DEF NoSig, Garbled
<1>7. result' = IF s = NoSig \/ k = "" THEN "False"
                ELSE IF Fails(m) THEN Root(m).error
                ELSE IF s = Garbled /\ way \notin Asymmetric THEN "TypeError"
                ELSE IF KeyError(way, k) = "" /\ s = [key |-> k, msg |-> m] THEN "True" ELSE "False"
  BY <1>1 DEF verify_signature
<1>8. PayloadInv' /\ SignatureInv' /\ WireInv' /\ GotInv'
  BY <1>2 DEF IInv, PayloadInv, SignatureInv, WireInv, GotInv
<1>9. SignedVerifies'
  <2>1. SUFFICES ASSUME intact, s \notin {NoSig, Garbled}, k = s.key, ~Opaque(payload),
                        Root(got).kind = "model" => Root(payload).kind = "model"
                 PROVE  result' = "True"
    BY <1>1, <1>2 DEF SignedVerifies
  <2>2. s = sig /\ k = key
    BY <1>1, <1>6, <2>1
  <2>3. ~Fails(m)
    BY <1>5, <2>1
  <2>4. m = Message(payload, way, ignore)
    <3>1. CASE way \in Chain
      <4>1. Root(wire).kind # "dict"
        BY <1>3, <2>1, <3>1, ChainFacts, Nodes
      <4> QED BY <1>3, <1>4, <2>1, <3>1, <4>1
    <3>2. CASE way \notin Chain
      BY <1>2, <2>1, <3>2, GotMessage
    <3> QED BY <3>1, <3>2
  <2>5. sig.msg = m
    BY <1>3, <2>1, <2>4
  <2>6. sig = [key |-> k, msg |-> m]
    BY <1>3, <2>2, <2>5
  <2> QED BY <1>3, <1>7, <2>1, <2>2, <2>3, <2>6
<1>10. AcceptedSaysTheSame'
  <2>1. SUFFICES ASSUME result' = "True"
                 PROVE  /\ s \notin {NoSig, Garbled} /\ k = s.key
                        /\ ~Opaque(payload) => Equivalent(Content(payload), Content(got))
    BY <1>1, <1>2 DEF AcceptedSaysTheSame, Content
  <2>2. s # NoSig /\ k # "" /\ ~Fails(m) /\ s = [key |-> k, msg |-> m]
    BY <1>5, <1>7, <2>1
  <2>3. s.key = k /\ s.msg = m
    BY <2>2
  <2>4. s \notin {NoSig, Garbled} /\ s = sig
    BY <1>1, <1>6, <2>2, <2>3
  <2>5. ASSUME ~Opaque(payload)
        PROVE  Equivalent(Content(payload), Content(got))
    <3>1. m = Message(payload, way, ignore)
      BY <1>3, <2>3, <2>4, <2>5
    <3>2. CASE way \in Chain
      <4>1. m = Dumped(got) /\ Message(payload, way, ignore) = payload
        BY <1>3, <3>2, ChainFacts DEF Message
      <4>2. got = payload
        BY <1>3, <3>1, <3>2, <4>1, ChainSame
      <4> QED BY <4>2 DEF Equivalent
    <3>3. CASE way \notin Chain
      <4>1. ~Fails(to_dict(got))
        BY <1>4, <2>2, <3>3, MessageIs
      <4>2. ~Fails(Message(payload, way, ignore))
        BY <2>2, <3>1
      <4>3. /\ Content(payload) = IF Mapping(payload) THEN Without(payload, Unsigned(ignore)) ELSE payload
            /\ Content(got) = IF Mapping(got) THEN Without(got, Unsigned(ignore)) ELSE got
        BY <3>3 DEF Content
      <4> QED BY <1>3, <1>4, <2>5, <3>1, <3>3, <4>1, <4>2, <4>3, SameMessage
    <3> QED BY <3>2, <3>3
  <2> QED BY <2>2, <2>3, <2>4, <2>5
<1>11. FailsOnlyAtLimits'
  <2>1. \/ result' \in {"True", "False"}
        \/ result' = "TypeError" /\ s = Garbled /\ way \notin Asymmetric
        \/ result' = "TypeError" /\ ~intact /\ Says(got, {"big", "big.0"})
        \/ result' = "RecursionError" /\ ~intact /\ TooDeep(got)
    BY <1>5, <1>7
  <2> QED BY <1>1, <1>2, <1>3, <2>1 DEF FailsOnlyAtLimits
<1> QED BY <1>8, <1>9, <1>10, <1>11 DEF IInv

(* Every step keeps the invariant.                                         *)
LEMMA NextStep ==
  ASSUME IInv, [Next]_vars
  PROVE  IInv'
<1>1. CASE Sign
  BY <1>1, SignStep
<1>2. CASE Attach
  BY <1>2, AttachStep
<1>3. CASE Send
  BY <1>3, SendStep
<1>4. CASE Replace
  BY <1>4, ReplaceStep
<1>5. CASE Receive
  BY <1>5, ReceiveStep
<1>6. CASE Verify
  BY <1>6, VerifyStep
<1>7. CASE UNCHANGED vars
  <2>1. UNCHANGED <<pc, payload, way, key, ignore, sig, wire, intact, got, result>>
    BY <1>7 DEF vars
  <2>2. PayloadInv' /\ SignatureInv' /\ WireInv' /\ GotInv'
    BY <2>1 DEF IInv, PayloadInv, SignatureInv, WireInv, GotInv
  <2>3. SignedVerifies'
    BY <2>1 DEF IInv, SignedVerifies
  <2>4. AcceptedSaysTheSame'
    BY <2>1 DEF IInv, AcceptedSaysTheSame, Content
  <2>5. FailsOnlyAtLimits'
    BY <2>1 DEF IInv, FailsOnlyAtLimits
  <2> QED BY <2>2, <2>3, <2>4, <2>5 DEF IInv
<1> QED BY <1>1, <1>2, <1>3, <1>4, <1>5, <1>6, <1>7 DEF Next

-----------------------------------------------------------------------------
(* The invariant holds in every state, from signing to the result of the   *)
(* verification.                                                           *)
THEOREM SigningInvariant == Spec => []IInv
<1>1. Init => IInv
  BY InitStep
<1>2. IInv /\ [Next]_vars => IInv'
  BY NextStep
<1> QED BY <1>1, <1>2, PTL DEF Spec

(* sign_payload and verify_signature: a payload that is received as it was *)
(* sent verifies with the key it was signed with, whatever it holds and    *)
(* wherever its signature was attached.                                    *)
THEOREM SignedVerifiesTheorem == Spec => []SignedVerifies
<1>1. IInv => SignedVerifies
  BY DEF IInv
<1> QED BY <1>1, SigningInvariant, PTL

(* verify_signature accepts nothing but what was signed, with the key it   *)
(* was signed with, up to what the canonical form leaves out.              *)
THEOREM AcceptedSaysTheSameTheorem == Spec => []AcceptedSaysTheSame
<1>1. IInv => AcceptedSaysTheSame
  BY DEF IInv
<1> QED BY <1>1, SigningInvariant, PTL

(* to_dict, json_dumps, from_dict and the signing functions raise only at  *)
(* their limits, and the verification of what was sent never does.         *)
THEOREM FailsOnlyAtLimitsTheorem == Spec => []FailsOnlyAtLimits
<1>1. IInv => FailsOnlyAtLimits
  BY DEF IInv
<1> QED BY <1>1, SigningInvariant, PTL
=============================================================================
