---------------------------- MODULE Serialization ---------------------------
(***************************************************************************)
(* The canonical form of payloads (src/rxon/utils.py).  A Python value is  *)
(* a tree of nodes, given as a function on paths: <<>> is the path of the  *)
(* value itself, Append(p, k) that of entry k of the container at p.  A    *)
(* key is written as the text that stands for it in JSON, the positions of *)
(* a list are keys too.  What the code does by recursion is said of every  *)
(* path at once: the depth of a call is the length of its path.            *)
(*                                                                         *)
(* A node is an atom, a list, a dict, or a model, i.e. a msgspec Struct.   *)
(* Atoms are names for values the code treats differently:                 *)
(*   null, zero, one, text      values of JSON                             *)
(*   zero.0, one.0, half        floats, two of them whole                  *)
(*   big, big.0                 a whole number beyond 64 bits: int, float  *)
(*   nan                        a float JSON cannot express                *)
(*   obj, obj.str               an object of some other class, its str()   *)
(* orjson and msgspec are modelled by what they do with these.  An         *)
(* exception is a tree of its own.                                         *)
(***************************************************************************)
EXTENDS Integers, Sequences, SequencesExt

CONSTANTS
  MaxDepth,   \* _MAX_RECURSION_DEPTH
  Name,       \* the keys that occur
  KeyOrder    \* these, as the sort of orjson orders them

ASSUME DepthAssumption == MaxDepth \in Nat

Atom(a) == [kind |-> "atom", atom |-> a]
List    == [kind |-> "list"]
Model   == [kind |-> "model"]
Text(n) == [kind |-> "text", of |-> n]      \* the str() of model n

\* order: a list of keys in which those of the dict come; other: the keys
\* among them that are no strings.
Dict(order, other) == [kind |-> "dict", order |-> order, other |-> other]

Leaf(node) == [p \in {<<>>} |-> node]
Raised(e)  == Leaf([kind |-> "raise", error |-> e])
Null       == Leaf(Atom("null"))

Root(n)   == n[<<>>]
Fails(n)  == Root(n).kind = "raise"
Has(n, k) == <<k>> \in DOMAIN n

IsNode(x) ==
  \/ x.kind = "atom" /\ x = Atom(x.atom)
  \/ x \in {List, Model}
  \/ x.kind = "dict" /\ x = Dict(x.order, x.other)
  \/ x.kind = "text" /\ x = Text(x.of)

\* Every node but the root is an entry of a container of the tree.
IsValue(n) ==
  /\ n = [p \in DOMAIN n |-> n[p]]
  /\ DOMAIN n \subseteq Seq(Name) /\ <<>> \in DOMAIN n
  /\ \A p \in DOMAIN n :
       /\ IsNode(n[p])
       /\ \A q \in Prefixes(p) \ {p} : q \in DOMAIN n /\ n[q].kind \in {"list", "dict", "model"}

\* The value at path q of n.
At(n, q) == [p \in {SubSeq(r, Len(q) + 1, Len(r)) : r \in {s \in DOMAIN n : IsPrefix(q, s)}} |-> n[q \o p]]

\* n without the entries ks, and n with v as entry k: a new key comes last.
Without(n, ks) == [p \in {q \in DOMAIN n : q = <<>> \/ q[1] \notin ks} |-> n[p]]
Put(n, k, v) ==
  LET root == IF Root(n).kind = "dict"
              THEN Dict(IF Has(n, k) THEN Root(n).order ELSE Append(Root(n).order, k), Root(n).other \ {k})
              ELSE Root(n)
  IN [p \in {q \in DOMAIN n : q = <<>> \/ q[1] # k} \cup {<<k>> \o q : q \in DOMAIN v} |->
        IF p = <<>> THEN root ELSE IF p[1] = k THEN v[Tail(p)] ELSE n[p]]

-----------------------------------------------------------------------------
(* The model: its fields, Null as the default of those without one, and    *)
(* the keys that start with "_".                                           *)
Fields     == {"id", "data", "step", "security", "_tmp"}
Required   == {"id"}
Private    == {"_tmp", "_signature"}
ASSUME NameAssumption == Fields \cup Private \subseteq Name

Default(k) == IF k = "step" THEN Atom("zero") ELSE Atom("null")

(* msgspec.to_builtins for the model at q of n: it fails when there is     *)
(* something of another class below q.                                     *)
Unconvertible(n, q) ==
  n[q].kind = "model" /\ \E p \in DOMAIN n : IsPrefix(q, p) /\ n[p] = Atom("obj")

Inside(n, p) == \E q \in DOMAIN n : IsPrefix(q, p) /\ q # p /\ n[q].kind = "model"

(* The entries that are left out: by to_builtins the fields of a model     *)
(* that still have their default (omit_defaults), by default_handler the   *)
(* private ones of the model that it is called for; models inside that one *)
(* are dicts by then.                                                      *)
Omitted(n, p) ==
  /\ p # <<>> /\ n[Front(p)].kind = "model"
  /\ n[p] = Default(Last(p)) \/ (Last(p) \in Private /\ ~Inside(n, Front(p)))

(* What dumps comes to: nothing below an entry that is left out or a model *)
(* that becomes its str().                                                 *)
Reached(n) ==
  {p \in DOMAIN n : \A q \in DOMAIN n : IsPrefix(q, p) =>
     ~Omitted(n, q) /\ (q # p => ~Unconvertible(n, q))}

(* default_handler: a model becomes a dict, or its str() when it holds     *)
(* something msgspec cannot convert; objects of other classes their str(). *)
default_handler(n, p) ==
  IF n[p].kind # "model" THEN Atom("obj.str")
  ELSE IF Unconvertible(n, p) THEN Text(At(n, p)) ELSE Dict(KeyOrder, {})

(* orjson.dumps, as the value orjson.loads reads back: keys are sorted     *)
(* (OPT_SORT_KEYS), all of them are strings (OPT_NON_STR_KEYS).            *)
Encoded(n, p) ==
  CASE n[p].kind = "model" \/ n[p] = Atom("obj") -> default_handler(n, p)
    [] n[p].kind = "dict"   -> Dict(KeyOrder, {})
    [] n[p] = Atom("nan")   -> Atom("null")
    [] OTHER                -> n[p]

Dumped(n) ==
  IF \E p \in Reached(n) : n[p] = Atom("big") THEN Raised("TypeError")
  ELSE [p \in Reached(n) |-> Encoded(n, p)]

(* float.is_integer() and int().                                           *)
Whole(a) ==
  CASE a = "zero.0" -> "zero" [] a = "one.0" -> "one" [] a = "big.0" -> "big" [] OTHER -> a

\* What is kept of value n: all but None in a dict.
Kept(n) == {p \in DOMAIN n : ~(p # <<>> /\ n[Front(p)].kind = "dict" /\ n[p] = Atom("null"))}

Finalized(node) == IF node.kind = "atom" THEN Atom(Whole(node.atom)) ELSE node

FinalizeTooDeep(n) ==           \* mutant: one level more than the limit
  IF \E p \in Kept(n) : Len(p) > MaxDepth + 1 THEN Raised("RecursionError")
  ELSE [p \in Kept(n) |-> Finalized(n[p])]

_finalize_structure(n) ==
  IF \E p \in Kept(n) : Len(p) > MaxDepth THEN Raised("RecursionError")
  ELSE [p \in Kept(n) |-> Finalized(n[p])]

to_dict(n) ==
  IF n = Null THEN Null
  ELSE LET j == Dumped(n) IN IF Fails(j) THEN j ELSE _finalize_structure(j)

(* json_dumps, and calculate_dict_hash with an ideal hash: the bytes are   *)
(* the same because to_dict has sorted the keys already.                   *)
json_dumps(n) == LET d == to_dict(n) IN IF Fails(d) THEN d ELSE Dumped(d)

(* What loads returns.                                                     *)
IsJSON(n) ==
  /\ IsValue(n)
  /\ \A p \in DOMAIN n : n[p].kind # "model" /\ n[p] \notin {Atom("obj"), Atom("nan"), Atom("big")}

(* The fields' types: id is a text, step a whole number, security a model  *)
(* that text stands for, or None; data and _tmp may be anything.           *)
HasType(n, k) ==
  LET v == n[<<k>>] IN
  CASE k = "id"       -> v.kind = "text" \/ v \in {Atom("text"), Atom("obj.str")}
    [] k = "step"     -> v \in {Atom("zero"), Atom("one")}
    [] k = "security" -> v \in {Atom("text"), Atom("null")}
    [] OTHER          -> TRUE

(* from_dict for the model: what is no dict is handed through, unknown     *)
(* keys are dropped, missing fields get their default; a field that is     *)
(* required and missing or of the wrong type makes it fail.                *)
from_dict(n) ==
  IF Root(n).kind # "dict" THEN n
  ELSE IF \E k \in Fields : IF Has(n, k) THEN ~HasType(n, k) ELSE k \in Required
       THEN Raised("ValueError")
  ELSE [p \in {<<>>} \cup {<<k>> : k \in Fields} \cup {q \in DOMAIN n : q # <<>> /\ q[1] \in Fields} |->
          IF p = <<>> THEN Model ELSE IF p \in DOMAIN n THEN n[p] ELSE Default(p[1])]

-----------------------------------------------------------------------------
(* The reference: when two payloads say the same.                          *)
Mapping(n) == Root(n).kind \in {"dict", "model"}

\* A model whose str() stands for all of it.
Opaque(n) == Unconvertible(n, <<>>)

\* A mapping says nothing by None, and a model nothing by a default and, if
\* it is not inside another, by a private field.
Silent(n, p) ==
  /\ p # <<>>
  /\ LET up == n[Front(p)].kind IN
     \/ up \in {"dict", "model"} /\ n[p] \in {Atom("null"), Atom("nan")}
     \/ up = "model" /\ n[p] = Default(Last(p))
     \/ up = "model" /\ Last(p) \in Private /\ ~Inside(n, Front(p))

Said(n) ==
  {p \in DOMAIN n : \A q \in DOMAIN n : IsPrefix(q, p) =>
     ~Silent(n, q) /\ (q # p => ~Unconvertible(n, q))}

\* A model that msgspec cannot convert means its str(), and that is about
\* all of its fields, private ones and defaults too.
Meaning(n, p) ==
  CASE Unconvertible(n, p) -> Text(At(n, p))
    [] n[p].kind \in {"dict", "model"} /\ ~Unconvertible(n, p) -> [kind |-> "mapping"]
    [] n[p] = Atom("nan") -> Atom("null")
    [] n[p] = Atom("obj") -> Atom("obj.str")
    [] n[p] = Atom("zero.0") -> Atom("zero")
    [] n[p] = Atom("one.0")  -> Atom("one")
    [] n[p] = Atom("big.0")  -> Atom("big")
    [] OTHER -> n[p]

Equivalent(m, n) == [p \in Said(m) |-> Meaning(m, p)] = [p \in Said(n) |-> Meaning(n, p)]

\* Nested deeper than the limit.
TooDeep(n) == \E p \in Said(n) : Len(p) > MaxDepth

Says(n, atoms) == \E p \in Said(n) : n[p] \in {Atom(a) : a \in atoms}
=============================================================================
