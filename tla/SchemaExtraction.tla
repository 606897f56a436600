--------------------------- MODULE SchemaExtraction -------------------------
(***************************************************************************)
(* The schemas of handler functions and skill contracts (the functions     *)
(* extract_*_from_func and extract_skill_contract of src/rxon/schema.py),  *)
(* on top of the cache of type schemas.                                    *)
(*                                                                         *)
(* A thread asks for one schema of a function or for the contract of a     *)
(* blueprint, i.e. for the schemas of several functions one after the      *)
(* other.  The schema of a function is read from an attribute of the       *)
(* function, or computed from its signature with calls of                  *)
(* extract_json_schema, and left in the attribute.  Nothing locks the      *)
(* attribute.                                                              *)
(*                                                                         *)
(* Annotations may be text that names types a module defines later: until  *)
(* that is done (defined) the hints of a function that uses text cannot be *)
(* resolved, nor those of some dataclasses.  A schema is modelled by the   *)
(* type it is the schema of, and whether it is truncated.                  *)
(***************************************************************************)
EXTENDS TypeSchemaCache, SequencesExt, FiniteSets

CONSTANTS
  Functions,
  Signature,     \* of a function: params, returns, known, writable, text
  Asks,          \* bound: the functions that are asked for, <<function, kind, ext>>
  Contracts,     \* bound: the contracts that are asked for, <<blueprint, ext>>, a
                 \* blueprint being a record: start, handlers, conditional, ends, transitions
  Direct,        \* bound: the types asked for directly, <<type, ext>>
  Structured,    \* the types whose schema is that of an object with fields
  Simple,        \* the types that are known by name: str, int, float, bool
  Str, AnyType, Dict, Unannotated, NoneType,     \* types; the first four in Types
  MaxCalls,      \* bound: the requests
  Custom,        \* the schema an extractor makes
  None, Unset, NoBlueprint

Raised == [raised |-> TRUE]     \* RecursionError, as the outcome of a request

Kinds == {"input", "output", "arg"}

Param == [name : STRING, kind : {"business", "header", "system", "variadic"},
          type : Types, default : BOOLEAN]

ASSUME SchemaAssumption ==
  /\ {Str, AnyType, Dict, Unannotated} \subseteq Types /\ NoneType \notin Types
  /\ \A ty \in {AnyType, Dict, Unannotated} : Nested[ty] = <<>> /\ ty \notin Structured
  /\ None \notin Functions /\ Raised \notin Types \cup {None}

\* The parameters of a function have different names.
ASSUME SignatureAssumption ==
  /\ Signature \in [Functions -> [params : Seq(Param), returns : Types \cup {NoneType},
                                  known : BOOLEAN, writable : BOOLEAN, text : BOOLEAN]]
  /\ \A f \in Functions : LET ps == Signature[f].params IN
       \A i, j \in 1 .. Len(ps) : ps[i].name = ps[j].name => i = j

ASSUME RequestAssumption ==
  /\ Asks \subseteq Functions \X Kinds \X BOOLEAN
  /\ Direct \subseteq Types \X BOOLEAN
  /\ \A c \in Contracts : LET b == c[1] IN
       /\ b # NoBlueprint /\ c[2] \in BOOLEAN
       /\ \A s \in DOMAIN b.handlers : b.handlers[s] \in Functions
       /\ b.conditional \in Seq([state : STRING, func : Functions])
       /\ b.ends \in Seq(STRING)

VARIABLES
  early,         \* the functions that were looked at before
  attr,          \* _rxon_input_schema and _rxon_output_schema of a function
  job,           \* per thread, what it was asked for
  calls          \* number of requests

funVars  == <<defined, early, attr, job, calls>>
allVars  == <<vars, funVars>>

-----------------------------------------------------------------------------
(* The elements of a sequence that are in A, in their order.               *)
Where(s, A) ==
  LET upto[i \in 0 .. Len(s)] ==
        IF i = 0 THEN <<>>
        ELSE IF s[i] \in A THEN Append(upto[i - 1], s[i]) ELSE upto[i - 1]
  IN upto[Len(s)]

(* What a signature says.                                                  *)

BusinessWithHeaders ==        \* mutant: Header annotations are not looked at
  [f \in Functions |-> [resolved \in BOOLEAN |->
     Where(Signature[f].params, {p \in Param : p.kind \notin {"system", "variadic"}})]]

(* business_params: a Header is recognised once the hint is resolved.      *)
Business == [f \in Functions |-> [resolved \in BOOLEAN |->
  Where(Signature[f].params,
        {p \in Param : p.kind \notin {"system", "variadic"} \cup IF resolved THEN {"header"} ELSE {}})]]

Single(f, resolved) == Len(Business[f][resolved]) = 1

\* A single parameter named input without a model says nothing.
Untyped(f, resolved) ==
  LET ps == Business[f][resolved] IN
  \/ ps = <<>>
  \/ /\ Len(ps) = 1 /\ ps[1].name = "input"
     /\ ps[1].type \in {Unannotated} \cup IF resolved THEN {AnyType, Dict} ELSE {}

\* The annotation is text that the code does not look up.
Textual(p, resolved) == ~resolved /\ p.type # Unannotated

(* The types whose schema is asked for.                                    *)
Asked == [f \in Functions |-> [kind \in Kinds |-> [resolved \in BOOLEAN |->
  LET sg == Signature[f] IN
  CASE kind = "input" /\ ~Untyped(f, resolved) ->
         Where(Business[f][resolved],
               {p \in Param : ~Textual(p, resolved)
                              /\ (Single(f, resolved) \/ p.type \notin {Unannotated, AnyType})})
    [] kind = "output" /\ resolved /\ sg.returns \notin {NoneType, Dict, Unannotated} ->
         <<[name |-> "return", type |-> sg.returns]>>
    [] kind = "arg" /\ resolved /\ sg.params # <<>> /\ sg.params[1].type # Unannotated ->
         <<sg.params[1]>>               \* the first parameter stands for arg_name
    [] OTHER -> <<>>]]]

\* The schema of a type, or of one inside it, that was made of raw annotations.
Truncated(ty) == [truncated |-> ty]

\* A schema as JSON has it; {} is the schema of Any.
AsSchema(o) ==
  IF o = NoSchema THEN None
  ELSE IF made[o].custom THEN Custom
  ELSE IF ~made[o].whole THEN Truncated(made[o].type)
  ELSE IF made[o].type = Unannotated THEN Str ELSE made[o].type

Or(s, default) == IF s \in {None, AnyType} THEN default ELSE s

(* The schema of the property a parameter becomes, given the schemas that  *)
(* were asked for.                                                         *)
Property(f, resolved, p, got) ==
  LET here == {i \in DOMAIN got : Asked[f]["input"][resolved][i].name = p.name}
      fall == IF Single(f, resolved) THEN Str ELSE AnyType
  IN IF Textual(p, resolved) THEN IF p.type \in Simple THEN p.type ELSE Str
     ELSE IF here = {} THEN AnyType
     ELSE Or(got[CHOOSE i \in here : TRUE], fall)

(* The schema of an object with the given properties.                      *)
Object(props, required) == [props |-> props, required |-> required]

Input(f, resolved, got) ==
  LET ps == Business[f][resolved]
      Named(n) == CHOOSE p \in ToSet(ps) : p.name = n
  IN IF Untyped(f, resolved) THEN None
     ELSE IF Single(f, resolved) /\ ~Textual(ps[1], resolved) /\ ps[1].type \in Structured THEN got[1]
     ELSE Object([n \in {p.name : p \in ToSet(ps)} |-> Property(f, resolved, Named(n), got)],
                 {p.name : p \in {p \in ToSet(ps) : ~p.default}})

Computed(f, kind, resolved, got) ==
  IF kind = "input" THEN Input(f, resolved, got) ELSE IF got = <<>> THEN None ELSE got[1]

-----------------------------------------------------------------------------
(* extract_skill_contract: which schemas are asked for, and what is made   *)
(* of them.                                                                *)

StartHandler(b) ==
  IF b.start = "" THEN None
  ELSE IF b.start \in DOMAIN b.handlers THEN b.handlers[b.start]
  ELSE LET cs == Where(b.conditional, {c \in ToSet(b.conditional) : c.state = b.start})
       IN IF cs = <<>> THEN None ELSE cs[1].func

Plan(b) ==
  (IF StartHandler(b) = None THEN <<>> ELSE <<[f |-> StartHandler(b), kind |-> "input"]>>)
  \o LET es == Where(b.ends, DOMAIN b.handlers)
     IN [i \in DOMAIN es |-> [f |-> b.handlers[es[i]], kind |-> "output"]]

AnyOf(ss) == CASE ss = {} -> None [] Cardinality(ss) = 1 -> CHOOSE s \in ss : TRUE
               [] OTHER -> [anyOf |-> ss]

Statuses(b) == IF b.transitions /\ b.ends # <<>> THEN ToSet(b.ends) ELSE {"success", "failure"}

Contract(b, plan, results) ==
  [input    |-> IF plan # <<>> /\ plan[1].kind = "input" THEN results[1] ELSE None,
   output   |-> AnyOf({results[i] : i \in {i \in DOMAIN plan : plan[i].kind = "output"}} \ {None, AnyType}),
   statuses |-> Statuses(b)]

-----------------------------------------------------------------------------
(* Asking.                                                                 *)

NoJob == [pc |-> "idle", b |-> NoBlueprint, plan |-> <<>>, ext |-> FALSE, resolved |-> FALSE,
          got |-> <<>>, results |-> <<>>, result |-> None]

Running(t) == job[t].pc \notin {"idle", "done"}

SetJob(t, j) == job' = [job EXCEPT ![t] = j]

Ask(t, b, plan, ext) ==
  /\ ~Running(t) /\ stack[t] = <<>>
  /\ calls < MaxCalls /\ calls' = calls + 1
  /\ SetJob(t, [NoJob EXCEPT !.pc = IF plan = <<>> THEN "done" ELSE "attribute",
                             !.b = b, !.plan = plan, !.ext = ext,
                             !.result = IF plan = <<>> THEN Contract(b, plan, <<>>) ELSE None])
  /\ UNCHANGED <<vars, defined, early, attr>>

(* extract_json_schema called from outside.                                *)
AskSchema(t, ty, ext) ==
  /\ ~Running(t)
  /\ calls < MaxCalls /\ calls' = calls + 1
  /\ Call(t, ty, ext)
  /\ UNCHANGED <<defined, early, attr, job>>

AskFunction(t, f, kind, ext) == Ask(t, NoBlueprint, <<[f |-> f, kind |-> kind]>>, ext)

AskContract(t, b, ext) == Ask(t, b, Plan(b), ext)

Current(t) == job[t].plan[Len(job[t].results) + 1]

(* One function is done, with result r: the next one, or the end.          *)
Deliver(t, r) ==
  LET j  == job[t]
      rs == Append(j.results, r)
  IN SetJob(t, [j EXCEPT !.pc = IF r = Raised \/ Len(rs) = Len(j.plan) THEN "done" ELSE "attribute",
                         !.results = rs, !.got = <<>>,
                         !.result = IF r = Raised \/ j.b = NoBlueprint THEN r
                                    ELSE IF Len(rs) = Len(j.plan) THEN Contract(j.b, j.plan, rs)
                                    ELSE None])

(* hasattr(func, "_rxon_..._schema"), without an extractor.                *)
Read(t) ==
  /\ ~job[t].ext /\ Current(t).kind # "arg"
  /\ attr[Current(t).f][Current(t).kind] # Unset

Attribute(t) ==
  LET c == Current(t) IN
  /\ job[t].pc = "attribute"
  /\ CASE Read(t) -> Deliver(t, attr[c.f][c.kind])
       [] ~Read(t) /\ c.kind = "input" /\ ~Signature[c.f].known -> Deliver(t, None)
       [] OTHER -> SetJob(t, [job[t] EXCEPT !.pc = "hints"])
  /\ UNCHANGED <<vars, calls, defined, early, attr>>

(* get_type_hints                                                          *)
Hints(t) ==
  /\ job[t].pc = "hints"
  /\ SetJob(t, [job[t] EXCEPT !.pc = "types", !.resolved = defined \/ ~Signature[Current(t).f].text])
  /\ early' = IF defined THEN early ELSE early \cup {Current(t).f}
  /\ UNCHANGED <<vars, calls, defined, attr>>

Pending(t) ==
  LET ps == Asked[Current(t).f][Current(t).kind][job[t].resolved]
  IN SubSeq(ps, Len(job[t].got) + 1, Len(ps))

(* extract_json_schema for the next parameter.                             *)
AskType(t) ==
  /\ job[t].pc = "types" /\ Pending(t) # <<>>
  /\ Call(t, Pending(t)[1].type, job[t].ext)
  /\ SetJob(t, [job[t] EXCEPT !.pc = "answer"])
  /\ UNCHANGED <<calls, defined, early, attr>>

StoreAlways(t) == Signature[Current(t).f].writable /\ Current(t).kind # "arg"
  \* mutant: what an extractor made is kept

Stored(t) == ~job[t].ext /\ Signature[Current(t).f].writable /\ Current(t).kind # "arg"

(* The result goes into the attribute and to the caller.                   *)
Conclude(t, r) ==
  /\ attr' = IF Stored(t) THEN [attr EXCEPT ![Current(t).f][Current(t).kind] = r] ELSE attr
  /\ Deliver(t, r)

(* It has returned, or raised, which only the input schema lets through.   *)
Answer(t) ==
  /\ job[t].pc = "answer" /\ stack[t] = <<>>
  /\ IF ret[t] # Recursion
     THEN SetJob(t, [job[t] EXCEPT !.pc = "types", !.got = Append(@, AsSchema(ret[t]))])
          /\ UNCHANGED attr
     ELSE IF Current(t).kind = "input" THEN Deliver(t, Raised) /\ UNCHANGED attr
     ELSE Conclude(t, None)
  /\ UNCHANGED <<vars, calls, defined, early>>

Finish(t) ==
  /\ job[t].pc = "types" /\ Pending(t) = <<>>
  /\ Conclude(t, Computed(Current(t).f, Current(t).kind, job[t].resolved, job[t].got))
  /\ UNCHANGED <<vars, calls, defined, early>>

(* The module is complete: names can be resolved.                          *)
Define ==
  /\ ~defined /\ defined' = TRUE
  /\ UNCHANGED <<vars, early, attr, job, calls>>

ContractInit ==
  /\ Init
  /\ defined = FALSE /\ early = {}
  /\ attr = [f \in Functions |-> [input |-> Unset, output |-> Unset]]
  /\ job = [t \in Threads |-> NoJob]
  /\ calls = 0

ContractStep(t) ==
  \/ Step(t) /\ UNCHANGED funVars
  \/ Attribute(t) \/ Hints(t) \/ AskType(t) \/ Answer(t) \/ Finish(t)

ContractNext ==
  \/ Define
  \/ \E t \in Threads :
       \/ \E d \in Direct : AskSchema(t, d[1], d[2])
       \/ \E a \in Asks : AskFunction(t, a[1], a[2], a[3])
       \/ \E c \in Contracts : AskContract(t, c[1], c[2])
       \/ ContractStep(t)

(* A thread that can run is eventually scheduled.                          *)
ContractSpec ==
  /\ ContractInit /\ [][ContractNext]_allVars
  /\ \A t \in Threads : WF_allVars(ContractStep(t))

-----------------------------------------------------------------------------
(* The reference: the schemas that a thread may get that is alone, without *)
(* cache or extractor: one at most, but for types of which a part can be   *)
(* truncated.                                                              *)

Fails(ty) == Endless[ty] /\ ty \notin Generic

Fresh(ty) ==
  (IF Fails(ty) THEN {}
   ELSE {IF ty \in Opaque \/ Endless[ty] THEN None ELSE IF ty = Unannotated THEN Str ELSE ty})
  \cup IF Safe[ty] THEN {} ELSE {Truncated(ty)}

DueParams(f, resolved) ==
  {p \in ToSet(Signature[f].params) :
     p.kind \in {"business"} \cup IF resolved THEN {} ELSE {"header"}}

DueProperty(f, resolved, p) ==
  LET some(default) == {Or(s, default) : s \in Fresh(p.type)}
  IN IF ~resolved /\ p.type # Unannotated THEN {IF p.type \in Simple THEN p.type ELSE Str}
     ELSE IF DueParams(f, resolved) = {p} THEN some(Str)
     ELSE IF p.type = Unannotated THEN {AnyType} ELSE some(AnyType)

DueObject(f, resolved, ps) ==
  LET the(n) == CHOOSE p \in ps : p.name = n
      names  == {p.name : p \in ps}
      values == UNION {DueProperty(f, resolved, p) : p \in ps}
  IN {Object(props, {p.name : p \in {p \in ps : ~p.default}}) :
        props \in {q \in [names -> values] : \A n \in names : q[n] \in DueProperty(f, resolved, the(n))}}

DueInput(f, resolved) ==
  LET ps      == DueParams(f, resolved)
      untyped == {Unannotated} \cup IF resolved THEN {AnyType, Dict} ELSE {}
  IN IF ~Signature[f].known \/ ps = {} THEN {None}
     ELSE (IF resolved /\ \E p \in ps : Fails(p.type) THEN {Raised} ELSE {})
          \cup IF \E p \in ps : ps = {p} /\ p.name = "input" /\ p.type \in untyped THEN {None}
               ELSE IF resolved /\ \E p \in ps : ps = {p} /\ p.type \in Structured
               THEN Fresh((CHOOSE p \in ps : TRUE).type)
               ELSE DueObject(f, resolved, ps)

Due == [f \in Functions |-> [kind \in Kinds |-> [resolved \in BOOLEAN |->
  LET sg == Signature[f]
      ty == IF kind = "output" THEN sg.returns
            ELSE IF sg.params = <<>> THEN Unannotated ELSE sg.params[1].type
  IN IF kind = "input" THEN DueInput(f, resolved)
     ELSE IF ~resolved \/ ty \in {NoneType, Unannotated} \/ (kind = "output" /\ ty = Dict)
          THEN {None}
     ELSE Fresh(ty) \cup IF Fails(ty) THEN {None} ELSE {}]]]

\* An extraction before the names were defined may have come too early.
DueSchemas(f, kind) == Due[f][kind][TRUE] \cup Due[f][kind][~(f \in early /\ Signature[f].text)]

(* An attribute that is set holds the schema of the function, whatever     *)
(* threads, extractors, evictions and failures came before: an extractor   *)
(* never leaves a trace, nothing is kept of an input that failed, and what *)
(* is truncated is so for a dataclass of a type that contains itself.      *)
AttributesDue ==
  \A f \in Functions :
    /\ attr[f].input  \in {Unset} \cup (DueSchemas(f, "input") \ {Raised})
    /\ attr[f].output \in {Unset} \cup DueSchemas(f, "output")

(* Every end handler contributes a schema that is due, and nothing else    *)
(* does; None and the schema of Any add nothing.                           *)
OutputDue(ends, output) ==
  \E S \in SUBSET UNION {Due[f]["output"][TRUE] : f \in ends} :
    /\ \A f \in ends : S \cap Due[f]["output"][TRUE] # {}
    /\ output = AnyOf(S \ {None, AnyType})

(* What is handed out is the schema of the function, and the contract of a *)
(* blueprint is made of those of its start and end handlers, one for each. *)
(* An extractor makes a difference only when there is one.                 *)
ContractDue ==
  \A t \in Threads : LET j == job[t] IN
    j.pc = "done" /\ ~j.ext =>
      /\ \A i \in DOMAIN j.results : j.results[i] \in DueSchemas(j.plan[i].f, j.plan[i].kind)
      /\ j.b # NoBlueprint /\ j.result # Raised =>
           /\ j.result.input \in IF StartHandler(j.b) = None THEN {None}
                                 ELSE DueSchemas(StartHandler(j.b), "input")
           /\ LET ends == {j.b.handlers[s] : s \in ToSet(j.b.ends) \cap DOMAIN j.b.handlers}
              IN ends \cap early = {} => OutputDue(ends, j.result.output)

(* Every request is answered, for types that contain themselves, too.      *)
RequestsEnd == \A t \in Threads : (Running(t) \/ stack[t] # <<>>) ~> (~Running(t) /\ stack[t] = <<>>)
=============================================================================
