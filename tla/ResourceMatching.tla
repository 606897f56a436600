--------------------------- MODULE ResourceMatching -------------------------
(***************************************************************************)
(* Matching of a worker against requirements (src/rxon/models.py): the     *)
(* matches methods of HardwareDevice, Resources, InstalledArtifact and     *)
(* SkillInfo.                                                              *)
(*                                                                         *)
(* Resources.matches is a loop: every required device takes the first of   *)
(* the remaining devices that matches it, and the loop never goes back.    *)
(* Its rounds are the steps of this specification; the resources and the   *)
(* requirements are chosen in the initial state.                           *)
(*                                                                         *)
(* A property value is None, a number (a bool is the number 0 or 1), a     *)
(* text, a dict or a collection of values, i.e. a list or a set.  Texts    *)
(* are only compared, and Contains is the relation "is part of, case       *)
(* ignored" between the model names that occur.  The order of the keys of  *)
(* a dict is left open: where it decides what matches comes to, it may     *)
(* come to either.                                                         *)
(***************************************************************************)
EXTENDS Integers, Sequences

CONSTANTS
  Devices,      \* the devices a worker can have or a task can require
  Properties,   \* the property functions of workers and requirements
  Artifacts,    \* the installed artifacts and the required ones
  Skills,       \* the skills and the required ones
  Contains,     \* pairs of a required model and a model it is part of
  NoText,       \* the text that is None
  MaxDevices    \* bound: the devices of a worker, and of a requirement

Given(t) == t \notin {NoText, ""}      \* a text that is true

ASSUME MatchingAssumption ==
  /\ \A d \in Devices : Given(d.model) => <<d.model, d.model>> \in Contains
  /\ \A p \in Contains : Given(p[1]) /\ Given(p[2])
  /\ \A p \in Properties \cup {d.properties : d \in Devices \cup Artifacts} :
       \A k \in DOMAIN p : p[k].kind = "number" => p[k].v \in Int
  /\ MaxDevices \in Nat

VARIABLES
  have,         \* self: the resources of the worker
  want,         \* req: the required resources
  taken,        \* the devices popped so far, one per required device
  verdict       \* "running", or what matches returns

vars == <<have, want, taken, verdict>>

-----------------------------------------------------------------------------
Same(x, y) == x.kind = y.kind /\ x.v = y.v

ValueMatchesStrictly(my_v, req_v) ==    \* mutant: a number must exceed the required one
  CASE my_v.kind = "number" /\ req_v.kind = "number" -> my_v.v > req_v.v
    [] req_v.kind = "collection" /\ my_v.kind = "collection" ->
         \E x \in my_v.v, y \in req_v.v : Same(x, y)
    [] req_v.kind = "collection" /\ my_v.kind # "collection" -> \E y \in req_v.v : Same(my_v, y)
    [] req_v.kind # "collection" /\ my_v.kind = "collection" -> \E x \in my_v.v : Same(x, req_v)
    [] OTHER -> Same(my_v, req_v)

(* The body of the loops over properties: greater or equal for numbers,    *)
(* intersection or membership when there is a collection, else equality.   *)
ValueMatches(my_v, req_v) ==
  CASE my_v.kind = "number" /\ req_v.kind = "number" -> my_v.v >= req_v.v
    [] req_v.kind = "collection" /\ my_v.kind = "collection" ->
         \E x \in my_v.v, y \in req_v.v : Same(x, y)
    [] req_v.kind = "collection" /\ my_v.kind # "collection" -> \E y \in req_v.v : Same(my_v, y)
    [] req_v.kind # "collection" /\ my_v.kind = "collection" -> \E x \in my_v.v : Same(x, req_v)
    [] OTHER -> Same(my_v, req_v)

(* What set() and "in" do to a value: the items of a list have to be       *)
(* hashable, and so has the value that is looked for in a set.             *)
Hashable(v) == v.kind \notin {"dict", "collection"}
Hashed(v)   == IF v.kind = "collection" THEN \A x \in v.v : Hashable(x) ELSE Hashable(v)

ValueRaises(my_v, req_v) ==
  "collection" \in {my_v.kind, req_v.kind} /\ ~(Hashed(my_v) /\ Hashed(req_v))

\* my_props.get(k) is None for a key that is missing and for one that is None.
Got(my_props, k)         == k \in DOMAIN my_props /\ my_props[k].kind # "none"
Raises(my_props, req, k) == Got(my_props, k) /\ ValueRaises(my_props[k], req[k])
Met(my_props, req, k) ==
  Got(my_props, k) /\ ~Raises(my_props, req, k) /\ ValueMatches(my_props[k], req[k])

PropertiesMatch(my_props, req) == \A k \in DOMAIN req : Met(my_props, req, k)

(* What the loop over req.properties may come to: the first key that is    *)
(* not met decides.                                                        *)
Verdicts(fits, my_props, req) ==
  IF ~fits THEN {"False"}
  ELSE IF PropertiesMatch(my_props, req) THEN {"True"}
  ELSE {IF Raises(my_props, req, k) THEN "TypeError" ELSE "False" :
          k \in {x \in DOMAIN req : ~Met(my_props, req, x)}}

(* HardwareDevice.matches *)
DeviceFits(d, req) ==
  /\ Given(req.type) => d.type = req.type
  /\ Given(req.model) => <<req.model, d.model>> \in Contains
  /\ Given(req.id) => d.id = req.id

DeviceVerdicts(d, req) == Verdicts(DeviceFits(d, req), d.properties, req.properties)
DeviceMatches(d, req)  == DeviceFits(d, req) /\ PropertiesMatch(d.properties, req.properties)

(* InstalledArtifact.matches; the type is not compared.                    *)
ArtifactFits(a, req) ==
  /\ a.name = req.name
  /\ req.version # "unknown" => req.version = a.version

ArtifactVerdicts(a, req) == Verdicts(ArtifactFits(a, req), a.properties, req.properties)

(* SkillInfo.matches; an empty text is a requirement here.                 *)
SkillMatches(s, req) ==
  /\ s.name = req.name
  /\ req.type # NoText => s.type = req.type
  /\ req.version # NoText => s.version = req.version

-----------------------------------------------------------------------------
Init ==
  /\ have \in [devices : UNION {[1 .. n -> Devices] : n \in 0 .. MaxDevices},
               properties : Properties]
  /\ want \in [devices : UNION {[1 .. n -> Devices] : n \in 0 .. MaxDevices},
               properties : Properties]
  /\ taken = <<>>
  /\ verdict = "running"

Taken == {taken[i] : i \in 1 .. Len(taken)}

RemainingKept == 1 .. Len(have.devices)     \* mutant: a device that is found is not popped

(* The devices of the worker that are left in my_devices.                  *)
Remaining == 1 .. Len(have.devices) \ Taken

ComparedFirst(i) ==     \* mutant: only the first of the remaining devices is looked at
  IF \E j \in Remaining : j < i THEN {"False"}
  ELSE DeviceVerdicts(have.devices[i], want.devices[Len(taken) + 1])

\* What the comparison with the next required device may come to.
Compared(i) == DeviceVerdicts(have.devices[i], want.devices[Len(taken) + 1])

\* The inner loop comes to device i.
Searched(i) == \A j \in Remaining : j < i => "False" \in Compared(j)

(* One round of the loop over req.devices.                                 *)
TakeDevice ==
  /\ verdict = "running"
  /\ Len(taken) < Len(want.devices)
  /\ \/ \E i \in Remaining :
          /\ Searched(i)
          /\ \/ "True" \in Compared(i) /\ taken' = Append(taken, i) /\ UNCHANGED verdict
             \/ "TypeError" \in Compared(i) /\ verdict' = "TypeError" /\ UNCHANGED taken
     \/ /\ \A i \in Remaining : "False" \in Compared(i)
        /\ verdict' = "False"
        /\ UNCHANGED taken
  /\ UNCHANGED <<have, want>>

(* The loop over req.properties that follows it.                           *)
MatchProperties ==
  /\ verdict = "running"
  /\ Len(taken) = Len(want.devices)
  /\ verdict' \in Verdicts(TRUE, have.properties, want.properties)
  /\ UNCHANGED <<have, want, taken>>

Next == TakeDevice \/ MatchProperties

Spec == Init /\ [][Next]_vars

-----------------------------------------------------------------------------
(* What it means to meet the requirements: every required device can be    *)
(* given a device of its own, and the properties match.                    *)
Meets ==
  /\ \E f \in [1 .. Len(want.devices) -> 1 .. Len(have.devices)] :
       /\ \A i, j \in 1 .. Len(want.devices) : f[i] = f[j] => i = j
       /\ \A i \in 1 .. Len(want.devices) : DeviceMatches(have.devices[f[i]], want.devices[i])
  /\ PropertiesMatch(have.properties, want.properties)

(* Resources.matches returns True only when the requirements are met: no   *)
(* device serves two requirements.                                         *)
TrueMeansMeets == verdict = "True" => Meets

(* When all required devices are the same, the greedy loop misses nothing. *)
UniformComplete ==
  (\A i, j \in 1 .. Len(want.devices) : want.devices[i] = want.devices[j])
    => (verdict = "False" => ~Meets)

\* A requirement that is None or an empty collection is met by nothing, and
\* a list with items that are not hashable can be compared with nothing.
Satisfiable(props) ==
  \A k \in DOMAIN props :
    /\ props[k].kind # "none"
    /\ props[k].kind = "collection" => props[k].v # {} /\ Hashed(props[k])

(* A worker meets its own description: resources, artifacts and skills     *)
(* match themselves as soon as each of their properties can be met at all. *)
(* Devices of which one has a dict where another has a list do not get in  *)
(* each other's way, although to compare them would raise an exception.    *)
MatchesItself ==
  /\ /\ have = want
     /\ Satisfiable(have.properties)
     /\ \A i \in 1 .. Len(have.devices) : Satisfiable(have.devices[i].properties)
     => verdict \in {"running", "True"}
  /\ \A a \in Artifacts : Satisfiable(a.properties) => ArtifactVerdicts(a, a) = {"True"}
  /\ \A s \in Skills : SkillMatches(s, s)

(* "Checks if these resources meet the requirements": resources that meet  *)
(* them are not turned down.                                               *)
MeetsMeansTrue == Meets => verdict # "False"
=============================================================================
