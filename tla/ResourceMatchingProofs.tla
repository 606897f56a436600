------------------------ MODULE ResourceMatchingProofs ----------------------
(***************************************************************************)
(* Proof that Resources.matches is sound for any devices, properties and   *)
(* requirements: when it returns True, the requirements are met.           *)
(***************************************************************************)
EXTENDS ResourceMatching, FiniteSetTheorems, TLAPS

ResourcesType == [devices : Seq(Devices), properties : Properties]

(* The devices popped so far serve the requirements seen so far, one each. *)
Assigned ==
  /\ have \in ResourcesType /\ want \in ResourcesType
  /\ taken \in Seq(1 .. Len(have.devices))
  /\ Len(taken) <= Len(want.devices)
  /\ \A i, j \in 1 .. Len(taken) : taken[i] = taken[j] => i = j
  /\ \A i \in 1 .. Len(taken) : DeviceMatches(have.devices[taken[i]], want.devices[i])

IInv ==
  /\ Assigned
  /\ verdict = "True" => /\ Len(taken) = Len(want.devices)
                         /\ PropertiesMatch(have.properties, want.properties)

(* The functions from 1 .. n are sequences.                                *)
LEMMA InitSequences ==
  ASSUME NEW s \in UNION {[1 .. n -> Devices] : n \in 0 .. MaxDevices}
  PROVE  s \in Seq(Devices)
<1>1. PICK n \in 0 .. MaxDevices : s \in [1 .. n -> Devices]
  OBVIOUS
<1>2. n \in Nat
  BY MatchingAssumption
<1> QED BY <1>1, <1>2

(* Before the first round nothing is taken.                                *)
LEMMA InitInv == Init => IInv
<1> SUFFICES ASSUME Init PROVE IInv
  OBVIOUS
<1>1. have \in ResourcesType /\ want \in ResourcesType
  BY InitSequences DEF Init, ResourcesType
<1>2. Len(want.devices) \in Nat /\ Len(have.devices) \in Nat
  BY <1>1 DEF ResourcesType
<1> QED BY <1>1, <1>2 DEF Init, IInv, Assigned

(* What a comparison comes to: True exactly for what matches, and then     *)
(* nothing else.                                                           *)
LEMMA VerdictFacts ==
  ASSUME NEW fits \in BOOLEAN, NEW my, NEW req
  PROVE  /\ "True" \in Verdicts(fits, my, req) <=> fits /\ PropertiesMatch(my, req)
         /\ fits /\ PropertiesMatch(my, req) => Verdicts(fits, my, req) = {"True"}
         /\ Verdicts(fits, my, req) \subseteq {"True", "False", "TypeError"}
BY DEF Verdicts

LEMMA DeviceVerdictFacts ==
  ASSUME NEW d, NEW req
  PROVE  /\ "True" \in DeviceVerdicts(d, req) <=> DeviceMatches(d, req)
         /\ DeviceMatches(d, req) => DeviceVerdicts(d, req) = {"True"}
<1>1. DeviceFits(d, req) \in BOOLEAN
  BY DEF DeviceFits
<1> QED BY <1>1, VerdictFacts DEF DeviceVerdicts, DeviceMatches

\* The remaining devices that the next required one may take.
Candidates == {i \in Remaining : DeviceMatches(have.devices[i], want.devices[Len(taken) + 1])}

(* A round takes a device that matches and stops otherwise; it refuses     *)
(* only when there is none.                                                *)
LEMMA TakeDeviceIs ==
  ASSUME TakeDevice
  PROVE  \/ \E i \in Candidates : Searched(i) /\ taken' = Append(taken, i) /\ verdict' = verdict
         \/ taken' = taken /\ verdict' = "TypeError" /\ \E i \in Remaining : Searched(i) /\ i \notin Candidates
         \/ taken' = taken /\ verdict' = "False" /\ Candidates = {}
<1>1. ASSUME NEW i \in Remaining
      PROVE  /\ "True" \in Compared(i) => i \in Candidates
             /\ i \in Candidates => "False" \notin Compared(i) /\ "TypeError" \notin Compared(i)
  BY DeviceVerdictFacts DEF Compared, Candidates
<1>2. CASE \E i \in Remaining :
             /\ Searched(i)
             /\ \/ "True" \in Compared(i) /\ taken' = Append(taken, i) /\ UNCHANGED verdict
                \/ "TypeError" \in Compared(i) /\ verdict' = "TypeError" /\ UNCHANGED taken
  <2>1. PICK i \in Remaining :
          /\ Searched(i)
          /\ \/ "True" \in Compared(i) /\ taken' = Append(taken, i) /\ verdict' = verdict
             \/ "TypeError" \in Compared(i) /\ verdict' = "TypeError" /\ taken' = taken
    BY <1>2
  <2>2. "TypeError" \in Compared(i) => i \notin Candidates
    BY <1>1
  <2>3. "True" \in Compared(i) => i \in Candidates
    BY <1>1
  <2> QED BY <2>1, <2>2, <2>3
<1>3. CASE (\A i \in Remaining : "False" \in Compared(i)) /\ verdict' = "False" /\ UNCHANGED taken
  <2>1. ASSUME NEW i \in Candidates
        PROVE  FALSE
    <3>1. i \in Remaining
      BY DEF Candidates
    <3> QED BY <1>1, <1>3, <2>1, <3>1
  <2> QED BY <1>3, <2>1
<1> QED BY <1>2, <1>3 DEF TakeDevice

(* A round that finds a device adds one that was not taken and matches.    *)
LEMMA TakePreserves ==
  ASSUME IInv, TakeDevice
  PROVE  IInv'
<1>0. /\ have' = have /\ want' = want /\ verdict = "running"
      /\ taken \in Seq(1 .. Len(have.devices)) /\ Len(taken) \in Nat
      /\ Len(have.devices) \in Nat /\ Len(want.devices) \in Nat
      /\ Len(taken) < Len(want.devices)
  BY DEF IInv, Assigned, TakeDevice, ResourcesType
<1>1. CASE taken' = taken /\ verdict' \in {"False", "TypeError"}
  BY <1>0, <1>1 DEF IInv, Assigned
<1>2. CASE verdict' = verdict /\ \E i \in Candidates : taken' = Append(taken, i)
  <2>1. PICK k \in Candidates : taken' = Append(taken, k)
    BY <1>2
  <2>2. /\ k \in 1 .. Len(have.devices)
        /\ \A i \in 1 .. Len(taken) : taken[i] # k
        /\ DeviceMatches(have.devices[k], want.devices[Len(taken) + 1])
    BY <2>1 DEF Candidates, Remaining, Taken
  <2>3. PICK q : q = Append(taken, k)
    OBVIOUS
  <2>4. /\ q \in Seq(1 .. Len(have.devices)) /\ Len(q) = Len(taken) + 1
        /\ q[Len(taken) + 1] = k
        /\ \A i \in 1 .. Len(taken) : q[i] = taken[i]
    BY <1>0, <2>2, <2>3
  <2>5. \A i, j \in 1 .. Len(q) : q[i] = q[j] => i = j
    <3>1. \A i, j \in 1 .. Len(taken) : taken[i] = taken[j] => i = j
      BY DEF IInv, Assigned
    <3>2. \A i \in 1 .. Len(q) : i \in 1 .. Len(taken) \/ i = Len(taken) + 1
      BY <1>0, <2>4
    <3> QED BY <2>2, <2>4, <3>1, <3>2
  <2>6. ASSUME NEW i \in 1 .. Len(q)
        PROVE  DeviceMatches(have.devices[q[i]], want.devices[i])
    <3>1. CASE i = Len(taken) + 1
      BY <2>2, <2>4, <3>1
    <3>2. CASE i # Len(taken) + 1
      <4>1. i \in 1 .. Len(taken)
        BY <1>0, <2>4, <3>2
      <4> QED BY <2>4, <4>1 DEF IInv, Assigned
    <3> QED BY <3>1, <3>2
  <2>7. Len(q) <= Len(want.devices)
    BY <1>0, <2>4
  <2>8. Assigned'
    BY <1>0, <2>1, <2>3, <2>4, <2>5, <2>6, <2>7 DEF IInv, Assigned
  <2> QED BY <1>0, <1>2, <2>8 DEF IInv
<1> QED BY <1>1, <1>2, TakeDeviceIs

(* The verdict True is given only after every requirement was served.      *)
LEMMA PropertiesPreserve ==
  ASSUME IInv, MatchProperties
  PROVE  IInv'
<1>1. verdict' = "True" => PropertiesMatch(have.properties, want.properties)
  BY VerdictFacts DEF MatchProperties
<1> QED BY <1>1 DEF IInv, Assigned, MatchProperties

(* Every step preserves the inductive invariant.                           *)
LEMMA NextInv == IInv /\ [Next]_vars => IInv'
<1> SUFFICES ASSUME IInv, [Next]_vars PROVE IInv'
  OBVIOUS
<1>1. CASE UNCHANGED vars
  BY <1>1 DEF vars, IInv, Assigned
<1> QED BY <1>1, TakePreserves, PropertiesPreserve DEF Next

(* The devices taken are the witness that the requirements are met.        *)
LEMMA Soundness == IInv => TrueMeansMeets
<1> SUFFICES ASSUME IInv, verdict = "True" PROVE Meets
  BY DEF TrueMeansMeets
<1>1. /\ taken \in [1 .. Len(want.devices) -> 1 .. Len(have.devices)]
      /\ Len(taken) = Len(want.devices)
  BY DEF IInv, Assigned
<1> QED BY <1>1 DEF Meets, IInv, Assigned

(* Resources.matches never returns True for requirements that cannot be    *)
(* met with one device per required device, however many there are.        *)
THEOREM MatchesIsSound == Spec => []TrueMeansMeets
BY InitInv, NextInv, Soundness, PTL DEF Spec

-----------------------------------------------------------------------------
(* Completeness where the greedy loop has it.                              *)

(* False is returned when a required device found no device among the      *)
(* remaining ones, or when the properties do not match.                    *)
Refused ==
  verdict = "False" =>
    \/ Len(taken) < Len(want.devices) /\ Candidates = {}
    \/ ~PropertiesMatch(have.properties, want.properties)

(* Every step preserves it: after False nothing changes any more.          *)
LEMMA RefusedPreserved == IInv /\ Refused /\ [Next]_vars => Refused'
<1> SUFFICES ASSUME IInv, Refused, [Next]_vars PROVE Refused'
  OBVIOUS
<1>1. CASE UNCHANGED vars
  BY <1>1 DEF vars, Refused, Candidates, Remaining, Taken
<1>2. CASE TakeDevice
  <2>1. CASE Candidates = {} /\ taken' = taken /\ have' = have /\ want' = want
    <3>1. Candidates' = {} /\ Len(taken') < Len(want'.devices)
      BY <1>2, <2>1 DEF TakeDevice, Candidates, Remaining, Taken
    <3> QED BY <3>1 DEF Refused
  <2>2. CASE verdict' # "False"
    BY <2>2 DEF Refused
  <2>3. have' = have /\ want' = want /\ verdict = "running"
    BY <1>2 DEF TakeDevice
  <2> QED BY <1>2, <2>1, <2>2, <2>3, TakeDeviceIs DEF Refused
<1>3. CASE MatchProperties
  <2>1. verdict' = "False" => ~PropertiesMatch(have.properties, want.properties)
    BY <1>3, VerdictFacts DEF MatchProperties
  <2> QED BY <1>3, <2>1 DEF MatchProperties, Refused
<1> QED BY <1>1, <1>2, <1>3 DEF Next

(* The pigeonhole principle for two initial segments of the numbers.       *)
LEMMA Pigeonhole ==
  ASSUME NEW n \in Nat, NEW k \in Nat, k < n, NEW g \in [1 .. n -> 1 .. k]
  PROVE  \E x, y \in 1 .. n : x # y /\ g[x] = g[y]
<1>1. /\ IsFiniteSet(1 .. n) /\ Cardinality(1 .. n) = n
      /\ IsFiniteSet(1 .. k) /\ Cardinality(1 .. k) = k
  BY FS_Interval
<1> QED BY <1>1, FS_PigeonHole

(* When all required devices are the same, a device that was taken for one *)
(* requirement is no better for another, and there are too few.            *)
LEMMA Completeness == IInv /\ Refused => UniformComplete
<1> SUFFICES ASSUME IInv, Refused, verdict = "False", Meets,
                    \A i, j \in 1 .. Len(want.devices) : want.devices[i] = want.devices[j]
             PROVE  FALSE
  BY DEF UniformComplete
<1>1. PICK n \in Nat, k \in Nat : n = Len(want.devices) /\ k = Len(taken)
  BY DEF IInv, Assigned, ResourcesType
<1>2. k < n /\ Candidates = {}
  BY <1>1 DEF Refused, Meets
<1>3. PICK f \in [1 .. n -> 1 .. Len(have.devices)] :
        /\ \A i, j \in 1 .. n : f[i] = f[j] => i = j
        /\ \A i \in 1 .. n : DeviceMatches(have.devices[f[i]], want.devices[i])
  BY <1>1 DEF Meets
<1>4. \A i \in 1 .. n : want.devices[i] = want.devices[k + 1]
  BY <1>1, <1>2
<1>5. \A i \in 1 .. n : f[i] \in Taken
  BY <1>1, <1>2, <1>3, <1>4 DEF Candidates, Remaining
<1>6. \A i \in 1 .. n : \E j \in 1 .. k : taken[j] = f[i]
  BY <1>1, <1>5 DEF Taken
<1>7. PICK g : g = [i \in 1 .. n |-> CHOOSE j \in 1 .. k : taken[j] = f[i]]
  OBVIOUS
<1>8. g \in [1 .. n -> 1 .. k] /\ \A i \in 1 .. n : taken[g[i]] = f[i]
  BY <1>6, <1>7
<1>9. PICK x, y \in 1 .. n : x # y /\ g[x] = g[y]
  BY <1>2, <1>8, Pigeonhole
<1>10. f[x] = f[y]
  BY <1>8, <1>9
<1> QED BY <1>3, <1>9, <1>10

(* When all required devices are the same, Resources.matches turns down    *)
(* nothing that meets the requirements.                                    *)
THEOREM UniformIsComplete == Spec => []UniformComplete
<1>1. Init => Refused
  BY DEF Init, Refused
<1>2. IInv /\ Refused /\ [Next]_vars => (IInv /\ Refused)'
  BY NextInv, RefusedPreserved
<1> QED BY <1>1, <1>2, InitInv, Completeness, PTL DEF Spec

-----------------------------------------------------------------------------
(* A worker and its own description.                                       *)

(* Numbers compare, every collection has a member and every list can be    *)
(* made a set.                                                             *)
Comparable(props) ==
  /\ Satisfiable(props)
  /\ \A k \in DOMAIN props : props[k].kind = "number" => props[k].v \in Int

(* Such properties match themselves.                                       *)
LEMMA PropertiesReflexive ==
  ASSUME NEW props, Comparable(props)
  PROVE  PropertiesMatch(props, props)
<1> SUFFICES ASSUME NEW k \in DOMAIN props PROVE ValueMatches(props[k], props[k])
  <2>1. ASSUME NEW k \in DOMAIN props
        PROVE  Got(props, k) /\ ~Raises(props, props, k)
    BY DEF Comparable, Satisfiable, Got, Raises, ValueRaises
  <2> QED BY <2>1 DEF PropertiesMatch, Met
<1>1. CASE props[k].kind = "number"
  <2>1. props[k].v \in Int
    BY <1>1 DEF Comparable
  <2>2. props[k].v >= props[k].v
    BY <2>1
  <2> QED BY <1>1, <2>2 DEF ValueMatches
<1>2. CASE props[k].kind = "collection"
  <2>1. PICK x \in props[k].v : TRUE
    BY <1>2 DEF Comparable, Satisfiable
  <2> QED BY <1>2, <2>1 DEF ValueMatches, Same
<1>3. CASE props[k].kind \notin {"number", "collection"}
  BY <1>3 DEF ValueMatches, Same
<1> QED BY <1>1, <1>2, <1>3

(* So do a device and an artifact that have them.                          *)
LEMMA DeviceReflexive ==
  ASSUME NEW d \in Devices, Satisfiable(d.properties)
  PROVE  DeviceMatches(d, d)
<1>1. Comparable(d.properties)
  BY MatchingAssumption DEF Comparable
<1>2. Given(d.model) => <<d.model, d.model>> \in Contains
  BY MatchingAssumption
<1> QED BY <1>1, <1>2, PropertiesReflexive DEF DeviceMatches, DeviceFits

LEMMA ArtifactReflexive ==
  ASSUME NEW a \in Artifacts, Satisfiable(a.properties)
  PROVE  ArtifactVerdicts(a, a) = {"True"}
<1>1. Comparable(a.properties)
  BY MatchingAssumption DEF Comparable
<1>2. PropertiesMatch(a.properties, a.properties)
  BY <1>1, PropertiesReflexive
<1>3. ArtifactFits(a, a)
  BY DEF ArtifactFits
<1> QED BY <1>2, <1>3 DEF ArtifactVerdicts, Verdicts

(* A worker that is matched with its own description, and whose devices    *)
(* can be matched at all.                                                  *)
Itself ==
  /\ have = want
  /\ Satisfiable(have.properties)
  /\ \A i \in 1 .. Len(have.devices) : Satisfiable(have.devices[i].properties)

(* Then every required device takes the device it describes.               *)
InOrder == Itself => verdict \in {"running", "True"} /\ \A i \in 1 .. Len(taken) : taken[i] = i

(* The next required device is matched by its own, the first that is left. *)
LEMMA NextInOrder ==
  ASSUME IInv, InOrder, Itself, Len(taken) < Len(want.devices)
  PROVE  /\ Len(taken) \in Nat /\ Len(taken) + 1 \in Candidates
         /\ \A i \in Remaining : i \in Int /\ i >= Len(taken) + 1
<1>1. PICK n \in Nat, k \in Nat : n = Len(want.devices) /\ k = Len(taken)
  BY DEF IInv, Assigned, ResourcesType
<1>2. Remaining = (1 .. n) \ (1 .. k)
  <2>1. Taken = 1 .. k
    BY <1>1 DEF Taken, InOrder
  <2> QED BY <1>1, <2>1 DEF Remaining, Itself
<1>3. have.devices[k + 1] \in Devices /\ have.devices[k + 1] = want.devices[k + 1]
      /\ Satisfiable(have.devices[k + 1].properties)
  BY <1>1 DEF IInv, Assigned, ResourcesType, Itself
<1>4. DeviceMatches(have.devices[k + 1], want.devices[k + 1])
  BY <1>3, DeviceReflexive
<1> QED BY <1>1, <1>2, <1>4 DEF Candidates

(* Every step keeps the order.                                             *)
LEMMA InOrderPreserved == IInv /\ InOrder /\ [Next]_vars => InOrder'
<1> SUFFICES ASSUME IInv, InOrder, [Next]_vars, Itself' PROVE InOrder'
  BY DEF InOrder
<1>0. Itself /\ have' = have /\ want' = want /\ verdict \in {"running", "True"}
  BY DEF Itself, Next, TakeDevice, MatchProperties, vars, InOrder
<1>1. CASE UNCHANGED vars
  BY <1>0, <1>1 DEF vars, InOrder
<1>2. CASE TakeDevice
  <2>1. PICK k \in Nat : k = Len(taken) /\ k < Len(want.devices)
    BY <1>2 DEF TakeDevice, IInv, Assigned
  <2>2. k + 1 \in Candidates /\ \A i \in Remaining : i \in Int /\ i >= k + 1
    BY <1>0, <2>1, NextInOrder
  <2>3. Compared(k + 1) = {"True"} /\ k + 1 \in Remaining
    BY <2>1, <2>2, DeviceVerdictFacts DEF Candidates, Compared
  <2>4. ASSUME NEW i \in Remaining, Searched(i)
        PROVE  i = k + 1
    <3>1. ~(k + 1 < i)
      BY <2>3, <2>4 DEF Searched
    <3> QED BY <2>1, <2>2, <2>4, <3>1
  <2>5. taken' = Append(taken, k + 1) /\ verdict' = verdict
    BY <1>2, <2>2, <2>4, TakeDeviceIs DEF Candidates
  <2>9. PICK H : taken \in Seq(H) /\ k + 1 \in H /\ H = Int
    BY <2>1 DEF IInv, Assigned
  <2>6. PICK q : q = Append(taken, k + 1)
    OBVIOUS
  <2>7. Len(q) = k + 1 /\ q[k + 1] = k + 1 /\ \A j \in 1 .. k : q[j] = taken[j]
    BY <2>1, <2>6, <2>9
  <2>8. \A j \in 1 .. Len(q) : q[j] = j
    BY <1>0, <2>1, <2>7 DEF InOrder
  <2> QED BY <1>0, <2>5, <2>6, <2>8 DEF InOrder
<1>3. CASE MatchProperties
  <2>1. have.properties \in Properties /\ Comparable(have.properties)
    BY <1>0, MatchingAssumption DEF IInv, Assigned, ResourcesType, Itself, Comparable
  <2>2. PropertiesMatch(have.properties, want.properties)
    BY <1>0, <2>1, PropertiesReflexive DEF Itself
  <2>3. Verdicts(TRUE, have.properties, want.properties) = {"True"}
    BY <2>2, VerdictFacts
  <2> QED BY <1>0, <1>3, <2>3 DEF MatchProperties, InOrder
<1> QED BY <1>1, <1>2, <1>3 DEF Next

(* A worker, an artifact and a skill match their own description, however  *)
(* many devices the worker has: the first device that matches a required   *)
(* one never takes it away from another.                                   *)
THEOREM SelfMatches == Spec => []MatchesItself
<1>1. Init => InOrder
  BY DEF Init, InOrder
<1>2. IInv /\ InOrder /\ [Next]_vars => (IInv /\ InOrder)'
  BY NextInv, InOrderPreserved
<1>3. InOrder => MatchesItself
  BY ArtifactReflexive DEF InOrder, Itself, MatchesItself, SkillMatches
<1> QED BY <1>1, <1>2, <1>3, InitInv, PTL DEF Spec
=============================================================================
