------------------------------- MODULE Signing ------------------------------
(***************************************************************************)
(* Signatures of payloads (src/rxon/security.py) on their way from one     *)
(* node to another: a payload is signed, may get its signature attached,   *)
(* is encoded, travels, is decoded as plain JSON or as the model, and is   *)
(* verified.  On the way it, or its data, may be replaced by any JSON.     *)
(*                                                                         *)
(* Cryptography is ideal: a signature is the pair of a key and a message.  *)
(* A key is "" or one of Keys; "rsa" and "junk" are PEM texts that load as *)
(* another kind of key or not at all.  For Ed25519 the name stands for the *)
(* key pair.                                                               *)
(***************************************************************************)
EXTENDS Serialization

CONSTANTS
  Payloads,    \* what is signed
  Data,        \* what may arrive instead of a payload or its data
  Ways,        \* the pairs of functions: hmac, ed25519, chain_hmac, chain_ed25519
  Keys,        \* the keys of sender and receiver
  Ignores      \* the values of ignore_fields

\* The fields of a model have their types: step is an int, and security a
\* model that msgspec can convert.
ASSUME SigningAssumption ==
  /\ \A n \in Payloads : IsValue(n)
  /\ \A n \in Data : IsJSON(n)
  /\ \A n \in Payloads : Root(n) = Model =>
       /\ \A p \in DOMAIN n \ {<<>>} : p[1] \in Fields /\ (p[1] = "security" => n[p] # Atom("obj"))
       /\ Has(n, "step") => n[<<"step">>] # Atom("zero.0")

VARIABLES
  pc,          \* "signing", "signed", "attached", "sent", "got", "verified", "raised"
  payload,     \* the sender's payload
  way, ignore, \* the functions used and their ignore_fields
  key,         \* the sender's key; once verified, the receiver's
  sig,         \* its signature
  wire,        \* the encoded payload
  intact,      \* nothing was replaced on the way
  got,         \* the receiver's payload
  result       \* what verification returned, or the exception

vars == <<pc, payload, way, key, ignore, sig, wire, intact, got, result>>

Asymmetric == {"ed25519", "chain_ed25519"}
Chain      == {"chain_hmac", "chain_ed25519"}

\* No signature, and a text that holds more than ASCII.
NoSig   == [key |-> "", msg |-> Null]
Garbled == [key |-> "", msg |-> Raised("TypeError")]

\* A bubbling chain is a list of strings.
IsChain(n) == \A p \in DOMAIN n : n[p] = IF p = <<>> THEN List ELSE Atom("text")

-----------------------------------------------------------------------------
(* The fields that are never signed.                                       *)
Unsigned(ig) == {"security", "_signature"} \cup ig

(* The bytes that are signed; a bubbling chain is dumped as it is.         *)
MessageWithoutToDict(p, w, ig) ==     \* mutant: the payload is not normalised
  LET d == Dumped(p) IN
  IF Root(d).kind = "dict" /\ w \notin Chain THEN Without(d, Unsigned(ig)) ELSE d

Message(p, w, ig) ==
  LET d == to_dict(p) IN
  IF w \in Chain THEN Dumped(p)
  ELSE IF Fails(d) THEN d
  ELSE Dumped(IF Root(d).kind = "dict" THEN Without(d, Unsigned(ig)) ELSE d)

(* Loading a private key.                                                  *)
KeyError(w, k) ==
  CASE k = "" -> "ValueError"
    [] k = "junk" /\ w \in Asymmetric -> "ValueError"
    [] k = "rsa" /\ w \in Asymmetric -> "TypeError"
    [] OTHER -> ""

(* sign_payload, sign_payload_ed25519, sign_bubbling_chain(_hmac): the     *)
(* signature, or the exception in result.                                  *)
Sign ==
  LET m == Message(payload, way, ignore)
      e == IF key = "" THEN "ValueError" ELSE IF Fails(m) THEN Root(m).error ELSE KeyError(way, key)
  IN
  /\ pc = "signing"
  /\ IF e = "" THEN pc' = "signed" /\ sig' = [key |-> key, msg |-> m] /\ UNCHANGED result
               ELSE pc' = "raised" /\ result' = e /\ UNCHANGED sig
  /\ UNCHANGED <<payload, way, key, ignore, wire, intact, got>>

(* The sender puts the signature into the payload, in the field security   *)
(* of a model, or in security or _signature of a dict.                     *)
Attach ==
  /\ pc = "signed" /\ Mapping(payload)
  /\ \E k \in IF Root(payload).kind = "model" THEN {"security"} ELSE {"security", "_signature"} :
       payload' = Put(payload, k, Leaf(Atom("text")))
  /\ pc' = "attached"
  /\ UNCHANGED <<way, key, ignore, sig, wire, intact, got, result>>

(* The payload leaves through json_dumps.                                  *)
Send ==
  LET j == json_dumps(payload) IN
  /\ pc \in {"signed", "attached"}
  /\ IF Fails(j) THEN pc' = "raised" /\ result' = Root(j).error /\ UNCHANGED wire
                 ELSE pc' = "sent" /\ wire' = j /\ UNCHANGED result
  /\ UNCHANGED <<payload, way, key, ignore, sig, intact, got>>

(* Something else arrives under the same signature.                        *)
Replace ==
  /\ pc = "sent" /\ intact
  /\ wire' \in Data \cup {Put(wire, "data", v) : v \in IF Root(wire).kind = "dict" THEN Data ELSE {}}
  /\ intact' = FALSE
  /\ UNCHANGED <<pc, payload, way, key, ignore, sig, got, result>>

(* loads, and from_dict when the receiver wants a model.                   *)
Receive ==
  /\ pc = "sent"
  /\ \E g \in {wire, from_dict(wire)} :
       IF Fails(g) THEN pc' = "raised" /\ result' = Root(g).error /\ UNCHANGED got
                   ELSE pc' = "got" /\ got' = g /\ UNCHANGED result
  /\ UNCHANGED <<payload, way, key, ignore, sig, wire, intact>>

(* verify_signature, verify_signature_ed25519, verify_bubbling_chain_*:    *)
(* of p with signature s and key k.  A payload that cannot be normalised   *)
(* raises here too; a key that cannot be loaded does not.  compare_digest  *)
(* refuses texts beyond ASCII; bytes.fromhex does too, but is caught.      *)
VerifyFailsOpen(p, s, k, w, ig) ==    \* mutant: without a key everything is accepted
  IF s = NoSig \/ k = "" THEN "True"
  ELSE LET m == Message(p, w, ig) IN
       IF Fails(m) THEN Root(m).error ELSE IF s = [key |-> k, msg |-> m] THEN "True" ELSE "False"

VerifyComparesAny(p, s, k, w, ig) ==  \* mutant: the bytes of Ed25519 are read outside the try
  IF s = NoSig \/ k = "" THEN "False"
  ELSE LET m == Message(p, w, ig) IN
       IF Fails(m) THEN Root(m).error
       ELSE IF s = Garbled THEN "TypeError"
       ELSE IF KeyError(w, k) = "" /\ s = [key |-> k, msg |-> m] THEN "True" ELSE "False"

verify_signature(p, s, k, w, ig) ==
  IF s = NoSig \/ k = "" THEN "False"
  ELSE LET m == Message(p, w, ig) IN
       IF Fails(m) THEN Root(m).error
       ELSE IF s = Garbled /\ w \notin Asymmetric THEN "TypeError"
       ELSE IF KeyError(w, k) = "" /\ s = [key |-> k, msg |-> m] THEN "True" ELSE "False"

Verify ==
  /\ pc = "got"
  /\ \E k \in Keys \cup {""}, s \in {sig, NoSig, Garbled} :
       /\ result' = verify_signature(got, s, k, way, ignore)
       /\ key' = k /\ sig' = s
  /\ pc' = "verified"
  /\ UNCHANGED <<payload, way, ignore, wire, intact, got>>

Init ==
  /\ pc = "signing" /\ payload \in Payloads /\ way \in Ways /\ key \in Keys \cup {""}
  /\ ignore \in Ignores
  /\ way \in Chain => IsChain(payload)
  /\ sig = NoSig /\ wire = Null /\ got = Null /\ intact = TRUE /\ result = ""

Next == Sign \/ Attach \/ Send \/ Replace \/ Receive \/ Verify

Spec == Init /\ [][Next]_vars

-----------------------------------------------------------------------------
(* The part of a payload that a signature is about.                        *)
Content(n) == IF Mapping(n) /\ way \notin Chain THEN Without(n, Unsigned(ignore)) ELSE n

(* A payload that arrives as it was sent verifies with its key, although   *)
(* the receiver sees it after encoding, attaching of the signature and     *)
(* decoding: a model as a model or as JSON, a dict as JSON.  Models inside *)
(* it may become their str(), but not the payload itself: the str() would  *)
(* show the attached signature.                                            *)
SignedVerifies ==
  /\ pc = "verified" /\ intact /\ sig \notin {NoSig, Garbled} /\ key = sig.key
  /\ ~Opaque(payload) /\ (Root(got).kind = "model" => Root(payload).kind = "model")
  => result = "True"

(* A signature is accepted only with the key it was made with and only for *)
(* a payload that says the same as the signed one: key order, None, whole  *)
(* floats and the unsigned fields make no difference, everything else      *)
(* does, in a model that becomes its str() all of it.                      *)
AcceptedSaysTheSame ==
  pc = "verified" /\ result = "True" =>
    sig \notin {NoSig, Garbled} /\ key = sig.key /\ (~Opaque(payload) => Equivalent(Content(payload), Content(got)))

(* Signing and sending fail only at the limits: for nesting deeper than    *)
(* _MAX_RECURSION_DEPTH, numbers beyond 64 bits (whole floats too) and     *)
(* unfit keys; what arrives as it was sent is refused by from_dict only    *)
(* for the lack of a required field or for a field whose encoded value is  *)
(* not of its type, and verification raises for it only when an HMAC is    *)
(* compared with a signature that holds more than ASCII.  Something else   *)
(* that arrives may also be beyond the limits.                             *)
Unfit(n) ==
  \E k \in Fields : IF <<k>> \in Said(n) THEN ~HasType(to_dict(n), k) ELSE k \in Required

FailsOnlyAtLimits ==
  /\ pc = "raised" =>
       \/ result = "RecursionError" /\ TooDeep(payload)
       \/ result = "TypeError" /\ (key = "rsa" \/ Says(payload, {"big", "big.0"}))
       \/ result = "ValueError" /\ (key \in {"", "junk"} \/ ~intact \/ Unfit(payload))
  /\ pc \in {"sent", "got", "verified"} => ~TooDeep(payload)
  /\ pc = "verified" =>
       \/ result \in {"True", "False"}
       \/ result = "TypeError" /\ sig = Garbled /\ way \notin Asymmetric
       \/ result = "TypeError" /\ ~intact /\ Says(got, {"big", "big.0"})
       \/ result = "RecursionError" /\ ~intact /\ TooDeep(got)
=============================================================================
