# RXON: a TLA+ verification project

RXON connects workers to an orchestrator: a worker registers, polls for tasks,
sends results and heartbeats over HTTP, and receives commands over a WebSocket.
This directory holds TLA+ specifications of the parts of the library
(`src/rxon/`) that keep state or decide something, TLC configurations that
check them on small instances, and TLAPS proofs of the safety properties that
matter most. `PROJECT.json` maps every definition to the lines it models.

## 1. Inventory

| Component | State | Operations | Interacts with |
|---|---|---|---|
| `HttpTransport` (`transports/http.py`) | session and who owns it, `_closing`, token, `_headers`, refresh token | `connect`, `close`, `_request` (one retry after 401), `refresh_token`, `register`, `poll_task`, `send_result` (retries), `send_heartbeat`, `emit_event` | `HttpListener` over a network that fails; concurrent calls share the tokens |
| Command channel (`listen_for_commands`, `emit_event`, `close`, `_handle_ws`) | `_ws_connection`, the sockets, the generator's position | connect, read, yield, reconnect, send, cancel | shares `_closing` and the session with the transport; the application consumes commands |
| `HttpListener` (`transports/http_server.py`) | the handler set by `start` | eight endpoints | calls the orchestrator's handler and maps what it does to a response |
| Validator cache (`schema.py`) | `_validators_cache`, `_cache_lock` | `get_compiled_validator`, `validate_data`, `TaskPayload.validate_params`, `SkillInfo` validators | threads |
| Type schema cache (`schema.py`) | `_type_schema_cache`, `_type_schema_lock` | `extract_json_schema` (recursive for nested types; runs out of stack for types that contain themselves) | threads, extractors |
| Matching (`models.py`) | none | `matches` of devices, resources, artifacts, skills | |
| `MockTransport` (`testing.py`) | two queues, recorded calls, `connected`, token | the transport's methods, `push_task`, `push_command` | concurrent polls and listeners of a test |
| Schema extraction from signatures (`schema.py`) | an attribute on each function | `extract_*_from_func`, `extract_skill_contract` | the type schema cache, threads, names defined late |
| Signing, canonical form (`security.py`, `utils.py`) | none | `sign_*`, `verify_*`, `to_dict`, `json_dumps`, `from_dict` | sender and receiver of a payload |
| TLS contexts, blob URIs, identifiers, factory, constants, plain records | none | | |

What is hard here, and the property that makes each part correct:

* *Transport.* Coroutines interleave at every `await`. A request can be served
  after the worker gave up on it; concurrent refreshes overwrite each other's
  tokens; `send_result` repeats what may have been done. Correct means: the
  orchestrator executes no request more often than the retries allow, the
  outcome of a call never claims what did not happen, the tokens in use belong
  together, and every call ends.
* *Command channel.* `close()` and cancellation can come at any `await` of the
  generator, the link can break with messages on their way. Correct means: no
  socket is left behind, the remembered socket is the one in use, `close()`
  ends the listener, commands survive malformed neighbours, an event is
  duplicated only when sending it raised.
* *Caches.* Double-checked locking, eviction, nested extraction. Correct means:
  bounded, no duplicate work or replaced object, a validator is only ever used
  for its own schema, a type schema is truncated only where it has to be, no
  thread waits for ever.
* *Schema extraction.* What is remembered on a function outlives the call that
  made it. Correct means: an attribute holds the schema of its function,
  whatever threads, extractors, evictions and failures came before.
* *Signing.* The two ends see a payload on different sides of an encoding.
  Correct means: what was signed verifies, what verifies says the same as what
  was signed, and exceptions come only at the limits of the encoding and of the
  model's types.
* *Matching.* A greedy assignment. Correct means: `True` only when each
  requirement has a device of its own.
* *Mock.* Timeouts and cancellations race with arrivals. Correct means: no task lost or given
  twice.

The list of hazards with their lines is in `PROJECT.json`.

## 2. Modules

| Module | Models | Notes |
|---|---|---|
| `HttpListener` | the endpoints as operators from what the handler did to a response | no state of its own; used by the next two |
| `HttpTransport` | transport, wire and orchestrator composed | one action per stretch of code between two awaits |
| `HttpTransportProofs` | theorems about it, and that it implements `RequestDelivery` | |
| `RequestDelivery` | what the request methods of `Transport` promise | abstract: no tokens, sessions, attempts or network |
| `CommandChannel`, `CommandChannelProofs` | `listen_for_commands`, `emit_event`, `connect`, `close` against `_handle_ws` | |
| `ValidatorCache`, `ValidatorCacheProofs` | `get_compiled_validator` and callers | every access to the dict or lock is a step |
| `TypeSchemaCache`, `TypeSchemaCacheProofs` | `extract_json_schema` | a call stack per thread |
| `SchemaExtraction`, `SchemaExtractionProofs` | `extract_*_from_func` and `extract_skill_contract` | composed with the cache: it EXTENDS `TypeSchemaCache` and runs its steps |
| `Serialization` | `utils.py` as operators on trees of values | a tree is a function on paths, so nothing is recursive |
| `Signing`, `SigningProofs` | `sign_*`, `verify_*` between a sender and a receiver | EXTENDS `Serialization` |
| `ResourceMatching`, `ResourceMatchingProofs` | the `matches` methods | a round of the loop is a step |
| `MockTransport`, `MockTransportProofs` | the in-memory transport | |
| `MC*` | constants of the small instances | |

A definition marked `mutant:` is a plausible bug of the code it stands next to.
No specification uses it; substituting it for the real definition makes a
property fail, which shows that the property says something about that code.

### HttpTransport

`session`, `own_session`, `closing`, `token`, `header`, `refresh` are the
attributes of the object (`header` is `_headers[AUTH_HEADER_WORKER]`). `call[c]`
is the local state of one invocation: where it is suspended (`sent`: awaiting a
response; `refreshing`: inside `refresh_token`; `backoff`: the sleep of
`send_result`), the indices of the two loops, its copy of the token header, the
response that has arrived and the outcome. `wire` holds requests that have not
reached the orchestrator. `Receive` runs the code after a response, through
refresh and retry to the next await; `NetworkError` covers `ClientError` and
`TimeoutError` and leaves the request on the wire, so it may still be served;
`Cancel` is the cancellation of the calling task.

The orchestrator's handler is application code. The model lets it accept the
tokens of `liveTok`, issue numbered grants, let tokens expire, revoke a refresh
token on use (`Rotating`), and answer with any member of `Answers`. It is
assumed to have executed a request exactly when it answers below 400, or
possibly when it failed with an unexpected exception. Access token `n` and
refresh token `n` are those of grant `n`.

Left out: lengths of timeouts, the version warning, the `Retry-After` value.
No listener runs in this module, so `_ws_connection` is `None`.

`RequestDelivery` says the same from outside: a call makes at most so many
requests, each is executed at most once at any time after it was made, and the
outcome tells the truth about the last. The refinement mapping (at the end of
`HttpTransport`) takes a call for pending between its first and its last await,
both attempts of a `_request` for one request, and forgets tokens, sessions and
the wire.

### CommandChannel

A connection has the client's view (`open`, `closing` while `ws.close()` waits
for the reader, `closed`), whether the link works, and the messages on their
way in both directions. A listener is connecting, reading, at its `yield`,
leaving the `async with`, or sleeping. `close()` is two actions, because
`ws.close()` is awaited before the session is closed. `emit_event` is the write
of the frame, the drain, and the fallback to HTTP, whose request and answer may
be lost independently. `token` is the access token in `_headers`, as the number
of expiries it has seen, and `valid` the one the orchestrator accepts: a
handshake takes the headers as they are at that moment, and other calls of the
worker refresh the token.

### Caches, matching, mock

`cache` is the sequence of keys in insertion order, which is how a Python dict
iterates. The lookup without the lock is a step of its own. A schema is a name
with a key (its sorted JSON), whether it compiles, and the data it accepts. For
types the entries carry the number of the schema object, so one can tell
whether an entry was replaced. A type is an atom with the types among its
fields (`Nested`); a thread has a stack of calls. A type can contain itself, and
then the calls nest until Python runs out of stack, somewhere between `Room`
calls and `MaxStack` (where exactly depends on what is on the stack below).
`RecursionError` leaves all calls (`Overflow`), unless it hits `get_type_hints`
of a dataclass, which is called under `except Exception: hints = {}`
(`HintsFail`): that dataclass gets a schema made of its raw annotations, in
which only the nested types that are not written as text can be found (`Raw`).
The same happens to a dataclass that names a type before it is defined
(`Forward`). Every schema object says whether it is `whole`; a schema with a
part that is not is not whole either (`Below`).

In `ResourceMatching` a property value is `None`, a number, a text, a dict or a
collection; a list whose items cannot be hashed makes `set()` raise
(`ValueRaises`). The loop over properties stops at the first that is not met, so
what `matches` comes to (`Verdicts`) is a set: `False` or `TypeError`, as the
order of the keys has it. `Contains` is the substring relation between the model
names of the instance.

In `MockTransport` a poll has a step between the `get()` inside `wait_for`, which
takes an item out of the queue, and its return (`GetTask`, `ReturnTask`): the
`wait_for` of Python 3.11 runs the `get()` in a task of its own, and drops a
timeout or a cancellation that comes between the two. In later versions nothing
comes between them.

### Schema extraction

`SchemaExtraction` adds the requests for schemas of functions to the steps of
`TypeSchemaCache`. A signature is a record of what the code looks at: for each
parameter its name, whether it is excluded (by name, as variadic, as a
`Header`), its type and whether it has a default. The steps of a request are
those at which other threads can interfere: reading the attribute, resolving
the hints, each call of `extract_json_schema`, and setting the attribute. A
schema of a function is a record of its properties; the schema of a type is
the type itself, or `Truncated(type)`. `Define` stands for the import of a module
going on: before it annotations that are text cannot be resolved. The reference
(`Due`) is the set of the schemas one thread could compute without cache,
attribute and extractor: a single one, but for types a part of which can be
truncated (`Safe` are those that have no such part), which may also raise. A
schema from before the names were defined stays in the attribute; it is due
for a function that was looked at too early (`early`). The reference works on
the set of a function's parameters (`DueParams`) where the code walks a list
(`Business`, `Where`). What depends on a signature only (`Business`, `Asked`,
`Due`) is a function of the handler, the kind of schema and whether the hints
could be resolved, so TLC computes it once. `Raised` is a record and so differs
from every schema.

The assumptions on the constants: `TypeCacheAssumption` (nested types are
Structs or dataclasses, raw annotations name no others), `SchemaAssumption`
(`Any`, `dict` and the missing annotation have no nested types),
`SignatureAssumption` (the parameters of a function have different names, which
Python enforces), `RequestAssumption` (blueprints map states to functions),
`OpaqueAssumption` (a class whose extraction gives `None` does not contain
itself) and `DepthAssumption`: `Room` is enough for every type that does not
contain itself. Without it a deep type could be answered or raise
`RecursionError` depending on which of the types in it happen to be cached, and
no result would be due.

### Serialization and signing

A value is a tree: a function from paths to nodes, where a path is the sequence
of keys that leads to a node. A node is an atom, a list, a dict or a model; the
atoms are named for what the code tells apart (`one` and `one.0`, `nan`, an
integer beyond 64 bits, an object of some other class). What the code does by
recursion (orjson's, msgspec's, `_finalize_structure`) is said of all paths at
once: which of them are left (`Reached`, `Kept`) and which node each gets
(`Encoded`, `Finalized`); the depth of a call is the length of its path. A key
is the text it has in JSON; a dict carries the order of its keys and the set of
those that are no strings, which orjson makes strings of. Two keys of a dict
with the same text (`1` and `"1"`) are not modelled. A model that msgspec cannot
convert becomes a `Text` node, its `str()`, which stands for all of it.
`from_dict` raises `ValueError` for a field that is missing or does not have the
type of the model (`HasType`); a receiver can be sent both, and a sender can sign
a model whose `id` is no text.

In `Signing` a payload goes through `Sign`, `Attach`, `Send`, `Replace`,
`Receive` and `Verify`. `Replace` puts any JSON of `Data` in the place of the
payload or of its data, bubbling chains included. Verification is tried with the
genuine signature, with none, and with a text that holds more than ASCII
(`Garbled`), which `compare_digest` refuses with `TypeError`. Cryptography is
ideal: a signature is the pair of key and message. The reference (`Equivalent`) compares two payloads without a
canonical form: which paths say something (`Said`) and what is said there
(`Meaning`). `SignedVerifies` and the comparison in `AcceptedSaysTheSame` leave
out a payload that becomes a `str()` as a whole: its signature cannot be
attached to it without changing the text.

The assumptions: `DepthAssumption` (the limit is a number), `NameAssumption`
(the keys that occur include the fields of the model) and `SigningAssumption`
(what is sent is a tree, what arrives instead is JSON; `step` of a model that is
signed is no float, and the field the signature goes to holds nothing msgspec
cannot convert).

## 3. Runs

| Run | Question | Bounds |
|---|---|---|
| `tokens` | Do concurrent refreshes and registrations keep the tokens of one grant together, and does the retry use a new token? | `poll_task`, `register`, `refresh_token`, a `send_result` without tries; two grants: one to overwrite another out of order, and to revoke the refresh token of another |
| `results` | How often is a request executed, what does the outcome mean, does every call end? Is it an implementation of `RequestDelivery`? | `send_result` with two tries (one repetition, the last index of the loop) and `emit_event`; one grant, so a refresh succeeds once and fails afterwards |
| `channel` | Sockets, events and commands under close, connect, cancellation and broken links | one listener, two connections (one reconnection), one failed handshake, one expiry, one event, two messages |
| `validators` | Bounds, duplicate compilation, verdicts, progress | two threads, three calls, room for one of two validators: eviction and re-compilation happen |
| `schemas` | Is everything that is cached or handed out the schema it should be, does every request end? | two threads, two requests, room for two of eleven types (a nested dataclass, a Struct and a dataclass that contain themselves, a generic one), a stack that ends at two or three calls, six functions and two blueprints |
| `signing` | Does what was signed verify, and only that? Where does it fail? | some hundred values up to three levels deep with a limit of two, models that become their `str()` and ill-typed ones among them, a model with five fields, two keys, four pairs of functions |
| `matching` | Is `True` sound, where is `False` complete? | all lists of up to two of eight devices on both sides, one of them with a property that cannot be hashed, six property sets, one with a `None` |
| `mock` | Is a task lost or given twice, does `close()` end a listener? | two polls, one listener, three items, one malformed |
| `auth_recoverable` | does not hold | see section 6 |
| `reconnect_session` | does not hold | |
| `given_session_close` | does not hold | |
| `matching_complete` | does not hold | |

Deadlock checking is off everywhere: each call of an instance is made once and
counters are capped (`MaxGrants`, `MaxConns`, `MaxFailures`, `MaxCalls`,
`MaxRecords`), so an instance may come to rest. When `MaxConns` is used up every
handshake fails, and `Reconnects` excludes that state.

## 4. Fairness

* `HttpTransport`: weak fairness of each call's own step. An outstanding request
  is answered or runs into aiohttp's total timeout, which `NetworkError` stands
  for, and a sleep ends. The orchestrator is not obliged to do anything.
* `CommandChannel`: weak fairness of each listener and of the rest of `close()`.
  The handshake has aiohttp's default timeout, what has arrived is read, sleeps
  end, the consumer asks for the next command. Nobody is obliged to call
  `close()`, to send or to hang up.
* Caches and schema extraction: weak fairness of each thread. `threading.Lock` is not fair, but calls
  are bounded, so a waiting thread gets the lock in the end.
* `MockTransport`: weak fairness of a listener for which there is a command, and
  of the consumer that asks for the next one. Nobody is obliged to push or to call `close()`.

## 5. Proofs

All proofs hold for every value of the constants that the `ASSUME`s of the
modules allow.

`HttpTransportProofs` proves `TypeOK`, `HandlingBudget`, `TrueMeansAccepted`,
`RefusedMeansNotExecuted`, `TokensPaired` and `RetryWithNewToken` from one
inductive invariant `IInv == TypeOK /\ Held /\ Safe`. `HandlingBudget` is not
inductive: a request on the wire may still be executed. `InFlight` therefore
says that a request on the wire is the only one of its `_request` and that none
of that `_request` was executed. To keep it when the second attempt is sent one
needs to know that the first left no trace: `Clean(c)`, which `Control` asserts
when a 401 or 429 has arrived, while a token is being refreshed and after the
two errors. `Acks` ties a response that becomes `True` to an accepted request,
and `Grants` says that grants are numbered upwards and that a refresh brings a
token newer than the refused one, which gives `RetryWithNewToken`. There is one
lemma per action and one for each of the things a coroutine can do between two
awaits (rest, send, ask for a token).

`StrandedIsReported` needs more: `RInv == IInv /\ AskedOnce /\ Unspent /\
StrandedIsReported`. The refresh token of the worker stops being accepted only
when a request with it is executed. `AskedOnce` says that a call that is
refreshing has at most one such request on the wire, and no answer yet, or has
reported; `Unspent` says that a refresh token that has been received but not
installed belongs to one call and has not been used. So the call whose request
spent the token still owes its outcome: it installs the new token or reports.

Its last part proves `Spec => ImplementsDelivery`. Each action of
the transport is shown to be one of `Request`, `Return`, `Execute` or a
stutter, with `IInv` as the source of the guards: that a second attempt is no
second request needs `Control`, that `True` is returned only for an accepted
request needs `Acks`, and that a refused request is never executed afterwards
needs `InFlight`.

`CommandChannelProofs` proves `TypeOK`, `NoOrphanSocket`,
`DuplicateOnlyAfterError` and `TrueMeansSent` from `IInv == Types /\
NoOrphanSocket /\ FramesUnique /\ Deliveries /\ Progressed /\ TrueMeansSent`.
`Deliveries` is a balance: what the orchestrator has handled of an event, and
the frame that is still on its way, are no more than the frame written and the
request posted. `Progressed` says that `emit_event` reaches the fallback after a
frame was written only if the drain raised; `FramesUnique` that no event is
twice among the frames. An event is therefore handled twice only after an
error. All of it holds for any number of listeners. `CurrentSocket` is left to
TLC and one listener: when there are two, one that wakes up resets
`_ws_connection` while the other is connected. `emit_event` then takes the
fallback and `close()` finds no socket to close; closing the session,
if it is the transport's own, ends the other listener and its socket all the
same (`NoOrphanSocket` is proved for any
number of listeners).

`ValidatorCacheProofs` proves `TypeOK` (with mutual exclusion), `BoundedCache`
and `CompiledOncePerResidence`. The strengthening `Accounted` says that each
key's compilations exceed its evictions by one exactly while it is resident or
about to be inserted; `Inside` says what the thread in the critical section
knows (its key is not resident, and before the insertion there is room).
`VerdictsCorrect` follows from `VInv == IInv /\ Compilable /\ \A t \in Threads :
Honest(thread[t])`: only keys of schemas that compile are resident, and the
validator a thread holds is the one of its own schema.

`TypeSchemaCacheProofs` proves `TypeOK` (with mutual exclusion),
`BoundedTypeCache`, `CompleteCached` and `FirstObjectStays` for any types,
recursive ones too. `CompleteCached` speaks of the cache only; what makes it
inductive is what each call on a stack knows (`FrameGood`): the call above it
extracts the nested type it has come to (`Linked`), as long as its schema is
whole the nested types before that do not contain themselves (`Passed`), and
past its extraction its object is what it should be, and once it has looked
under the lock the type is not in the cache and there is room (`Made`).
`CompleteType` closes one circle: a type none of whose nested types contains
itself does not, either. The other is `Excused`: a type apart from those that
contain themselves is only ever on a stack that began with such a type
(`ApartAround`), and there is room for all calls of that stack
(`DeepIsEndless`, the place where `DepthAssumption` is needed), so a dataclass
of a `Safe` type never loses its hints.

`SchemaExtractionProofs` has three parts. The first is about signatures alone:
`WhereFacts` says what the loop over the parameters collects (by the least index
at which it would not hold), `ComputedIsDue` that the schema made of the right
answers is one that is due, and `FailureIsDue` that `RecursionError` (or `None`,
for an output) is due when an answer is `RecursionError`. The second is about a
call of `extract_json_schema`: every step of it keeps that it works on the type
it was asked for or has answered rightly (`StepAnswers`): with the type, or with
`Truncated` of it unless the type is `Safe`. The third is the invariant `EInv`: the schemas a
request has got are those asked for so far (`GotRight`), a call is running for
the next one (`Calling`), hints that could not be resolved belong to a function
looked at too early (`Known`), and results and attributes are due
(`ResultsDue`, `AttributesDue`). There is one lemma per action. It gives
`AttributesDue`, and with what `extract_skill_contract` puts where
(`PlanParts`, `ContractOfDue`) also `ContractDue`. `UsesCacheAsSpecified` is
`ContractSpec => Spec`: extraction uses the cache only through the steps of
`TypeSchemaCache`, so the theorems of `TypeSchemaCacheProofs` hold of it.

`ResourceMatchingProofs` proves `TrueMeansMeets`: the devices taken so far are
distinct and serve the requirements so far, so at the end they are the witness
of the assignment.

When all required devices are the same, a refusal means that too few serve them,
by the pigeonhole principle (`UniformComplete`). A worker matches its
own resources (`MatchesItself`), because device `i` is still free when
requirement `i` comes up, and the first of those that are left, so no comparison
that could raise comes before it. It matches as soon as its properties are
`Satisfiable`.

`MockTransportProofs` proves `TypeOK` and `TasksAccounted` from `IInv == TypeOK
/\ Distinct(task_queue) /\ EmptyHanded /\ Accounted`: a task is in the queue
once and taken by nobody, or out of it and taken by one poll, which keeps it
until it returns, and a poll that waits has taken nothing.

`SigningProofs` has three parts. The first is about paths: what it means to be
a prefix, the path above a path, a key in front of one. The second is about the
canonical form. Because a tree is a function on paths, `to_dict` needs no
induction: `ToDictIs` says that it raises `TypeError` or `RecursionError` for
the two reasons there are, or is `[p \in Said(n) |-> Final(n, p)]`, so it keeps
exactly the paths the reference calls said. Its result is in canonical form
(`Normal`), and on a canonical form without a number that is too big (`Clean`)
`dumps` and `to_dict` are the identity (`NormalDumped`): that is why decoding
and normalising once more on the other side changes nothing. Two values that
agree outside some entries (`Agree`) have the same canonical form there
(`AgreeSaid`, `AgreeFinal`, `AgreeText` for a model that becomes its `str()`),
so attaching a signature in an unsigned field does not change the message
(`AttachFacts`), and the message means what the content means (`MessageMeans`).
`FromDictFacts` says that a model made of a canonical form has it again as its
own, if no field holds its default.

Two theorems are about these operators alone, for all values: the bytes that are
written or hashed are the same exactly for values that say the same
(`SameBytesSameMeaning`; a canonical node is determined by its meaning,
`FinalRendered`, and the other way round), and a round trip through JSON or the
model changes nothing (`RoundTrip`).

The third part is the invariant `IInv`. `SignatureInv`: the signature is that
of the payload as it is now, although a field was added since. `WireInv`: what
travels is JSON, and the canonical form of the payload while nothing was
replaced. `GotInv`: the receiver has that or the model
made of it. `SignedVerifies`, `AcceptedSaysTheSame` and `FailsOnlyAtLimits` are
parts of `IInv`; there is one lemma per action, and the work is in `Verify`:
`SentFields` (a field that travels is not private and not its default, so the
model at the other end says it again) and `SameMessage` (the same message, the
same meaning). `IInv` was checked by TLC on the instance of the run `signing`
before it was proved.

Every safety property of the runs that hold is proved but `CurrentSocket`. Only
model-checked are that one and liveness under the fairness of section 4, which
is beyond the prover: `CallsTerminate`, `CloseStopsListeners`, `Reconnects`,
`CommandsReachConsumer`, `CallsReturn`, `RequestsEnd` and `ListenersEnd`.

## 6. Where code and documentation disagree

Four runs show that a statement of the repository does not hold:

* `auth_recoverable`: `RxonAuthError` is raised although the transport already
  holds a live token (`http.py:133`, `exceptions.py:38`). In the run a worker
  registers, its access token expires, a poll and a heartbeat get 401, and both
  refresh with the refresh token of the registration; it is revoked by the first,
  so the second is refused and raises.
* `reconnect_session`: after `close()` and `connect()` the session is the closed
  one (`http.py:92`, `base.py:28`).
* `given_session_close`: `close()` during a handshake on a session that was
  passed in does not end the listener (`http.py:296`, `base.py:33`).
* `matching_complete`: a worker that meets the requirements is turned down when
  the devices are in the wrong order (`models.py:104`, `models.py:101`).

Smaller differences, visible in the operators and not given a run: a 403 raises
`RxonProtocolError` while `exceptions.py:38` names it under `RxonAuthError`; a
body that is declared JSON and does not parse raises the base class `RxonError`
while `exceptions.py:44` names bad JSON under `RxonProtocolError` (`Decode`);
`from_dict` hands JSON that is no object through, so `listen_for_commands` can
yield something that is no `WorkerCommand` (`OnText`, text kind `scalar`); the
mock's `close()` does not wake a waiting listener (`ListenersEnd` says when it
ends); the validator cache evicts in insertion order and its limit is 1024
(`schema.py:325`, `Evict`) while `README.md:23` calls it an LRU cache of 2048
entries; a parameter annotated `Any` has the schema of a string when it is the
only one and `{}` otherwise (`schema.py:447`, `schema.py:466`, `Property`); a
model that holds an object msgspec cannot convert is signed as its `str()`
(`utils.py:43`, `default_handler`); a dataclass that does not contain itself can
be cached with a schema made of its raw annotations, after a dataclass that
does, and has it in a field, was asked for (`schema.py:116`; `HintsFail`,
`CompleteCached` says which types are `Safe` from it), although `README.md:42`
promises dataclasses first-class support.

## 7. Not modelled, and the plan

Not modelled: `translate_error` (wording), TLS contexts and certificates
(library configuration), blob URIs and identifiers (string functions without
state), the factory, constants and plain records.

Left out of modelled parts: which keywords the JSON schema of a type has
(`_python_type_to_json_schema` is its recursion only), extractors that raise,
schemas given as a dict, how much stack Python has; a dict that spells out the default of a field and is verified as a model
(`SignedVerifies` excludes it: the two sides normalise it differently); what a
`str()` looks like.

The order of the work, most important behaviour first; all items are done:

1. `HttpListener` and `HttpTransport` with their proofs.
2. `CommandChannel`, with tokens.
3. `ValidatorCache` with proofs, `TypeSchemaCache` with proofs.
4. `ResourceMatching` with its proof, `MockTransport`.
5. `RequestDelivery` and the refinement from `HttpTransport`.
6. `Serialization` and `Signing`.
7. `SchemaExtraction`.
8. Proofs: `VerdictsCorrect`, the safety of `CommandChannel`,
   `StrandedIsReported`, `TasksAccounted`, `UniformComplete`, `MatchesItself`,
   `AttributesDue`, `ContractDue`, the three properties of `Signing`.
9. Dataclasses that contain themselves, ill-typed fields, `None` among the
   properties, and timeouts of the mock after an item was taken.
