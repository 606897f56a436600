---------------------------- MODULE HttpTransport ---------------------------
(***************************************************************************)
(* The worker's HTTP transport (src/rxon/transports/http.py): the tokens   *)
(* it shares between the calls of the worker, the request engine _request  *)
(* with its single 401 retry, refresh_token, and the API methods built on  *)
(* them (register, poll_task, send_result, send_heartbeat, the HTTP path   *)
(* of emit_event).                                                         *)
(*                                                                         *)
(* The methods are coroutines of one event loop.  A call runs without      *)
(* interruption from one await to the next, so an action below is the code *)
(* between two awaits, and the calls of Calls interleave at the awaits.    *)
(* Each member of Calls is one invocation of the method Kind[c]            *)
(* ("refresh" is refresh_token called by the application itself).          *)
(*                                                                         *)
(* The other end is HttpListener plus the orchestrator's handler.  The     *)
(* handler is external: it accepts the tokens of liveTok, issues numbered  *)
(* grants (access token n, refresh token n or none) and answers an         *)
(* authenticated request with any member of Answers.  The network may      *)
(* fail a call at any time while its request is still on its way, so a     *)
(* request can be served after the worker has given up on it.              *)
(*                                                                         *)
(* No command listener runs here, so _ws_connection is None and close()    *)
(* and emit_event take the branches for that case.  Timeout lengths, the   *)
(* protocol version warning and the Retry-After value are abstracted away. *)
(***************************************************************************)
EXTENDS Integers, HttpListener

CONSTANTS
  Calls,          \* the invocations of API methods, each made once
  Kind,           \* the method each of them invokes
  Retries,        \* max_retries or else result_retries of each send_result
  MaxGrants,      \* bound: the grants the orchestrator ever issues
  GivenSession,   \* TRUE: a session was passed to __init__
  Rotating,       \* TRUE: using a refresh token revokes it
  Answers         \* the handler's answers to an authenticated request

ApiKinds == {"register", "poll", "result", "heartbeat", "event"}
Tokens   == 0 .. MaxGrants       \* 0: the token given to __init__ / no refresh token

\* A value the handler returns goes out as JSON; a 204 has no body.
AnswerType ==
  {a \in [does : {"return", "response"} \cup Raises, status : Statuses,
          body : Bodies \ {"token"}, access : {0}, refresh : {0}] :
     /\ a.does = "return" => a.body \notin {"none", "text", "garbled"}
     /\ a.status = 204 => a.body = "none"}

ASSUME TransportAssumption ==
  /\ Kind \in [Calls -> ApiKinds \cup {"refresh"}]
  /\ Retries \in [Calls -> Nat]
  /\ MaxGrants \in Nat
  /\ GivenSession \in BOOLEAN
  /\ Rotating \in BOOLEAN
  /\ Answers \subseteq AnswerType

VARIABLES
  session,      \* _session: "none", "open" or "closed"
  own_session,  \* _own_session
  closing,      \* _closing
  token,        \* self.token
  header,       \* _headers[AUTH_HEADER_WORKER]
  refresh,      \* refresh_token_value, 0 for None
  call,         \* the local state of every call
  wire,         \* requests that have not reached the orchestrator yet
  started,      \* the listener has a handler
  liveTok,      \* access tokens the orchestrator accepts
  liveRef,      \* refresh tokens the orchestrator accepts
  issued,       \* number of grants issued so far
  handled,      \* requests the handler has executed
  accepted      \* those it executed and did not answer "ignored"

sessionVars == <<session, own_session, closing>>
tokenVars   == <<token, header, refresh>>
serverVars  == <<started, liveTok, liveRef, issued, handled, accepted>>
vars        == <<sessionVars, tokenVars, call, wire, serverVars>>

\* A call: where its coroutine is suspended, the index of the loop in
\* send_result, the index of the loop in _request, the request's copy of the
\* token header, the response that has arrived (status 0: none) and what the
\* method returned or raised.
NoReply == Reply(0, "none")

RxonErrors == {"RxonNetworkError", "RxonAuthError", "RxonProtocolError",
               "RxonRateLimitError", "RxonError"}
Outcomes   == {"none", "True", "False", "None"} \cup Bodies \cup RxonErrors
                \cup {"ValueError", "CancelledError"}
ReplyType  == [status : Statuses \cup {0}, body : Bodies,
               access : Tokens, refresh : Tokens]
CallType   == [pc : {"idle", "sent", "refreshing", "backoff", "done"},
               nth : Nat, attempt : {0, 1}, hdr : Tokens, reply : ReplyType,
               outcome : Outcomes]
Message    == [call : Calls, nth : Nat, attempt : {0, 1},
               to : {"api", "sts_token", "sts_refresh"}, hdr : Tokens, rt : Tokens]
RequestId  == [call : Calls, nth : Nat, attempt : {0, 1}]

(* The number of _requests a call may make.                                *)
Budget(c) == IF Kind[c] = "result" THEN Retries[c] ELSE 1

(* Every variable keeps its type; the loop index of send_result stays      *)
(* below result_retries.                                                   *)
TypeOK ==
  /\ session \in {"none", "open", "closed"}
  /\ own_session \in BOOLEAN
  /\ closing \in BOOLEAN
  /\ token \in Tokens /\ header \in Tokens /\ refresh \in Tokens
  /\ call \in [Calls -> CallType]
  /\ \A c \in Calls : call[c].nth = 0 \/ call[c].nth < Budget(c)
  /\ wire \subseteq Message
  /\ started \in BOOLEAN
  /\ liveTok \subseteq Tokens /\ liveRef \subseteq Tokens
  /\ issued \in Tokens
  /\ handled \subseteq RequestId /\ accepted \subseteq RequestId

-----------------------------------------------------------------------------
(* __init__ *)
Init ==
  /\ session = IF GivenSession THEN "open" ELSE "none"
  /\ own_session = FALSE
  /\ closing = FALSE
  /\ token = 0 /\ header = 0 /\ refresh = 0
  /\ call = [c \in Calls |-> [pc |-> "idle", nth |-> 0, attempt |-> 0, hdr |-> 0,
                              reply |-> NoReply, outcome |-> "none"]]
  /\ wire = {}
  /\ started \in BOOLEAN
  /\ liveTok = {0} /\ liveRef = {} /\ issued = 0
  /\ handled = {} /\ accepted = {}

Connect ==
  /\ session' = IF session = "none" THEN "open" ELSE session
  /\ own_session' = (own_session \/ session = "none")
  /\ closing' = FALSE
  /\ UNCHANGED <<tokenVars, call, wire, serverVars>>

Close ==
  /\ closing' = TRUE
  /\ session' = IF own_session THEN "closed" ELSE session
  /\ UNCHANGED <<own_session, tokenVars, call, wire, serverVars>>

-----------------------------------------------------------------------------
(* What a response means to _request: the JSON value it carries or the     *)
(* RxonError it raises (a 401 is dealt with before).                       *)
DecodeSwapped(r) ==      \* mutant: every error status is read as a rate limit
  IF r.status >= 429 THEN "RxonRateLimitError"
  ELSE IF r.status = 204 THEN "falsy" ELSE r.body

Decode(r) ==
  CASE r.status = 204     -> "falsy"
    [] r.status = 429     -> "RxonRateLimitError"
    [] r.status >= 400 /\ r.status # 429 -> "RxonProtocolError"
    [] r.status = 200 /\ r.body \in {"text", "none"} -> "RxonProtocolError"
    [] r.status = 200 /\ r.body = "garbled"          -> "RxonError"
    [] OTHER              -> r.body

(* What each API method makes of the value or error of its last _request.  *)
poll_task(r) ==
  IF r \in RxonErrors THEN r
  ELSE IF r = "falsy" THEN "None" ELSE IF r = "task" THEN "task" ELSE "ValueError"

send_result_unchecked(r) ==   \* mutant: the "ignored" verdict is not looked at
  IF r \in RxonErrors THEN r ELSE "True"

send_result(r) ==
  IF r \in RxonErrors THEN r ELSE IF r = "ignored" THEN "False" ELSE "True"

emit_event(r) == IF r \in RxonErrors THEN "False" ELSE "True"

MethodResult(k, r) ==
  CASE k = "poll"   -> poll_task(r)
    [] k = "result" -> send_result(r)
    [] k = "event"  -> emit_event(r)
    [] OTHER        -> r

(* send_result tries again after a network error while tries are left.     *)
TriesOnceMore(c, n, r) ==     \* mutant: off by one
  Kind[c] = "result" /\ r = "RxonNetworkError" /\ n < Retries[c]

TriesAgain(c, n, r) ==
  Kind[c] = "result" /\ r = "RxonNetworkError" /\ n < Retries[c] - 1

Finished(c, o) == [call[c] EXCEPT !.pc = "done", !.reply = NoReply, !.outcome = o]

(* The call after its n-th _request has ended with r: the call is over, or *)
(* send_result sleeps before the next try.                                 *)
Settled(c, n, r) ==
  IF TriesAgain(c, n, r)
    THEN [call[c] EXCEPT !.pc = "backoff", !.nth = n, !.reply = NoReply]
    ELSE [Finished(c, MethodResult(Kind[c], r)) EXCEPT !.nth = n]

-----------------------------------------------------------------------------
(* One pass of the loop of _request: attempt a of the n-th _request of     *)
(* call c goes out with token h in its headers.                            *)
SendRequest(c, n, a, h) ==
  /\ call' = [call EXCEPT ![c] = [@ EXCEPT !.pc = "sent", !.nth = n, !.attempt = a,
                                           !.hdr = h, !.reply = NoReply]]
  /\ wire' = wire \cup {[call |-> c, nth |-> n, attempt |-> a, to |-> "api",
                         hdr |-> h, rt |-> 0]}

(* The same when the session may be unusable: without one _request raises  *)
(* RxonNetworkError; a closed one raises RuntimeError, which becomes       *)
(* RxonError.                                                              *)
TryRequest(c, n, a, h) ==
  \/ /\ session = "open"
     /\ SendRequest(c, n, a, h)
  \/ /\ session # "open"
     /\ call' = [call EXCEPT ![c] =
                   Settled(c, n, IF session = "none" THEN "RxonNetworkError" ELSE "RxonError")]
     /\ UNCHANGED wire

BeginRequest(c, n) == TryRequest(c, n, 0, header)

(* refresh_token has returned None.                                        *)
RefreshFailed(c) ==
  /\ call' = [call EXCEPT ![c] = IF Kind[c] = "refresh" THEN Finished(c, "None")
                                 ELSE Settled(c, call[c].nth, "RxonAuthError")]
  /\ UNCHANGED <<wire, tokenVars>>

(* The start of refresh_token: the refresh endpoint when there is a        *)
(* refresh token, the STS token endpoint otherwise.                        *)
BeginRefresh(c) ==
  \/ /\ session = "open"
     /\ call' = [call EXCEPT ![c] = [@ EXCEPT !.pc = "refreshing", !.reply = NoReply]]
     /\ wire' = wire \cup {[call |-> c, nth |-> call[c].nth, attempt |-> 0,
                            to |-> IF refresh # 0 THEN "sts_refresh" ELSE "sts_token",
                            hdr |-> header, rt |-> refresh]}
     /\ UNCHANGED tokenVars
  \/ /\ session # "open"
     /\ RefreshFailed(c)

(* The assignments made from a TokenResponse.                              *)
InstallNotInHeader(r) ==      \* mutant: _headers keeps the old token
  /\ token' = r.access
  /\ refresh' = r.refresh
  /\ UNCHANGED header

InstallKeepsRefresh(r) ==     \* mutant: the refresh token is never replaced
  /\ token' = r.access
  /\ header' = r.access
  /\ refresh' = IF refresh = 0 THEN r.refresh ELSE refresh

Install(r) ==
  /\ token' = r.access
  /\ header' = r.access
  /\ refresh' = r.refresh

(* The token the second attempt is sent with: _headers as refresh_token    *)
(* has just left it.                                                       *)
RetryOldHeader(c, r) == call[c].hdr   \* mutant: headers are not copied again

RetryHeader(c, r) == r.access

(* The response to the refresh request of c has arrived.                   *)
RefreshDone(c) ==
  LET r == call[c].reply IN
  \/ /\ r.status = 200 /\ r.body = "token"
     /\ Install(r)
     /\ IF Kind[c] = "refresh"
          THEN call' = [call EXCEPT ![c] = Finished(c, "token")] /\ UNCHANGED wire
          ELSE TryRequest(c, call[c].nth, 1, RetryHeader(c, r))
  \/ /\ ~(r.status = 200 /\ r.body = "token")
     /\ RefreshFailed(c)

-----------------------------------------------------------------------------
(* The API methods are called.  send_result with no tries returns False.   *)
Start(c) ==
  /\ call[c].pc = "idle"
  /\ \/ /\ Kind[c] = "refresh"
        /\ BeginRefresh(c)
     \/ /\ Kind[c] = "result" /\ Retries[c] = 0
        /\ call' = [call EXCEPT ![c] = Finished(c, "False")]
        /\ UNCHANGED <<wire, tokenVars>>
     \/ /\ Kind[c] # "refresh" /\ ~(Kind[c] = "result" /\ Retries[c] = 0)
        /\ BeginRequest(c, 0)
        /\ UNCHANGED tokenVars
  /\ UNCHANGED <<sessionVars, serverVars>>

(* A response reaches the call that waits for it, possibly just after      *)
(* close() has closed the session.                                         *)
Receive(c) ==
  LET r == call[c].reply IN
  /\ r.status # 0
  /\ \/ /\ call[c].pc = "refreshing"
        /\ RefreshDone(c)
     \/ /\ call[c].pc = "sent" /\ r.status = 401 /\ call[c].attempt = 0
        /\ BeginRefresh(c)
     \/ /\ call[c].pc = "sent" /\ r.status = 401 /\ call[c].attempt = 1
        /\ call' = [call EXCEPT ![c] = Settled(c, call[c].nth, "RxonAuthError")]
        /\ UNCHANGED <<wire, tokenVars>>
     \/ /\ call[c].pc = "sent" /\ r.status # 401
        /\ call' = [call EXCEPT ![c] = Settled(c, call[c].nth, Decode(r))]
        /\ IF Kind[c] = "register" /\ Decode(r) = "token" THEN Install(r)
                                                          ELSE UNCHANGED tokenVars
        /\ UNCHANGED wire
  /\ UNCHANGED <<sessionVars, serverVars>>

(* ClientError or TimeoutError while a request of c is outstanding; the    *)
(* request itself stays on the wire.  refresh_token swallows the error.    *)
NetworkErrorRetried(c) ==     \* mutant: _request also retries a network error
  /\ \/ /\ call[c].pc = "sent" /\ call[c].attempt = 0
        /\ TryRequest(c, call[c].nth, 1, header)
     \/ /\ call[c].pc = "sent" /\ call[c].attempt = 1
        /\ call' = [call EXCEPT ![c] = Settled(c, call[c].nth, "RxonNetworkError")]
        /\ UNCHANGED wire
     \/ /\ call[c].pc = "refreshing"
        /\ RefreshFailed(c)
  /\ UNCHANGED <<sessionVars, tokenVars, serverVars>>

NetworkError(c) ==
  /\ \/ /\ call[c].pc = "sent"
        /\ call' = [call EXCEPT ![c] = Settled(c, call[c].nth, "RxonNetworkError")]
        /\ UNCHANGED <<wire, tokenVars>>
     \/ /\ call[c].pc = "refreshing"
        /\ RefreshFailed(c)
  /\ UNCHANGED <<sessionVars, serverVars>>

(* The sleep between two tries of send_result is over.                     *)
WakeSameTry(c) ==             \* mutant: the loop index does not advance
  /\ call[c].pc = "backoff"
  /\ BeginRequest(c, call[c].nth)
  /\ UNCHANGED <<sessionVars, tokenVars, serverVars>>

Wake(c) ==
  /\ call[c].pc = "backoff"
  /\ BeginRequest(c, call[c].nth + 1)
  /\ UNCHANGED <<sessionVars, tokenVars, serverVars>>

(* The application cancels the call (wait_for around it times out).        *)
Cancel(c) ==
  /\ call[c].pc \in {"sent", "refreshing", "backoff"}
  /\ call' = [call EXCEPT ![c] = Finished(c, "CancelledError")]
  /\ UNCHANGED <<sessionVars, tokenVars, wire, serverVars>>

-----------------------------------------------------------------------------
(* The orchestrator.                                                       *)
StartListener ==
  /\ ~started
  /\ started' = TRUE
  /\ UNCHANGED <<sessionVars, tokenVars, call, wire, liveTok, liveRef, issued,
                 handled, accepted>>

Expire(t) ==
  /\ t \in liveTok
  /\ liveTok' = liveTok \ {t}
  /\ UNCHANGED <<sessionVars, tokenVars, call, wire, started, liveRef, issued,
                 handled, accepted>>

(* The call of m is still waiting for the response to m.                   *)
Awaits(m) ==
  /\ call[m.call].pc = IF m.to = "api" THEN "sent" ELSE "refreshing"
  /\ call[m.call].nth = m.nth
  /\ m.to = "api" => call[m.call].attempt = m.attempt

Respond(m, r) ==
  /\ wire' = wire \ {m}
  /\ call' = IF Awaits(m) /\ session = "open"
             THEN [call EXCEPT ![m.call] = [@ EXCEPT !.reply = r]] ELSE call

IdOf(m) == [call |-> m.call, nth |-> m.nth, attempt |-> m.attempt]

(* Some bodies answer one endpoint only.                                   *)
Fits(a, k) ==
  /\ a.body = "ignored" => k = "result"
  /\ a.body = "task" => k = "poll"

(* The handler has done its work when the response is below 400, and it    *)
(* may have done it when it failed with an unexpected exception.           *)
Executes(a, r) == a.does = "Exception" \/ r.status < 400
Accepts(r)     == r.status < 400 /\ r.body # "ignored"

(* A request is turned away: with 401 by the handler, with 503 without one. *)
Refusal == IF started THEN Answer("HTTPException", 401, "none") ELSE NoHandler

(* A request to one of the worker endpoints is served.                     *)
ServeApi(m) ==
  /\ m.to = "api"
  /\ \/ /\ m.hdr \notin liveTok \/ ~started
        /\ Respond(m, Route(Kind[m.call], Refusal))
        /\ UNCHANGED <<handled, accepted>>
     \/ /\ m.hdr \in liveTok /\ started
        /\ \E a \in Answers :
             LET r == Route(Kind[m.call], a) IN
             /\ Fits(a, Kind[m.call])
             /\ Respond(m, r)
             /\ handled' = IF Executes(a, r) THEN handled \cup {IdOf(m)} ELSE handled
             /\ accepted' = IF Accepts(r) THEN accepted \cup {IdOf(m)} ELSE accepted
  /\ UNCHANGED <<sessionVars, tokenVars, started, liveTok, liveRef, issued>>

(* The tokens of the next grant, with or without a refresh token.          *)
Granted(n, renew) ==
  [Answer("return", 200, "token") EXCEPT !.access = n, !.refresh = IF renew THEN n ELSE 0]

NewGrant(renew, used) ==
  /\ issued < MaxGrants
  /\ issued' = issued + 1
  /\ liveTok' = liveTok \cup {issued + 1}
  /\ liveRef' = (IF Rotating THEN liveRef \ {used} ELSE liveRef)
                  \cup (IF renew THEN {issued + 1} ELSE {})

(* A registration is answered with tokens.                                 *)
ServeRegistration(m) ==
  /\ m.to = "api" /\ Kind[m.call] = "register"
  /\ m.hdr \in liveTok /\ started
  /\ \E renew \in BOOLEAN :
       /\ NewGrant(renew, 0)
       /\ Respond(m, Route("register", Granted(issued + 1, renew)))
  /\ handled' = handled \cup {IdOf(m)}
  /\ accepted' = accepted \cup {IdOf(m)}
  /\ UNCHANGED <<sessionVars, tokenVars, started>>

(* A token request is granted (the refresh endpoint needs a live refresh   *)
(* token) or refused.                                                      *)
ServeSts(m) ==
  /\ m.to # "api"
  /\ \/ /\ started
        /\ m.to = "sts_refresh" => m.rt \in liveRef
        /\ \E renew \in BOOLEAN :
             /\ NewGrant(renew, m.rt)
             /\ Respond(m, Route(m.to, Granted(issued + 1, renew)))
     \/ /\ Respond(m, Route(m.to, Refusal))
        /\ UNCHANGED <<liveTok, liveRef, issued>>
  /\ UNCHANGED <<sessionVars, tokenVars, started, handled, accepted>>

-----------------------------------------------------------------------------
Progress(c) == Receive(c) \/ NetworkError(c) \/ Wake(c)

Worker == Connect \/ Close \/ \E c \in Calls : Start(c) \/ Progress(c) \/ Cancel(c)

Orchestrator ==
  \/ StartListener
  \/ \E t \in Tokens : Expire(t)
  \/ \E m \in wire : ServeApi(m) \/ ServeRegistration(m) \/ ServeSts(m)

Next == Worker \/ Orchestrator

(* Every outstanding request is answered or runs into the session's total  *)
(* timeout, and a sleep ends.  Nothing obliges the orchestrator to act.    *)
Fairness == \A c \in Calls : WF_vars(Progress(c))

Spec     == Init /\ [][Next]_vars
FairSpec == Spec /\ Fairness

-----------------------------------------------------------------------------
(* Safety.                                                                 *)

(* The orchestrator executes at most one of the two attempts of a          *)
(* _request, and of one API call no more requests than the method may make *)
(* (result_retries for send_result, one for the others), however responses *)
(* are lost and late requests still served.                                *)
HandlingBudget ==
  \A h \in handled :
    /\ h.nth < Budget(h.call)
    /\ \A g \in handled : g.call = h.call /\ g.nth = h.nth => g = h

(* When send_result or emit_event returns True, the orchestrator has       *)
(* executed that very request and has not ignored it.                      *)
TrueMeansAccepted ==
  \A c \in Calls : call[c].outcome = "True" =>
    \E h \in accepted : h.call = c /\ h.nth = call[c].nth

(* RxonAuthError and RxonRateLimitError mean that the orchestrator refused *)
(* the last request: nothing of it is or will be executed, so the caller   *)
(* may repeat it.                                                          *)
RefusedMeansNotExecuted ==
  \A c \in Calls : call[c].outcome \in {"RxonAuthError", "RxonRateLimitError"} =>
    /\ \A h \in handled : h.call = c => h.nth < call[c].nth
    /\ \A m \in wire : m.call = c /\ m.to = "api" => m.nth < call[c].nth

(* self.token, the header of later requests and the refresh token always   *)
(* stem from one and the same grant, whatever the order in which           *)
(* concurrent refreshes and registrations complete.                        *)
TokensPaired == header = token /\ refresh \in {0, token}

(* A worker is never stranded unnoticed.  Its refresh token may have been  *)
(* revoked while the new one is still on its way, or was lost with a       *)
(* response or with a call that was cancelled; but then a call is still    *)
(* refreshing, or a call has failed on that account.                       *)
StrandedIsReported ==
  refresh \in liveRef \cup {0} \/ \E c \in Calls :
    \/ call[c].pc = "refreshing"
    \/ call[c].outcome \in {"RxonAuthError", "CancelledError"}
    \/ Kind[c] = "refresh" /\ call[c].outcome = "None"
    \/ Kind[c] = "event" /\ call[c].outcome = "False"

(* The second attempt of a _request never repeats the token that was       *)
(* refused.                                                                *)
RetryWithNewToken ==
  [][\A c \in Calls : call[c].attempt = 0 /\ call'[c].attempt = 1
                        => call'[c].hdr # call[c].hdr]_vars

-----------------------------------------------------------------------------
(* The transport implements RequestDelivery.  A call is pending from its   *)
(* first await to its last, and the two attempts of a _request are one     *)
(* request.                                                                *)
ApiCalls == {c \in Calls : Kind[c] # "refresh"}

Phase(c) ==
  CASE call[c].pc = "idle" -> "idle"
    [] call[c].pc = "done" -> "done"
    [] OTHER               -> "pending"

Made(c) == IF call[c].pc = "idle" \/ Budget(c) = 0 THEN 0 ELSE call[c].nth + 1

Delivery == INSTANCE RequestDelivery WITH
  Callers  <- ApiCalls,
  Tries    <- [c \in ApiCalls |-> Budget(c)],
  Results  <- Outcomes,
  phase    <- [c \in ApiCalls |-> Phase(c)],
  made     <- [c \in ApiCalls |-> Made(c)],
  executed <- {<<h.call, h.nth>> : h \in handled},
  accepted <- {<<h.call, h.nth>> : h \in accepted},
  outcome  <- [c \in ApiCalls |-> call[c].outcome]

(* Seen from outside, tokens, the 401 retry, late requests, closed         *)
(* sessions and cancellations are invisible: every step of the transport   *)
(* is one of making a request, executing it or returning a truthful        *)
(* outcome, or changes nothing.                                            *)
ImplementsDelivery == Delivery!Spec

-----------------------------------------------------------------------------
(* Liveness.                                                               *)

(* Every call that was started returns or raises, also when responses are  *)
(* lost, tokens expire and the transport is closed under it.               *)
CallsTerminate == \A c \in Calls : call[c].pc # "idle" ~> call[c].pc = "done"

-----------------------------------------------------------------------------
(* What the documentation says and the code does not do.                   *)

(* exceptions.py: RxonAuthError is raised when authentication fails "and   *)
(* cannot be recovered".  So the token the transport would send next is    *)
(* not one the orchestrator accepts.                                       *)
AuthErrorMeansUnrecoverable ==
  [][\A c \in Calls : call[c].outcome = "none" /\ call'[c].outcome = "RxonAuthError"
                        => header' \notin liveTok']_vars

(* base.py: connect() is to "Initialize connection/session".  So a         *)
(* transport that was connected after its last close() has a session it    *)
(* can use.                                                                *)
SessionUsableAfterConnect ==
  ~closing /\ session # "none" => session = "open"
=============================================================================
