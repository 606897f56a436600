------------------------ MODULE HttpTransportProofs ------------------------
(***************************************************************************)
(* Proofs that HttpTransport has its safety properties and implements      *)
(* RequestDelivery, for every set of calls, every number of retries and    *)
(* every set of answers.                                                   *)
(***************************************************************************)
EXTENDS HttpTransport, TLAPS

-----------------------------------------------------------------------------
(* The inductive invariant.                                                *)

(* No request of the _request that call c is in is on the wire or was      *)
(* executed.                                                               *)
Clean(c) ==
  /\ \A m \in wire : m.call = c /\ m.to = "api" => m.nth # call[c].nth
  /\ \A h \in handled : h.call = c => h.nth # call[c].nth

(* A request on the wire is the only one of its _request, and the          *)
(* orchestrator has executed none of that _request.                        *)
InFlight ==
  /\ \A m \in wire : m.to = "api" =>
       /\ Kind[m.call] # "refresh"
       /\ m.nth < Budget(m.call) /\ m.nth <= call[m.call].nth
       /\ \A h \in handled : h.call = m.call => h.nth # m.nth
       /\ \A w \in wire : w.to = "api" /\ w.call = m.call /\ w.nth = m.nth => w = m
  /\ \A h \in handled :
       /\ h.nth < Budget(h.call) /\ h.nth <= call[h.call].nth
       /\ \A g \in handled : g.call = h.call /\ g.nth = h.nth => g = h

(* Where the coroutines are: what the loops guarantee, and when the        *)
(* _request in progress has certainly left no trace.                       *)
Control ==
  \A c \in Calls :
    /\ call[c].pc = "idle" => call[c].nth = 0 /\ Clean(c)
    /\ call[c].pc = "refreshing" => Clean(c)
    /\ call[c].pc = "sent" => Kind[c] # "refresh"
    /\ call[c].pc \in {"sent", "refreshing"} /\ Kind[c] # "refresh"
         => call[c].nth < Budget(c)
    /\ call[c].pc = "backoff" => Kind[c] = "result" /\ call[c].nth < Retries[c] - 1
    /\ call[c].pc = "sent" /\ call[c].reply.status \in {401, 429} => Clean(c)
    /\ call[c].outcome \in {"RxonAuthError", "RxonRateLimitError"} => Clean(c)
    /\ call[c].pc # "done" => call[c].outcome = "none"

(* Every response that send_result or emit_event turns into True belongs   *)
(* to a request the orchestrator accepted.                                 *)
Acknowledged(c) == \E h \in accepted : h.call = c /\ h.nth = call[c].nth

Acks ==
  \A c \in Calls :
    /\ call[c].outcome = "True" => Acknowledged(c)
    /\ /\ call[c].pc = "sent" /\ call[c].reply.status \notin {0, 401}
       /\ MethodResult(Kind[c], Decode(call[c].reply)) = "True"
       => Acknowledged(c)

(* Grants are numbered upwards, a response carries tokens of one grant,    *)
(* and a refresh brings a token newer than the one that was refused.       *)
Held == TokensPaired /\ token <= issued

Grants ==
  \A c \in Calls :
    /\ call[c].hdr <= issued /\ call[c].reply.access <= issued
    /\ call[c].reply.refresh \in {0, call[c].reply.access}
    /\ call[c].pc = "refreshing" /\ call[c].reply.body = "token"
         => call[c].hdr < call[c].reply.access

(* The part of TypeOK about the calls.                                     *)
CallsOK ==
  /\ call \in [Calls -> CallType]
  /\ \A c \in Calls : call[c].nth = 0 \/ call[c].nth < Budget(c)

Safe == InFlight /\ Control /\ Acks /\ Grants

IInv == TypeOK /\ Held /\ Safe

-----------------------------------------------------------------------------
(* Facts about the operators.                                              *)

(* What a response is decoded to: a body or an error of the RXON family,   *)
(* and RxonRateLimitError only for a 429; RxonAuthError is never decoded.  *)
LEMMA DecodeFacts ==
  ASSUME NEW r \in ReplyType
  PROVE  /\ Decode(r) \in Bodies \cup RxonErrors
         /\ Decode(r) # "RxonAuthError" /\ Decode(r) # "RxonNetworkError"
         /\ Decode(r) = "RxonRateLimitError" => r.status = 429
BY DEF Decode, ReplyType, Bodies, RxonErrors, Statuses

(* The API methods hand on the two refusals and make no new ones.          *)
LEMMA MethodResultFacts ==
  ASSUME NEW k, NEW r \in Bodies \cup RxonErrors
  PROVE  /\ MethodResult(k, r) \in Outcomes
         /\ MethodResult(k, r) \in {"RxonAuthError", "RxonRateLimitError"}
              => MethodResult(k, r) = r
         /\ MethodResult(k, r) = "True" => k \in {"result", "event"} /\ r \notin RxonErrors
BY DEF MethodResult, poll_task, send_result, emit_event, Outcomes, Bodies, RxonErrors

(* The state of a call whose n-th _request has ended with r.               *)
LEMMA SettledFacts ==
  ASSUME NEW c \in Calls, call[c] \in CallType, NEW n \in Nat,
         NEW r \in Bodies \cup RxonErrors
  PROVE  /\ Settled(c, n, r) \in CallType
         /\ Settled(c, n, r).nth = n
         /\ Settled(c, n, r).hdr = call[c].hdr
         /\ Settled(c, n, r).attempt = call[c].attempt
         /\ Settled(c, n, r).reply = NoReply
         /\ \/ /\ Settled(c, n, r).pc = "backoff"
               /\ Settled(c, n, r).outcome = call[c].outcome
               /\ Kind[c] = "result" /\ n < Retries[c] - 1
            \/ /\ Settled(c, n, r).pc = "done"
               /\ Settled(c, n, r).outcome = MethodResult(Kind[c], r)
<1>1. NoReply \in ReplyType
  BY TransportAssumption DEF NoReply, Reply, ReplyType, Statuses, Bodies, Tokens
<1>2. MethodResult(Kind[c], r) \in Outcomes
  BY MethodResultFacts
<1> QED
  BY <1>1, <1>2 DEF Settled, TriesAgain, Finished, CallType

-----------------------------------------------------------------------------
(* The three things a coroutine can do between two awaits.                 *)

(* The call is over or sleeps: its new state is s.                         *)
LEMMA RestPreserves ==
  ASSUME TypeOK, Safe, NEW c \in Calls, NEW s \in CallType,
         call' = [call EXCEPT ![c] = s],
         UNCHANGED <<wire, handled, accepted, issued>>,
         call[c].pc # "done",
         s.pc \in {"backoff", "done"}, s.hdr = call[c].hdr, s.reply = NoReply,
         s.nth = 0 \/ s.nth < Budget(c),
         s.nth = call[c].nth \/ (call[c].pc = "backoff" /\ s.nth = call[c].nth + 1),
         s.pc = "backoff" => /\ Kind[c] = "result" /\ s.nth < Retries[c] - 1
                             /\ s.outcome = "none",
         s.outcome \in {"RxonAuthError", "RxonRateLimitError"}
           => s.nth = call[c].nth /\ Clean(c),
         s.outcome = "True" => s.nth = call[c].nth /\ Acknowledged(c)
  PROVE  CallsOK' /\ Safe'
<1>1. /\ call'[c] = s
      /\ \A d \in Calls : d # c => call'[d] = call[d]
      /\ call' \in [Calls -> CallType]
  BY DEF TypeOK
<1>2. CallsOK'
  BY <1>1 DEF CallsOK, TypeOK, Budget
<1>3. InFlight'
  <2>1. \A d \in Calls : /\ call[d].nth \in Nat /\ call'[d].nth \in Nat
                         /\ call[d].nth <= call'[d].nth
    BY <1>1 DEF TypeOK, CallType
  <2>2. /\ \A m \in wire : m.call \in Calls /\ m.nth \in Nat
        /\ \A h \in handled : h.call \in Calls /\ h.nth \in Nat
    BY DEF TypeOK, Message, RequestId
  <2> QED BY <2>1, <2>2 DEF InFlight, Safe, Budget
<1>4. Control'
  <2>1. ASSUME NEW d \in Calls, d # c, Clean(d) PROVE Clean(d)'
    BY <2>1, <1>1 DEF Clean
  <2>2. Clean(c) /\ s.nth = call[c].nth => Clean(c)'
    BY <1>1 DEF Clean
  <2> QED BY <1>1, <2>1, <2>2 DEF Control, Safe, Budget
<1>5. Acks'
  <2>1. ASSUME NEW d \in Calls, d # c, Acknowledged(d) PROVE Acknowledged(d)'
    BY <2>1, <1>1 DEF Acknowledged
  <2>2. s.outcome = "True" => Acknowledged(c)'
    BY <1>1 DEF Acknowledged
  <2> QED BY <1>1, <2>1, <2>2 DEF Acks, Safe
<1>6. Grants'
  <2>1. NoReply.access = 0 /\ NoReply.refresh = 0
    BY DEF NoReply, Reply
  <2>2. issued \in Nat
    BY TransportAssumption DEF TypeOK, Tokens
  <2> QED BY <1>1, <2>1, <2>2 DEF Grants, Safe
<1> QED BY <1>2, <1>3, <1>4, <1>5, <1>6 DEF Safe

(* Its n-th _request ends with r.                                          *)
LEMMA EndPreserves ==
  ASSUME TypeOK, Safe, NEW c \in Calls, NEW n \in Nat,
         NEW r \in Bodies \cup RxonErrors,
         call' = [call EXCEPT ![c] = Settled(c, n, r)],
         UNCHANGED <<wire, handled, accepted, issued>>,
         call[c].pc # "done",
         n = 0 \/ n < Budget(c),
         n = call[c].nth \/ (call[c].pc = "backoff" /\ n = call[c].nth + 1),
         r \in {"RxonAuthError", "RxonRateLimitError"} => n = call[c].nth /\ Clean(c),
         MethodResult(Kind[c], r) = "True" => n = call[c].nth /\ Acknowledged(c)
  PROVE  CallsOK' /\ Safe'
<1>0. call[c] \in CallType /\ call[c].nth \in Nat /\ call[c].outcome = "none"
  BY DEF TypeOK, CallType, Safe, Control
<1>1. PICK s : s = Settled(c, n, r)
  OBVIOUS
<1>2. /\ s \in CallType /\ s.nth = n /\ s.hdr = call[c].hdr /\ s.reply = NoReply
      /\ \/ /\ s.pc = "backoff" /\ s.outcome = "none"
            /\ Kind[c] = "result" /\ n < Retries[c] - 1
         \/ s.pc = "done" /\ s.outcome = MethodResult(Kind[c], r)
  BY <1>0, <1>1, SettledFacts
<1>3. s.outcome \in {"RxonAuthError", "RxonRateLimitError"} => s.outcome = r
  BY <1>2, MethodResultFacts
<1> QED BY <1>1, <1>2, <1>3, RestPreserves

(* The method returns or raises o.                                         *)
LEMMA FinishPreserves ==
  ASSUME TypeOK, Safe, NEW c \in Calls,
         NEW o \in {"None", "False", "token", "CancelledError"},
         call' = [call EXCEPT ![c] = Finished(c, o)],
         UNCHANGED <<wire, handled, accepted, issued>>,
         call[c].pc # "done"
  PROVE  CallsOK' /\ Safe'
<1>1. PICK s : s = Finished(c, o)
  OBVIOUS
<1>2. NoReply \in ReplyType /\ o \in Outcomes
  BY TransportAssumption DEF NoReply, Reply, ReplyType, Statuses, Bodies, Tokens, Outcomes
<1>3. /\ s \in CallType /\ s.nth = call[c].nth /\ s.hdr = call[c].hdr
      /\ s.reply = NoReply /\ s.pc = "done" /\ s.outcome = o
  BY <1>1, <1>2 DEF TypeOK, CallType, Finished
<1>4. s.nth = 0 \/ s.nth < Budget(c)
  BY <1>3 DEF TypeOK
<1> QED BY <1>1, <1>3, <1>4, RestPreserves

(* A request is sent to one of the worker endpoints.                       *)
LEMMA SendPreserves ==
  ASSUME TypeOK, Safe, NEW c \in Calls, NEW n \in Nat, NEW a \in {0, 1}, NEW h \in Tokens,
         SendRequest(c, n, a, h),
         UNCHANGED <<handled, accepted, issued>>,
         call[c].pc # "done", Kind[c] # "refresh", h <= issued,
         n < Budget(c),
         \/ n = call[c].nth /\ Clean(c)
         \/ call[c].pc = "backoff" /\ n = call[c].nth + 1
  PROVE  CallsOK' /\ wire' \subseteq Message /\ Safe'
<1> DEFINE m == [call |-> c, nth |-> n, attempt |-> a, to |-> "api", hdr |-> h, rt |-> 0]
<1>0. NoReply \in ReplyType /\ NoReply.access = 0 /\ NoReply.refresh = 0
      /\ NoReply.status = 0 /\ issued \in Nat /\ 0 \in Tokens
  BY TransportAssumption DEF NoReply, Reply, ReplyType, Statuses, Bodies, Tokens, TypeOK
<1>1. PICK s : s = [call[c] EXCEPT !.pc = "sent", !.nth = n, !.attempt = a,
                                   !.hdr = h, !.reply = NoReply]
  OBVIOUS
<1>2. /\ s \in CallType /\ s.pc = "sent" /\ s.nth = n /\ s.hdr = h /\ s.reply = NoReply
      /\ s.outcome = "none"
  BY <1>0, <1>1 DEF TypeOK, CallType, Safe, Control
<1>3. /\ call'[c] = s
      /\ \A d \in Calls : d # c => call'[d] = call[d]
      /\ call' \in [Calls -> CallType]
      /\ wire' = wire \cup {m}
  BY <1>1, <1>2 DEF TypeOK, SendRequest
<1>4. CallsOK' /\ wire' \subseteq Message
  BY <1>0, <1>2, <1>3 DEF CallsOK, TypeOK, Budget, Message
<1>5. \A d \in Calls : /\ call[d].nth \in Nat /\ call'[d].nth \in Nat
                       /\ call[d].nth <= call'[d].nth
  BY <1>2, <1>3 DEF TypeOK, CallType
<1>6. /\ \A w \in wire : w.call \in Calls /\ w.nth \in Nat
      /\ \A g \in handled : g.call \in Calls /\ g.nth \in Nat
  BY DEF TypeOK, Message, RequestId
<1>7. /\ \A w \in wire : w.to = "api" /\ w.call = c => w.nth < n
      /\ \A g \in handled : g.call = c => g.nth < n
  BY <1>5, <1>6 DEF InFlight, Safe, Clean
<1>8. InFlight'
  BY <1>2, <1>3, <1>5, <1>6, <1>7 DEF InFlight, Safe, Budget
<1>9. Control'
  <2>1. ASSUME NEW d \in Calls, d # c, Clean(d) PROVE Clean(d)'
    BY <2>1, <1>3 DEF Clean
  <2> QED BY <1>0, <1>2, <1>3, <2>1 DEF Control, Safe, Budget
<1>10. Acks'
  <2>1. ASSUME NEW d \in Calls, d # c, Acknowledged(d) PROVE Acknowledged(d)'
    BY <2>1, <1>3 DEF Acknowledged
  <2> QED BY <1>0, <1>2, <1>3, <2>1 DEF Acks, Safe
<1>11. Grants'
  BY <1>0, <1>2, <1>3 DEF Grants, Safe
<1> QED BY <1>4, <1>8, <1>9, <1>10, <1>11 DEF Safe

(* A token is asked for.                                                   *)
LEMMA AskPreserves ==
  ASSUME TypeOK, Safe, NEW c \in Calls, session = "open", BeginRefresh(c),
         UNCHANGED <<handled, accepted, issued>>,
         call[c].pc \in {"idle", "sent"}, Clean(c),
         Kind[c] # "refresh" => call[c].nth < Budget(c)
  PROVE  CallsOK' /\ wire' \subseteq Message /\ Safe'
<1>0. NoReply \in ReplyType /\ NoReply.access = 0 /\ NoReply.refresh = 0
      /\ NoReply.body # "token" /\ issued \in Nat
  BY TransportAssumption DEF NoReply, Reply, ReplyType, Statuses, Bodies, Tokens, TypeOK
<1>1. PICK s : s = [call[c] EXCEPT !.pc = "refreshing", !.reply = NoReply]
  OBVIOUS
<1>2. /\ s \in CallType /\ s.pc = "refreshing" /\ s.nth = call[c].nth
      /\ s.hdr = call[c].hdr /\ s.reply = NoReply /\ s.outcome = "none"
  BY <1>0, <1>1 DEF TypeOK, CallType, Safe, Control
<1>3. PICK m \in Message : m.to # "api" /\ wire' = wire \cup {m}
  <2> DEFINE w == [call |-> c, nth |-> call[c].nth, attempt |-> 0,
                   to |-> IF refresh # 0 THEN "sts_refresh" ELSE "sts_token",
                   hdr |-> header, rt |-> refresh]
  <2>1. w \in Message /\ w.to # "api"
    BY DEF TypeOK, CallType, Message
  <2> QED BY <2>1 DEF BeginRefresh
<1>4. /\ call'[c] = s
      /\ \A d \in Calls : d # c => call'[d] = call[d]
      /\ \A d \in Calls : call'[d].nth = call[d].nth
      /\ call' \in [Calls -> CallType]
  BY <1>1, <1>2 DEF TypeOK, BeginRefresh
<1>5. CallsOK' /\ wire' \subseteq Message
  BY <1>2, <1>3, <1>4 DEF CallsOK, TypeOK, Budget
<1>6. InFlight'
  <2>1. /\ \A w \in wire : w.call \in Calls
        /\ \A g \in handled : g.call \in Calls
    BY DEF TypeOK, Message, RequestId
  <2> QED BY <1>3, <1>4, <2>1 DEF InFlight, Safe, Budget
<1>7. \A d \in Calls : (Clean(d) => Clean(d)') /\ (Acknowledged(d) => Acknowledged(d)')
  BY <1>3, <1>4 DEF Clean, Acknowledged
<1>8. Control'
  BY <1>2, <1>4, <1>7 DEF Control, Safe, Budget
<1>9. Acks'
  BY <1>2, <1>4, <1>7 DEF Acks, Safe
<1>10. Grants'
  BY <1>0, <1>2, <1>4 DEF Grants, Safe
<1> QED BY <1>5, <1>6, <1>8, <1>9, <1>10 DEF Safe

-----------------------------------------------------------------------------
(* What the orchestrator does: message m is served with response r.        *)
LEMMA ServePreserves ==
  ASSUME TypeOK, Safe, NEW m \in wire, NEW r \in ReplyType, Respond(m, r),
         r.status # 0,
         handled' = handled \/ (m.to = "api" /\ handled' = handled \cup {IdOf(m)}),
         r.status \in {401, 429} => handled' = handled,
         accepted \subseteq accepted',
         m.to = "api" /\ r.status # 401 /\ MethodResult(Kind[m.call], Decode(r)) = "True"
           => IdOf(m) \in accepted',
         issued' \in Nat, issued <= issued', r.access <= issued',
         r.refresh \in {0, r.access},
         m.to # "api" /\ r.body = "token" => issued < r.access
  PROVE  CallsOK' /\ wire' \subseteq Message /\ handled' \subseteq RequestId /\ Safe'
<1>c. PICK c \in Calls : c = m.call
  BY DEF TypeOK, Message
<1>0. /\ m \in Message /\ c = m.call /\ m.nth \in Nat /\ IdOf(m) \in RequestId
      /\ IdOf(m).call = c /\ IdOf(m).nth = m.nth /\ issued \in Nat
  BY <1>c, TransportAssumption DEF TypeOK, Message, RequestId, IdOf, Tokens
<1>1. PICK s : s = IF Awaits(m) /\ session = "open" THEN [call[c] EXCEPT !.reply = r]
                                                     ELSE call[c]
  OBVIOUS
<1>2. /\ s \in CallType /\ s.pc = call[c].pc /\ s.nth = call[c].nth /\ s.hdr = call[c].hdr
      /\ s.outcome = call[c].outcome
      /\ s.reply = call[c].reply \/ (Awaits(m) /\ s.reply = r)
  BY <1>0, <1>1 DEF TypeOK, CallType
<1>3. /\ call'[c] = s
      /\ \A d \in Calls : d # c => call'[d] = call[d]
      /\ call' \in [Calls -> CallType]
  BY <1>0, <1>1, <1>2 DEF TypeOK, Respond
<1>4. \A d \in Calls : /\ call'[d].nth = call[d].nth /\ call'[d].pc = call[d].pc
                       /\ call'[d].hdr = call[d].hdr /\ call'[d].outcome = call[d].outcome
  BY <1>2, <1>3
<1>5. /\ wire' = wire \ {m}
      /\ handled \subseteq handled' /\ handled' \subseteq handled \cup {IdOf(m)}
  BY DEF Respond
<1>6. CallsOK' /\ wire' \subseteq Message /\ handled' \subseteq RequestId
  BY <1>0, <1>3, <1>4, <1>5 DEF CallsOK, TypeOK, Budget
<1>7. InFlight'
  <2>1. /\ \A w \in wire : w.call \in Calls
        /\ \A g \in handled : g.call \in Calls
    BY DEF TypeOK, Message, RequestId
  <2> QED BY <1>0, <1>4, <1>5, <2>1 DEF InFlight, Safe, Budget
<1>8. \A d \in Calls : (Clean(d) => Clean(d)') /\ (Acknowledged(d) => Acknowledged(d)')
  BY <1>0, <1>4, <1>5 DEF Clean, Acknowledged
<1>a. (Clean(c) => Clean(c)') /\ (Acknowledged(c) => Acknowledged(c)')
  BY <1>0, <1>4, <1>5 DEF Clean, Acknowledged
<1>b. /\ call[c].pc = "sent" /\ call[c].reply.status \in {401, 429} => Clean(c)
      /\ /\ call[c].pc = "sent" /\ call[c].reply.status \notin {0, 401}
         /\ MethodResult(Kind[c], Decode(call[c].reply)) = "True"
         => Acknowledged(c)
  BY DEF Control, Acks, Safe
<1>9. s.pc = "sent" /\ s.reply = r /\ Awaits(m) => m.to = "api" /\ m.nth = s.nth
  BY <1>0, <1>2 DEF Awaits
<1>10. Control'
  <2>1. s.pc = "sent" /\ s.reply.status \in {401, 429} => Clean(c)'
    <3>1. CASE s.reply = call[c].reply
      BY <3>1, <1>2, <1>a, <1>b
    <3>2. CASE Awaits(m) /\ s.reply = r
      BY <3>2, <1>0, <1>2, <1>4, <1>5, <1>9 DEF InFlight, Safe, Clean
    <3> QED BY <3>1, <3>2, <1>2
  <2> QED BY <1>2, <1>3, <1>4, <1>8, <2>1 DEF Control, Safe, Budget
<1>11. Acks'
  <2>1. s.pc = "sent" /\ s.reply.status \notin {0, 401}
          /\ MethodResult(Kind[c], Decode(s.reply)) = "True" => Acknowledged(c)'
    <3>1. CASE s.reply = call[c].reply
      BY <3>1, <1>2, <1>a, <1>b
    <3>2. CASE Awaits(m) /\ s.reply = r
      BY <3>2, <1>0, <1>2, <1>4, <1>9 DEF Acknowledged
    <3> QED BY <3>1, <3>2, <1>2
  <2> QED BY <1>2, <1>3, <1>4, <1>8, <2>1 DEF Acks, Safe
<1>12. Grants'
  <2>1. \A d \in Calls : /\ call[d].hdr \in Nat /\ call[d].reply.access \in Nat
                         /\ call'[d].reply.access \in Nat
    BY <1>3, TransportAssumption DEF TypeOK, CallType, ReplyType, Tokens
  <2>2. Awaits(m) /\ s.pc = "refreshing" => m.to # "api"
    BY <1>0, <1>2 DEF Awaits
  <2> QED BY <1>0, <1>2, <1>3, <1>4, <2>1, <2>2 DEF Grants, Safe
<1> QED BY <1>6, <1>7, <1>10, <1>11, <1>12 DEF Safe

-----------------------------------------------------------------------------
(* The actions.                                                            *)

(* A transport fresh from __init__ satisfies the invariant.                *)
LEMMA InitInv == Init => IInv
<1> SUFFICES ASSUME Init PROVE IInv
  OBVIOUS
<1>1. NoReply \in ReplyType /\ NoReply.access = 0 /\ NoReply.refresh = 0 /\ 0 \in Tokens
  BY TransportAssumption DEF NoReply, Reply, ReplyType, Statuses, Bodies, Tokens
<1>2. TypeOK
  BY <1>1, TransportAssumption DEF Init, TypeOK, CallType, Outcomes
<1>3. Held /\ InFlight /\ Control /\ Acks /\ Grants
  BY <1>1 DEF Init, Held, TokensPaired, InFlight, Control, Clean, Acks, Grants
<1> QED BY <1>2, <1>3 DEF IInv, Safe

(* connect(), close() and what the orchestrator does on its own.           *)
LEMMA QuietPreserves ==
  ASSUME IInv, Connect \/ Close \/ StartListener \/ (\E t \in Tokens : Expire(t))
  PROVE  IInv'
<1>1. UNCHANGED <<call, wire, handled, accepted, issued, token, header, refresh>>
  BY DEF Connect, Close, StartListener, Expire, tokenVars, serverVars, sessionVars
<1>2. TypeOK'
  BY <1>1 DEF IInv, TypeOK, Budget, Connect, Close, StartListener, Expire, tokenVars,
              serverVars, sessionVars
<1>3. Held'
  BY <1>1 DEF IInv, Held, TokensPaired
<1>4. Safe'
  BY <1>1 DEF IInv, Safe, InFlight, Control, Clean, Acks, Acknowledged, Grants, Budget
<1> QED BY <1>2, <1>3, <1>4 DEF IInv

(* A pass of the loop of _request begins.                                  *)
LEMMA TryPreserves ==
  ASSUME TypeOK, Safe, NEW c \in Calls, NEW n \in Nat, NEW a \in {0, 1}, NEW h \in Tokens,
         TryRequest(c, n, a, h),
         UNCHANGED <<handled, accepted, issued>>,
         call[c].pc # "done", Kind[c] # "refresh", h <= issued, n < Budget(c),
         \/ n = call[c].nth /\ Clean(c)
         \/ call[c].pc = "backoff" /\ n = call[c].nth + 1
  PROVE  CallsOK' /\ wire' \subseteq Message /\ Safe'
<1>1. CASE session = "open"
  <2>1. SendRequest(c, n, a, h)
    BY <1>1 DEF TryRequest
  <2> QED BY <2>1, SendPreserves
<1>2. CASE session # "open"
  <2>1. PICK r : r = IF session = "none" THEN "RxonNetworkError" ELSE "RxonError"
    OBVIOUS
  <2>2. r \in RxonErrors /\ r # "RxonAuthError" /\ r # "RxonRateLimitError"
    BY <2>1 DEF RxonErrors
  <2>3. call' = [call EXCEPT ![c] = Settled(c, n, r)] /\ wire' = wire
    BY <1>2, <2>1 DEF TryRequest
  <2>4. MethodResult(Kind[c], r) # "True"
    BY <2>2, MethodResultFacts
  <2> QED BY <2>2, <2>3, <2>4, EndPreserves DEF TypeOK
<1> QED BY <1>1, <1>2

(* refresh_token returns None.                                             *)
LEMMA RefreshFailedPreserves ==
  ASSUME TypeOK, Safe, NEW c \in Calls, RefreshFailed(c), Clean(c),
         UNCHANGED <<handled, accepted, issued>>, call[c].pc # "done"
  PROVE  CallsOK' /\ wire' \subseteq Message /\ Safe'
<1>1. wire' = wire /\ wire' \subseteq Message
  BY DEF RefreshFailed, TypeOK
<1>2. CASE Kind[c] = "refresh"
  BY <1>1, <1>2, FinishPreserves DEF RefreshFailed
<1>3. CASE Kind[c] # "refresh"
  <2>1. PICK n \in Nat : n = call[c].nth
    BY DEF TypeOK, CallType
  <2>2. call' = [call EXCEPT ![c] = Settled(c, n, "RxonAuthError")]
    BY <1>3, <2>1 DEF RefreshFailed
  <2>3. "RxonAuthError" \in RxonErrors
    BY DEF RxonErrors
  <2>4. MethodResult(Kind[c], "RxonAuthError") # "True"
    BY <2>3, MethodResultFacts
  <2>5. n = 0 \/ n < Budget(c)
    BY <2>1 DEF TypeOK
  <2> QED BY <1>1, <2>1, <2>2, <2>3, <2>4, <2>5, EndPreserves
<1> QED BY <1>2, <1>3

(* refresh_token begins.                                                   *)
LEMMA BeginRefreshPreserves ==
  ASSUME TypeOK, Safe, NEW c \in Calls, BeginRefresh(c), Clean(c),
         UNCHANGED <<handled, accepted, issued>>,
         call[c].pc \in {"idle", "sent"},
         Kind[c] # "refresh" => call[c].nth < Budget(c)
  PROVE  CallsOK' /\ wire' \subseteq Message /\ Safe' /\ UNCHANGED tokenVars
<1>1. CASE session = "open"
  <2>1. UNCHANGED tokenVars
    BY <1>1 DEF BeginRefresh, RefreshFailed
  <2> QED BY <1>1, <2>1, AskPreserves
<1>2. CASE session # "open"
  <2>1. RefreshFailed(c)
    BY <1>2 DEF BeginRefresh
  <2> QED BY <2>1, RefreshFailedPreserves DEF RefreshFailed
<1> QED BY <1>1, <1>2

(* What a step of a call leaves to show once its parts are established.    *)
LEMMA CallStepInv ==
  ASSUME IInv, CallsOK', wire' \subseteq Message, Safe', Held',
         token' \in Tokens, refresh' \in Tokens,
         UNCHANGED <<sessionVars, serverVars>>
  PROVE  IInv'
BY DEF IInv, CallsOK, TypeOK, Held, TokensPaired, sessionVars, serverVars

(* The transport holds a token that was issued, and a step that leaves the *)
(* tokens alone keeps it so.                                               *)
LEMMA HeldFacts ==
  ASSUME IInv
  PROVE  /\ header \in Tokens /\ header <= issued /\ issued \in Nat
         /\ \A c \in Calls : call[c] \in CallType /\ call[c].nth \in Nat
         /\ UNCHANGED <<tokenVars, issued>> => Held' /\ token' \in Tokens /\ refresh' \in Tokens
BY TransportAssumption DEF IInv, TypeOK, Held, TokensPaired, CallType, Tokens, tokenVars

(* Invoking an API method preserves the invariant.                         *)
LEMMA StartPreserves ==
  ASSUME IInv, NEW c \in Calls, Start(c)
  PROVE  IInv'
<1>1. /\ TypeOK /\ Safe /\ call[c].pc = "idle" /\ Clean(c) /\ call[c].nth = 0
      /\ UNCHANGED <<sessionVars, serverVars>> /\ UNCHANGED <<handled, accepted, issued>>
  BY DEF IInv, Safe, Control, Start, serverVars
<1>2. CASE Kind[c] = "refresh"
  <2>1. BeginRefresh(c)
    BY <1>2 DEF Start
  <2> QED BY <1>1, <1>2, <2>1, BeginRefreshPreserves, HeldFacts, CallStepInv
<1>3. CASE Kind[c] = "result" /\ Retries[c] = 0
  <2>1. call' = [call EXCEPT ![c] = Finished(c, "False")] /\ UNCHANGED <<wire, tokenVars>>
    BY <1>3 DEF Start
  <2>2. CallsOK' /\ Safe'
    BY <1>1, <2>1, FinishPreserves
  <2> QED BY <1>1, <2>1, <2>2, HeldFacts, CallStepInv DEF TypeOK
<1>4. CASE Kind[c] # "refresh" /\ ~(Kind[c] = "result" /\ Retries[c] = 0)
  <2>1. TryRequest(c, 0, 0, header) /\ UNCHANGED tokenVars
    BY <1>4 DEF Start, BeginRequest
  <2>2. 0 < Budget(c)
    BY <1>4, TransportAssumption DEF Budget
  <2>3. PICK h : h = header
    OBVIOUS
  <2>4. CallsOK' /\ wire' \subseteq Message /\ Safe'
    BY <1>1, <1>4, <2>1, <2>2, <2>3, TryPreserves, HeldFacts
  <2> QED BY <1>1, <2>1, <2>4, HeldFacts, CallStepInv
<1> QED BY <1>2, <1>3, <1>4

(* Consuming a response, with the refresh or the retry it leads to,        *)
(* preserves it.                                                           *)
LEMMA ReceivePreserves ==
  ASSUME IInv, NEW c \in Calls, Receive(c)
  PROVE  IInv'
<1>1. PICK r \in ReplyType : r = call[c].reply
  BY HeldFacts DEF CallType
<1>2. PICK n \in Nat : n = call[c].nth
  BY HeldFacts
<1>3. /\ TypeOK /\ Safe /\ Held /\ r.status # 0 /\ (n = 0 \/ n < Budget(c))
      /\ UNCHANGED <<sessionVars, serverVars>> /\ UNCHANGED <<handled, accepted, issued>>
      /\ r.access <= issued /\ r.refresh \in {0, r.access}
      /\ r.access \in Tokens /\ r.refresh \in Tokens
  BY <1>1, <1>2 DEF IInv, TypeOK, Safe, Grants, Receive, serverVars, ReplyType
<1>4. ASSUME Install(r) PROVE Held' /\ token' \in Tokens /\ refresh' \in Tokens
  BY <1>3, <1>4 DEF Install, Held, TokensPaired
<1>5. CASE call[c].pc = "refreshing" /\ RefreshDone(c)
  <2>1. Clean(c) /\ (Kind[c] # "refresh" => n < Budget(c))
    BY <1>2, <1>3, <1>5 DEF Safe, Control
  <2>2. CASE r.status = 200 /\ r.body = "token"
    <3>1. Install(r)
      BY <1>1, <1>5, <2>2 DEF RefreshDone
    <3>2. CASE Kind[c] = "refresh"
      <4>1. call' = [call EXCEPT ![c] = Finished(c, "token")] /\ UNCHANGED wire
        BY <1>1, <1>5, <2>2, <3>2 DEF RefreshDone
      <4>2. CallsOK' /\ Safe'
        BY <1>3, <1>5, <4>1, FinishPreserves
      <4> QED BY <1>3, <1>4, <3>1, <4>1, <4>2, CallStepInv DEF TypeOK
    <3>3. CASE Kind[c] # "refresh"
      <4>1. TryRequest(c, n, 1, r.access)
        BY <1>1, <1>2, <1>5, <2>2, <3>3 DEF RefreshDone, RetryHeader
      <4>2. CallsOK' /\ wire' \subseteq Message /\ Safe'
        BY <1>2, <1>3, <1>5, <2>1, <3>3, <4>1, TryPreserves
      <4> QED BY <1>3, <1>4, <3>1, <4>2, CallStepInv
    <3> QED BY <3>2, <3>3
  <2>3. CASE ~(r.status = 200 /\ r.body = "token")
    <3>1. RefreshFailed(c)
      BY <1>1, <1>5, <2>3 DEF RefreshDone
    <3>2. CallsOK' /\ wire' \subseteq Message /\ Safe' /\ UNCHANGED tokenVars
      BY <1>3, <1>5, <2>1, <3>1, RefreshFailedPreserves DEF RefreshFailed
    <3> QED BY <1>3, <3>2, HeldFacts, CallStepInv
  <2> QED BY <2>2, <2>3
<1>6. CASE call[c].pc = "sent" /\ r.status = 401 /\ BeginRefresh(c)
  <2>1. Clean(c) /\ call[c].nth < Budget(c)
    BY <1>1, <1>3, <1>6 DEF Safe, Control
  <2> QED BY <1>3, <1>6, <2>1, BeginRefreshPreserves, HeldFacts, CallStepInv
<1>7. CASE /\ call[c].pc = "sent" /\ r.status = 401
           /\ call' = [call EXCEPT ![c] = Settled(c, n, "RxonAuthError")]
           /\ UNCHANGED <<wire, tokenVars>>
  <2>1. Clean(c)
    BY <1>1, <1>3, <1>7 DEF Safe, Control
  <2>2. "RxonAuthError" \in RxonErrors
    BY DEF RxonErrors
  <2>3. MethodResult(Kind[c], "RxonAuthError") # "True"
    BY <2>2, MethodResultFacts
  <2>a. /\ TypeOK /\ Safe /\ UNCHANGED <<wire, handled, accepted, issued>>
        /\ call[c].pc # "done" /\ (n = 0 \/ n < Budget(c)) /\ n = call[c].nth
        /\ call' = [call EXCEPT ![c] = Settled(c, n, "RxonAuthError")]
    BY <1>2, <1>3, <1>7
  <2>4. CallsOK' /\ Safe'
    BY <2>a, <2>1, <2>2, <2>3, EndPreserves
  <2> QED BY <1>3, <1>7, <2>4, HeldFacts, CallStepInv DEF TypeOK
<1>8. CASE /\ call[c].pc = "sent" /\ r.status # 401
           /\ call' = [call EXCEPT ![c] = Settled(c, n, Decode(r))]
           /\ UNCHANGED wire
           /\ Install(r) \/ UNCHANGED tokenVars
  <2>1. PICK d : d = Decode(r)
    OBVIOUS
  <2>2. /\ d \in Bodies \cup RxonErrors /\ d # "RxonAuthError"
        /\ d = "RxonRateLimitError" => r.status = 429
    BY <2>1, DecodeFacts
  <2>3. d = "RxonRateLimitError" => Clean(c)
    BY <1>1, <1>3, <1>8, <2>2 DEF Safe, Control
  <2>4. MethodResult(Kind[c], d) = "True" => Acknowledged(c)
    BY <1>1, <1>3, <1>8, <2>1 DEF Safe, Acks
  <2>a. /\ TypeOK /\ Safe /\ UNCHANGED <<wire, handled, accepted, issued>>
        /\ call[c].pc # "done" /\ (n = 0 \/ n < Budget(c)) /\ n = call[c].nth
        /\ call' = [call EXCEPT ![c] = Settled(c, n, d)]
    BY <1>2, <1>3, <1>8, <2>1
  <2>b. /\ d \in {"RxonAuthError", "RxonRateLimitError"} => n = call[c].nth /\ Clean(c)
        /\ MethodResult(Kind[c], d) = "True" => n = call[c].nth /\ Acknowledged(c)
        /\ d \in Bodies \cup RxonErrors
    BY <2>a, <2>2, <2>3, <2>4
  <2>5. CallsOK' /\ Safe'
    BY <2>a, <2>b, EndPreserves
  <2>6. Held' /\ token' \in Tokens /\ refresh' \in Tokens
    BY <1>3, <1>4, <1>8, HeldFacts
  <2> QED BY <1>3, <1>8, <2>5, <2>6, CallStepInv DEF TypeOK
<1> QED BY <1>1, <1>2, <1>5, <1>6, <1>7, <1>8 DEF Receive

(* Giving up on a request that is still on its way preserves it.           *)
LEMMA NetworkErrorPreserves ==
  ASSUME IInv, NEW c \in Calls, NetworkError(c)
  PROVE  IInv'
<1>1. /\ TypeOK /\ Safe /\ UNCHANGED <<sessionVars, serverVars>>
      /\ UNCHANGED <<handled, accepted, issued>>
  BY DEF IInv, NetworkError, serverVars
<1>2. PICK n \in Nat : n = call[c].nth
  BY HeldFacts
<1>3. CASE /\ call[c].pc = "sent" /\ UNCHANGED <<wire, tokenVars>>
           /\ call' = [call EXCEPT ![c] = Settled(c, call[c].nth, "RxonNetworkError")]
  <2>1. "RxonNetworkError" \in RxonErrors
    BY DEF RxonErrors
  <2>2. MethodResult(Kind[c], "RxonNetworkError") # "True"
    BY <2>1, MethodResultFacts
  <2>3. /\ UNCHANGED <<wire, handled, accepted, issued>>
        /\ call[c].pc # "done" /\ (n = 0 \/ n < Budget(c)) /\ n = call[c].nth
        /\ call' = [call EXCEPT ![c] = Settled(c, n, "RxonNetworkError")]
    BY <1>1, <1>2, <1>3 DEF TypeOK
  <2>4. CallsOK' /\ Safe'
    BY <1>1, <2>1, <2>2, <2>3, EndPreserves
  <2> QED BY <1>1, <1>3, <2>4, HeldFacts, CallStepInv DEF TypeOK
<1>4. CASE call[c].pc = "refreshing" /\ RefreshFailed(c)
  <2>1. Clean(c)
    BY <1>1, <1>4 DEF Safe, Control
  <2>2. CallsOK' /\ wire' \subseteq Message /\ Safe' /\ UNCHANGED tokenVars
    BY <1>1, <1>4, <2>1, RefreshFailedPreserves DEF RefreshFailed
  <2> QED BY <1>1, <2>2, HeldFacts, CallStepInv
<1> QED BY <1>3, <1>4 DEF NetworkError

(* The next try of send_result preserves it: it is a new _request.         *)
LEMMA WakePreserves ==
  ASSUME IInv, NEW c \in Calls, Wake(c)
  PROVE  IInv'
<1>1. /\ TypeOK /\ Safe /\ UNCHANGED <<sessionVars, serverVars>> /\ UNCHANGED tokenVars
      /\ UNCHANGED <<handled, accepted, issued>> /\ call[c].pc = "backoff"
  BY DEF IInv, Wake, serverVars
<1>2. PICK n \in Nat : n = call[c].nth + 1
  BY HeldFacts
<1>3. PICK h : h = header
  OBVIOUS
<1>4. TryRequest(c, n, 0, h)
  BY <1>2, <1>3 DEF Wake, BeginRequest
<1>5. Kind[c] # "refresh" /\ n < Budget(c)
  BY <1>1, <1>2, HeldFacts, TransportAssumption DEF Safe, Control, Budget
<1>6. CallsOK' /\ wire' \subseteq Message /\ Safe'
  BY <1>1, <1>2, <1>3, <1>4, <1>5, TryPreserves, HeldFacts
<1> QED BY <1>1, <1>6, HeldFacts, CallStepInv

(* Cancelling a call preserves it.                                         *)
LEMMA CancelPreserves ==
  ASSUME IInv, NEW c \in Calls, Cancel(c)
  PROVE  IInv'
<1>1. /\ TypeOK /\ Safe /\ UNCHANGED <<sessionVars, serverVars>> /\ UNCHANGED tokenVars
      /\ UNCHANGED <<wire, handled, accepted, issued>> /\ call[c].pc # "done"
      /\ call' = [call EXCEPT ![c] = Finished(c, "CancelledError")]
  BY DEF IInv, Cancel, serverVars
<1>2. CallsOK' /\ Safe'
  BY <1>1, FinishPreserves
<1> QED BY <1>1, <1>2, HeldFacts, CallStepInv DEF TypeOK

(* Which endpoint serves a request, and that an exception of the handler   *)
(* always becomes the same response.                                       *)
LEMMA EndpointFacts ==
  ASSUME NEW k \in ApiKinds \cup {"sts_token", "sts_refresh"}, NEW a
  PROVE  /\ k = "register" => Route(k, a) = handle_register(a)
         /\ k = "poll" => Route(k, a) = handle_poll(a)
         /\ k = "result" => Route(k, a) = handle_result(a)
         /\ k = "heartbeat" => Route(k, a) = handle_heartbeat(a)
         /\ k = "event" => Route(k, a) = handle_event(a)
         /\ k = "sts_token" => Route(k, a) = handle_sts(a)
         /\ k = "sts_refresh" => Route(k, a) = handle_sts_refresh(a)
BY DEF Route

(* An exception of the handler takes the except clauses at every endpoint. *)
LEMMA RaiseFacts ==
  ASSUME NEW k \in ApiKinds \cup {"sts_token", "sts_refresh"}, NEW a, a.does \in Raises
  PROVE  Route(k, a) = ErrorResponse(a)
<1>1. a.does # "missing"
  BY DEF Raises
<1> QED
  BY <1>1, EndpointFacts DEF ApiKinds, handle_register, handle_poll, handle_result,
     handle_heartbeat, handle_event, handle_sts, handle_sts_refresh, Handled

(* The except clauses answer with an error body and a known status.        *)
LEMMA ErrorResponseFacts ==
  ASSUME NEW a, a.does \in Raises, a.status \in Statuses
  PROVE  /\ \E st \in Statuses : ErrorResponse(a) = Reply(st, "error")
         /\ a.does = "HTTPException" => ErrorResponse(a) = Reply(a.status, "error")
         /\ a.does = "Exception" => ErrorResponse(a) = Reply(500, "error")
<1>1. CASE a.does = "HTTPException"
  BY <1>1 DEF ErrorResponse
<1>2. CASE a.does = "PermissionError"
  BY <1>2 DEF ErrorResponse, Statuses
<1>3. CASE a.does = "RxonRateLimitError"
  BY <1>3 DEF ErrorResponse, Statuses
<1>4. CASE a.does = "ValueError"
  BY <1>4 DEF ErrorResponse, Statuses
<1>5. CASE a.does = "Exception"
  BY <1>5 DEF ErrorResponse, Statuses
<1> QED BY <1>1, <1>2, <1>3, <1>4, <1>5 DEF Raises

(* A value or a ready response of the handler.                             *)
LEMMA ValueFacts ==
  ASSUME NEW k \in ApiKinds, NEW a \in AnswerType, Fits(a, k), a.does \notin Raises
  PROVE  \E r \in ReplyType :
           /\ r = Route(k, a)
           /\ r.status \in Statuses /\ r.access = 0 /\ r.refresh = 0 /\ r.body # "token"
           /\ r.body = "ignored" => r.status # 204 /\ k = "result"
<1>0. 0 \in Tokens
  BY TransportAssumption DEF Tokens
<1>1. /\ a.status \in Statuses /\ a.does # "missing"
      /\ a.body \in Bodies /\ a.body # "token" /\ a.access = 0 /\ a.refresh = 0
      /\ a.status = 204 => a.body = "none"
      /\ a.body = "ignored" => k = "result"
  BY DEF AnswerType, Fits, Raises
<1>2. Route(k, a) \in {JsonResponse(a), Reply(200, "dict"), Reply(204, "none")}
  BY <1>1, EndpointFacts DEF ApiKinds, handle_register, handle_poll, handle_result,
     handle_heartbeat, handle_event, Handled, OrDefault
<1>3. CASE Route(k, a) = JsonResponse(a)
  <2>1. PICK st \in Statuses :
          /\ JsonResponse(a) = [status |-> st, body |-> a.body, access |-> 0, refresh |-> 0]
          /\ st \in {200, a.status}
    BY <1>1 DEF JsonResponse, Payload, Statuses
  <2> QED BY <1>0, <1>1, <1>3, <2>1 DEF ReplyType
<1>4. CASE Route(k, a) = Reply(200, "dict")
  BY <1>0, <1>4 DEF Reply, ReplyType, Statuses, Bodies
<1>5. CASE Route(k, a) = Reply(204, "none")
  BY <1>0, <1>5 DEF Reply, ReplyType, Statuses, Bodies
<1> QED BY <1>2, <1>3, <1>4, <1>5

(* The response to an authenticated request: a refusal means that it was   *)
(* not executed, and what the worker reports as True was accepted.         *)
LEMMA RouteFacts ==
  ASSUME NEW k \in ApiKinds, NEW a \in AnswerType, Fits(a, k)
  PROVE  \E r \in ReplyType :
           /\ r = Route(k, a)
           /\ r.status # 0 /\ r.access = 0 /\ r.refresh = 0
           /\ r.status \in {401, 429} => ~Executes(a, r)
           /\ r.status # 401 /\ MethodResult(k, Decode(r)) = "True" => Accepts(r)
           /\ r.body # "token"
<1>1. CASE a.does \in Raises
  <2>1. a.status \in Statuses
    BY DEF AnswerType
  <2>2. PICK st \in Statuses : Route(k, a) = Reply(st, "error")
    BY <1>1, <2>1, RaiseFacts, ErrorResponseFacts
  <2>3. PICK r \in ReplyType : /\ r = Route(k, a)
                              /\ r.status = st /\ r.body = "error" /\ r.access = 0 /\ r.refresh = 0
    BY <2>2, TransportAssumption DEF Reply, ReplyType, Bodies, Tokens
  <2>4. a.does = "Exception" => r.status = 500
    BY <1>1, <2>1, <2>3, RaiseFacts, ErrorResponseFacts DEF Reply
  <2>5. st >= 400 => Decode(r) \in RxonErrors
    BY <2>3 DEF Decode, RxonErrors, Statuses
  <2>6. st >= 400 => MethodResult(k, Decode(r)) # "True"
    BY <2>5, MethodResultFacts
  <2>7. st \in Nat /\ st # 0
    BY DEF Statuses
  <2> QED BY <2>3, <2>4, <2>6, <2>7 DEF Executes, Accepts
<1>2. CASE a.does \notin Raises
  <2>1. PICK r \in ReplyType :
           /\ r = Route(k, a)
           /\ r.status \in Statuses /\ r.access = 0 /\ r.refresh = 0 /\ r.body # "token"
           /\ r.body = "ignored" => r.status # 204 /\ k = "result"
    BY <1>2, ValueFacts
  <2>2. a.does # "Exception"
    BY <1>2 DEF Raises
  <2>3. r.status \in Nat /\ r.status # 0
    BY <2>1 DEF Statuses
  <2>4. r.status >= 400 => Decode(r) \in RxonErrors
    BY <2>1 DEF Decode, RxonErrors, Statuses
  <2>5. r.status < 400 /\ r.body = "ignored" => Decode(r) = "ignored"
    BY <2>1 DEF Decode, Statuses
  <2>6. MethodResult("result", "ignored") # "True"
    BY DEF MethodResult, send_result, RxonErrors
  <2>7. r.status >= 400 => MethodResult(k, Decode(r)) # "True"
    BY <2>4, MethodResultFacts
  <2> QED BY <2>1, <2>2, <2>3, <2>5, <2>6, <2>7 DEF Executes, Accepts
<1> QED BY <1>1, <1>2

(* A refused request, and one that came before start().                    *)
LEMMA RefusalFacts ==
  ASSUME NEW k \in ApiKinds \cup {"sts_token", "sts_refresh"}
  PROVE  \E r \in ReplyType :
           /\ r = Route(k, Refusal)
           /\ r.status # 0 /\ r.access = 0 /\ r.refresh = 0
           /\ r.status # 401 => MethodResult(k, Decode(r)) # "True"
           /\ r.body # "token"
<1>1. PICK a : a = Refusal
  OBVIOUS
<1>2. Route(k, a) \in {Reply(401, "error"), Reply(503, "error"), Reply(503, "text")}
  <2>1. CASE started
    <3>1. a.does \in Raises /\ a.status = 401 /\ a.does = "HTTPException" /\ 401 \in Statuses
      BY <1>1, <2>1 DEF Refusal, Answer, Raises, Statuses
    <3> QED BY <3>1, RaiseFacts, ErrorResponseFacts
  <2>2. CASE ~started
    <3>1. a.does = "missing"
      BY <1>1, <2>2 DEF Refusal, NoHandler, Answer
    <3> QED BY <3>1, EndpointFacts DEF ApiKinds, handle_register, handle_poll,
      handle_result, handle_heartbeat, handle_event, handle_sts, handle_sts_refresh, Handled
  <2> QED BY <2>1, <2>2
<1>3. PICK r : r = Route(k, a)
  OBVIOUS
<1>4. /\ r \in ReplyType /\ r.status \in {401, 503} /\ r.access = 0 /\ r.refresh = 0
      /\ r.body # "token"
  BY <1>2, <1>3, TransportAssumption DEF Reply, ReplyType, Statuses, Bodies, Tokens
<1>5. r.status = 503 => Decode(r) \in RxonErrors
  BY <1>4 DEF Decode, RxonErrors
<1>6. r.status = 503 => MethodResult(k, Decode(r)) # "True"
  BY <1>5, MethodResultFacts
<1> QED BY <1>1, <1>3, <1>4, <1>6

(* A grant.                                                                *)
LEMMA GrantFacts ==
  ASSUME NEW k \in {"register", "sts_token", "sts_refresh"}, NEW n \in Tokens,
         NEW renew \in BOOLEAN
  PROVE  \E r \in ReplyType :
           /\ r = Route(k, Granted(n, renew))
           /\ r.status = 200 /\ r.body = "token" /\ r.access = n /\ r.refresh \in {0, n}
           /\ r.refresh # 0 => renew
<1>1. PICK a : a = Granted(n, renew)
  OBVIOUS
<1>2. /\ a.does = "return" /\ a.does \notin Raises /\ a.body = "token" /\ a.status = 200
      /\ a.access = n /\ a.refresh \in {0, n} /\ (a.refresh # 0 => renew)
  BY <1>1 DEF Granted, Answer, Raises
<1>3. Route(k, a) = JsonResponse(a)
  BY <1>2, EndpointFacts DEF ApiKinds, handle_register, handle_sts, handle_sts_refresh,
     Handled, OrDefault
<1>4. JsonResponse(a) = [status |-> 200, body |-> "token", access |-> n, refresh |-> a.refresh]
  BY <1>2 DEF JsonResponse, Payload
<1>5. JsonResponse(a) \in ReplyType
  BY <1>2, <1>4, TransportAssumption DEF ReplyType, Statuses, Bodies, Tokens
<1> QED BY <1>1, <1>2, <1>3, <1>4, <1>5

(* What serving a request leaves to show.                                  *)
LEMMA ServeStepInv ==
  ASSUME IInv, CallsOK', wire' \subseteq Message, handled' \subseteq RequestId, Safe',
         accepted' \subseteq RequestId,
         UNCHANGED <<sessionVars, tokenVars, started>>,
         liveTok' \subseteq Tokens, liveRef' \subseteq Tokens, issued' \in Tokens,
         issued <= issued'
  PROVE  IInv'
<1>1. token \in Nat /\ issued \in Nat /\ issued' \in Nat
  BY TransportAssumption DEF IInv, TypeOK, Tokens
<1>2. Held'
  BY <1>1 DEF IInv, Held, TokensPaired, tokenVars
<1>3. TypeOK'
  BY DEF IInv, CallsOK, TypeOK, sessionVars, tokenVars
<1> QED BY <1>2, <1>3 DEF IInv

(* Serving a worker's request preserves the invariant.                     *)
LEMMA ServeApiPreserves ==
  ASSUME IInv, NEW m \in wire, ServeApi(m)
  PROVE  IInv'
<1>1. PICK k : k = Kind[m.call]
  OBVIOUS
<1>2. /\ TypeOK /\ Safe /\ m.to = "api" /\ IdOf(m) \in RequestId
      /\ UNCHANGED <<sessionVars, tokenVars, started>>
      /\ UNCHANGED <<liveTok, liveRef, issued>>
      /\ issued \in Nat /\ issued \in Tokens /\ accepted \subseteq RequestId
      /\ liveTok' \subseteq Tokens /\ liveRef' \subseteq Tokens
  BY TransportAssumption DEF IInv, TypeOK, ServeApi, Message, IdOf, RequestId, Tokens
<1>3. k \in ApiKinds
  BY <1>1, <1>2, TransportAssumption DEF TypeOK, Safe, InFlight, Message
<1>4. CASE Respond(m, Route(k, Refusal)) /\ UNCHANGED <<handled, accepted>>
  <2>1. PICK r \in ReplyType :
           /\ r = Route(k, Refusal)
           /\ r.status # 0 /\ r.access = 0 /\ r.refresh = 0
           /\ r.status # 401 => MethodResult(k, Decode(r)) # "True"
           /\ r.body # "token"
    BY <1>3, RefusalFacts
  <2>2. CallsOK' /\ wire' \subseteq Message /\ handled' \subseteq RequestId /\ Safe'
    BY <1>1, <1>2, <1>4, <2>1, ServePreserves
  <2> QED BY <1>2, <1>4, <2>2, ServeStepInv
<1>5. ASSUME NEW a \in Answers, Fits(a, k), NEW r, r = Route(k, a), Respond(m, r),
             handled' = IF Executes(a, r) THEN handled \cup {IdOf(m)} ELSE handled,
             accepted' = IF Accepts(r) THEN accepted \cup {IdOf(m)} ELSE accepted
      PROVE  IInv'
  <2>1. a \in AnswerType
    BY TransportAssumption
  <2>2. /\ r \in ReplyType /\ r.status # 0 /\ r.access = 0 /\ r.refresh = 0
        /\ r.status \in {401, 429} => ~Executes(a, r)
        /\ r.status # 401 /\ MethodResult(k, Decode(r)) = "True" => Accepts(r)
        /\ r.body # "token"
    BY <1>3, <1>5, <2>1, RouteFacts
  <2>3. /\ handled' = handled \/ (m.to = "api" /\ handled' = handled \cup {IdOf(m)})
        /\ r.status \in {401, 429} => handled' = handled
        /\ accepted \subseteq accepted' /\ accepted' \subseteq RequestId
        /\ m.to = "api" /\ r.status # 401 /\ MethodResult(Kind[m.call], Decode(r)) = "True"
             => IdOf(m) \in accepted'
    BY <1>1, <1>2, <1>5, <2>2
  <2>4. CallsOK' /\ wire' \subseteq Message /\ handled' \subseteq RequestId /\ Safe'
    BY <1>2, <1>5, <2>2, <2>3, ServePreserves
  <2> QED BY <1>2, <2>3, <2>4, ServeStepInv
<1> QED BY <1>1, <1>4, <1>5 DEF ServeApi

(* The bookkeeping of a grant.                                             *)
LEMMA NewGrantFacts ==
  ASSUME IInv, NEW renew \in BOOLEAN, NEW used, NewGrant(renew, used)
  PROVE  /\ issued \in Nat /\ issued' = issued + 1 /\ issued' \in Tokens /\ issued' \in Nat
         /\ liveTok' \subseteq Tokens /\ liveRef' \subseteq Tokens
<1>1. issued \in Nat /\ issued < MaxGrants /\ MaxGrants \in Nat /\ issued' = issued + 1
  BY TransportAssumption DEF IInv, TypeOK, NewGrant, Tokens
<1>2. issued + 1 \in Tokens
  BY <1>1 DEF Tokens
<1>3. liveTok' \subseteq Tokens /\ liveRef' \subseteq liveRef \cup {issued + 1}
  BY <1>2 DEF IInv, TypeOK, NewGrant
<1> QED BY <1>1, <1>2, <1>3 DEF IInv, TypeOK

(* Answering a registration with tokens preserves it.                      *)
LEMMA ServeRegistrationPreserves ==
  ASSUME IInv, NEW m \in wire, ServeRegistration(m)
  PROVE  IInv'
<1>1. /\ TypeOK /\ Safe /\ m.to = "api" /\ Kind[m.call] = "register"
      /\ IdOf(m) \in RequestId /\ UNCHANGED <<sessionVars, tokenVars, started>>
      /\ handled' = handled \cup {IdOf(m)} /\ accepted' = accepted \cup {IdOf(m)}
      /\ accepted' \subseteq RequestId
  BY DEF IInv, TypeOK, ServeRegistration, Message, IdOf, RequestId
<1>2. PICK renew \in BOOLEAN : /\ NewGrant(renew, 0)
                              /\ Respond(m, Route("register", Granted(issued + 1, renew)))
  BY DEF ServeRegistration
<1>3. /\ issued \in Nat /\ issued' = issued + 1 /\ issued' \in Tokens /\ issued' \in Nat
      /\ liveTok' \subseteq Tokens /\ liveRef' \subseteq Tokens
  BY <1>2, NewGrantFacts
<1>4. PICK n \in Tokens : n = issued + 1
  BY <1>3
<1>5. PICK r \in ReplyType :
         /\ r = Route("register", Granted(n, renew))
         /\ r.status = 200 /\ r.body = "token" /\ r.access = n /\ r.refresh \in {0, n}
  BY GrantFacts
<1>6. Respond(m, r) /\ r.access <= issued'
  BY <1>2, <1>3, <1>4, <1>5
<1>7. CallsOK' /\ wire' \subseteq Message /\ handled' \subseteq RequestId /\ Safe'
  BY <1>1, <1>3, <1>5, <1>6, ServePreserves
<1> QED BY <1>1, <1>3, <1>7, ServeStepInv

(* Granting or refusing a token request preserves it.                      *)
LEMMA ServeStsPreserves ==
  ASSUME IInv, NEW m \in wire, ServeSts(m)
  PROVE  IInv'
<1>1. /\ TypeOK /\ Safe /\ m.to \in {"sts_token", "sts_refresh"} /\ m.to # "api"
      /\ UNCHANGED <<sessionVars, tokenVars, started>> /\ UNCHANGED <<handled, accepted>>
      /\ accepted' \subseteq RequestId
  BY DEF IInv, TypeOK, ServeSts, Message
<1>2. PICK k : k = m.to
  OBVIOUS
<1>3. ASSUME NEW renew \in BOOLEAN, NewGrant(renew, m.rt),
             Respond(m, Route(k, Granted(issued + 1, renew)))
      PROVE  IInv'
  <2>1. /\ issued \in Nat /\ issued' = issued + 1 /\ issued' \in Tokens /\ issued' \in Nat
        /\ liveTok' \subseteq Tokens /\ liveRef' \subseteq Tokens
    BY <1>3, NewGrantFacts
  <2>2. PICK n \in Tokens : n = issued + 1
    BY <2>1
  <2>3. PICK r \in ReplyType :
           /\ r = Route(k, Granted(n, renew))
           /\ r.status = 200 /\ r.body = "token" /\ r.access = n /\ r.refresh \in {0, n}
    BY <1>1, <1>2, GrantFacts
  <2>4. Respond(m, r) /\ r.access <= issued' /\ issued < r.access /\ issued <= issued'
    BY <1>3, <2>1, <2>2, <2>3
  <2>5. CallsOK' /\ wire' \subseteq Message /\ handled' \subseteq RequestId /\ Safe'
    BY <1>1, <2>1, <2>3, <2>4, ServePreserves
  <2> QED BY <1>1, <2>1, <2>4, <2>5, ServeStepInv
<1>4. CASE Respond(m, Route(k, Refusal)) /\ UNCHANGED <<liveTok, liveRef, issued>>
  <2>1. PICK r \in ReplyType :
           /\ r = Route(k, Refusal)
           /\ r.status # 0 /\ r.access = 0 /\ r.refresh = 0 /\ r.body # "token"
    BY <1>1, <1>2, RefusalFacts
  <2>2. /\ issued \in Nat /\ issued' \in Tokens /\ issued' = issued
        /\ liveTok' \subseteq Tokens /\ liveRef' \subseteq Tokens
    BY <1>1, <1>4, TransportAssumption DEF TypeOK, Tokens
  <2>3. CallsOK' /\ wire' \subseteq Message /\ handled' \subseteq RequestId /\ Safe'
    BY <1>1, <1>4, <2>1, <2>2, ServePreserves
  <2> QED BY <1>1, <2>2, <2>3, ServeStepInv
<1> QED BY <1>2, <1>3, <1>4 DEF ServeSts

(* Every step preserves the invariant.                                     *)
LEMMA NextInv == IInv /\ [Next]_vars => IInv'
<1> SUFFICES ASSUME IInv, [Next]_vars PROVE IInv'
  OBVIOUS
<1>1. CASE Connect \/ Close \/ StartListener \/ (\E t \in Tokens : Expire(t))
  BY <1>1, QuietPreserves
<1>2. ASSUME NEW c \in Calls, Start(c) \/ Progress(c) \/ Cancel(c) PROVE IInv'
  BY <1>2, StartPreserves, ReceivePreserves, NetworkErrorPreserves, WakePreserves,
     CancelPreserves DEF Progress
<1>3. ASSUME NEW m \in wire, ServeApi(m) \/ ServeRegistration(m) \/ ServeSts(m) PROVE IInv'
  BY <1>3, ServeApiPreserves, ServeRegistrationPreserves, ServeStsPreserves
<1>4. CASE UNCHANGED vars
  BY <1>4 DEF vars, sessionVars, tokenVars, serverVars, IInv, TypeOK, Held, TokensPaired,
     Safe, InFlight, Control, Clean, Acks, Acknowledged, Grants, Budget
<1> QED BY <1>1, <1>2, <1>3, <1>4 DEF Next, Worker, Orchestrator

-----------------------------------------------------------------------------
(* The theorems.                                                           *)

(* The invariant holds in every behaviour of the transport.                *)
THEOREM Invariance == Spec => []IInv
BY InitInv, NextInv, PTL DEF Spec

(* Every variable keeps its type, and the loop of send_result its bound.   *)
THEOREM TypeCorrect == Spec => []TypeOK
<1>1. IInv => TypeOK
  BY DEF IInv
<1> QED BY <1>1, Invariance, PTL

(* However many calls run, however often they retry and whatever is lost:  *)
(* of one _request at most one attempt is executed, and of one call at     *)
(* most as many requests as its method may make.                           *)
THEOREM HandledWithinBudget == Spec => []HandlingBudget
<1>1. IInv => HandlingBudget
  BY DEF IInv, Safe, InFlight, HandlingBudget
<1> QED BY <1>1, Invariance, PTL

(* True from send_result or emit_event means that the request was executed *)
(* and not ignored.                                                        *)
THEOREM TrueIsAccepted == Spec => []TrueMeansAccepted
<1>1. IInv => TrueMeansAccepted
  BY DEF IInv, Safe, Acks, Acknowledged, TrueMeansAccepted
<1> QED BY <1>1, Invariance, PTL

(* After RxonAuthError or RxonRateLimitError nothing of the last _request  *)
(* has been or will be executed.                                           *)
THEOREM RefusedIsNotExecuted == Spec => []RefusedMeansNotExecuted
<1>1. IInv => RefusedMeansNotExecuted
  <2> SUFFICES ASSUME IInv, NEW c \in Calls,
                      call[c].outcome \in {"RxonAuthError", "RxonRateLimitError"}
               PROVE  /\ \A h \in handled : h.call = c => h.nth < call[c].nth
                      /\ \A m \in wire : m.call = c /\ m.to = "api" => m.nth < call[c].nth
    BY DEF RefusedMeansNotExecuted
  <2>1. Clean(c)
    BY DEF IInv, Safe, Control
  <2>2. /\ \A h \in handled : h.call = c => h.nth <= call[c].nth
        /\ \A m \in wire : m.call = c /\ m.to = "api" => m.nth <= call[c].nth
    BY DEF IInv, Safe, InFlight
  <2>3. /\ call[c].nth \in Nat
        /\ \A h \in handled : h.nth \in Nat
        /\ \A m \in wire : m.nth \in Nat
    BY DEF IInv, TypeOK, CallType, RequestId, Message
  <2> QED BY <2>1, <2>2, <2>3 DEF Clean
<1> QED BY <1>1, Invariance, PTL

(* The tokens the transport holds always stem from one grant.              *)
THEOREM TokensStayPaired == Spec => []TokensPaired
<1>1. IInv => TokensPaired
  BY DEF IInv, Held
<1> QED BY <1>1, Invariance, PTL

(* Ending a call or asking for a token leaves the attempt counter alone.   *)
LEMMA FinishedAttempt ==
  ASSUME TypeOK, NEW c \in Calls, NEW o
  PROVE  Finished(c, o).attempt = call[c].attempt
BY DEF TypeOK, Finished, CallType

(* A _request that has ended did not begin its second attempt.             *)
LEMMA SettledAttempt ==
  ASSUME TypeOK, NEW c \in Calls, NEW n \in Nat, NEW r \in Bodies \cup RxonErrors
  PROVE  Settled(c, n, r).attempt = call[c].attempt
BY SettledFacts DEF TypeOK

(* Neither did a call whose refresh_token begins or fails.                 *)
LEMMA RefreshAttempt ==
  ASSUME TypeOK, NEW c \in Calls, NEW d \in Calls, RefreshFailed(c) \/ BeginRefresh(c)
  PROVE  call'[d].attempt = call[d].attempt
<1>1. ASSUME RefreshFailed(c) PROVE call'[d].attempt = call[d].attempt
  <2>1. CASE Kind[c] = "refresh"
    <3>1. call' = [call EXCEPT ![c] = Finished(c, "None")]
      BY <1>1, <2>1 DEF RefreshFailed
    <3> QED BY <3>1, FinishedAttempt DEF TypeOK
  <2>2. CASE Kind[c] # "refresh"
    <3>1. PICK n \in Nat : n = call[c].nth
      BY DEF TypeOK, CallType
    <3>2. call' = [call EXCEPT ![c] = Settled(c, n, "RxonAuthError")]
      BY <1>1, <2>2, <3>1 DEF RefreshFailed
    <3>3. "RxonAuthError" \in Bodies \cup RxonErrors
      BY DEF RxonErrors
    <3> QED BY <3>2, <3>3, SettledAttempt DEF TypeOK
  <2> QED BY <2>1, <2>2
<1>2. CASE BeginRefresh(c) /\ session = "open"
  <2>1. call \in [Calls -> CallType]
    BY DEF TypeOK
  <2>2. call' = [call EXCEPT ![c] = [call[c] EXCEPT !.pc = "refreshing", !.reply = NoReply]]
    BY <1>2, <2>1 DEF BeginRefresh
  <2>3. [call[c] EXCEPT !.pc = "refreshing", !.reply = NoReply].attempt = call[c].attempt
    BY <2>1 DEF CallType
  <2> QED BY <2>1, <2>2, <2>3
<1> QED BY <1>1, <1>2 DEF BeginRefresh

(* A pass of the loop of _request is sent with the attempt and token given.*)
LEMMA TryAttempt ==
  ASSUME TypeOK, NEW c \in Calls, NEW d \in Calls, NEW n \in Nat, NEW a, NEW h,
         TryRequest(c, n, a, h)
  PROVE  \/ call'[d].attempt = call[d].attempt
         \/ c = d /\ call'[d].attempt = a /\ call'[d].hdr = h
<1>1. CASE session = "open"
  BY <1>1 DEF TryRequest, SendRequest, TypeOK, CallType
<1>2. CASE session # "open"
  <2>1. PICK r \in RxonErrors : call' = [call EXCEPT ![c] = Settled(c, n, r)]
    BY <1>2 DEF TryRequest, RxonErrors
  <2> QED BY <2>1, SettledAttempt DEF TypeOK
<1> QED BY <1>1, <1>2

(* The only step that starts a second attempt is the end of a successful   *)
(* refresh, and it takes the token just granted.                           *)
LEMMA SecondAttempt ==
  ASSUME IInv, Next, NEW d \in Calls, call[d].attempt = 0, call'[d].attempt = 1
  PROVE  call'[d].hdr # call[d].hdr
<1>0. TypeOK /\ call \in [Calls -> CallType]
  BY DEF IInv, TypeOK
<1>1. ASSUME NEW c \in Calls, Receive(c) PROVE call'[d].hdr # call[d].hdr
  <2>1. PICK r \in ReplyType : r = call[c].reply
    BY HeldFacts DEF CallType
  <2>2. PICK n \in Nat : n = call[c].nth
    BY HeldFacts
  <2>3. CASE call[c].pc = "refreshing" /\ RefreshDone(c)
    <3>1. CASE RefreshFailed(c)
      BY <1>0, <3>1, RefreshAttempt
    <3>2. CASE call' = [call EXCEPT ![c] = Finished(c, "token")]
      BY <1>0, <3>2, FinishedAttempt
    <3>3. CASE r.body = "token" /\ TryRequest(c, n, 1, r.access)
      <4>1. c = d /\ call'[d].hdr = r.access
        BY <1>0, <3>3, TryAttempt
      <4>2. call[c].hdr < r.access /\ call[c].hdr \in Nat /\ r.access \in Nat
        BY <1>0, <2>1, <2>3, <3>3, TransportAssumption
           DEF IInv, Safe, Grants, CallType, ReplyType, Tokens
      <4> QED BY <4>1, <4>2
    <3> QED BY <2>1, <2>2, <2>3, <3>1, <3>2, <3>3 DEF RefreshDone, RetryHeader
  <2>4. CASE BeginRefresh(c)
    BY <1>0, <2>4, RefreshAttempt
  <2>5. CASE call' = [call EXCEPT ![c] = Settled(c, n, "RxonAuthError")]
    <3>1. "RxonAuthError" \in RxonErrors
      BY DEF RxonErrors
    <3> QED BY <1>0, <2>5, <3>1, SettledAttempt
  <2>6. CASE call' = [call EXCEPT ![c] = Settled(c, n, Decode(r))]
    <3>1. PICK e \in Bodies \cup RxonErrors : e = Decode(r)
      BY DecodeFacts
    <3> QED BY <1>0, <2>6, <3>1, SettledAttempt
  <2> QED BY <1>1, <2>1, <2>2, <2>3, <2>4, <2>5, <2>6 DEF Receive
<1>2. ASSUME NEW c \in Calls, Start(c) PROVE FALSE
  <2>1. CASE BeginRefresh(c)
    BY <1>0, <2>1, RefreshAttempt
  <2>2. CASE call' = [call EXCEPT ![c] = Finished(c, "False")]
    BY <1>0, <2>2, FinishedAttempt
  <2>3. CASE TryRequest(c, 0, 0, header)
    <3>1. PICK h : h = header
      OBVIOUS
    <3> QED BY <1>0, <2>3, <3>1, TryAttempt
  <2> QED BY <1>2, <2>1, <2>2, <2>3 DEF Start, BeginRequest
<1>3. ASSUME NEW c \in Calls, NetworkError(c) PROVE FALSE
  <2>1. PICK n \in Nat : n = call[c].nth
    BY HeldFacts
  <2>2. CASE call' = [call EXCEPT ![c] = Settled(c, n, "RxonNetworkError")]
    <3>1. "RxonNetworkError" \in RxonErrors
      BY DEF RxonErrors
    <3> QED BY <1>0, <2>2, <3>1, SettledAttempt
  <2>3. CASE RefreshFailed(c)
    BY <1>0, <2>3, RefreshAttempt
  <2> QED BY <1>3, <2>1, <2>2, <2>3 DEF NetworkError
<1>4. ASSUME NEW c \in Calls, Wake(c) PROVE FALSE
  <2>1. PICK n \in Nat : n = call[c].nth + 1
    BY HeldFacts
  <2>2. PICK h : h = header
    OBVIOUS
  <2>3. TryRequest(c, n, 0, h)
    BY <1>4, <2>1, <2>2 DEF Wake, BeginRequest
  <2> QED BY <1>0, <2>3, TryAttempt
<1>5. ASSUME NEW c \in Calls, Cancel(c) PROVE FALSE
  <2>1. call' = [call EXCEPT ![c] = Finished(c, "CancelledError")]
    BY <1>5 DEF Cancel
  <2> QED BY <1>0, <2>1, FinishedAttempt
<1>6. ASSUME NEW m \in wire, NEW r, Respond(m, r) PROVE FALSE
  BY <1>0, <1>6 DEF Respond, CallType
<1>7. ASSUME NEW m \in wire, ServeApi(m) \/ ServeRegistration(m) \/ ServeSts(m) PROVE FALSE
  <2>1. \E r : Respond(m, r)
    BY <1>7 DEF ServeApi, ServeRegistration, ServeSts
  <2> QED BY <1>6, <2>1
<1>8. CASE Connect \/ Close \/ StartListener \/ (\E t \in Tokens : Expire(t))
  BY <1>8 DEF Connect, Close, StartListener, Expire
<1> QED BY <1>1, <1>2, <1>3, <1>4, <1>5, <1>7, <1>8 DEF Next, Worker, Orchestrator, Progress

(* The second attempt of a _request never repeats the token that was       *)
(* refused, also when other calls refresh at the same time.                *)
THEOREM RetryUsesNewToken == Spec => RetryWithNewToken
<1>1. IInv /\ [Next]_vars =>
        [\A c \in Calls : call[c].attempt = 0 /\ call'[c].attempt = 1
                            => call'[c].hdr # call[c].hdr]_vars
  BY SecondAttempt
<1> QED BY <1>1, Invariance, PTL DEF Spec, RetryWithNewToken

-----------------------------------------------------------------------------
(* Refresh tokens: nobody is stranded unnoticed.                           *)

(* A method k that ends with o has told its caller that it is not served.  *)
ReportedAs(k, o) ==
  \/ o \in {"RxonAuthError", "CancelledError"}
  \/ k = "refresh" /\ o = "None"
  \/ k = "event" /\ o = "False"

Reported(c) == ReportedAs(Kind[c], call[c].outcome)

(* A request for a token is on its way only while its call waits for the   *)
(* answer or has given up, and a call that waits has sent one.             *)
AskedOnce ==
  \A m \in wire :
    /\ m.rt <= issued
    /\ m.to = "api" => m.rt = 0
    /\ m.to # "api" => \/ call[m.call].pc = "refreshing" /\ call[m.call].reply.status = 0
                       \/ Reported(m.call)
    /\ \A w \in wire :
         m.to # "api" /\ w.to # "api" /\ w.call = m.call /\ call[m.call].pc = "refreshing"
           => w = m

(* A refresh token that has reached a call and is not in use yet has not   *)
(* been shown to the orchestrator: it is live.                             *)
Unused(n) == n \in liveRef /\ n # refresh /\ \A m \in wire : m.rt # n

Unspent ==
  \A c \in Calls : call[c].reply.refresh # 0 =>
    /\ Unused(call[c].reply.refresh)
    /\ \A d \in Calls : call[d].reply.refresh = call[c].reply.refresh => d = c

RInv == IInv /\ AskedOnce /\ Unspent /\ StrandedIsReported

(* What the invariant says of the numbers.                                 *)
LEMMA RefreshFacts ==
  ASSUME IInv
  PROVE  /\ issued \in Nat /\ refresh \in Nat /\ refresh <= issued
         /\ \A m \in wire : m.call \in Calls /\ m.rt \in Nat
         /\ \A c \in Calls : /\ call[c] \in CallType
                             /\ call[c].reply.refresh \in Nat
                             /\ call[c].reply.refresh <= issued
                             /\ Reported(c) => call[c].pc = "done"
<1>1. /\ issued \in Nat /\ token \in Nat /\ refresh \in Nat
      /\ \A m \in wire : m.call \in Calls /\ m.rt \in Nat
      /\ \A c \in Calls : /\ call[c] \in CallType
                          /\ call[c].reply.refresh \in Nat /\ call[c].reply.access \in Nat
  BY TransportAssumption DEF IInv, TypeOK, Tokens, Message, CallType, ReplyType
<1>2. refresh <= issued
  BY <1>1 DEF IInv, Held, TokensPaired
<1>3. \A c \in Calls : call[c].reply.refresh <= issued
  BY <1>1 DEF IInv, Safe, Grants
<1>4. \A c \in Calls : Reported(c) => call[c].pc = "done"
  BY DEF IInv, Safe, Control, Reported, ReportedAs
<1> QED BY <1>1, <1>2, <1>3, <1>4

(* What a call does between two awaits, as far as it concerns the refresh  *)
(* tokens: its response is consumed and at most one request is sent, to an *)
(* API endpoint or, when it begins to refresh, with the refresh token.     *)
Request(c, s, w) ==
  /\ w.call = c
  /\ \/ w.to = "api" /\ w.rt = 0
     \/ w.to # "api" /\ w.rt = refresh /\ s.pc = "refreshing" /\ call[c].pc # "refreshing"

Moved(c, s) ==
  /\ call' = [call EXCEPT ![c] = s]
  /\ s.reply = NoReply
  /\ wire' = wire \/ \E w \in Message : Request(c, s, w) /\ wire' = wire \cup {w}

(* Such a step keeps what is said of the refresh tokens, if a call that    *)
(* was refreshing installs the token it has received or reports.           *)
LEMMA MovedPreserves ==
  ASSUME RInv, IInv', NEW c \in Calls, NEW s \in CallType, Moved(c, s),
         call[c].pc # "done", UNCHANGED <<liveRef, issued>>,
         refresh' = refresh \/ refresh' = call[c].reply.refresh,
         call[c].pc = "refreshing" =>
           \/ ReportedAs(Kind[c], s.outcome)
           \/ call[c].reply.status # 0 /\ refresh' = call[c].reply.refresh
  PROVE  RInv'
<1>0. IInv /\ AskedOnce /\ Unspent /\ StrandedIsReported /\ 0 \in Nat
  BY DEF RInv
<1>1. /\ call'[c] = s /\ s.reply.refresh = 0 /\ s.reply.status = 0
      /\ \A d \in Calls : d # c => call'[d] = call[d] /\ (Reported(d) => Reported(d)')
      /\ ReportedAs(Kind[c], s.outcome) => Reported(c)'
      /\ ~Reported(c)
  BY <1>0, RefreshFacts DEF IInv, TypeOK, Moved, NoReply, Reply, Reported
<1>2. \A m \in wire : m.to # "api" /\ m.call = c =>
         call[c].pc = "refreshing" /\ call[c].reply.status = 0 /\ Reported(c)'
  BY <1>0, <1>1 DEF AskedOnce
<1>3. StrandedIsReported'
  <2>1. CASE refresh' = call[c].reply.refresh
    BY <1>0, <2>1 DEF Unspent, Unused, StrandedIsReported
  <2>2. CASE refresh' = refresh /\ refresh \in liveRef \cup {0}
    BY <2>2 DEF StrandedIsReported
  <2>3. ASSUME NEW d \in Calls, d # c, call[d].pc = "refreshing" \/ Reported(d)
        PROVE  StrandedIsReported'
    BY <1>1, <2>3 DEF StrandedIsReported, Reported, ReportedAs
  <2>4. CASE Reported(c)'
    BY <2>4 DEF StrandedIsReported, Reported, ReportedAs
  <2> QED
    BY <1>0, <1>1, <2>1, <2>2, <2>3, <2>4 DEF StrandedIsReported, Reported, ReportedAs
<1>4. CASE wire' = wire
  <2>1. AskedOnce'
    BY <1>0, <1>1, <1>2, <1>4, RefreshFacts DEF AskedOnce
  <2>2. Unspent'
    BY <1>0, <1>1, <1>4 DEF Unspent, Unused
  <2> QED BY <1>3, <2>1, <2>2 DEF RInv
<1>5. ASSUME NEW w \in Message, Request(c, s, w), wire' = wire \cup {w}
      PROVE  RInv'
  <2>1. /\ w.rt \in Nat /\ w.rt <= issued /\ (w.to = "api" => w.rt = 0) /\ w.call = c
        /\ w.rt = 0 \/ w.rt = refresh
    BY <1>0, <1>5, RefreshFacts DEF Request
  <2>2. w.to # "api" => s.pc = "refreshing" /\ \A m \in wire : m.to # "api" => m.call # c
    BY <1>2, <1>5 DEF Request
  <2>3. AskedOnce'
    BY <1>0, <1>1, <1>2, <1>5, <2>1, <2>2, RefreshFacts DEF AskedOnce
  <2>4. Unspent'
    BY <1>0, <1>1, <1>5, <2>1 DEF Unspent, Unused
  <2> QED BY <1>3, <2>3, <2>4 DEF RInv
<1> QED BY <1>4, <1>5 DEF Moved

(* The end of a _request, and RxonAuthError reaches the caller whatever    *)
(* the method.                                                             *)
LEMMA SettledMoved ==
  ASSUME IInv, NEW c \in Calls, NEW n \in Nat, NEW r \in Bodies \cup RxonErrors,
         call' = [call EXCEPT ![c] = Settled(c, n, r)], wire' = wire
  PROVE  \E s \in CallType :
           Moved(c, s) /\ (r = "RxonAuthError" => ReportedAs(Kind[c], s.outcome))
<1>1. PICK s : s = Settled(c, n, r)
  OBVIOUS
<1>2. s \in CallType /\ s.reply = NoReply
  BY <1>1, SettledFacts, RefreshFacts
<1>3. r = "RxonAuthError" => s.outcome = MethodResult(Kind[c], r)
  <2>1. r = "RxonAuthError" => s = [Finished(c, MethodResult(Kind[c], r)) EXCEPT !.nth = n]
    BY <1>1 DEF Settled, TriesAgain
  <2> QED BY <2>1, RefreshFacts DEF Finished, CallType
<1>4. ReportedAs(Kind[c], MethodResult(Kind[c], "RxonAuthError"))
  BY DEF ReportedAs, MethodResult, poll_task, send_result, emit_event, RxonErrors
<1> QED BY <1>1, <1>2, <1>3, <1>4 DEF Moved

(* The method returns or raises o.                                         *)
LEMMA FinishedMoved ==
  ASSUME IInv, NEW c \in Calls, NEW o \in Outcomes,
         call' = [call EXCEPT ![c] = Finished(c, o)], wire' = wire
  PROVE  \E s \in CallType : Moved(c, s) /\ s.outcome = o
<1>1. PICK s : s = Finished(c, o)
  OBVIOUS
<1>2. NoReply \in ReplyType
  BY TransportAssumption DEF NoReply, Reply, ReplyType, Statuses, Bodies, Tokens
<1>3. s \in CallType /\ s.reply = NoReply /\ s.outcome = o
  BY <1>1, <1>2, RefreshFacts DEF Finished, CallType
<1> QED BY <1>1, <1>3 DEF Moved

(* A pass of the loop of _request.                                         *)
LEMMA TryMoved ==
  ASSUME IInv, NEW c \in Calls, NEW n \in Nat, NEW a \in {0, 1}, NEW h \in Tokens,
         TryRequest(c, n, a, h)
  PROVE  \E s \in CallType : Moved(c, s)
<1>1. CASE session = "open"
  <2>1. PICK s : s = [call[c] EXCEPT !.pc = "sent", !.nth = n, !.attempt = a,
                                     !.hdr = h, !.reply = NoReply]
    OBVIOUS
  <2>2. PICK w : w = [call |-> c, nth |-> n, attempt |-> a, to |-> "api", hdr |-> h, rt |-> 0]
    OBVIOUS
  <2>3. NoReply \in ReplyType /\ 0 \in Tokens
    BY TransportAssumption DEF NoReply, Reply, ReplyType, Statuses, Bodies, Tokens
  <2>4. s \in CallType /\ s.reply = NoReply
    BY <2>1, <2>3, RefreshFacts DEF CallType
  <2>5. w \in Message /\ Request(c, s, w)
    BY <2>2, <2>3 DEF Message, Request
  <2>6. call' = [call EXCEPT ![c] = s] /\ wire' = wire \cup {w}
    BY <1>1, <2>1, <2>2 DEF TryRequest, SendRequest, IInv, TypeOK
  <2> QED BY <2>4, <2>5, <2>6 DEF Moved
<1>2. CASE session # "open"
  <2>1. PICK r \in RxonErrors : call' = [call EXCEPT ![c] = Settled(c, n, r)]
    BY <1>2 DEF TryRequest, RxonErrors
  <2> QED BY <1>2, <2>1, SettledMoved DEF TryRequest
<1> QED BY <1>1, <1>2

(* refresh_token returns None: the caller is told.                         *)
LEMMA RefreshFailedMoved ==
  ASSUME IInv, NEW c \in Calls, RefreshFailed(c)
  PROVE  /\ refresh' = refresh
         /\ \E s \in CallType : Moved(c, s) /\ ReportedAs(Kind[c], s.outcome)
<1>1. wire' = wire /\ refresh' = refresh
  BY DEF RefreshFailed, tokenVars
<1>2. CASE Kind[c] = "refresh"
  <2>1. "None" \in Outcomes /\ call' = [call EXCEPT ![c] = Finished(c, "None")]
    BY <1>2 DEF RefreshFailed, Outcomes
  <2> QED BY <1>1, <1>2, <2>1, FinishedMoved DEF ReportedAs
<1>3. CASE Kind[c] # "refresh"
  <2>1. PICK n \in Nat : n = call[c].nth
    BY RefreshFacts DEF CallType
  <2>2. PICK r \in RxonErrors : r = "RxonAuthError"
    BY DEF RxonErrors
  <2>3. call' = [call EXCEPT ![c] = Settled(c, n, r)]
    BY <1>3, <2>1, <2>2 DEF RefreshFailed
  <2> QED BY <1>1, <2>2, <2>3, SettledMoved
<1> QED BY <1>2, <1>3

(* refresh_token begins.                                                   *)
LEMMA BeginRefreshMoved ==
  ASSUME IInv, NEW c \in Calls, BeginRefresh(c), call[c].pc # "refreshing"
  PROVE  refresh' = refresh /\ \E s \in CallType : Moved(c, s)
<1>1. CASE session = "open"
  <2>1. PICK s : s = [call[c] EXCEPT !.pc = "refreshing", !.reply = NoReply]
    OBVIOUS
  <2>2. PICK w : w = [call |-> c, nth |-> call[c].nth, attempt |-> 0,
                      to |-> IF refresh # 0 THEN "sts_refresh" ELSE "sts_token",
                      hdr |-> header, rt |-> refresh]
    OBVIOUS
  <2>3. NoReply \in ReplyType
    BY TransportAssumption DEF NoReply, Reply, ReplyType, Statuses, Bodies, Tokens
  <2>4. s \in CallType /\ s.reply = NoReply /\ s.pc = "refreshing"
    BY <2>1, <2>3, RefreshFacts DEF CallType
  <2>5. w \in Message /\ Request(c, s, w)
    BY <2>2, <2>4, RefreshFacts DEF IInv, TypeOK, CallType, Message, Request
  <2>6. call' = [call EXCEPT ![c] = s] /\ wire' = wire \cup {w} /\ refresh' = refresh
    BY <1>1, <2>1, <2>2 DEF BeginRefresh, RefreshFailed, tokenVars, IInv, TypeOK
  <2> QED BY <2>4, <2>5, <2>6 DEF Moved
<1>2. CASE session # "open"
  BY <1>2, RefreshFailedMoved DEF BeginRefresh
<1> QED BY <1>1, <1>2

(* Every step of a call.                                                   *)
LEMMA CallKeepsRefresh ==
  ASSUME RInv, IInv', NEW c \in Calls, Start(c) \/ Progress(c) \/ Cancel(c)
  PROVE  RInv'
<1>0. IInv /\ UNCHANGED <<liveRef, issued>>
  BY DEF RInv, Start, Progress, Receive, NetworkError, Wake, Cancel, serverVars
<1>1. ASSUME Start(c) PROVE RInv'
  <2>1. call[c].pc = "idle"
    BY <1>1 DEF Start
  <2>2. refresh' = refresh /\ \E s \in CallType : Moved(c, s)
    <3>1. CASE BeginRefresh(c)
      BY <1>0, <2>1, <3>1, BeginRefreshMoved
    <3>2. CASE call' = [call EXCEPT ![c] = Finished(c, "False")] /\ UNCHANGED <<wire, tokenVars>>
      <4>1. "False" \in Outcomes
        BY DEF Outcomes
      <4> QED BY <1>0, <3>2, <4>1, FinishedMoved DEF tokenVars
    <3>3. CASE TryRequest(c, 0, 0, header) /\ UNCHANGED tokenVars
      <4>1. PICK h \in Tokens : h = header
        BY <1>0 DEF IInv, TypeOK
      <4> QED BY <1>0, <3>3, <4>1, TryMoved DEF tokenVars
    <3> QED BY <1>1, <3>1, <3>2, <3>3 DEF Start, BeginRequest
  <2> QED BY <1>0, <2>1, <2>2, MovedPreserves
<1>2. ASSUME Receive(c) PROVE RInv'
  <2>1. PICK r \in ReplyType : r = call[c].reply
    BY <1>0, RefreshFacts DEF CallType
  <2>2. PICK n \in Nat : n = call[c].nth
    BY <1>0, RefreshFacts DEF CallType
  <2>3. r.status # 0 /\ r.access \in Tokens
    BY <1>2, <2>1 DEF Receive, ReplyType
  <2>4. CASE call[c].pc = "refreshing" /\ RefreshDone(c)
    <3>1. CASE Install(r) /\ Kind[c] = "refresh"
               /\ call' = [call EXCEPT ![c] = Finished(c, "token")] /\ UNCHANGED wire
      <4>1. "token" \in Outcomes
        BY DEF Outcomes, Bodies
      <4>2. \E s \in CallType : Moved(c, s)
        BY <1>0, <3>1, <4>1, FinishedMoved
      <4> QED BY <1>0, <2>1, <2>3, <2>4, <3>1, <4>2, MovedPreserves DEF Install
    <3>2. CASE Install(r) /\ TryRequest(c, n, 1, r.access)
      <4>1. \E s \in CallType : Moved(c, s)
        BY <1>0, <2>3, <3>2, TryMoved
      <4> QED BY <1>0, <2>1, <2>3, <2>4, <3>2, <4>1, MovedPreserves DEF Install
    <3>3. CASE RefreshFailed(c)
      BY <1>0, <2>4, <3>3, RefreshFailedMoved, MovedPreserves
    <3> QED BY <2>1, <2>2, <2>4, <3>1, <3>2, <3>3 DEF RefreshDone, RetryHeader
  <2>5. CASE call[c].pc = "sent" /\ BeginRefresh(c)
    BY <1>0, <2>5, BeginRefreshMoved, MovedPreserves
  <2>6. ASSUME NEW v \in Bodies \cup RxonErrors, call[c].pc = "sent",
               call' = [call EXCEPT ![c] = Settled(c, n, v)], UNCHANGED wire,
               Install(r) \/ UNCHANGED tokenVars
        PROVE  RInv'
    <3>1. \E s \in CallType : Moved(c, s)
      BY <1>0, <2>6, SettledMoved
    <3>2. refresh' = refresh \/ refresh' = call[c].reply.refresh
      BY <2>1, <2>6 DEF Install, tokenVars
    <3> QED BY <1>0, <2>6, <3>1, <3>2, MovedPreserves
  <2>7. "RxonAuthError" \in RxonErrors /\ Decode(r) \in Bodies \cup RxonErrors
    BY DecodeFacts DEF RxonErrors
  <2> QED BY <1>2, <2>1, <2>2, <2>4, <2>5, <2>6, <2>7 DEF Receive
<1>3. ASSUME NetworkError(c) PROVE RInv'
  <2>1. PICK n \in Nat : n = call[c].nth
    BY <1>0, RefreshFacts DEF CallType
  <2>2. CASE /\ call[c].pc = "sent" /\ UNCHANGED <<wire, tokenVars>>
             /\ call' = [call EXCEPT ![c] = Settled(c, n, "RxonNetworkError")]
    <3>1. "RxonNetworkError" \in RxonErrors
      BY DEF RxonErrors
    <3>2. \E s \in CallType : Moved(c, s)
      BY <1>0, <2>2, <3>1, SettledMoved
    <3> QED BY <1>0, <2>2, <3>2, MovedPreserves DEF tokenVars
  <2>3. CASE call[c].pc = "refreshing" /\ RefreshFailed(c)
    BY <1>0, <2>3, RefreshFailedMoved, MovedPreserves
  <2> QED BY <1>3, <2>1, <2>2, <2>3 DEF NetworkError
<1>4. ASSUME Wake(c) PROVE RInv'
  <2>1. PICK n \in Nat : n = call[c].nth + 1
    BY <1>0, RefreshFacts DEF CallType
  <2>2. PICK h \in Tokens : h = header
    BY <1>0 DEF IInv, TypeOK
  <2>3. TryRequest(c, n, 0, h) /\ refresh' = refresh /\ call[c].pc = "backoff"
    BY <1>4, <2>1, <2>2 DEF Wake, BeginRequest, tokenVars
  <2>4. \E s \in CallType : Moved(c, s)
    BY <1>0, <2>3, TryMoved
  <2> QED BY <1>0, <2>3, <2>4, MovedPreserves
<1>5. ASSUME Cancel(c) PROVE RInv'
  <2>1. /\ call' = [call EXCEPT ![c] = Finished(c, "CancelledError")] /\ wire' = wire
        /\ refresh' = refresh /\ call[c].pc # "done" /\ "CancelledError" \in Outcomes
    BY <1>5 DEF Cancel, tokenVars, Outcomes
  <2>2. PICK s \in CallType : Moved(c, s) /\ ReportedAs(Kind[c], s.outcome)
    BY <1>0, <2>1, FinishedMoved DEF ReportedAs
  <2> QED BY <1>0, <2>1, <2>2, MovedPreserves
<1> QED BY <1>1, <1>2, <1>3, <1>4, <1>5 DEF Progress

(* A grant revokes at most the refresh token of the request it answers.    *)
Grant(m, r) ==
  /\ issued' = issued + 1
  /\ r.refresh \in {0, issued + 1} /\ (r.refresh # 0 => r.refresh \in liveRef')
  /\ \A n \in liveRef : n \in liveRef' \/ n = 0 \/ n = m.rt

(* Serving a request keeps it: a token revoked while it is in use was sent *)
(* by a call that is refreshing or has reported.                           *)
LEMMA ServedKeepsRefresh ==
  ASSUME RInv, IInv', NEW m \in wire, NEW r \in ReplyType, Respond(m, r), r.status # 0,
         refresh' = refresh,
         (r.refresh = 0 /\ UNCHANGED <<liveRef, issued>>) \/ Grant(m, r)
  PROVE  RInv'
<1>c. PICK c \in Calls : c = m.call
  BY RefreshFacts DEF RInv
<1>0. /\ IInv /\ AskedOnce /\ Unspent /\ StrandedIsReported /\ 0 \in Nat /\ wire' = wire \ {m}
      /\ r.refresh \in Nat
  BY TransportAssumption DEF RInv, Respond, ReplyType, Tokens
<1>1. PICK s : s = IF Awaits(m) /\ session = "open" THEN [call[c] EXCEPT !.reply = r]
                                                     ELSE call[c]
  OBVIOUS
<1>2. /\ s.pc = call[c].pc /\ s.outcome = call[c].outcome
      /\ s.reply = call[c].reply \/ (Awaits(m) /\ s.reply = r)
  BY <1>0, <1>1, RefreshFacts DEF CallType
<1>3. /\ call'[c] = s /\ \A d \in Calls : d # c => call'[d] = call[d]
  BY <1>0, <1>1, <1>c, RefreshFacts DEF Respond, IInv, TypeOK
<1>4. \A d \in Calls : call'[d].pc = call[d].pc /\ call'[d].outcome = call[d].outcome
                       /\ (Reported(d) <=> Reported(d)')
  BY <1>2, <1>3 DEF Reported
<1>5. issued <= issued' /\ issued' \in Nat
  BY <1>0, RefreshFacts DEF Grant
<1>6. \A w \in wire' : w.to # "api" /\ w.call = c =>
         \/ s.pc = "refreshing" /\ s.reply.status = 0
         \/ Reported(c)
  <2>1. CASE s.reply = call[c].reply
    BY <1>0, <1>2, <2>1 DEF AskedOnce
  <2>2. CASE Awaits(m)
    <3>1. m.to = "api" => call[c].pc = "sent"
      BY <1>c, <2>2 DEF Awaits
    <3>2. m.to # "api" => call[c].pc = "refreshing"
      BY <1>c, <2>2 DEF Awaits
    <3>3. \A w \in wire : w.to # "api" /\ w.call = c =>
             call[c].pc = "refreshing" \/ Reported(c)
      BY <1>0 DEF AskedOnce
    <3>4. m.to # "api" => \A w \in wire : w.to # "api" /\ w.call = c => w = m
      BY <1>0, <1>c, <3>2 DEF AskedOnce
    <3> QED BY <1>0, <3>1, <3>3, <3>4
  <2> QED BY <1>2, <2>1, <2>2
<1>7. AskedOnce'
  <2>1. \A w \in wire' : w \in wire /\ w.rt <= issued /\ w.call \in Calls /\ w.rt \in Nat
    BY <1>0, RefreshFacts DEF AskedOnce
  <2>2. \A w \in wire' : w.to # "api" =>
           \/ call'[w.call].pc = "refreshing" /\ call'[w.call].reply.status = 0
           \/ Reported(w.call)'
    BY <1>0, <1>3, <1>4, <1>6, <2>1 DEF AskedOnce
  <2> QED BY <1>0, <1>4, <1>5, <2>1, <2>2, RefreshFacts DEF AskedOnce
<1>8. Unspent'
  <2>1. PICK g \in Nat : g = issued + 1
    BY <1>0, RefreshFacts
  <2>2. \A d \in Calls : \/ call'[d].reply.refresh = call[d].reply.refresh
                         \/ d = c /\ Grant(m, r) /\ s.reply = r /\ r.refresh = g
                         \/ call'[d].reply.refresh = 0
    BY <1>2, <1>3, <2>1 DEF Grant
  <2>3. /\ \A d \in Calls : call[d].reply.refresh # g
        /\ \A w \in wire : w.rt # g
        /\ refresh # g
    BY <1>0, <2>1, RefreshFacts DEF AskedOnce
  <2>4. ASSUME NEW d \in Calls, NEW n \in Nat, n # 0, n = call'[d].reply.refresh
        PROVE  Unused(n)' /\ \A e \in Calls : call'[e].reply.refresh = n => e = d
    <3>1. CASE n = call[d].reply.refresh
      <4>1. Unused(n) /\ n # m.rt /\ n # g
        BY <1>0, <2>3, <2>4, <3>1 DEF Unspent, Unused
      <4>2. n \in liveRef'
        BY <2>4, <4>1 DEF Grant, Unused
      <4>3. Unused(n)'
        BY <1>0, <4>1, <4>2 DEF Unused
      <4>4. \A e \in Calls : call[e].reply.refresh = n => e = d
        BY <1>0, <2>4, <3>1 DEF Unspent
      <4> QED BY <1>3, <2>2, <2>4, <4>1, <4>3, <4>4
    <3>2. CASE Grant(m, r) /\ n = r.refresh /\ n = g /\ d = c
      <4>1. n \in liveRef'
        BY <2>4, <3>2 DEF Grant
      <4> QED BY <1>0, <2>2, <2>3, <2>4, <3>2, <4>1 DEF Unused
    <3> QED BY <1>3, <2>2, <2>4, <3>1, <3>2
  <2>5. \A d \in Calls : call'[d].reply.refresh \in Nat
    BY <1>0, <1>2, <1>3, RefreshFacts
  <2> QED BY <2>4, <2>5 DEF Unspent
<1>9. StrandedIsReported'
  <2>1. CASE \E d \in Calls : call[d].pc = "refreshing" \/ Reported(d)
    BY <1>4, <2>1 DEF StrandedIsReported, Reported, ReportedAs
  <2>2. CASE refresh \in liveRef \cup {0} /\ ~(refresh = m.rt /\ refresh # 0)
    BY <2>2 DEF StrandedIsReported, Grant
  <2>3. CASE refresh = m.rt /\ refresh # 0
    <3>1. call[c].pc = "refreshing" \/ Reported(c)
      BY <1>0, <1>c, <2>3 DEF AskedOnce
    <3> QED BY <2>1, <3>1
  <2> QED BY <1>0, <2>1, <2>2, <2>3 DEF StrandedIsReported, Reported, ReportedAs
<1> QED BY <1>7, <1>8, <1>9 DEF RInv

(* The orchestrator's answers.                                             *)
LEMMA ServeKeepsRefresh ==
  ASSUME RInv, IInv', NEW m \in wire, ServeApi(m) \/ ServeRegistration(m) \/ ServeSts(m)
  PROVE  RInv'
<1>0. IInv /\ m \in Message /\ Kind[m.call] \in ApiKinds \cup {"refresh"} /\ refresh' = refresh
  BY TransportAssumption
     DEF RInv, IInv, TypeOK, Message, ServeApi, ServeRegistration, ServeSts, tokenVars
<1>1. ASSUME ServeApi(m) PROVE RInv'
  <2>1. PICK k \in ApiKinds : k = Kind[m.call]
    BY <1>0, <1>1 DEF ServeApi, IInv, Safe, InFlight
  <2>2. \E r \in ReplyType : Respond(m, r) /\ r.status # 0 /\ r.refresh = 0
    <3>1. CASE Respond(m, Route(k, Refusal))
      BY <3>1, RefusalFacts
    <3>2. ASSUME NEW a \in Answers, Fits(a, k), Respond(m, Route(k, a))
          PROVE  \E r \in ReplyType : Respond(m, r) /\ r.status # 0 /\ r.refresh = 0
      <4>1. a \in AnswerType
        BY TransportAssumption
      <4> QED BY <3>2, <4>1, RouteFacts
    <3> QED BY <1>1, <2>1, <3>1, <3>2 DEF ServeApi
  <2>3. UNCHANGED <<liveRef, issued>>
    BY <1>1 DEF ServeApi
  <2> QED BY <1>0, <2>2, <2>3, ServedKeepsRefresh
<1>2. ASSUME NEW k \in {"register", "sts_token", "sts_refresh"}, NEW renew \in BOOLEAN,
             NEW used \in {0, m.rt}, NewGrant(renew, used),
             Respond(m, Route(k, Granted(issued + 1, renew)))
      PROVE  RInv'
  <2>1. issued' = issued + 1 /\ issued' \in Tokens
    BY <1>0, <1>2, NewGrantFacts
  <2>2. PICK n \in Tokens : n = issued + 1
    BY <2>1
  <2>3. PICK r \in ReplyType :
           /\ r = Route(k, Granted(n, renew))
           /\ r.status = 200 /\ r.refresh \in {0, n}
           /\ r.refresh # 0 => renew
    BY GrantFacts
  <2>4. Grant(m, r)
    BY <1>2, <2>1, <2>2, <2>3 DEF Grant, NewGrant
  <2> QED BY <1>0, <1>2, <2>2, <2>3, <2>4, ServedKeepsRefresh
<1>3. ASSUME ServeRegistration(m) PROVE RInv'
  <2>1. PICK renew \in BOOLEAN : /\ NewGrant(renew, 0)
                                 /\ Respond(m, Route("register", Granted(issued + 1, renew)))
    BY <1>3 DEF ServeRegistration
  <2> QED BY <1>2, <2>1
<1>4. ASSUME ServeSts(m) PROVE RInv'
  <2>1. PICK k \in {"sts_token", "sts_refresh"} : k = m.to
    BY <1>0, <1>4 DEF ServeSts, Message
  <2>2. CASE Respond(m, Route(k, Refusal)) /\ UNCHANGED <<liveTok, liveRef, issued>>
    <3>1. \E r \in ReplyType : Respond(m, r) /\ r.status # 0 /\ r.refresh = 0
      BY <2>2, RefusalFacts
    <3> QED BY <1>0, <2>2, <3>1, ServedKeepsRefresh
  <2>3. CASE \E renew \in BOOLEAN : /\ NewGrant(renew, m.rt)
                                    /\ Respond(m, Route(k, Granted(issued + 1, renew)))
    BY <1>2, <2>3
  <2> QED BY <1>4, <2>1, <2>2, <2>3 DEF ServeSts
<1> QED BY <1>1, <1>3, <1>4

(* A transport fresh from __init__ has no refresh token.                   *)
LEMMA InitRefresh == Init => RInv
<1> SUFFICES ASSUME Init PROVE RInv
  OBVIOUS
<1>1. NoReply.refresh = 0
  BY DEF NoReply, Reply
<1> QED
  BY <1>1, InitInv DEF Init, RInv, AskedOnce, Unspent, StrandedIsReported

(* Every step keeps what is said of the refresh tokens.                    *)
LEMMA NextRefresh == RInv /\ [Next]_vars => RInv'
<1> SUFFICES ASSUME RInv, [Next]_vars PROVE RInv'
  OBVIOUS
<1>0. IInv'
  BY NextInv DEF RInv
<1>1. CASE \/ Connect \/ Close \/ StartListener \/ \E t \in Tokens : Expire(t)
           \/ UNCHANGED vars
  <2>1. UNCHANGED <<call, wire, refresh, liveRef, issued>>
    BY <1>1 DEF Connect, Close, StartListener, Expire, vars, tokenVars, serverVars
  <2> QED
    BY <1>0, <2>1 DEF RInv, AskedOnce, Reported, Unspent, Unused, StrandedIsReported
<1>2. ASSUME NEW c \in Calls, Start(c) \/ Progress(c) \/ Cancel(c) PROVE RInv'
  BY <1>0, <1>2, CallKeepsRefresh
<1>3. ASSUME NEW m \in wire, ServeApi(m) \/ ServeRegistration(m) \/ ServeSts(m) PROVE RInv'
  BY <1>0, <1>3, ServeKeepsRefresh
<1> QED BY <1>1, <1>2, <1>3 DEF Next, Worker, Orchestrator

(* However refreshes, registrations, losses and cancellations interleave,  *)
(* a worker whose refresh token was revoked is about to get a new one, or  *)
(* the application has been told by a call that failed.                    *)
THEOREM StrandedAreReported == Spec => []StrandedIsReported
<1>1. RInv => StrandedIsReported
  BY DEF RInv
<1> QED BY <1>1, InitRefresh, NextRefresh, PTL DEF Spec

-----------------------------------------------------------------------------
(* That HttpTransport implements RequestDelivery.                          *)

(* What RequestDelivery sees of call d does not change.                    *)
SameView(d) ==
  /\ Phase(d)' = Phase(d) /\ Made(d)' = Made(d)
  /\ call'[d].outcome = call[d].outcome

-----------------------------------------------------------------------------
(* One lemma for each action of RequestDelivery: which changes of the      *)
(* transport are such an action.                                           *)

(* A step in which no call is seen to change and nothing is executed is a  *)
(* stuttering step.                                                        *)
LEMMA StutterStep ==
  ASSUME UNCHANGED <<handled, accepted>>, \A d \in ApiCalls : SameView(d)
  PROVE  UNCHANGED Delivery!vars
BY DEF SameView, Delivery!vars, ApiCalls

(* A call that makes its next request.                                     *)
LEMMA RequestStep ==
  ASSUME UNCHANGED <<handled, accepted>>, NEW c \in ApiCalls,
         \A d \in ApiCalls : d # c => SameView(d),
         Phase(c) # "done", Made(c) < Budget(c), Made(c)' = Made(c) + 1,
         \/ Phase(c)' = "pending" /\ call'[c].outcome = call[c].outcome
         \/ /\ Phase(c)' = "done"
            /\ call'[c].outcome \in Outcomes \ {"True", "RxonAuthError", "RxonRateLimitError"}
  PROVE  Delivery!Next
<1>1. Delivery!Request(c)
  BY DEF SameView, Delivery!Request, Delivery!Refusals, ApiCalls
<1> QED BY <1>1 DEF Delivery!Next

(* A call that returns a truthful outcome.                                 *)
LEMMA ReturnStep ==
  ASSUME UNCHANGED <<handled, accepted>>, NEW c \in ApiCalls,
         \A d \in ApiCalls : d # c => SameView(d),
         Phase(c) = "pending" \/ (Phase(c) = "idle" /\ Budget(c) = 0),
         Phase(c)' = "done", Made(c)' = Made(c), call'[c].outcome \in Outcomes,
         call'[c].outcome = "True" =>
           \E h \in accepted : h.call = c /\ h.nth = Made(c) - 1,
         call'[c].outcome \in {"RxonAuthError", "RxonRateLimitError"} =>
           \A h \in handled : h.call = c => h.nth # Made(c) - 1
  PROVE  Delivery!Next
<1>1. PICK o \in Outcomes : o = call'[c].outcome
  OBVIOUS
<1>2. Delivery!Last(c) = <<c, Made(c) - 1>>
  BY DEF Delivery!Last
<1>3. o = "True" => Delivery!Last(c) \in {<<h.call, h.nth>> : h \in accepted}
  BY <1>1, <1>2
<1>4. o \in Delivery!Refusals => Delivery!Last(c) \notin {<<h.call, h.nth>> : h \in handled}
  BY <1>1, <1>2 DEF Delivery!Refusals
<1>5. Delivery!Return(c, o)
  BY <1>1, <1>3, <1>4 DEF SameView, Delivery!Return, ApiCalls
<1> QED BY <1>1, <1>5 DEF Delivery!Next

(* The orchestrator executes a request that it has not executed and whose  *)
(* refusal it has not announced.                                           *)
LEMMA ExecuteStep ==
  ASSUME NEW c \in ApiCalls, NEW i, i.call = c, i.nth \in Nat,
         \A d \in ApiCalls : SameView(d),
         Made(c) \in Nat, Budget(c) \in Nat,
         i.nth < Made(c), Made(c) <= Budget(c),
         \A h \in handled : h.call = c => h.nth # i.nth,
         call[c].outcome \in {"RxonAuthError", "RxonRateLimitError"} => i.nth # Made(c) - 1,
         handled' = handled \cup {i},
         accepted' = accepted \/ accepted' = accepted \cup {i}
  PROVE  Delivery!Next
<1>1. PICK n \in Nat : n = i.nth
  OBVIOUS
<1>2. Delivery!Execute(c, n)
  BY <1>1 DEF SameView, Delivery!Execute, Delivery!Last, Delivery!Refusals, ApiCalls
<1>3. n \in 0 .. [d \in ApiCalls |-> Budget(d)][c] - 1
  BY <1>1
<1> QED BY <1>2, <1>3 DEF Delivery!Next

-----------------------------------------------------------------------------
(* What the transport does to a call, seen as one of these steps.          *)

(* The types of what RequestDelivery sees.                                 *)
LEMMA ViewFacts ==
  ASSUME IInv, NEW c \in ApiCalls
  PROVE  /\ c \in Calls /\ Kind[c] # "refresh" /\ Budget(c) \in Nat
         /\ call[c] \in CallType /\ call[c].nth \in Nat
         /\ call[c].pc \in {"idle", "sent", "refreshing", "backoff", "done"}
         /\ call[c].pc \in {"sent", "refreshing", "backoff"}
              => Phase(c) = "pending" /\ Made(c) = call[c].nth + 1 /\ Made(c) <= Budget(c)
         /\ call[c].pc = "idle" => Phase(c) = "idle" /\ Made(c) = 0
         /\ call[c].pc = "done" => Phase(c) = "done"
         /\ call[c].pc # "done" => call[c].outcome = "none"
<1>1. c \in Calls /\ Kind[c] # "refresh"
  BY DEF ApiCalls
<1>2. Retries[c] \in Nat
  BY <1>1, TransportAssumption
<1>3. Budget(c) \in Nat
  BY <1>2 DEF Budget
<1>4. /\ call[c] \in CallType /\ call[c].nth \in Nat
      /\ call[c].pc \in {"idle", "sent", "refreshing", "backoff", "done"}
  BY <1>1 DEF IInv, TypeOK, CallType
<1>5. call[c].pc \in {"sent", "refreshing", "backoff"} => call[c].nth < Budget(c)
  BY <1>1, <1>2, <1>4 DEF IInv, Safe, Control, Budget
<1>6. call[c].pc # "done" => call[c].outcome = "none"
  BY <1>1 DEF IInv, Safe, Control
<1>7. ASSUME call[c].pc \in {"sent", "refreshing", "backoff"}
      PROVE  Phase(c) = "pending" /\ Made(c) = call[c].nth + 1 /\ Made(c) <= Budget(c)
  BY <1>3, <1>4, <1>5, <1>7 DEF Phase, Made
<1>8. /\ call[c].pc = "idle" => Phase(c) = "idle" /\ Made(c) = 0
      /\ call[c].pc = "done" => Phase(c) = "done"
  BY DEF Phase, Made
<1> QED BY <1>1, <1>3, <1>4, <1>6, <1>7, <1>8

(* A call whose control state is the same looks the same.                  *)
LEMMA ViewKept ==
  ASSUME NEW d, call'[d].pc = call[d].pc, call'[d].nth = call[d].nth,
         call'[d].outcome = call[d].outcome
  PROVE  SameView(d)
BY DEF SameView, Phase, Made, Budget

(* The view of a call that is over.                                        *)
LEMMA DoneView ==
  ASSUME NEW c \in Calls, call'[c].pc = "done", Budget(c) # 0
  PROVE  Phase(c)' = "done" /\ Made(c)' = call'[c].nth + 1
BY DEF Phase, Made, Budget

(* A step of the coroutine of c leaves the view of the others alone.       *)
LEMMA OthersKept ==
  ASSUME IInv, NEW c \in Calls, NEW s, call' = [call EXCEPT ![c] = s]
  PROVE  /\ call'[c] = s
         /\ \A d \in ApiCalls : d # c => SameView(d)
<1>1. call'[c] = s /\ \A d \in Calls : d # c => call'[d] = call[d]
  BY DEF IInv, TypeOK
<1>2. ASSUME NEW d \in ApiCalls, d # c PROVE SameView(d)
  <2>1. call'[d] = call[d]
    BY <1>1, <1>2 DEF ApiCalls
  <2> QED BY <2>1, ViewKept
<1> QED BY <1>1, <1>2

(* The last request of c was accepted when c returns True, and was not     *)
(* executed when c raises a refusal: the invariant after the step.         *)
LEMMA Truthful ==
  ASSUME IInv', NEW c \in ApiCalls, UNCHANGED <<handled, accepted>>, NEW n, call'[c].nth = n
  PROVE  /\ call'[c].outcome = "True" => \E h \in accepted : h.call = c /\ h.nth = n
         /\ call'[c].outcome \in {"RxonAuthError", "RxonRateLimitError"} =>
              \A h \in handled : h.call = c => h.nth # n
<1>1. c \in Calls
  BY DEF ApiCalls
<1>2. call'[c].outcome = "True" => \E h \in accepted' : h.call = c /\ h.nth = call'[c].nth
  BY <1>1 DEF IInv, Safe, Acks, Acknowledged
<1>3. call'[c].outcome \in {"RxonAuthError", "RxonRateLimitError"} =>
        \A h \in handled' : h.call = c => h.nth # call'[c].nth
  BY <1>1 DEF IInv, Safe, Control, Clean
<1> QED BY <1>2, <1>3

(* A pending call is over: its request in progress is its last one.        *)
LEMMA OverStep ==
  ASSUME IInv, IInv', NEW c \in ApiCalls, NEW s,
         call' = [call EXCEPT ![c] = s], UNCHANGED <<handled, accepted>>,
         call[c].pc \in {"sent", "refreshing", "backoff"},
         s.pc = "done", s.nth = call[c].nth
  PROVE  Delivery!Next
<1>1. /\ c \in Calls /\ Budget(c) \in Nat /\ call[c].nth \in Nat
      /\ Phase(c) = "pending" /\ Made(c) = call[c].nth + 1 /\ Made(c) <= Budget(c)
  BY ViewFacts
<1>2. call'[c] = s /\ \A d \in ApiCalls : d # c => SameView(d)
  BY <1>1, OthersKept
<1>3. Budget(c) # 0 /\ Made(c) - 1 = call[c].nth
  BY <1>1
<1>4. Phase(c)' = "done" /\ Made(c)' = call'[c].nth + 1
  BY <1>1, <1>2, <1>3, DoneView
<1>5. Made(c)' = Made(c)
  BY <1>1, <1>2, <1>4
<1>6. call'[c].outcome \in Outcomes
  BY <1>1 DEF IInv, TypeOK, CallType
<1>7. PICK n : n = call[c].nth
  OBVIOUS
<1>8. /\ call'[c].outcome = "True" => \E h \in accepted : h.call = c /\ h.nth = n
      /\ call'[c].outcome \in {"RxonAuthError", "RxonRateLimitError"} =>
           \A h \in handled : h.call = c => h.nth # n
  BY <1>2, <1>7, Truthful
<1> QED BY <1>1, <1>2, <1>3, <1>4, <1>5, <1>6, <1>7, <1>8, ReturnStep

(* An idle or sleeping call begins its next _request.                      *)
LEMMA NewRequest ==
  ASSUME IInv, NEW c \in ApiCalls, NEW s, NEW n \in Nat,
         call' = [call EXCEPT ![c] = s], UNCHANGED <<handled, accepted>>,
         \/ call[c].pc = "idle" /\ n = 0 /\ Budget(c) # 0
         \/ call[c].pc = "backoff" /\ n = call[c].nth + 1,
         s.nth = n,
         \/ s.pc \in {"sent", "backoff"} /\ s.outcome = "none"
         \/ s.pc = "done" /\ s.outcome \in {"RxonNetworkError", "RxonError", "False"}
  PROVE  Delivery!Next
<1>1. /\ c \in Calls /\ Budget(c) \in Nat /\ call[c].nth \in Nat
      /\ call[c].outcome = "none"
  BY ViewFacts
<1>2. call'[c] = s /\ \A d \in ApiCalls : d # c => SameView(d)
  BY <1>1, OthersKept
<1>3. Budget(c) # 0 /\ n < Budget(c) /\ Made(c) = n /\ Phase(c) # "done"
  <2>1. CASE call[c].pc = "idle"
    BY <1>1, <2>1, ViewFacts
  <2>2. CASE call[c].pc = "backoff"
    <3>1. Kind[c] = "result" /\ call[c].nth < Retries[c] - 1 /\ Retries[c] \in Nat
      BY <1>1, <2>2, TransportAssumption DEF IInv, Safe, Control
    <3>2. Budget(c) = Retries[c]
      BY <3>1 DEF Budget
    <3>3. Phase(c) = "pending" /\ Made(c) = call[c].nth + 1
      BY <2>2, ViewFacts
    <3> QED BY <1>1, <2>2, <3>1, <3>2, <3>3
  <2> QED BY <2>1, <2>2
<1>4. Made(c)' = n + 1
  <2>1. call'[c].pc # "idle" /\ call'[c].nth = n
    BY <1>2
  <2> QED BY <1>3, <2>1 DEF Made, Budget
<1>5. \/ Phase(c)' = "pending" /\ call'[c].outcome = call[c].outcome
      \/ /\ Phase(c)' = "done"
         /\ call'[c].outcome \in Outcomes \ {"True", "RxonAuthError", "RxonRateLimitError"}
  <2>1. CASE s.pc \in {"sent", "backoff"} /\ s.outcome = "none"
    BY <1>1, <1>2, <2>1 DEF Phase
  <2>2. CASE s.pc = "done" /\ s.outcome \in {"RxonNetworkError", "RxonError", "False"}
    <3>1. Phase(c)' = "done"
      BY <1>2, <2>2 DEF Phase
    <3>2. s.outcome \in Outcomes \ {"True", "RxonAuthError", "RxonRateLimitError"}
      BY <2>2 DEF Outcomes, RxonErrors
    <3> QED BY <1>2, <3>1, <3>2
  <2> QED BY <2>1, <2>2
<1> QED BY <1>2, <1>3, <1>4, <1>5, RequestStep

(* The _request in progress ends with r: c returns, or sleeps before the   *)
(* next try, which nobody sees.                                            *)
LEMMA EndStep ==
  ASSUME IInv, IInv', NEW c \in ApiCalls, NEW n \in Nat, NEW r \in Bodies \cup RxonErrors,
         n = call[c].nth,
         call' = [call EXCEPT ![c] = Settled(c, n, r)], UNCHANGED <<handled, accepted>>,
         call[c].pc \in {"sent", "refreshing"}
  PROVE  [Delivery!Next]_(Delivery!vars)
<1>1. /\ c \in Calls /\ call[c] \in CallType /\ Budget(c) \in Nat /\ call[c].nth \in Nat
      /\ Phase(c) = "pending" /\ Made(c) = call[c].nth + 1 /\ Made(c) <= Budget(c)
  BY ViewFacts
<1>2. PICK s : s = Settled(c, n, r)
  OBVIOUS
<1>3. /\ s.nth = n
      /\ \/ s.pc = "backoff" /\ s.outcome = call[c].outcome
         \/ s.pc = "done"
  BY <1>1, <1>2, SettledFacts
<1>4. CASE s.pc = "done"
  BY <1>2, <1>3, <1>4, OverStep
<1>5. CASE s.pc = "backoff" /\ s.outcome = call[c].outcome
  <2>1. call'[c] = s /\ \A d \in ApiCalls : d # c => SameView(d)
    BY <1>1, <1>2, OthersKept
  <2>2. Phase(c)' = "pending" /\ Made(c)' = n + 1
    <3>1. call'[c].pc = "backoff" /\ call'[c].nth = n
      BY <1>3, <1>5, <2>1
    <3>2. Budget(c) # 0
      BY <1>1
    <3> QED BY <3>1, <3>2 DEF Phase, Made, Budget
  <2>3. SameView(c)
    BY <1>1, <1>5, <2>1, <2>2 DEF SameView
  <2> QED BY <2>1, <2>3, StutterStep
<1> QED BY <1>3, <1>4, <1>5

(* A pass of the loop of _request: the first one makes a request, the      *)
(* second one is not seen; without a usable session the call is over.      *)
LEMMA TryStep ==
  ASSUME IInv, IInv', NEW c \in ApiCalls, NEW n \in Nat, NEW a, NEW h,
         TryRequest(c, n, a, h), UNCHANGED <<handled, accepted>>,
         \/ call[c].pc = "idle" /\ n = 0 /\ Budget(c) # 0
         \/ call[c].pc = "backoff" /\ n = call[c].nth + 1
         \/ call[c].pc = "refreshing" /\ n = call[c].nth
  PROVE  [Delivery!Next]_(Delivery!vars)
<1>1. /\ c \in Calls /\ call[c] \in CallType /\ Budget(c) \in Nat /\ call[c].nth \in Nat
      /\ call[c].outcome = "none"
  BY ViewFacts
<1>2. CASE session = "open"
  <2>1. PICK s : s = [call[c] EXCEPT !.pc = "sent", !.nth = n, !.attempt = a,
                                     !.hdr = h, !.reply = NoReply]
    OBVIOUS
  <2>2. s.pc = "sent" /\ s.nth = n /\ s.outcome = "none"
    BY <1>1, <2>1 DEF CallType
  <2>3. call' = [call EXCEPT ![c] = s]
    BY <1>1, <1>2, <2>1 DEF TryRequest, SendRequest, IInv, TypeOK
  <2>4. CASE call[c].pc = "refreshing" /\ n = call[c].nth
    <3>1. call'[c] = s /\ \A d \in ApiCalls : d # c => SameView(d)
      BY <1>1, <2>3, OthersKept
    <3>2. Phase(c) = "pending" /\ Made(c) = n + 1 /\ Budget(c) # 0
      BY <1>1, <2>4, ViewFacts
    <3>3. Phase(c)' = "pending" /\ Made(c)' = n + 1
      <4>1. call'[c].pc = "sent" /\ call'[c].nth = n
        BY <2>2, <3>1
      <4> QED BY <3>2, <4>1 DEF Phase, Made, Budget
    <3>4. SameView(c)
      BY <1>1, <2>2, <3>1, <3>2, <3>3 DEF SameView
    <3> QED BY <3>1, <3>4, StutterStep
  <2>5. CASE ~(call[c].pc = "refreshing" /\ n = call[c].nth)
    BY <2>2, <2>3, <2>5, NewRequest
  <2> QED BY <2>4, <2>5
<1>3. CASE session # "open"
  <2>1. PICK r \in {"RxonNetworkError", "RxonError"} :
          call' = [call EXCEPT ![c] = Settled(c, n, r)]
    BY <1>3 DEF TryRequest
  <2>2. r \in Bodies \cup RxonErrors
    BY DEF RxonErrors
  <2>3. CASE call[c].pc = "refreshing" /\ n = call[c].nth
    BY <2>1, <2>2, <2>3, EndStep
  <2>4. CASE ~(call[c].pc = "refreshing" /\ n = call[c].nth)
    <3>1. PICK s : s = Settled(c, n, r)
      OBVIOUS
    <3>2. /\ s.nth = n
          /\ \/ s.pc = "backoff" /\ s.outcome = "none"
             \/ s.pc = "done" /\ s.outcome = MethodResult(Kind[c], r)
      BY <1>1, <2>2, <3>1, SettledFacts
    <3>3. Kind[c] \in ApiKinds
      BY <1>1, TransportAssumption DEF ApiCalls
    <3>4. MethodResult(Kind[c], r) \in {"RxonNetworkError", "RxonError", "False"}
      BY <3>3 DEF MethodResult, poll_task, send_result, emit_event, RxonErrors, ApiKinds
    <3> QED BY <2>1, <2>4, <3>1, <3>2, <3>4, NewRequest
  <2> QED BY <2>3, <2>4
<1> QED BY <1>2, <1>3

(* RequestDelivery does not see the calls of refresh_token itself.         *)
LEMMA HiddenStep ==
  ASSUME IInv, NEW c \in Calls, Kind[c] = "refresh", NEW s,
         call' = [call EXCEPT ![c] = s], UNCHANGED <<handled, accepted>>
  PROVE  UNCHANGED Delivery!vars
<1>1. \A d \in ApiCalls : d # c
  BY DEF ApiCalls
<1> QED BY <1>1, OthersKept, StutterStep

(* refresh_token has returned None.                                        *)
LEMMA RefreshFailedStep ==
  ASSUME IInv, IInv', NEW c \in Calls, RefreshFailed(c), UNCHANGED <<handled, accepted>>,
         Kind[c] # "refresh" => call[c].pc \in {"sent", "refreshing"}
  PROVE  [Delivery!Next]_(Delivery!vars)
<1>1. CASE Kind[c] = "refresh"
  <2>1. PICK s : call' = [call EXCEPT ![c] = s]
    BY DEF RefreshFailed
  <2> QED BY <1>1, <2>1, HiddenStep
<1>2. CASE Kind[c] # "refresh"
  <2>1. c \in ApiCalls
    BY <1>2 DEF ApiCalls
  <2>2. PICK n \in Nat : n = call[c].nth
    BY <2>1, ViewFacts
  <2>3. call' = [call EXCEPT ![c] = Settled(c, n, "RxonAuthError")]
    BY <1>2, <2>2 DEF RefreshFailed
  <2>4. "RxonAuthError" \in Bodies \cup RxonErrors
    BY DEF RxonErrors
  <2> QED BY <1>2, <2>1, <2>2, <2>3, <2>4, EndStep
<1> QED BY <1>1, <1>2

(* refresh_token begins, inside a _request or by itself.                   *)
LEMMA BeginRefreshStep ==
  ASSUME IInv, IInv', NEW c \in Calls, BeginRefresh(c), UNCHANGED <<handled, accepted>>,
         Kind[c] # "refresh" => call[c].pc = "sent"
  PROVE  [Delivery!Next]_(Delivery!vars)
<1>1. CASE session # "open"
  <2>1. RefreshFailed(c)
    BY <1>1 DEF BeginRefresh
  <2> QED BY <2>1, RefreshFailedStep
<1>2. CASE session = "open"
  <2>1. PICK s : s = [call[c] EXCEPT !.pc = "refreshing", !.reply = NoReply]
    OBVIOUS
  <2>2. call' = [call EXCEPT ![c] = s]
    BY <1>2, <2>1 DEF BeginRefresh, IInv, TypeOK
  <2>3. CASE Kind[c] = "refresh"
    BY <2>2, <2>3, HiddenStep
  <2>4. CASE Kind[c] # "refresh"
    <3>1. c \in ApiCalls
      BY <2>4 DEF ApiCalls
    <3>2. /\ call[c] \in CallType /\ Budget(c) \in Nat /\ call[c].nth \in Nat
          /\ Phase(c) = "pending" /\ Made(c) = call[c].nth + 1 /\ Made(c) <= Budget(c)
      BY <2>4, <3>1, ViewFacts
    <3>3. s.pc = "refreshing" /\ s.nth = call[c].nth /\ s.outcome = call[c].outcome
      BY <2>1, <3>2 DEF CallType
    <3>4. call'[c] = s /\ \A d \in ApiCalls : d # c => SameView(d)
      BY <2>2, OthersKept
    <3>5. Phase(c)' = "pending" /\ Made(c)' = call[c].nth + 1
      <4>1. call'[c].pc = "refreshing" /\ call'[c].nth = call[c].nth /\ Budget(c) # 0
        BY <3>2, <3>3, <3>4
      <4> QED BY <4>1 DEF Phase, Made, Budget
    <3>6. SameView(c)
      BY <3>2, <3>3, <3>4, <3>5 DEF SameView
    <3> QED BY <3>4, <3>6, StutterStep
  <2> QED BY <2>3, <2>4
<1> QED BY <1>1, <1>2

-----------------------------------------------------------------------------
(* The actions of the transport.                                           *)

(* An API method is called.                                                *)
LEMMA StartRefines ==
  ASSUME IInv, IInv', NEW c \in Calls, Start(c)
  PROVE  [Delivery!Next]_(Delivery!vars)
<1>0. UNCHANGED <<handled, accepted>> /\ call[c].pc = "idle"
  BY DEF Start, serverVars
<1>1. CASE Kind[c] = "refresh" /\ BeginRefresh(c)
  BY <1>0, <1>1, BeginRefreshStep
<1>2. CASE Kind[c] = "result" /\ Retries[c] = 0 /\ call' = [call EXCEPT ![c] = Finished(c, "False")]
  <2>1. c \in ApiCalls /\ Budget(c) = 0
    BY <1>2 DEF ApiCalls, Budget
  <2>2. call[c] \in CallType /\ Phase(c) = "idle" /\ Made(c) = 0
    BY <1>0, <2>1, ViewFacts
  <2>3. PICK s : s = Finished(c, "False")
    OBVIOUS
  <2>4. s.pc = "done" /\ s.outcome = "False"
    BY <2>2, <2>3 DEF Finished, CallType
  <2>5. call'[c] = s /\ \A d \in ApiCalls : d # c => SameView(d)
    BY <1>2, <2>3, OthersKept
  <2>6. Phase(c)' = "done" /\ Made(c)' = 0
    BY <2>1, <2>4, <2>5 DEF Phase, Made, Budget
  <2>7. "False" \in Outcomes
    BY DEF Outcomes
  <2> QED BY <1>0, <2>1, <2>2, <2>4, <2>5, <2>6, <2>7, ReturnStep
<1>3. CASE /\ Kind[c] # "refresh" /\ ~(Kind[c] = "result" /\ Retries[c] = 0)
           /\ BeginRequest(c, 0)
  <2>1. c \in ApiCalls
    BY <1>3 DEF ApiCalls
  <2>2. Budget(c) # 0
    BY <1>3 DEF Budget
  <2>3. PICK h : h = header
    OBVIOUS
  <2>4. TryRequest(c, 0, 0, h)
    BY <1>3, <2>3 DEF BeginRequest
  <2> QED BY <1>0, <2>1, <2>2, <2>4, TryStep
<1> QED BY <1>1, <1>2, <1>3 DEF Start

(* A response reaches the call that waits for it.                          *)
LEMMA ReceiveRefines ==
  ASSUME IInv, IInv', NEW c \in Calls, Receive(c)
  PROVE  [Delivery!Next]_(Delivery!vars)
<1>0. UNCHANGED <<handled, accepted>>
  BY DEF Receive, serverVars
<1>1. call[c] \in CallType /\ call[c].reply \in ReplyType
  BY DEF IInv, TypeOK, CallType
<1>2. call[c].pc = "sent" => c \in ApiCalls
  BY DEF IInv, Safe, Control, ApiCalls
<1>3. PICK r \in ReplyType : r = call[c].reply
  BY <1>1
<1>4. PICK n \in Nat : n = call[c].nth
  BY <1>1 DEF CallType
<1>5. CASE call[c].pc = "refreshing" /\ RefreshDone(c)
  <2>1. CASE RefreshFailed(c)
    BY <1>0, <1>5, <2>1, RefreshFailedStep
  <2>2. CASE Kind[c] = "refresh" /\ call' = [call EXCEPT ![c] = Finished(c, "token")]
    <3>1. PICK s : s = Finished(c, "token")
      OBVIOUS
    <3> QED BY <1>0, <2>2, <3>1, HiddenStep
  <2>3. CASE Kind[c] # "refresh" /\ TryRequest(c, n, 1, RetryHeader(c, r))
    <3>1. c \in ApiCalls
      BY <2>3 DEF ApiCalls
    <3>2. PICK h : h = RetryHeader(c, r)
      OBVIOUS
    <3> QED BY <1>0, <1>4, <1>5, <2>3, <3>1, <3>2, TryStep
  <2> QED BY <1>3, <1>4, <1>5, <2>1, <2>2, <2>3 DEF RefreshDone
<1>6. CASE call[c].pc = "sent" /\ BeginRefresh(c)
  BY <1>0, <1>6, BeginRefreshStep
<1>7. CASE call[c].pc = "sent" /\ call' = [call EXCEPT ![c] = Settled(c, n, "RxonAuthError")]
  <2>1. "RxonAuthError" \in Bodies \cup RxonErrors
    BY DEF RxonErrors
  <2> QED BY <1>0, <1>2, <1>4, <1>7, <2>1, EndStep
<1>8. CASE call[c].pc = "sent" /\ call' = [call EXCEPT ![c] = Settled(c, n, Decode(r))]
  <2>1. PICK e \in Bodies \cup RxonErrors : e = Decode(r)
    BY DecodeFacts
  <2> QED BY <1>0, <1>2, <1>4, <1>8, <2>1, EndStep
<1> QED BY <1>3, <1>4, <1>5, <1>6, <1>7, <1>8 DEF Receive

(* A network error ends the request in progress.                           *)
LEMMA NetworkErrorRefines ==
  ASSUME IInv, IInv', NEW c \in Calls, NetworkError(c)
  PROVE  [Delivery!Next]_(Delivery!vars)
<1>0. UNCHANGED <<handled, accepted>>
  BY DEF NetworkError, serverVars
<1>1. call[c].pc = "sent" => c \in ApiCalls
  BY DEF IInv, Safe, Control, ApiCalls
<1>2. PICK n \in Nat : n = call[c].nth
  BY DEF IInv, TypeOK, CallType
<1>3. CASE call[c].pc = "sent" /\ call' = [call EXCEPT ![c] = Settled(c, n, "RxonNetworkError")]
  <2>1. "RxonNetworkError" \in Bodies \cup RxonErrors
    BY DEF RxonErrors
  <2> QED BY <1>0, <1>1, <1>2, <1>3, <2>1, EndStep
<1>4. CASE call[c].pc = "refreshing" /\ RefreshFailed(c)
  BY <1>0, <1>4, RefreshFailedStep
<1> QED BY <1>2, <1>3, <1>4 DEF NetworkError

(* The sleep of send_result ends.                                          *)
LEMMA WakeRefines ==
  ASSUME IInv, IInv', NEW c \in Calls, Wake(c)
  PROVE  [Delivery!Next]_(Delivery!vars)
<1>1. UNCHANGED <<handled, accepted>> /\ call[c].pc = "backoff"
  BY DEF Wake, serverVars
<1>2. c \in ApiCalls
  BY <1>1 DEF IInv, Safe, Control, ApiCalls
<1>3. PICK n \in Nat : n = call[c].nth + 1
  BY DEF IInv, TypeOK, CallType
<1>4. PICK h : h = header
  OBVIOUS
<1>5. TryRequest(c, n, 0, h)
  BY <1>3, <1>4 DEF Wake, BeginRequest
<1> QED BY <1>1, <1>2, <1>3, <1>5, TryStep

(* The application cancels a call.                                         *)
LEMMA CancelRefines ==
  ASSUME IInv, IInv', NEW c \in Calls, Cancel(c)
  PROVE  [Delivery!Next]_(Delivery!vars)
<1>1. UNCHANGED <<handled, accepted>>
  BY DEF Cancel, serverVars
<1>2. PICK s : s = Finished(c, "CancelledError")
  OBVIOUS
<1>3. call' = [call EXCEPT ![c] = s]
  BY <1>2 DEF Cancel
<1>4. CASE Kind[c] = "refresh"
  BY <1>1, <1>3, <1>4, HiddenStep
<1>5. CASE Kind[c] # "refresh"
  <2>1. c \in ApiCalls
    BY <1>5 DEF ApiCalls
  <2>2. call[c] \in CallType
    BY <2>1, ViewFacts
  <2>3. s.pc = "done" /\ s.nth = call[c].nth
    BY <1>2, <2>2 DEF Finished, CallType
  <2> QED BY <1>1, <1>3, <2>1, <2>3, OverStep DEF Cancel
<1> QED BY <1>4, <1>5

(* The response to a message changes what no call is seen to do.           *)
LEMMA RespondKeeps ==
  ASSUME IInv, NEW m \in wire, NEW r, Respond(m, r)
  PROVE  \A d \in ApiCalls : SameView(d)
<1>1. ASSUME NEW d \in Calls
      PROVE  /\ call'[d].pc = call[d].pc /\ call'[d].nth = call[d].nth
             /\ call'[d].outcome = call[d].outcome
  BY DEF Respond, IInv, TypeOK, CallType
<1> QED BY <1>1, ViewKept DEF ApiCalls

(* A request on the wire that the orchestrator executes was made, was not  *)
(* executed before, and its refusal was not announced.                     *)
LEMMA ServedRefines ==
  ASSUME IInv, NEW m \in wire, NEW r, Respond(m, r), m.to = "api",
         handled' = handled \cup {IdOf(m)},
         accepted' = accepted \/ accepted' = accepted \cup {IdOf(m)}
  PROVE  Delivery!Next
<1>1. PICK c : c = m.call
  OBVIOUS
<1>2. PICK i : i = IdOf(m)
  OBVIOUS
<1>3. c \in ApiCalls /\ i.call = c /\ i.nth = m.nth /\ i.nth \in Nat
  BY <1>1, <1>2 DEF IInv, TypeOK, Safe, InFlight, Message, ApiCalls, IdOf
<1>4. /\ c \in Calls /\ Budget(c) \in Nat /\ call[c].nth \in Nat
      /\ call[c].pc \in {"idle", "sent", "refreshing", "backoff", "done"}
  BY <1>3, ViewFacts
<1>5. /\ i.nth < Budget(c) /\ i.nth <= call[c].nth
      /\ \A h \in handled : h.call = c => h.nth # i.nth
  BY <1>1, <1>3 DEF IInv, Safe, InFlight
<1>6. call[c].pc # "idle"
  <2>1. call[c].pc = "idle" => call[c].nth = 0 /\ m.nth # call[c].nth
    BY <1>1, <1>4 DEF IInv, Safe, Control, Clean
  <2> QED BY <1>3, <1>4, <1>5, <2>1
<1>7. Made(c) = call[c].nth + 1
  BY <1>3, <1>4, <1>5, <1>6 DEF Made
<1>8. call[c].nth = 0 \/ call[c].nth < Budget(c)
  BY <1>4 DEF IInv, TypeOK
<1>9. Made(c) \in Nat /\ i.nth < Made(c) /\ Made(c) <= Budget(c)
  BY <1>3, <1>4, <1>5, <1>7, <1>8
<1>10. call[c].outcome \in {"RxonAuthError", "RxonRateLimitError"} => i.nth # Made(c) - 1
  <2>1. call[c].outcome \in {"RxonAuthError", "RxonRateLimitError"} => m.nth # call[c].nth
    BY <1>1, <1>4 DEF IInv, Safe, Control, Clean
  <2> QED BY <1>3, <1>4, <1>7, <2>1
<1>11. \A d \in ApiCalls : SameView(d)
  BY RespondKeeps
<1> QED BY <1>2, <1>3, <1>4, <1>5, <1>9, <1>10, <1>11, ExecuteStep

(* A message is served.                                                    *)
LEMMA ServeRefines ==
  ASSUME IInv, NEW m \in wire, ServeApi(m) \/ ServeRegistration(m) \/ ServeSts(m)
  PROVE  [Delivery!Next]_(Delivery!vars)
<1>1. ASSUME NEW r, Respond(m, r), UNCHANGED <<handled, accepted>>
      PROVE  UNCHANGED Delivery!vars
  BY <1>1, RespondKeeps, StutterStep
<1>2. CASE ServeApi(m)
  <2>1. CASE \E a \in Answers :
               LET r == Route(Kind[m.call], a) IN
               /\ Respond(m, r)
               /\ handled' = IF Executes(a, r) THEN handled \cup {IdOf(m)} ELSE handled
               /\ accepted' = IF Accepts(r) THEN accepted \cup {IdOf(m)} ELSE accepted
    <3>1. PICK a \in Answers :
               LET r == Route(Kind[m.call], a) IN
               /\ Respond(m, r)
               /\ handled' = IF Executes(a, r) THEN handled \cup {IdOf(m)} ELSE handled
               /\ accepted' = IF Accepts(r) THEN accepted \cup {IdOf(m)} ELSE accepted
      BY <2>1
    <3> DEFINE r == Route(Kind[m.call], a)
    <3>2. Accepts(r) => Executes(a, r)
      BY DEF Accepts, Executes
    <3>3. CASE ~Executes(a, r)
      BY <1>1, <3>1, <3>2, <3>3
    <3>4. CASE Executes(a, r)
      <4>1. m.to = "api" /\ handled' = handled \cup {IdOf(m)}
        BY <1>2, <3>1, <3>4 DEF ServeApi
      <4> QED BY <3>1, <4>1, ServedRefines
    <3> QED BY <3>3, <3>4
  <2>2. CASE UNCHANGED <<handled, accepted>> /\ \E r : Respond(m, r)
    BY <1>1, <2>2
  <2> QED BY <1>2, <2>1, <2>2 DEF ServeApi
<1>3. CASE ServeRegistration(m)
  <2>1. PICK r : Respond(m, r)
    BY <1>3 DEF ServeRegistration
  <2>2. /\ m.to = "api" /\ handled' = handled \cup {IdOf(m)}
        /\ accepted' = accepted \cup {IdOf(m)}
    BY <1>3 DEF ServeRegistration
  <2> QED BY <2>1, <2>2, ServedRefines
<1>4. CASE ServeSts(m)
  <2>1. (\E r : Respond(m, r)) /\ UNCHANGED <<handled, accepted>>
    BY <1>4 DEF ServeSts
  <2> QED BY <1>1, <2>1
<1> QED BY <1>2, <1>3, <1>4

(* Steps that touch neither a call nor an execution.                       *)
LEMMA QuietRefines ==
  ASSUME UNCHANGED <<call, handled, accepted>>
  PROVE  UNCHANGED Delivery!vars
<1>1. \A d \in ApiCalls : SameView(d)
  BY ViewKept
<1> QED BY <1>1, StutterStep

(* The initial state of the transport is the initial state of the promise. *)
LEMMA InitRefines == Init => Delivery!Init
<1> SUFFICES ASSUME Init PROVE Delivery!Init
  OBVIOUS
<1>1. \A c \in ApiCalls : call[c].pc = "idle" /\ call[c].outcome = "none"
  BY DEF Init, ApiCalls
<1>2. \A c \in ApiCalls : Phase(c) = "idle" /\ Made(c) = 0
  BY <1>1 DEF Phase, Made
<1>3. handled = {} /\ accepted = {}
  BY DEF Init
<1> QED BY <1>1, <1>2, <1>3 DEF Delivery!Init

(* Every step of the transport is a step of the promise or changes nothing *)
(* of it.                                                                  *)
LEMMA NextRefines ==
  ASSUME IInv, IInv', [Next]_vars
  PROVE  [Delivery!Next]_(Delivery!vars)
<1>1. CASE UNCHANGED vars
  BY <1>1, QuietRefines DEF vars, serverVars
<1>2. CASE Connect \/ Close \/ StartListener \/ (\E t \in Tokens : Expire(t))
  <2>1. UNCHANGED <<call, handled, accepted>>
    BY <1>2 DEF Connect, Close, StartListener, Expire, serverVars
  <2> QED BY <2>1, QuietRefines
<1>3. ASSUME NEW c \in Calls, Start(c) \/ Progress(c) \/ Cancel(c)
      PROVE  [Delivery!Next]_(Delivery!vars)
  BY <1>3, StartRefines, ReceiveRefines, NetworkErrorRefines, WakeRefines, CancelRefines
     DEF Progress
<1>4. ASSUME NEW m \in wire, ServeApi(m) \/ ServeRegistration(m) \/ ServeSts(m)
      PROVE  [Delivery!Next]_(Delivery!vars)
  BY <1>4, ServeRefines
<1> QED BY <1>1, <1>2, <1>3, <1>4 DEF Next, Worker, Orchestrator

(* HttpTransport implements RequestDelivery: whatever the network, the     *)
(* tokens and the application do, a method makes no more requests than it  *)
(* may, each is executed at most once, and the outcome is truthful.        *)
THEOREM TransportImplementsDelivery == Spec => ImplementsDelivery
<1>1. IInv /\ IInv' /\ [Next]_vars => [Delivery!Next]_(Delivery!vars)
  BY NextRefines
<1> QED BY <1>1, InitRefines, Invariance, PTL DEF Spec, ImplementsDelivery, Delivery!Spec
=============================================================================
