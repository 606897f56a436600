-------------------------- MODULE MCHttpTransport --------------------------
(* Small instances of HttpTransport for TLC.  A call is named after the    *)
(* method it invokes.                                                      *)
EXTENDS HttpTransport, TLC

tokenCalls == {"poll", "register", "refresh", "result0"}
workCalls  == {"result", "event"}
threeCalls == {"register", "heartbeat", "poll"}
oneCall    == {"heartbeat"}

Kinds(names) == [c \in names |-> IF c = "result0" THEN "result" ELSE c]
tokenKind == Kinds(tokenCalls)
workKind  == Kinds(workCalls)
threeKind == Kinds(threeCalls)
oneKind   == Kinds(oneCall)

\* result0 is send_result(..., max_retries=0).
TwoTries(names) == [c \in names |-> IF c = "result0" THEN 0 ELSE 2]
tokenRetries == TwoTries(tokenCalls)
workRetries  == TwoTries(workCalls)
threeRetries == TwoTries(threeCalls)
oneRetries   == TwoTries(oneCall)

okAnswers   == {Answer("return", 200, "dict")}
taskAnswers == {Answer("return", 200, "falsy"), Answer("return", 200, "task")}
workAnswers == okAnswers \cup
  {Answer("return", 200, "ignored"), Answer("response", 204, "none"),
   Answer("response", 200, "garbled"), Answer("RxonRateLimitError", 200, "none"),
   Answer("Exception", 200, "none")}

\* A good day: no call is cancelled, nothing is lost or closed, a token does
\* not expire during a call, and is refused only when it is no longer accepted.
Refused(m) == wire' = wire \ {m} /\ UNCHANGED issued
GoodDay ==
  \/ Connect
  \/ \E c \in Calls : Start(c) \/ Receive(c)
  \/ \E t \in liveTok : Expire(t) /\ \A c \in Calls : call[c].pc \in {"idle", "done"}
  \/ \E m \in wire :
       \/ Kind[m.call] # "register" /\ ServeApi(m)
       \/ Kind[m.call] = "register" /\ m.hdr \notin liveTok /\ ServeApi(m)
       \/ ServeRegistration(m)
       \/ ServeSts(m) /\ (Refused(m) => m.to = "sts_refresh" /\ m.rt \notin liveRef)
GoodDayInit == Init /\ started
GoodDaySpec == GoodDayInit /\ [][GoodDay]_vars
=============================================================================
