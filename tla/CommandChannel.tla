---------------------------- MODULE CommandChannel --------------------------
(***************************************************************************)
(* The command channel between worker and orchestrator: the generator      *)
(* listen_for_commands, the WebSocket it keeps in _ws_connection, connect, *)
(* close and emit_event (src/rxon/transports/http.py), against _handle_ws  *)
(* of the orchestrator (HttpListener).                                     *)
(*                                                                         *)
(* An action is the code of one coroutine between two awaits.  A listener  *)
(* awaits the handshake, a message, its consumer (at the yield), the close *)
(* of its socket, and the sleep before a reconnection; close() awaits the  *)
(* close of the socket.  A connection is numbered in the order of its      *)
(* handshake; messages of the orchestrator are numbered in the order they  *)
(* are sent, and Text says what each of them contains.                     *)
(*                                                                         *)
(* The fallback of emit_event is one _request (module HttpTransport): here *)
(* its request and its answer may independently be lost.  Of the tokens of *)
(* that module only the number of the one in _headers is kept, and the     *)
(* number the orchestrator accepts; another call of the worker refreshes   *)
(* it.  The length of the sleeps (retry_delay) is abstracted away.         *)
(***************************************************************************)
EXTENDS Integers, Sequences, HttpListener

CONSTANTS
  Listeners,      \* the calls of listen_for_commands, each made once
  Reconnect,      \* the argument of each of them
  Emits,          \* the calls of emit_event, each made once
  Text,           \* what each message of the orchestrator contains
  AuthAnswers,    \* the handler's answers to websocket_auth
  GivenSession,   \* TRUE: a session was passed to __init__
  MaxConns,       \* bound: the connections that are ever established
  MaxFailures,    \* bound: the handshakes that fail while the session is open
  MaxExpiries     \* bound: how often the token expires

\* A WorkerCommand, other JSON than an object (from_dict hands it through),
\* or text that is no JSON or no WorkerCommand.
TextKinds == {"command", "scalar", "malformed"}

ASSUME ChannelAssumption ==
  /\ Reconnect \in [Listeners -> BOOLEAN]
  /\ Text \in Seq(TextKinds)
  /\ \A a \in AuthAnswers : a.does \in {"return", "missing"} \cup Raises
  /\ GivenSession \in BOOLEAN
  /\ MaxConns \in Nat /\ MaxFailures \in Nat /\ MaxExpiries \in Nat

VARIABLES
  session,      \* _session: "none", "open" or "closed"
  own_session,  \* _own_session
  closing,      \* _closing
  token,        \* the number of the token in _headers
  valid,        \* the number of the token the orchestrator accepts
  ws,           \* _ws_connection: the number of a connection, 0 for None
  conn,         \* the connections
  listener,     \* where each listener is suspended, and its connection
  closer,       \* the connection a close() in progress waits for, 0 for none
  emit,         \* the calls of emit_event
  sent,         \* number of messages the orchestrator has sent
  failures,     \* number of failed handshakes
  yielded,      \* the messages each listener has yielded
  handled       \* how often the orchestrator got each event

sessionVars == <<session, own_session, closing>>
tokenVars   == <<token, valid>>
serverVars  == <<sent, failures, handled>>
vars        == <<sessionVars, tokenVars, ws, conn, listener, closer, emit, serverVars, yielded>>

\* A connection as the worker sees it: "closing" is a ws.close() that waits
\* for the reader to let go, "closed" is ws.closed.  Up: the link still works.
ConnType ==
  [client : {"open", "closing", "closed"}, up : BOOLEAN,
   inbox : Seq(1 .. Len(Text)), outbox : Seq(Emits)]
ListenerType ==
  [pc : {"off", "connecting", "reading", "yielded", "leaving", "sleeping", "done", "cancelled"},
   c : 0 .. MaxConns]
EmitType ==
  [pc : {"idle", "draining", "http", "done"}, c : 0 .. MaxConns, written : BOOLEAN,
   raised : BOOLEAN, result : BOOLEAN]

Conns   == 1 .. Len(conn)
Ended   == {"done", "cancelled"}
Holding == {"reading", "yielded"}      \* inside the async with

(* Every variable keeps its type.                                          *)
TypeOK ==
  /\ session \in {"none", "open", "closed"} /\ own_session \in BOOLEAN /\ closing \in BOOLEAN
  /\ token \in 0 .. valid /\ valid \in 0 .. MaxExpiries
  /\ conn \in Seq(ConnType) /\ Len(conn) <= MaxConns
  /\ ws \in 0 .. Len(conn)
  /\ listener \in [Listeners -> ListenerType]
  /\ closer \in 0 .. Len(conn)
  /\ emit \in [Emits -> EmitType]
  /\ sent \in 0 .. Len(Text) /\ failures \in 0 .. MaxFailures
  /\ yielded \in [Listeners -> SUBSET (1 .. Len(Text))]
  /\ handled \in [Emits -> 0 .. 2]
  /\ \A l \in Listeners : listener[l].pc \in Holding => listener[l].c \in Conns

Init ==
  /\ session = IF GivenSession THEN "open" ELSE "none"
  /\ own_session = FALSE /\ closing = FALSE
  /\ token = 0 /\ valid = 0
  /\ ws = 0 /\ conn = <<>>
  /\ listener = [l \in Listeners |-> [pc |-> "off", c |-> 0]]
  /\ closer = 0
  /\ emit = [e \in Emits |-> [pc |-> "idle", c |-> 0, written |-> FALSE, raised |-> FALSE,
                              result |-> FALSE]]
  /\ sent = 0 /\ failures = 0
  /\ yielded = [l \in Listeners |-> {}]
  /\ handled = [e \in Emits |-> 0]

-----------------------------------------------------------------------------
(* The session and the socket.                                             *)

Connect ==
  /\ session' = IF session = "none" THEN "open" ELSE session
  /\ own_session' = (own_session \/ session = "none")
  /\ closing' = FALSE
  /\ UNCHANGED <<tokenVars, ws, conn, listener, closer, emit, serverVars, yielded>>

Shut(c) == [conn EXCEPT ![c].client = "closed", ![c].up = FALSE]

(* self._ws_connection and not self._ws_connection.closed                  *)
SocketOpen == ws \in {c \in Conns : conn[c].client # "closed"}

Waiting(c) == \E l \in Listeners : listener[l] = [pc |-> "reading", c |-> c]

CloseSessionNever(cs) ==    \* mutant: the own session is left open
  conn' = cs /\ UNCHANGED session

(* The end of close(): an own session is closed, which breaks every        *)
(* connection made with it; cs are the connections so far.                 *)
CloseSession(cs) ==
  \/ /\ own_session /\ session = "open"
     /\ session' = "closed"
     /\ conn' = [c \in Conns |-> [cs[c] EXCEPT !.up = FALSE]]
  \/ /\ ~(own_session /\ session = "open")
     /\ conn' = cs
     /\ UNCHANGED session

(* close().  ws.close() wakes a reader that waits for a message and goes   *)
(* on when that has let go.                                                *)
Close ==
  /\ closer = 0
  /\ closing' = TRUE
  /\ \/ /\ SocketOpen
        /\ closer' = ws
        /\ conn' = IF Waiting(ws) THEN [conn EXCEPT ![ws].client = "closing"] ELSE Shut(ws)
        /\ UNCHANGED session
     \/ /\ ~SocketOpen
        /\ CloseSession(conn)
        /\ UNCHANGED closer
  /\ UNCHANGED <<own_session, tokenVars, ws, listener, emit, serverVars, yielded>>

(* The await of ws.close() in close() ends.                                *)
CloseWs ==
  /\ closer # 0
  /\ ~Waiting(closer)
  /\ closer' = 0
  /\ CloseSession(Shut(closer))
  /\ UNCHANGED <<own_session, closing, tokenVars, ws, listener, emit, serverVars, yielded>>

-----------------------------------------------------------------------------
(* listen_for_commands.                                                    *)

At(l, pc, c) == listener' = [listener EXCEPT ![l] = [pc |-> pc, c |-> c]]

(* The condition of the while loop.                                        *)
LoopHead(l) ==
  At(l, IF closing \/ session = "closed" THEN "done" ELSE "connecting", 0)

Listen(l) ==
  /\ listener[l].pc = "off"
  /\ \/ session = "none" /\ At(l, "done", 0)
     \/ session # "none" /\ LoopHead(l)
  /\ UNCHANGED <<sessionVars, tokenVars, ws, conn, closer, emit, serverVars, yielded>>

AfterAttemptGivesUp(l) ==   \* mutant: an attempt that failed is the last one
  At(l, IF closing \/ session = "closed" \/ ~Reconnect[l] \/ listener[l].pc = "connecting"
        THEN "done" ELSE "sleeping", 0)

(* The test between an attempt and the sleep.                              *)
AfterAttempt(l) ==
  At(l, IF closing \/ session = "closed" \/ ~Reconnect[l] THEN "done" ELSE "sleeping", 0)

RememberNothing(c) == ws' = ws      \* mutant: the new socket is not remembered

Remember(c) == ws' = c

HandshakeTokenOfInit == 0     \* mutant: the headers are those of __init__

(* The handshake is sent with self._headers as they are at that moment.    *)
HandshakeToken == token

(* The handshake succeeds.  Without a handler the orchestrator hangs up at *)
(* once.                                                                   *)
Connected(l) ==
  /\ listener[l].pc = "connecting"
  /\ session = "open"
  /\ Len(conn) < MaxConns
  /\ \E a \in AuthAnswers :
       /\ handle_ws(a).status = 101
       /\ HandshakeToken = valid \/ a.does = "missing"
       /\ conn' = Append(conn, [client |-> "open", up |-> a.does # "missing",
                                inbox |-> <<>>, outbox |-> <<>>])
  /\ Remember(Len(conn) + 1)
  /\ At(l, "reading", Len(conn) + 1)
  /\ UNCHANGED <<sessionVars, tokenVars, closer, emit, serverVars, yielded>>

(* The handshake fails: a refusal, a network error or a closed session.    *)
(* When the bound on connections is used up, every handshake fails.  A     *)
(* token that is not accepted is no reason to refresh it.                  *)
ConnectFailed(l) ==
  /\ listener[l].pc = "connecting"
  /\ \/ /\ session = "closed" \/ Len(conn) = MaxConns
        /\ UNCHANGED failures
     \/ /\ session = "open" /\ failures < MaxFailures /\ Len(conn) < MaxConns
        /\ failures' = failures + 1
     \/ /\ session = "open" /\ HandshakeToken # valid
        /\ \E a \in AuthAnswers : a.does = "PermissionError"
        /\ UNCHANGED failures
  /\ AfterAttempt(l)
  /\ UNCHANGED <<sessionVars, tokenVars, ws, conn, closer, emit, sent, handled, yielded>>

(* Leaving the async with closes the socket.                               *)
Leave(l, cs) ==
  /\ conn' = [cs EXCEPT ![listener[l].c].client = "closed", ![listener[l].c].up = FALSE]
  /\ At(l, "leaving", 0)

ParseFailureEnds(l, m, cs) ==     \* mutant: text that cannot be parsed ends the connection
  \/ /\ Text[m] # "malformed"
     /\ At(l, "yielded", listener[l].c)
     /\ conn' = cs
     /\ yielded' = [yielded EXCEPT ![l] = @ \cup {m}]
  \/ /\ Text[m] = "malformed"
     /\ Leave(l, cs)
     /\ UNCHANGED yielded

(* A message with what is left in cs: it is yielded, or logged and skipped *)
(* unless the transport is closing.                                        *)
OnText(l, m, cs) ==
  \/ /\ Text[m] # "malformed"
     /\ At(l, "yielded", listener[l].c)
     /\ conn' = cs
     /\ yielded' = [yielded EXCEPT ![l] = @ \cup {m}]
  \/ /\ Text[m] = "malformed"
     /\ IF closing THEN Leave(l, cs) ELSE conn' = cs /\ UNCHANGED listener
     /\ UNCHANGED yielded

Receive(l) ==
  LET c == listener[l].c IN
  /\ listener[l].pc = "reading"
  /\ conn[c].client # "closed" /\ conn[c].inbox # <<>>
  /\ OnText(l, Head(conn[c].inbox), [conn EXCEPT ![c].inbox = Tail(@)])
  /\ UNCHANGED <<sessionVars, tokenVars, ws, closer, emit, serverVars>>

(* The socket ends, by either side or by an error.                         *)
EndOfStream(l) ==
  LET c == listener[l].c IN
  /\ listener[l].pc = "reading"
  /\ conn[c].client # "open" \/ (~conn[c].up /\ conn[c].inbox = <<>>)
  /\ Leave(l, conn)
  /\ UNCHANGED <<sessionVars, tokenVars, ws, closer, emit, serverVars, yielded>>

(* The consumer asks for the next command.                                 *)
Resume(l) ==
  /\ listener[l].pc = "yielded"
  /\ IF closing THEN Leave(l, conn)
                ELSE At(l, "reading", listener[l].c) /\ UNCHANGED conn
  /\ UNCHANGED <<sessionVars, tokenVars, ws, closer, emit, serverVars, yielded>>

Left(l) ==
  /\ listener[l].pc = "leaving"
  /\ AfterAttempt(l)
  /\ UNCHANGED <<sessionVars, tokenVars, ws, conn, closer, emit, serverVars, yielded>>

Wake(l) ==
  /\ listener[l].pc = "sleeping"
  /\ ws' = 0
  /\ LoopHead(l)
  /\ UNCHANGED <<sessionVars, tokenVars, conn, closer, emit, serverVars, yielded>>

CancelKeepsSocket(l) ==     \* mutant: the socket survives the cancellation
  /\ listener[l].pc \notin Ended \cup {"off"}
  /\ At(l, "cancelled", 0)
  /\ UNCHANGED <<sessionVars, tokenVars, ws, conn, closer, emit, serverVars, yielded>>

(* The consumer's task is cancelled or the generator is closed.            *)
Cancel(l) ==
  /\ listener[l].pc \notin Ended \cup {"off"}
  /\ At(l, "cancelled", 0)
  /\ conn' = IF listener[l].pc \in Holding THEN Shut(listener[l].c) ELSE conn
  /\ UNCHANGED <<sessionVars, tokenVars, ws, closer, emit, serverVars, yielded>>

-----------------------------------------------------------------------------
(* emit_event.                                                             *)

EmitReturns(e, r) == emit' = [emit EXCEPT ![e].pc = "done", ![e].result = r]

(* The synchronous part of send_json writes the frame; on a link that is   *)
(* down the frame is lost, or the write raises.                            *)
Emit(e) ==
  /\ emit[e].pc = "idle"
  /\ \/ /\ SocketOpen
        /\ \/ /\ emit' = [emit EXCEPT ![e].pc = "draining", ![e].c = ws, ![e].written = TRUE]
              /\ conn' = IF conn[ws].up THEN [conn EXCEPT ![ws].outbox = Append(@, e)] ELSE conn
           \/ /\ ~conn[ws].up
              /\ emit' = [emit EXCEPT ![e].pc = "http", ![e].raised = TRUE]
              /\ UNCHANGED conn
     \/ /\ ~SocketOpen
        /\ emit' = [emit EXCEPT ![e].pc = "http"]
        /\ UNCHANGED conn
  /\ UNCHANGED <<sessionVars, tokenVars, ws, listener, closer, serverVars, yielded>>

AfterSendAlsoPosts(e) ==    \* mutant: the return after send_json is missing
  emit' = [emit EXCEPT ![e].pc = "http"]

(* return True after send_json.                                            *)
AfterSend(e) == EmitReturns(e, TRUE)

(* except Exception: pass, and on to the HTTP request.                     *)
AfterRaise(e) == emit' = [emit EXCEPT ![e].pc = "http", ![e].raised = TRUE]

(* The rest of send_json waits for the transport's buffer to drain.        *)
Drained(e) ==
  /\ emit[e].pc = "draining"
  /\ \/ AfterSend(e)
     \/ ~conn[emit[e].c].up /\ AfterRaise(e)
  /\ UNCHANGED <<sessionVars, tokenVars, ws, conn, listener, closer, serverVars, yielded>>

PostMasked(e, reached, answered) ==     \* mutant: a failed request is reported as sent
  /\ EmitReturns(e, TRUE)
  /\ handled' = IF reached THEN [handled EXCEPT ![e] = @ + 1] ELSE handled

PostRetried(e, reached, answered) ==    \* mutant: the request is repeated without an answer
  /\ EmitReturns(e, reached /\ answered)
  /\ handled' = IF reached THEN [handled EXCEPT ![e] = @ + IF answered THEN 1 ELSE 2] ELSE handled

(* The HTTP request: it reaches the orchestrator or not, and its answer    *)
(* reaches the worker or not.                                              *)
Post(e, reached, answered) ==
  /\ EmitReturns(e, reached /\ answered)
  /\ handled' = IF reached THEN [handled EXCEPT ![e] = @ + 1] ELSE handled

PostEvent(e) ==
  /\ emit[e].pc = "http"
  /\ \E reached, answered \in BOOLEAN :
       /\ reached => session = "open"
       /\ Post(e, reached, answered)
  /\ UNCHANGED <<sessionVars, tokenVars, ws, conn, listener, closer, sent, failures, yielded>>

-----------------------------------------------------------------------------
(* A call of the worker refreshes the token (HttpTransport, Install).      *)
RefreshToken ==
  /\ session = "open" /\ token # valid
  /\ token' = valid
  /\ UNCHANGED <<sessionVars, valid, ws, conn, listener, closer, emit, serverVars, yielded>>

-----------------------------------------------------------------------------
(* The orchestrator's handler and the network.                             *)

(* The token expires; connections that are established stay.               *)
Expire ==
  /\ token = valid /\ valid < MaxExpiries
  /\ valid' = valid + 1
  /\ UNCHANGED <<sessionVars, token, ws, conn, listener, closer, emit, serverVars, yielded>>

Send(c) ==
  /\ conn[c].up /\ sent < Len(Text)
  /\ sent' = sent + 1
  /\ conn' = [conn EXCEPT ![c].inbox = Append(@, sent + 1)]
  /\ UNCHANGED <<sessionVars, tokenVars, ws, listener, closer, emit, failures, handled, yielded>>

GetEvent(c) ==
  /\ conn[c].outbox # <<>>
  /\ handled' = [handled EXCEPT ![Head(conn[c].outbox)] = @ + 1]
  /\ conn' = [conn EXCEPT ![c].outbox = Tail(@)]
  /\ UNCHANGED <<sessionVars, tokenVars, ws, listener, closer, emit, sent, failures, yielded>>

(* The handler returns and the orchestrator closes the socket, or the      *)
(* network drops it with the messages that are still on their way.         *)
HangUp(c) ==
  /\ conn[c].up
  /\ \E n \in 0 .. Len(conn[c].inbox), m \in 0 .. Len(conn[c].outbox) :
       conn' = [conn EXCEPT ![c].up = FALSE, ![c].inbox = SubSeq(@, 1, n),
                            ![c].outbox = SubSeq(@, 1, m)]
  /\ UNCHANGED <<sessionVars, tokenVars, ws, listener, closer, emit, serverVars, yielded>>

-----------------------------------------------------------------------------
ListenerStep(l) ==
  \/ Connected(l) \/ ConnectFailed(l) \/ Receive(l) \/ EndOfStream(l)
  \/ Resume(l) \/ Left(l) \/ Wake(l)

Next ==
  \/ Connect \/ Close \/ CloseWs \/ RefreshToken \/ Expire
  \/ \E l \in Listeners : Listen(l) \/ ListenerStep(l) \/ Cancel(l)
  \/ \E e \in Emits : Emit(e) \/ Drained(e) \/ PostEvent(e)
  \/ \E c \in Conns : Send(c) \/ GetEvent(c) \/ HangUp(c)

(* The event loop runs every coroutine that can go on: a handshake ends    *)
(* (aiohttp's default total timeout), a message that has arrived is read,  *)
(* a consumer asks for the next command, a sleep ends, close() goes on.    *)
(* Nobody is obliged to call close(), to send or to hang up.               *)
Fairness ==
  /\ WF_vars(CloseWs)
  /\ \A l \in Listeners : WF_vars(ListenerStep(l))

Spec     == Init /\ [][Next]_vars
FairSpec == Spec /\ Fairness

-----------------------------------------------------------------------------
(* While a listener is inside its connection, _ws_connection is that       *)
(* connection, so close() and emit_event reach it.  Holds of one listener: *)
(* when there are two, the one that wakes up resets what the other set.    *)
CurrentSocket ==
  \A l \in Listeners : listener[l].pc \in Holding => ws = listener[l].c

(* A socket that is not closed belongs to a listener that will close it,   *)
(* or to a close() in progress: no cancellation, reconnection or close     *)
(* leaves one behind.                                                      *)
NoOrphanSocket ==
  \A c \in Conns : conn[c].client # "closed" =>
    \E l \in Listeners : listener[l].pc \in Holding /\ listener[l].c = c

(* The orchestrator gets an event twice only when send_json raised after   *)
(* the event was written, and never more often.                            *)
DuplicateOnlyAfterError ==
  \A e \in Emits : handled[e] > 1 => handled[e] = 2 /\ emit[e].written /\ emit[e].raised

(* emit_event returns True only for an event that send_json wrote without  *)
(* raising or that the orchestrator answered.                              *)
TrueMeansSent ==
  \A e \in Emits : emit[e].pc = "done" /\ emit[e].result =>
    (emit[e].written /\ ~emit[e].raised) \/ handled[e] > 0

(* A listener that asked to reconnect gets a connection again, unless the  *)
(* transport is closed or the consumer goes away; when its token expires,  *)
(* it does so once any call of the worker has refreshed the token.         *)
Reconnects ==
  \A l \in Listeners :
    Reconnect[l] /\ listener[l].pc \in {"connecting", "leaving", "sleeping"} ~>
      \/ listener[l].pc \in {"reading", "cancelled"}
      \/ closing \/ session = "closed" \/ Len(conn) = MaxConns \/ token # valid

(* A command that arrives on a connection is yielded unless the link       *)
(* breaks, the transport closes or the consumer goes away: text before it  *)
(* that cannot be parsed does not stop the listener.                       *)
CommandsReachConsumer ==
  \A l \in Listeners, m \in 1 .. Len(Text), c \in 1 .. MaxConns :
    /\ listener[l].pc \in Holding /\ listener[l].c = c
    /\ Text[m] = "command" /\ \E i \in 1 .. Len(conn[c].inbox) : conn[c].inbox[i] = m
    ~> \/ m \in yielded[l] \/ listener[l].pc = "cancelled"
       \/ closing \/ closer = c \/ session = "closed"
       \/ c \in {d \in Conns : ~conn[d].up /\ conn[d].client # "closed"}

(* After close() every listener returns, unless connect() is called again. *)
CloseStopsListeners ==
  \A l \in Listeners :
    closing ~> ~closing \/ listener[l].pc \in Ended \cup {"off"}
=============================================================================
