------------------------ MODULE CommandChannelProofs ------------------------
(***************************************************************************)
(* Proofs about the command channel, for any number of listeners, events,  *)
(* connections and messages: its types, that no socket is left behind,     *)
(* that _ws_connection is the socket a single listener reads from, and     *)
(* what a return of emit_event says of the event.                          *)
(***************************************************************************)
EXTENDS CommandChannel, TLAPS

(* The frame of e is on its way to the orchestrator.                       *)
InFlight(e) == \E c \in Conns : \E i \in 1 .. Len(conn[c].outbox) : conn[c].outbox[i] = e

(* Everything but the limit of handled, which the deliveries imply.        *)
Types ==
  /\ session \in {"none", "open", "closed"} /\ own_session \in BOOLEAN /\ closing \in BOOLEAN
  /\ token \in 0 .. valid /\ valid \in 0 .. MaxExpiries
  /\ conn \in Seq(ConnType) /\ Len(conn) <= MaxConns
  /\ ws \in 0 .. Len(conn)
  /\ listener \in [Listeners -> ListenerType]
  /\ closer \in 0 .. Len(conn)
  /\ emit \in [Emits -> EmitType]
  /\ sent \in 0 .. Len(Text) /\ failures \in 0 .. MaxFailures
  /\ yielded \in [Listeners -> SUBSET (1 .. Len(Text))]
  /\ handled \in [Emits -> Nat]
  /\ \A l \in Listeners : listener[l].pc \in Holding => listener[l].c \in Conns

(* A frame waits on the connection its emit_event wrote to, and once.      *)
FramesUnique ==
  /\ \A c \in Conns : \A i \in 1 .. Len(conn[c].outbox) :
       emit[conn[c].outbox[i]].c = c /\ emit[conn[c].outbox[i]].written
  /\ \A c \in Conns : \A i, j \in 1 .. Len(conn[c].outbox) :
       conn[c].outbox[i] = conn[c].outbox[j] => i = j

(* The deliveries of an event that can still be made or were made: one for *)
(* a frame that was written, one for a request that was posted.            *)
Written(e) == IF emit[e].written THEN 1 ELSE 0
Posted(e)  == IF emit[e].pc = "done" /\ (emit[e].raised \/ ~emit[e].written) THEN 1 ELSE 0
Waits(e)   == IF InFlight(e) THEN 1 ELSE 0

Deliveries == \A e \in Emits : handled[e] + Waits(e) <= Written(e) + Posted(e)

(* How far each emit_event is.                                             *)
Progressed == \A e \in Emits :
  /\ emit[e].pc = "idle" => ~emit[e].written /\ ~emit[e].raised
  /\ emit[e].pc = "draining" => emit[e].written /\ ~emit[e].raised /\ emit[e].c \in Conns
  /\ emit[e].pc = "http" /\ emit[e].written => emit[e].raised

IInv == Types /\ NoOrphanSocket /\ FramesUnique /\ Deliveries /\ Progressed /\ TrueMeansSent

-----------------------------------------------------------------------------
(* The connections.                                                        *)

(* cs are the connections with nothing added to what was written and       *)
(* nothing reopened.                                                       *)
Kept(cs) ==
  /\ cs \in Seq(ConnType) /\ Len(cs) = Len(conn)
  /\ \A c \in Conns : /\ cs[c].outbox = conn[c].outbox
                      /\ conn[c].client = "closed" => cs[c].client = "closed"

(* What the types say of the connections.                                  *)
LEMMA ConnFacts ==
  ASSUME Types
  PROVE  /\ conn \in Seq(ConnType) /\ Len(conn) \in Nat /\ Len(Text) \in Nat /\ MaxConns \in Nat
         /\ Kept(conn)
         /\ \A c \in Conns : conn[c] \in ConnType
BY ChannelAssumption DEF Types, Kept, Conns

(* One connection is replaced by another with the same outbox.             *)
LEMMA KeptReplaced ==
  ASSUME Types, NEW cs, Kept(cs), NEW c \in Conns, NEW r \in ConnType,
         r.outbox = cs[c].outbox, cs[c].client = "closed" => r.client = "closed"
  PROVE  Kept([cs EXCEPT ![c] = r]) /\ [cs EXCEPT ![c] = r][c] = r
<1>1. /\ cs \in Seq(ConnType) /\ Len(cs) = Len(conn) /\ c \in 1 .. Len(cs)
  BY DEF Kept, Conns
<1>2. PICK ds : ds = [cs EXCEPT ![c] = r]
  OBVIOUS
<1>3. /\ ds \in Seq(ConnType) /\ Len(ds) = Len(cs) /\ ds[c] = r
      /\ \A d \in 1 .. Len(cs) : d # c => ds[d] = cs[d]
  BY <1>1, <1>2
<1> QED BY <1>1, <1>2, <1>3 DEF Kept, Conns

(* A socket is closed.                                                     *)
LEMMA KeptShut ==
  ASSUME Types, NEW cs, Kept(cs), NEW c \in Conns
  PROVE  /\ Kept([cs EXCEPT ![c].client = "closed", ![c].up = FALSE])
         /\ [cs EXCEPT ![c].client = "closed", ![c].up = FALSE][c].client = "closed"
<1>1. cs \in Seq(ConnType) /\ c \in 1 .. Len(cs) /\ cs[c] \in ConnType
  BY DEF Kept, Conns
<1>2. PICK r : r = [cs[c] EXCEPT !.client = "closed", !.up = FALSE]
  OBVIOUS
<1>3. r \in ConnType /\ r.outbox = cs[c].outbox /\ r.client = "closed"
  BY <1>1, <1>2 DEF ConnType
<1>4. [cs EXCEPT ![c].client = "closed", ![c].up = FALSE] = [cs EXCEPT ![c] = r]
  BY <1>1, <1>2
<1>5. Kept([cs EXCEPT ![c] = r]) /\ [cs EXCEPT ![c] = r][c] = r
  BY <1>3, KeptReplaced
<1> QED BY <1>3, <1>4, <1>5

(* A message is taken from an inbox.                                       *)
LEMMA KeptInbox ==
  ASSUME Types, NEW c \in Conns, NEW q \in Seq(1 .. Len(Text))
  PROVE  Kept([conn EXCEPT ![c].inbox = q])
<1>1. conn[c] \in ConnType /\ c \in 1 .. Len(conn)
  BY ConnFacts DEF Conns
<1>2. PICK r : r = [conn[c] EXCEPT !.inbox = q]
  OBVIOUS
<1>3. r \in ConnType /\ r.outbox = conn[c].outbox /\ r.client = conn[c].client
  BY <1>1, <1>2 DEF ConnType
<1>4. [conn EXCEPT ![c].inbox = q] = [conn EXCEPT ![c] = r]
  BY <1>1, <1>2
<1>5. Kept([conn EXCEPT ![c] = r])
  BY <1>3, KeptReplaced, ConnFacts
<1> QED BY <1>4, <1>5

(* The end of close() closes the links and not the frames.                 *)
LEMMA KeptSession ==
  ASSUME Types, NEW cs, Kept(cs), CloseSession(cs)
  PROVE  /\ Kept(conn') /\ \A c \in Conns : conn'[c].client = cs[c].client
         /\ session' \in {"none", "open", "closed"}
<1>1. /\ cs \in Seq(ConnType) /\ Len(cs) = Len(conn) /\ Len(conn) \in Nat
      /\ \A c \in Conns : cs[c] \in ConnType
  BY ConnFacts DEF Kept, Conns
<1>2. CASE conn' = cs /\ UNCHANGED session
  BY <1>2 DEF Types
<1>3. CASE session' = "closed" /\ conn' = [c \in Conns |-> [cs[c] EXCEPT !.up = FALSE]]
  <2>1. \A c \in Conns : /\ conn'[c] \in ConnType /\ conn'[c].outbox = cs[c].outbox
                         /\ conn'[c].client = cs[c].client
    BY <1>1, <1>3 DEF ConnType
  <2>2. conn' \in Seq(ConnType) /\ Len(conn') = Len(conn)
    BY <1>1, <1>3, <2>1 DEF Conns
  <2> QED BY <1>3, <2>1, <2>2 DEF Kept
<1> QED BY <1>2, <1>3 DEF CloseSession

-----------------------------------------------------------------------------
(* The events.                                                             *)

(* Frames that are lost, and none that is added, disturb nothing that is   *)
(* said of the events.                                                     *)
LEMMA EventsKept ==
  ASSUME IInv, UNCHANGED <<emit, handled>>, Len(conn') \in Nat, Len(conn) <= Len(conn'),
         \A c \in 1 .. Len(conn') : Len(conn'[c].outbox) \in Nat,
         \A c \in 1 .. Len(conn') : c \notin Conns => Len(conn'[c].outbox) = 0,
         \A c \in Conns : /\ Len(conn'[c].outbox) <= Len(conn[c].outbox)
                          /\ \A i \in 1 .. Len(conn'[c].outbox) :
                               conn'[c].outbox[i] = conn[c].outbox[i]
  PROVE  FramesUnique' /\ Deliveries' /\ Progressed' /\ TrueMeansSent'
<1>1. /\ Len(conn) \in Nat /\ Conns' = 1 .. Len(conn') /\ Conns = 1 .. Len(conn)
      /\ \A c \in Conns : Len(conn[c].outbox) \in Nat
  <2>1. \A c \in Conns : conn[c] \in ConnType
    BY ConnFacts DEF IInv
  <2> QED BY <2>1, ConnFacts DEF IInv, Conns, ConnType
<1>2. ASSUME NEW c \in Conns', NEW i \in 1 .. Len(conn'[c].outbox)
      PROVE  c \in Conns /\ i \in 1 .. Len(conn[c].outbox) /\ conn'[c].outbox[i] = conn[c].outbox[i]
  BY <1>1, <1>2
<1>3. FramesUnique'
  <2>1. ASSUME NEW c \in Conns', NEW i \in 1 .. Len(conn'[c].outbox)
        PROVE  emit'[conn'[c].outbox[i]].c = c /\ emit'[conn'[c].outbox[i]].written
    <3>1. c \in Conns /\ i \in 1 .. Len(conn[c].outbox) /\ conn'[c].outbox[i] = conn[c].outbox[i]
      BY <1>2
    <3>2. emit[conn[c].outbox[i]].c = c /\ emit[conn[c].outbox[i]].written
      BY <3>1 DEF IInv, FramesUnique
    <3> QED BY <3>1, <3>2
  <2>2. ASSUME NEW c \in Conns', NEW i \in 1 .. Len(conn'[c].outbox),
               NEW j \in 1 .. Len(conn'[c].outbox), conn'[c].outbox[i] = conn'[c].outbox[j]
        PROVE  i = j
    BY <1>2, <2>2 DEF IInv, FramesUnique
  <2> QED BY <2>1, <2>2 DEF FramesUnique
<1>4. ASSUME NEW e \in Emits, InFlight(e)' PROVE InFlight(e)
  BY <1>2, <1>4 DEF InFlight
<1>5. Deliveries'
  <2>1. ASSUME NEW e \in Emits PROVE Waits(e)' <= Waits(e) /\ Waits(e) \in 0 .. 1 /\ Waits(e)' \in 0 .. 1
    BY <1>4 DEF Waits
  <2>2. ASSUME NEW e \in Emits PROVE handled[e] + Waits(e)' <= Written(e) + Posted(e)
    <3>1. handled[e] \in Nat /\ Written(e) \in Nat /\ Posted(e) \in Nat
      BY DEF IInv, Types, Written, Posted
    <3>2. handled[e] + Waits(e) <= Written(e) + Posted(e)
      BY DEF IInv, Deliveries
    <3> QED BY <2>1, <3>1, <3>2
  <2> QED BY <2>2 DEF Deliveries, Written, Posted
<1>6. Progressed'
  BY <1>1 DEF IInv, Progressed
<1> QED BY <1>3, <1>5, <1>6 DEF IInv, TrueMeansSent

(* The connections are those of before, with links and sockets closed and  *)
(* inboxes changed.                                                        *)
LEMMA EventsKeptWith ==
  ASSUME IInv, UNCHANGED <<emit, handled>>, Kept(conn')
  PROVE  FramesUnique' /\ Deliveries' /\ Progressed' /\ TrueMeansSent'
<1>1. /\ Len(conn') = Len(conn) /\ Len(conn) \in Nat /\ Conns = 1 .. Len(conn)
      /\ \A c \in Conns : conn[c] \in ConnType /\ conn'[c].outbox = conn[c].outbox
  BY ConnFacts DEF IInv, Kept, Conns
<1>2. \A c \in Conns : Len(conn[c].outbox) \in Nat
  BY <1>1 DEF ConnType
<1> QED BY <1>1, <1>2, EventsKept

-----------------------------------------------------------------------------
(* The listeners.                                                          *)

Places == {"off", "connecting", "reading", "yielded", "leaving", "sleeping", "done", "cancelled"}

(* A listener moves, the others stay.                                      *)
LEMMA AtFacts ==
  ASSUME Types, NEW l \in Listeners, NEW pc \in Places, NEW c \in 0 .. MaxConns, At(l, pc, c)
  PROVE  /\ listener' \in [Listeners -> ListenerType]
         /\ listener'[l].pc = pc /\ listener'[l].c = c
         /\ \A m \in Listeners : m # l => listener'[m] = listener[m]
<1>1. [pc |-> pc, c |-> c] \in ListenerType
  BY DEF ListenerType, Places
<1> QED BY <1>1 DEF Types, At

(* A listener that ends outside its connection.                            *)
Outside(l) ==
  /\ listener' \in [Listeners -> ListenerType]
  /\ listener'[l].pc \notin Holding
  /\ \A m \in Listeners : m # l => listener'[m] = listener[m]

(* A listener that holds no socket can go on without one.                  *)
LEMMA OutsideFacts ==
  ASSUME Types, NEW l \in Listeners, NEW pc \in Places \ Holding, At(l, pc, 0)
  PROVE  Outside(l)
<1>1. 0 \in 0 .. MaxConns
  BY ChannelAssumption
<1> QED BY <1>1, AtFacts DEF Outside

(* The condition of the while loop and the test before the sleep.          *)
LEMMA LoopFacts ==
  ASSUME Types, NEW l \in Listeners, LoopHead(l) \/ AfterAttempt(l) \/ At(l, "done", 0)
  PROVE  Outside(l)
<1>1. "done" \in Places \ Holding /\ "connecting" \in Places \ Holding /\ "sleeping" \in Places \ Holding
  BY DEF Places, Holding
<1>2. At(l, "done", 0) \/ At(l, "connecting", 0) \/ At(l, "sleeping", 0)
  BY DEF LoopHead, AfterAttempt
<1> QED BY <1>1, <1>2, OutsideFacts

(* A step of one listener: it stays inside its connection or leaves it     *)
(* closed.                                                                 *)
LEMMA ListenerKeeps ==
  ASSUME IInv, NEW l \in Listeners, Kept(conn'),
         listener' \in [Listeners -> ListenerType],
         \A m \in Listeners : m # l => listener'[m] = listener[m],
         listener'[l].pc \in Holding =>
           listener[l].pc \in Holding /\ listener'[l].c = listener[l].c,
         listener[l].pc \in Holding =>
           listener'[l].pc \in Holding \/ conn'[listener[l].c].client = "closed",
         UNCHANGED <<sessionVars, tokenVars, closer, emit, sent, handled>>,
         ws' \in 0 .. Len(conn), failures' \in 0 .. MaxFailures,
         yielded' \in [Listeners -> SUBSET (1 .. Len(Text))]
  PROVE  IInv'
<1>1. Types /\ conn' \in Seq(ConnType) /\ Len(conn') = Len(conn) /\ Conns' = Conns
  BY DEF IInv, Kept, Conns
<1>2. \A m \in Listeners : listener'[m].pc \in Holding =>
        listener[m].pc \in Holding /\ listener'[m].c = listener[m].c
  OBVIOUS
<1>3. Types'
  <2>1. \A m \in Listeners : listener'[m].pc \in Holding => listener'[m].c \in Conns'
    BY <1>1, <1>2 DEF Types
  <2> QED BY <1>1, <2>1 DEF Types, sessionVars, tokenVars
<1>4. NoOrphanSocket'
  <2>1. ASSUME NEW c \in Conns, conn'[c].client # "closed"
        PROVE  \E m \in Listeners : listener'[m].pc \in Holding /\ listener'[m].c = c
    <3>1. PICK m \in Listeners : listener[m].pc \in Holding /\ listener[m].c = c
      BY <2>1 DEF IInv, NoOrphanSocket, Kept
    <3> QED BY <1>2, <2>1, <3>1
  <2> QED BY <1>1, <2>1 DEF NoOrphanSocket
<1> QED BY <1>3, <1>4, EventsKeptWith DEF IInv

(* Leaving the async with.                                                 *)
LEMMA LeaveFacts ==
  ASSUME Types, NEW l \in Listeners, listener[l].pc \in Holding, NEW cs, Kept(cs), Leave(l, cs)
  PROVE  Outside(l) /\ Kept(conn') /\ conn'[listener[l].c].client = "closed"
<1>1. listener[l].c \in Conns
  BY DEF Types
<1>2. Outside(l)
  BY OutsideFacts DEF Leave, Places, Holding
<1> QED BY <1>1, <1>2, KeptShut DEF Leave

-----------------------------------------------------------------------------
(* Each step of a listener.                                                *)

LEMMA ListenInv ==
  ASSUME IInv, NEW l \in Listeners, Listen(l)
  PROVE  IInv'
<1>1. Outside(l)
  BY LoopFacts DEF IInv, Listen
<1>2. listener[l].pc \notin Holding
  BY DEF Listen, Holding
<1> QED BY <1>1, <1>2, ConnFacts, ListenerKeeps DEF IInv, Types, Listen, Outside, serverVars, Kept, Conns

(* The handshake fails.                                                    *)
LEMMA ConnectFailedInv ==
  ASSUME IInv, NEW l \in Listeners, ConnectFailed(l)
  PROVE  IInv'
<1>1. Outside(l)
  BY LoopFacts DEF IInv, ConnectFailed
<1>2. listener[l].pc \notin Holding
  BY DEF ConnectFailed, Holding
<1>3. failures' \in 0 .. MaxFailures
  BY ChannelAssumption DEF IInv, Types, ConnectFailed
<1> QED BY <1>1, <1>2, <1>3, ConnFacts, ListenerKeeps
        DEF IInv, Types, ConnectFailed, Outside, serverVars, Kept, Conns

(* An attempt has ended and its socket is closed.                          *)
LEMMA LeftInv ==
  ASSUME IInv, NEW l \in Listeners, Left(l)
  PROVE  IInv'
<1>1. Outside(l)
  BY LoopFacts DEF IInv, Left
<1>2. listener[l].pc \notin Holding
  BY DEF Left, Holding
<1> QED BY <1>1, <1>2, ConnFacts, ListenerKeeps DEF IInv, Types, Left, Outside, serverVars, Kept, Conns

(* The sleep between two attempts is over.                                 *)
LEMMA WakeInv ==
  ASSUME IInv, NEW l \in Listeners, Wake(l)
  PROVE  IInv'
<1>1. Outside(l)
  BY LoopFacts DEF IInv, Wake
<1>2. listener[l].pc \notin Holding
  BY DEF Wake, Holding
<1>3. ws' \in 0 .. Len(conn)
  BY ConnFacts DEF IInv, Wake
<1> QED BY <1>1, <1>2, <1>3, ConnFacts, ListenerKeeps
        DEF IInv, Types, Wake, Outside, serverVars, Kept, Conns

(* The socket of a listener has come to its end.                           *)
LEMMA EndOfStreamInv ==
  ASSUME IInv, NEW l \in Listeners, EndOfStream(l)
  PROVE  IInv'
<1>1. listener[l].pc \in Holding
  BY DEF EndOfStream, Holding
<1>2. Outside(l) /\ Kept(conn') /\ conn'[listener[l].c].client = "closed"
  BY <1>1, LeaveFacts, ConnFacts DEF IInv, EndOfStream
<1> QED BY <1>1, <1>2, ListenerKeeps DEF IInv, Types, EndOfStream, Outside, serverVars

(* The consumer asks for the next command.                                 *)
LEMMA ResumeInv ==
  ASSUME IInv, NEW l \in Listeners, Resume(l)
  PROVE  IInv'
<1>1. listener[l].pc \in Holding
  BY DEF Resume, Holding
<1>2. CASE Leave(l, conn)
  <2>1. Outside(l) /\ Kept(conn') /\ conn'[listener[l].c].client = "closed"
    BY <1>1, <1>2, LeaveFacts, ConnFacts DEF IInv
  <2> QED BY <1>1, <2>1, ListenerKeeps DEF IInv, Types, Resume, Outside, serverVars
<1>3. CASE At(l, "reading", listener[l].c) /\ UNCHANGED conn
  <2>1. listener[l].c \in 0 .. MaxConns
    BY DEF IInv, Types, ListenerType
  <2>2. /\ listener' \in [Listeners -> ListenerType]
        /\ listener'[l].pc = "reading" /\ listener'[l].c = listener[l].c
        /\ \A m \in Listeners : m # l => listener'[m] = listener[m]
    BY <1>3, <2>1, AtFacts DEF IInv, Places
  <2>3. Kept(conn')
    BY <1>3, ConnFacts DEF IInv, Kept, Conns
  <2> QED BY <1>1, <2>2, <2>3, ListenerKeeps DEF IInv, Types, Resume, Holding, serverVars
<1> QED BY <1>2, <1>3 DEF Resume

(* The consumer's task is cancelled.                                       *)
LEMMA CancelInv ==
  ASSUME IInv, NEW l \in Listeners, Cancel(l)
  PROVE  IInv'
<1>1. Outside(l)
  BY OutsideFacts DEF IInv, Cancel, Places, Holding
<1>2. CASE listener[l].pc \in Holding
  <2>1. listener[l].c \in Conns
    BY <1>2 DEF IInv, Types
  <2>2. Kept(conn') /\ conn'[listener[l].c].client = "closed"
    BY <1>2, <2>1, ConnFacts, KeptShut DEF IInv, Cancel, Shut
  <2> QED BY <1>1, <1>2, <2>2, ListenerKeeps DEF IInv, Types, Cancel, Outside, serverVars
<1>3. CASE listener[l].pc \notin Holding
  <2>1. Kept(conn')
    BY <1>3, ConnFacts DEF IInv, Cancel
  <2> QED BY <1>1, <1>3, <2>1, ListenerKeeps DEF IInv, Types, Cancel, Outside, serverVars
<1> QED BY <1>2, <1>3

(* A message is read, and yielded or skipped.                              *)
LEMMA ReceiveInv ==
  ASSUME IInv, NEW l \in Listeners, Receive(l)
  PROVE  IInv'
<1> DEFINE c == listener[l].c
<1> DEFINE m == Head(conn[c].inbox)
<1> DEFINE cs == [conn EXCEPT ![c].inbox = Tail(@)]
<1>1. /\ listener[l].pc = "reading" /\ listener[l].pc \in Holding
      /\ conn[c].inbox # <<>> /\ OnText(l, m, cs)
      /\ UNCHANGED <<sessionVars, tokenVars, ws, closer, emit, serverVars>>
  BY DEF Receive, Holding
<1>2. c \in Conns /\ c \in 0 .. MaxConns /\ conn[c] \in ConnType
  BY <1>1, ConnFacts DEF IInv, Types, ListenerType
<1>3. m \in 1 .. Len(Text) /\ Tail(conn[c].inbox) \in Seq(1 .. Len(Text))
  <2>1. PICK q : q = conn[c].inbox
    OBVIOUS
  <2>2. q \in Seq(1 .. Len(Text)) /\ q # <<>>
    BY <1>1, <1>2, <2>1 DEF ConnType
  <2>3. Head(q) \in 1 .. Len(Text) /\ Tail(q) \in Seq(1 .. Len(Text))
    BY <2>2
  <2> QED BY <2>1, <2>3
<1>4. Kept(cs)
  BY <1>2, <1>3, KeptInbox DEF IInv
<1> HIDE DEF cs
<1>5. CASE At(l, "yielded", c) /\ conn' = cs /\ yielded' = [yielded EXCEPT ![l] = @ \cup {m}]
  <2>1. /\ listener' \in [Listeners -> ListenerType]
        /\ listener'[l].pc = "yielded" /\ listener'[l].c = c
        /\ \A k \in Listeners : k # l => listener'[k] = listener[k]
    BY <1>2, <1>5, AtFacts DEF IInv, Places
  <2>2. yielded' \in [Listeners -> SUBSET (1 .. Len(Text))]
    BY <1>3, <1>5 DEF IInv, Types
  <2> QED BY <1>1, <1>4, <1>5, <2>1, <2>2, ListenerKeeps DEF IInv, Types, Holding, serverVars
<1>6. CASE Leave(l, cs) /\ UNCHANGED yielded
  <2>1. Outside(l) /\ Kept(conn') /\ conn'[c].client = "closed"
    BY <1>1, <1>4, <1>6, LeaveFacts DEF IInv
  <2> QED BY <1>1, <1>6, <2>1, ListenerKeeps DEF IInv, Types, Outside, serverVars
<1>7. CASE conn' = cs /\ UNCHANGED <<listener, yielded>>
  BY <1>1, <1>4, <1>7, ListenerKeeps DEF IInv, Types, serverVars
<1> QED BY <1>1, <1>5, <1>6, <1>7 DEF OnText

(* A handshake that succeeds adds a connection, which its listener holds.  *)
LEMMA ConnectedInv ==
  ASSUME IInv, NEW l \in Listeners, Connected(l)
  PROVE  IInv'
<1> DEFINE n == Len(conn) + 1
<1>1. PICK r : /\ conn' = Append(conn, r)
               /\ \E b \in BOOLEAN : r = [client |-> "open", up |-> b, inbox |-> <<>>, outbox |-> <<>>]
  <2>1. PICK a \in AuthAnswers :
               conn' = Append(conn, [client |-> "open", up |-> a.does # "missing",
                                     inbox |-> <<>>, outbox |-> <<>>])
    BY DEF Connected
  <2> QED BY <2>1
<1>2. r \in ConnType /\ Len(r.outbox) = 0
  BY <1>1 DEF ConnType
<1>3. /\ listener[l].pc = "connecting" /\ ws' = n /\ At(l, "reading", n) /\ Len(conn) < MaxConns
      /\ UNCHANGED <<sessionVars, tokenVars, closer, emit, serverVars, yielded>>
  BY DEF Connected, Remember
<1>4. /\ Types /\ conn \in Seq(ConnType) /\ Len(conn) \in Nat /\ MaxConns \in Nat
      /\ \A c \in Conns : conn[c] \in ConnType
  BY ConnFacts DEF IInv
<1>5. /\ conn' \in Seq(ConnType) /\ Len(conn') = n /\ conn'[n] = r /\ Conns' = 1 .. n
      /\ \A c \in Conns : conn'[c] = conn[c]
      /\ Conns = 1 .. Len(conn)
  BY <1>1, <1>2, <1>4 DEF Conns
<1>6. /\ listener' \in [Listeners -> ListenerType]
      /\ listener'[l].pc = "reading" /\ listener'[l].c = n
      /\ \A k \in Listeners : k # l => listener'[k] = listener[k]
  BY <1>3, <1>4, AtFacts DEF Places
<1>7. Types'
  <2>1. Conns \subseteq Conns' /\ n \in Conns'
    BY <1>1, <1>4, <1>5
  <2>2. \A k \in Listeners : listener'[k].pc \in Holding => listener'[k].c \in Conns'
    BY <1>4, <1>6, <2>1 DEF Types
  <2> QED BY <1>3, <1>4, <1>5, <1>6, <2>2 DEF Types, sessionVars, tokenVars, serverVars
<1>8. NoOrphanSocket'
  <2>1. ASSUME NEW c \in Conns', conn'[c].client # "closed"
        PROVE  \E k \in Listeners : listener'[k].pc \in Holding /\ listener'[k].c = c
    <3>1. CASE c = n
      BY <1>6, <3>1 DEF Holding
    <3>2. CASE c # n
      <4>1. c \in Conns
        BY <1>4, <1>5, <3>2
      <4>2. PICK k \in Listeners : listener[k].pc \in Holding /\ listener[k].c = c
        BY <1>5, <2>1, <4>1 DEF IInv, NoOrphanSocket
      <4>3. k # l
        BY <1>3, <4>2 DEF Holding
      <4> QED BY <1>6, <4>2, <4>3
    <3> QED BY <3>1, <3>2
  <2> QED BY <2>1 DEF NoOrphanSocket
<1>9. \A c \in 1 .. Len(conn') : /\ Len(conn'[c].outbox) \in Nat
                                 /\ c \notin Conns => Len(conn'[c].outbox) = 0
  <2>1. ASSUME NEW c \in 1 .. Len(conn') PROVE c \in Conns \/ c = n
    BY <1>4, <1>5
  <2>2. \A c \in Conns : Len(conn'[c].outbox) \in Nat
    <3>1. \A c \in Conns : conn'[c] = conn[c] /\ conn[c] \in ConnType
      BY <1>4, <1>5
    <3> QED BY <3>1 DEF ConnType
  <2>3. Len(conn'[n].outbox) \in Nat /\ Len(conn'[n].outbox) = 0
    BY <1>2, <1>5
  <2> QED BY <2>1, <2>2, <2>3, Zenon
<1>10. \A c \in Conns : /\ Len(conn'[c].outbox) <= Len(conn[c].outbox)
                        /\ \A i \in 1 .. Len(conn'[c].outbox) :
                             conn'[c].outbox[i] = conn[c].outbox[i]
  <2>1. ASSUME NEW c \in Conns PROVE conn'[c] = conn[c] /\ Len(conn[c].outbox) \in Nat
    <3>1. conn'[c] = conn[c]
      BY <1>5
    <3>2. conn[c] \in ConnType
      BY <1>4
    <3> QED BY <3>1, <3>2 DEF ConnType
  <2> QED BY <2>1
<1>11. FramesUnique' /\ Deliveries' /\ Progressed' /\ TrueMeansSent'
  <2>1. UNCHANGED <<emit, handled>> /\ Len(conn') \in Nat /\ Len(conn) <= Len(conn')
    BY <1>1, <1>3, <1>4, <1>5 DEF serverVars
  <2> QED BY <1>9, <1>10, <2>1, EventsKept
<1> QED BY <1>7, <1>8, <1>11 DEF IInv

-----------------------------------------------------------------------------
(* The session, the tokens and the orchestrator.                           *)

(* A step that leaves the listeners alone and closes no socket but with    *)
(* nothing reopened.                                                       *)
LEMMA OthersKeep ==
  ASSUME IInv, Kept(conn'), UNCHANGED <<listener, ws, emit, handled, failures, yielded>>,
         session' \in {"none", "open", "closed"}, own_session' \in BOOLEAN, closing' \in BOOLEAN,
         token' \in 0 .. valid', valid' \in 0 .. MaxExpiries,
         closer' \in 0 .. Len(conn), sent' \in 0 .. Len(Text)
  PROVE  IInv'
<1>1. conn' \in Seq(ConnType) /\ Len(conn') = Len(conn) /\ Conns' = Conns
  BY DEF Kept, Conns
<1>2. Types'
  BY <1>1 DEF IInv, Types
<1>3. NoOrphanSocket'
  BY <1>1 DEF IInv, NoOrphanSocket, Kept
<1> QED BY <1>2, <1>3, EventsKeptWith DEF IInv

(* connect().                                                              *)
LEMMA ConnectInv ==
  ASSUME IInv, Connect
  PROVE  IInv'
<1>1. Kept(conn')
  BY ConnFacts DEF IInv, Connect, Kept, Conns
<1>2. session' \in {"none", "open", "closed"} /\ own_session' \in BOOLEAN /\ closing' \in BOOLEAN
  BY DEF IInv, Types, Connect
<1> QED BY <1>1, <1>2, OthersKeep DEF IInv, Types, Connect, tokenVars, serverVars

(* The token expires or is refreshed.                                      *)
LEMMA TokensInv ==
  ASSUME IInv, RefreshToken \/ Expire
  PROVE  IInv'
<1>1. Kept(conn')
  BY ConnFacts DEF IInv, RefreshToken, Expire, Kept, Conns
<1>2. token' \in 0 .. valid' /\ valid' \in 0 .. MaxExpiries
  BY ChannelAssumption DEF IInv, Types, RefreshToken, Expire
<1> QED BY <1>1, <1>2, OthersKeep
        DEF IInv, Types, RefreshToken, Expire, sessionVars, serverVars

(* close() up to its first await.                                          *)
LEMMA CloseInv ==
  ASSUME IInv, Close
  PROVE  IInv'
<1>1. /\ own_session' = own_session /\ closing' = TRUE
      /\ UNCHANGED <<tokenVars, ws, listener, emit, serverVars, yielded>>
  BY DEF Close
<1>2. CASE SocketOpen /\ closer' = ws /\ UNCHANGED session
  <2>1. ws \in Conns /\ conn[ws].client # "closed" /\ conn[ws] \in ConnType
    BY <1>2, ConnFacts DEF SocketOpen, IInv
  <2>2. CASE conn' = [conn EXCEPT ![ws].client = "closing"]
    <3>1. PICK r : r = [conn[ws] EXCEPT !.client = "closing"]
      OBVIOUS
    <3>2. r \in ConnType /\ r.outbox = conn[ws].outbox
      BY <2>1, <3>1 DEF ConnType
    <3>3. conn' = [conn EXCEPT ![ws] = r]
      BY <2>2, <3>1
    <3>4. Kept([conn EXCEPT ![ws] = r])
      BY <2>1, <3>2, ConnFacts, KeptReplaced DEF IInv
    <3>5. Kept(conn')
      BY <3>3, <3>4
    <3> QED BY <1>1, <1>2, <3>5, OthersKeep DEF IInv, Types, tokenVars, serverVars
  <2>3. CASE conn' = Shut(ws)
    <3>1. Kept(conn')
      BY <2>1, <2>3, ConnFacts, KeptShut DEF IInv, Shut
    <3> QED BY <1>1, <1>2, <3>1, OthersKeep DEF IInv, Types, tokenVars, serverVars
  <2> QED BY <1>2, <2>2, <2>3 DEF Close
<1>3. CASE CloseSession(conn) /\ UNCHANGED closer
  <2>1. Kept(conn') /\ session' \in {"none", "open", "closed"}
    BY <1>3, ConnFacts, KeptSession DEF IInv
  <2> QED BY <1>1, <1>3, <2>1, OthersKeep DEF IInv, Types, tokenVars, serverVars
<1> QED BY <1>2, <1>3 DEF Close

(* close() after the await of ws.close().                                  *)
LEMMA CloseWsInv ==
  ASSUME IInv, CloseWs
  PROVE  IInv'
<1>1. closer \in Conns /\ closer' = 0 /\ CloseSession(Shut(closer))
  BY ConnFacts DEF IInv, Types, CloseWs, Conns
<1>2. Kept(Shut(closer))
  BY <1>1, ConnFacts, KeptShut DEF IInv, Shut
<1>3. Kept(conn') /\ session' \in {"none", "open", "closed"}
  BY <1>1, <1>2, KeptSession DEF IInv
<1>4. closer' \in 0 .. Len(conn)
  BY <1>1, ConnFacts DEF IInv
<1> QED BY <1>3, <1>4, OthersKeep DEF IInv, Types, CloseWs, tokenVars, serverVars

(* The orchestrator sends a message.                                       *)
LEMMA SendInv ==
  ASSUME IInv, NEW c \in Conns, Send(c)
  PROVE  IInv'
<1>1. conn[c] \in ConnType /\ sent \in 0 .. Len(Text) /\ Len(Text) \in Nat
  BY ConnFacts DEF IInv, Types
<1>2. sent' = sent + 1 /\ sent' \in 1 .. Len(Text) /\ conn' = [conn EXCEPT ![c].inbox = Append(@, sent + 1)]
  BY <1>1 DEF Send
<1>3. PICK q : q = Append(conn[c].inbox, sent + 1)
  OBVIOUS
<1>4. q \in Seq(1 .. Len(Text))
  BY <1>1, <1>2, <1>3 DEF ConnType
<1>5. conn' = [conn EXCEPT ![c].inbox = q]
  BY <1>2, <1>3
<1>6. Kept(conn')
  BY <1>4, <1>5, KeptInbox DEF IInv
<1> QED BY <1>2, <1>6, OthersKeep DEF IInv, Types, Send, sessionVars, tokenVars

(* The orchestrator closes the socket or the network drops it.             *)
LEMMA HangUpInv ==
  ASSUME IInv, NEW c \in Conns, HangUp(c)
  PROVE  IInv'
<1>1. PICK n \in 0 .. Len(conn[c].inbox), m \in 0 .. Len(conn[c].outbox) :
        conn' = [conn EXCEPT ![c].up = FALSE, ![c].inbox = SubSeq(@, 1, n),
                             ![c].outbox = SubSeq(@, 1, m)]
  BY DEF HangUp
<1>2. /\ conn[c] \in ConnType /\ conn \in Seq(ConnType) /\ Len(conn) \in Nat /\ Conns = 1 .. Len(conn)
      /\ \A d \in Conns : conn[d] \in ConnType
  BY ConnFacts DEF IInv, Conns
<1>3. PICK p, q : p = SubSeq(conn[c].inbox, 1, n) /\ q = SubSeq(conn[c].outbox, 1, m)
  OBVIOUS
<1>4. /\ p \in Seq(1 .. Len(Text)) /\ q \in Seq(Emits)
      /\ Len(q) <= Len(conn[c].outbox) /\ \A i \in 1 .. Len(q) : q[i] = conn[c].outbox[i]
  <2>1. PICK b, o : b = conn[c].inbox /\ o = conn[c].outbox
    OBVIOUS
  <2>2. b \in Seq(1 .. Len(Text)) /\ o \in Seq(Emits) /\ n \in 0 .. Len(b) /\ m \in 0 .. Len(o)
    BY <1>2, <2>1 DEF ConnType
  <2>3. p = SubSeq(b, 1, n) /\ q = SubSeq(o, 1, m)
    BY <1>3, <2>1
  <2>4. p \in Seq(1 .. Len(Text))
    BY <2>2, <2>3
  <2>5. q \in Seq(Emits) /\ Len(q) = m /\ \A i \in 1 .. m : q[i] = o[i]
    BY <2>2, <2>3
  <2> QED BY <2>1, <2>2, <2>4, <2>5
<1>5. PICK r : r = [conn[c] EXCEPT !.up = FALSE, !.inbox = p, !.outbox = q]
  OBVIOUS
<1>6. r \in ConnType /\ r.outbox = q /\ r.client = conn[c].client
  BY <1>2, <1>4, <1>5 DEF ConnType
<1>7. conn' = [conn EXCEPT ![c] = r]
  BY <1>1, <1>2, <1>3, <1>5
<1>8. /\ conn' \in Seq(ConnType) /\ Len(conn') = Len(conn) /\ Conns' = Conns /\ conn'[c] = r
      /\ \A d \in Conns : d # c => conn'[d] = conn[d]
  BY <1>2, <1>6, <1>7 DEF Conns
<1>9. Types'
  BY <1>8 DEF IInv, Types, HangUp, sessionVars, tokenVars, serverVars
<1>10. NoOrphanSocket'
  <2>1. \A d \in Conns : conn'[d].client = conn[d].client
    BY <1>6, <1>8
  <2> QED BY <1>8, <2>1 DEF IInv, NoOrphanSocket, HangUp
<1>11. \A d \in Conns : /\ Len(conn'[d].outbox) \in Nat
                        /\ Len(conn'[d].outbox) <= Len(conn[d].outbox)
                        /\ \A i \in 1 .. Len(conn'[d].outbox) :
                             conn'[d].outbox[i] = conn[d].outbox[i]
  <2>1. ASSUME NEW d \in Conns, d # c PROVE conn'[d] = conn[d] /\ Len(conn[d].outbox) \in Nat
    BY <1>2, <1>8, <2>1 DEF ConnType
  <2>2. conn'[c].outbox = q /\ Len(q) \in Nat
    BY <1>4, <1>6, <1>8
  <2>3. ASSUME NEW d \in Conns
        PROVE  /\ Len(conn'[d].outbox) \in Nat /\ Len(conn'[d].outbox) <= Len(conn[d].outbox)
               /\ \A i \in 1 .. Len(conn'[d].outbox) :
                    conn'[d].outbox[i] = conn[d].outbox[i]
    <3>1. CASE d = c
      BY <1>4, <2>2, <3>1
    <3>2. CASE d # c
      BY <2>1, <3>2
    <3> QED BY <3>1, <3>2
  <2> QED BY <2>3
<1>12. \A d \in 1 .. Len(conn') : d \in Conns
  BY <1>2, <1>8
<1> QED BY <1>2, <1>8, <1>9, <1>10, <1>11, <1>12, EventsKept DEF IInv, HangUp, serverVars

-----------------------------------------------------------------------------
(* The events on their way.                                                *)

(* What waits on a connection are events that were written.                *)
LEMMA FrameFacts ==
  ASSUME IInv
  PROVE  /\ \A c \in Conns : /\ conn[c].outbox \in Seq(Emits) /\ Len(conn[c].outbox) \in Nat
                             /\ \A i \in 1 .. Len(conn[c].outbox) : conn[c].outbox[i] \in Emits
         /\ \A e \in Emits : InFlight(e) => emit[e].written
         /\ \A e \in Emits : handled[e] + Waits(e) <= Written(e) + Posted(e)
         /\ \A e \in Emits : handled[e] \in Nat /\ emit[e] \in EmitType
<1>1. ASSUME NEW c \in Conns
      PROVE  /\ conn[c].outbox \in Seq(Emits) /\ Len(conn[c].outbox) \in Nat
             /\ \A i \in 1 .. Len(conn[c].outbox) : conn[c].outbox[i] \in Emits
  <2>1. PICK q : q = conn[c].outbox
    OBVIOUS
  <2>2. q \in Seq(Emits)
    BY <2>1, ConnFacts DEF IInv, ConnType
  <2> QED BY <2>1, <2>2
<1>2. \A e \in Emits : InFlight(e) => emit[e].written
  BY DEF IInv, FramesUnique, InFlight
<1> QED BY <1>1, <1>2 DEF IInv, Deliveries, Types

(* What is said of one event once its emit_event has come to r, when it    *)
(* was delivered n times.                                                  *)
WrittenIn(r) == IF r.written THEN 1 ELSE 0
PostedIn(r)  == IF r.pc = "done" /\ (r.raised \/ ~r.written) THEN 1 ELSE 0

Sound(r, n) ==
  /\ r.pc = "idle" => ~r.written /\ ~r.raised
  /\ r.pc = "draining" => r.written /\ ~r.raised /\ r.c \in Conns
  /\ r.pc = "http" /\ r.written => r.raised
  /\ r.pc = "done" /\ r.result => (r.written /\ ~r.raised) \/ n > 0

(* What the invariant says of one event.                                   *)
LEMMA SoundFacts ==
  ASSUME IInv, NEW e \in Emits
  PROVE  Sound(emit[e], handled[e])
BY DEF IInv, Progressed, TrueMeansSent, Sound

(* A step of emit_event that writes nothing to the socket.                 *)
LEMMA EmitStep ==
  ASSUME IInv, NEW e \in Emits, NEW r \in EmitType, NEW n \in Nat,
         emit' = [emit EXCEPT ![e] = r], handled' = [handled EXCEPT ![e] = n],
         UNCHANGED <<sessionVars, tokenVars, ws, conn, listener, closer, sent, failures, yielded>>,
         emit[e].written => r.written /\ r.c = emit[e].c,
         n + Waits(e) <= WrittenIn(r) + PostedIn(r),
         Sound(r, n)
  PROVE  IInv'
<1>1. /\ emit \in [Emits -> EmitType] /\ handled \in [Emits -> Nat]
      /\ emit'[e] = r /\ handled'[e] = n
      /\ \A f \in Emits : f # e => emit'[f] = emit[f] /\ handled'[f] = handled[f]
  BY DEF IInv, Types
<1>2. Types'
  BY <1>1 DEF IInv, Types, sessionVars, tokenVars, Conns
<1>3. NoOrphanSocket'
  BY DEF IInv, NoOrphanSocket, Conns
<1>4. FramesUnique'
  <2>1. ASSUME NEW c \in Conns, NEW i \in 1 .. Len(conn[c].outbox)
        PROVE  emit'[conn[c].outbox[i]].c = c /\ emit'[conn[c].outbox[i]].written
    <3>1. /\ emit[conn[c].outbox[i]].c = c /\ emit[conn[c].outbox[i]].written
          /\ conn[c].outbox[i] \in Emits
      BY FrameFacts DEF IInv, FramesUnique
    <3> QED BY <1>1, <3>1
  <2> QED BY <2>1 DEF IInv, FramesUnique, Conns
<1>5. \A f \in Emits : Waits(f)' = Waits(f)
  BY DEF Waits, InFlight, Conns
<1>6. Deliveries'
  <2>1. ASSUME NEW f \in Emits
        PROVE  handled'[f] + Waits(f) <= Written(f)' + Posted(f)'
    <3>1. CASE f = e
      BY <1>1, <3>1 DEF Written, Posted, WrittenIn, PostedIn
    <3>2. CASE f # e
      BY <1>1, <3>2 DEF IInv, Deliveries, Written, Posted
    <3> QED BY <3>1, <3>2
  <2> QED BY <1>5, <2>1 DEF Deliveries
<1>7. Progressed' /\ TrueMeansSent'
  BY <1>1 DEF IInv, Progressed, TrueMeansSent, Sound, Conns
<1> QED BY <1>2, <1>3, <1>4, <1>6, <1>7 DEF IInv

(* emit_event is called.                                                   *)
LEMMA EmitInv ==
  ASSUME IInv, NEW e \in Emits, Emit(e)
  PROVE  IInv'
<1>1. /\ emit[e].pc = "idle" /\ ~emit[e].written /\ ~emit[e].raised
      /\ emit[e] \in EmitType /\ emit \in [Emits -> EmitType]
      /\ handled \in [Emits -> Nat]
      /\ UNCHANGED <<sessionVars, tokenVars, ws, listener, closer, serverVars, yielded>>
  BY DEF IInv, Types, Progressed, Emit
<1>2. handled[e] = 0 /\ ~InFlight(e) /\ Waits(e) = 0
  <2>1. ~InFlight(e)
    BY <1>1, FrameFacts
  <2>2. Written(e) = 0 /\ Posted(e) = 0 /\ Waits(e) = 0
    BY <1>1, <2>1 DEF Written, Posted, Waits
  <2> QED BY <1>1, <2>1, <2>2, FrameFacts
<1>3. handled' = [handled EXCEPT ![e] = 0]
  BY <1>1, <1>2 DEF serverVars
<1>4. CASE emit' = [emit EXCEPT ![e].pc = "http", ![e].raised = TRUE] /\ UNCHANGED conn
  <2>1. PICK r : r = [emit[e] EXCEPT !.pc = "http", !.raised = TRUE]
    OBVIOUS
  <2>2. r \in EmitType /\ r.pc = "http" /\ r.written = FALSE
    BY <1>1, <2>1 DEF EmitType
  <2>3. emit' = [emit EXCEPT ![e] = r]
    BY <1>1, <1>4, <2>1
  <2>4. Sound(r, 0) /\ 0 + Waits(e) <= WrittenIn(r) + PostedIn(r)
    BY <1>2, <2>2 DEF Sound, WrittenIn, PostedIn
  <2> QED BY <1>1, <1>3, <1>4, <2>2, <2>3, <2>4, EmitStep DEF serverVars
<1>5. CASE emit' = [emit EXCEPT ![e].pc = "http"] /\ UNCHANGED conn
  <2>1. PICK r : r = [emit[e] EXCEPT !.pc = "http"]
    OBVIOUS
  <2>2. r \in EmitType /\ r.pc = "http" /\ r.written = FALSE
    BY <1>1, <2>1 DEF EmitType
  <2>3. emit' = [emit EXCEPT ![e] = r]
    BY <1>1, <1>5, <2>1
  <2>4. Sound(r, 0) /\ 0 + Waits(e) <= WrittenIn(r) + PostedIn(r)
    BY <1>2, <2>2 DEF Sound, WrittenIn, PostedIn
  <2> QED BY <1>1, <1>3, <1>5, <2>2, <2>3, <2>4, EmitStep DEF serverVars
<1>6. CASE /\ SocketOpen
           /\ emit' = [emit EXCEPT ![e].pc = "draining", ![e].c = ws, ![e].written = TRUE]
           /\ conn' = IF conn[ws].up THEN [conn EXCEPT ![ws].outbox = Append(@, e)] ELSE conn
  <2>0. /\ ws \in Conns /\ conn[ws] \in ConnType /\ ws \in 0 .. MaxConns
        /\ conn \in Seq(ConnType) /\ Len(conn) \in Nat /\ Conns = 1 .. Len(conn)
    BY <1>6, ConnFacts DEF IInv, Types, SocketOpen, Conns
  <2>1. PICK r : r = [emit[e] EXCEPT !.pc = "draining", !.c = ws, !.written = TRUE]
    OBVIOUS
  <2>2. r \in EmitType /\ r.pc = "draining" /\ r.written = TRUE /\ r.raised = FALSE /\ r.c = ws
    BY <1>1, <2>0, <2>1 DEF EmitType
  <2>3. emit' = [emit EXCEPT ![e] = r]
    BY <1>1, <1>6, <2>1
  <2>4. Sound(r, 0) /\ WrittenIn(r) = 1 /\ PostedIn(r) = 0
    BY <2>0, <2>2 DEF Sound, WrittenIn, PostedIn
  <2>5. CASE conn' = conn
    <3>1. 0 + Waits(e) <= WrittenIn(r) + PostedIn(r)
      BY <1>2, <2>4
    <3>2. /\ emit[e].written => r.written /\ r.c = emit[e].c
          /\ UNCHANGED <<sessionVars, tokenVars, ws, conn, listener, closer, sent, failures, yielded>>
      BY <1>1, <2>5 DEF serverVars
    <3>3. r \in EmitType /\ Sound(r, 0) /\ 0 \in Nat
      BY <2>2, <2>4
    <3> QED BY <1>3, <2>3, <3>1, <3>2, <3>3, EmitStep
  <2>6. CASE conn' = [conn EXCEPT ![ws].outbox = Append(@, e)]
    <3>1. PICK o, q : o = conn[ws].outbox /\ q = Append(o, e)
      OBVIOUS
    <3>2. /\ o \in Seq(Emits) /\ q \in Seq(Emits) /\ Len(o) \in Nat /\ Len(q) = Len(o) + 1
          /\ q[Len(o) + 1] = e /\ \A i \in 1 .. Len(o) : q[i] = o[i]
      BY <2>0, <3>1 DEF ConnType
    <3>3. PICK k : k = [conn[ws] EXCEPT !.outbox = q]
      OBVIOUS
    <3>4. k \in ConnType /\ k.outbox = q /\ k.client = conn[ws].client
      BY <2>0, <3>2, <3>3 DEF ConnType
    <3>5. conn' = [conn EXCEPT ![ws] = k]
      BY <2>0, <2>6, <3>1, <3>3
    <3>6. /\ conn' \in Seq(ConnType) /\ Len(conn') = Len(conn) /\ Conns' = Conns /\ conn'[ws] = k
          /\ \A c \in Conns : c # ws => conn'[c] = conn[c]
      BY <2>0, <3>4, <3>5 DEF Conns
    <3>7. /\ emit'[e] = r
          /\ \A f \in Emits : f # e => emit'[f] = emit[f]
      BY <1>1, <2>3
    <3>8. Types'
      BY <1>1, <2>2, <2>3, <3>6 DEF IInv, Types, sessionVars, tokenVars, serverVars
    <3>9. NoOrphanSocket'
      <4>1. \A c \in Conns : conn'[c].client = conn[c].client
        BY <3>4, <3>6
      <4> QED BY <1>1, <3>6, <4>1 DEF IInv, NoOrphanSocket
    <3>10. \A i \in 1 .. Len(o) : o[i] # e
      BY <1>2, <2>0, <3>1 DEF InFlight
    <3>11. ASSUME NEW i \in 1 .. Len(q) PROVE (i \in 1 .. Len(o) /\ q[i] = o[i]) \/ (i = Len(o) + 1 /\ q[i] = e)
      BY <3>2
    <3>12. FramesUnique'
      <4>1. ASSUME NEW c \in Conns, NEW i \in 1 .. Len(conn'[c].outbox)
            PROVE  emit'[conn'[c].outbox[i]].c = c /\ emit'[conn'[c].outbox[i]].written
        <5>1. CASE c # ws \/ i \in 1 .. Len(o)
          <6>1. i \in 1 .. Len(conn[c].outbox) /\ conn'[c].outbox[i] = conn[c].outbox[i]
            BY <3>1, <3>2, <3>4, <3>6, <5>1
          <6>2. conn[c].outbox[i] \in Emits /\ conn[c].outbox[i] # e
            BY <1>2, <6>1, FrameFacts DEF InFlight
          <6>3. emit[conn[c].outbox[i]].c = c /\ emit[conn[c].outbox[i]].written
            BY <6>1 DEF IInv, FramesUnique
          <6> QED BY <3>7, <6>1, <6>2, <6>3
        <5>2. CASE c = ws /\ i \notin 1 .. Len(o)
          <6>1. conn'[c].outbox[i] = e
            BY <3>4, <3>6, <3>11, <5>2
          <6> QED BY <2>2, <3>7, <5>2, <6>1
        <5> QED BY <5>1, <5>2
      <4>2. ASSUME NEW c \in Conns, NEW i \in 1 .. Len(conn'[c].outbox),
                   NEW j \in 1 .. Len(conn'[c].outbox), conn'[c].outbox[i] = conn'[c].outbox[j]
            PROVE  i = j
        <5>1. CASE c # ws
          <6>1. conn'[c] = conn[c]
            BY <3>6, <5>1
          <6> QED BY <4>2, <6>1 DEF IInv, FramesUnique
        <5>2. CASE c = ws
          <6>1. conn'[c].outbox = q /\ i \in 1 .. Len(q) /\ j \in 1 .. Len(q) /\ q[i] = q[j]
            BY <3>4, <3>6, <4>2, <5>2
          <6>2. \A x, y \in 1 .. Len(o) : o[x] = o[y] => x = y
            BY <2>0, <3>1 DEF IInv, FramesUnique
          <6> QED BY <3>10, <3>11, <6>1, <6>2
        <5> QED BY <5>1, <5>2
      <4> QED BY <3>6, <4>1, <4>2 DEF FramesUnique
    <3>13. ASSUME NEW f \in Emits, f # e PROVE Waits(f)' <= Waits(f) /\ Waits(f)' \in 0 .. 1 /\ Waits(f) \in 0 .. 1
      <4>1. ASSUME InFlight(f)' PROVE InFlight(f)
        <5>0. PICK c \in Conns : \E i \in 1 .. Len(conn'[c].outbox) : conn'[c].outbox[i] = f
          BY <3>6, <4>1 DEF InFlight
        <5>1. PICK i \in 1 .. Len(conn'[c].outbox) : conn'[c].outbox[i] = f
          BY <5>0
        <5>2. CASE c # ws
          <6>1. conn'[c] = conn[c]
            BY <3>6, <5>2
          <6> QED BY <5>1, <6>1 DEF InFlight
        <5>3. CASE c = ws
          <6>1. i \in 1 .. Len(o) /\ o[i] = f
            BY <3>4, <3>6, <3>11, <3>13, <5>1, <5>3
          <6> QED BY <2>0, <3>1, <6>1 DEF InFlight
        <5> QED BY <5>2, <5>3
      <4> QED BY <4>1 DEF Waits
    <3>14. Deliveries'
      <4>1. ASSUME NEW f \in Emits
            PROVE  handled[f] + Waits(f)' <= Written(f)' + Posted(f)'
        <5>1. CASE f = e
          <6>1. Written(f)' = 1 /\ Posted(f)' = 0 /\ Waits(f)' \in 0 .. 1 /\ handled[f] = 0
            BY <1>2, <2>2, <3>7, <5>1 DEF Written, Posted, Waits
          <6> QED BY <6>1
        <5>2. CASE f # e
          <6>1. Written(f)' = Written(f) /\ Posted(f)' = Posted(f) /\ Written(f) \in Nat /\ Posted(f) \in Nat
            BY <3>7, <5>2 DEF Written, Posted
          <6> QED BY <3>13, <5>2, <6>1, FrameFacts
        <5> QED BY <5>1, <5>2
      <4> QED BY <1>1, <4>1 DEF Deliveries, serverVars
    <3>15. Progressed' /\ TrueMeansSent'
      BY <1>1, <2>4, <3>6, <3>7 DEF IInv, Progressed, TrueMeansSent, Sound, serverVars
    <3> QED BY <3>8, <3>9, <3>12, <3>14, <3>15 DEF IInv
  <2> QED BY <1>6, <2>5, <2>6
<1> QED BY <1>4, <1>5, <1>6 DEF Emit

(* send_json has waited for the buffer.                                    *)
LEMMA DrainedInv ==
  ASSUME IInv, NEW e \in Emits, Drained(e)
  PROVE  IInv'
<1>1. /\ emit[e].pc = "draining" /\ emit[e].written /\ ~emit[e].raised
      /\ emit[e] \in EmitType /\ emit \in [Emits -> EmitType]
      /\ handled \in [Emits -> Nat] /\ handled[e] \in Nat
      /\ UNCHANGED <<sessionVars, tokenVars, ws, conn, listener, closer, serverVars, yielded>>
  BY DEF IInv, Types, Progressed, Drained
<1>2. handled[e] + Waits(e) <= 1 /\ Waits(e) \in 0 .. 1
  <2>1. Written(e) = 1 /\ Posted(e) = 0
    BY <1>1 DEF Written, Posted
  <2> QED BY <2>1, FrameFacts DEF Waits
<1>3. handled' = [handled EXCEPT ![e] = handled[e]]
  BY <1>1 DEF serverVars
<1>4. CASE AfterSend(e)
  <2>1. PICK r : r = [emit[e] EXCEPT !.pc = "done", !.result = TRUE]
    OBVIOUS
  <2>2. r \in EmitType /\ r.pc = "done" /\ r.written /\ ~r.raised /\ r.c = emit[e].c
    BY <1>1, <2>1 DEF EmitType
  <2>3. emit' = [emit EXCEPT ![e] = r]
    BY <1>1, <1>4, <2>1 DEF AfterSend, EmitReturns
  <2>4. Sound(r, handled[e]) /\ WrittenIn(r) = 1 /\ PostedIn(r) = 0
    BY <2>2 DEF Sound, WrittenIn, PostedIn
  <2>5. handled[e] + Waits(e) <= WrittenIn(r) + PostedIn(r)
    BY <1>2, <2>4
  <2> QED BY <1>1, <1>3, <2>2, <2>3, <2>4, <2>5, EmitStep DEF serverVars
<1>5. CASE AfterRaise(e)
  <2>1. PICK r : r = [emit[e] EXCEPT !.pc = "http", !.raised = TRUE]
    OBVIOUS
  <2>2. r \in EmitType /\ r.pc = "http" /\ r.written /\ r.raised /\ r.c = emit[e].c
    BY <1>1, <2>1 DEF EmitType
  <2>3. emit' = [emit EXCEPT ![e] = r]
    BY <1>1, <1>5, <2>1 DEF AfterRaise
  <2>4. Sound(r, handled[e]) /\ WrittenIn(r) = 1 /\ PostedIn(r) = 0
    BY <2>2 DEF Sound, WrittenIn, PostedIn
  <2>5. handled[e] + Waits(e) <= WrittenIn(r) + PostedIn(r)
    BY <1>2, <2>4
  <2> QED BY <1>1, <1>3, <2>2, <2>3, <2>4, <2>5, EmitStep DEF serverVars
<1> QED BY <1>4, <1>5 DEF Drained

(* The HTTP request.                                                       *)
LEMMA PostEventInv ==
  ASSUME IInv, NEW e \in Emits, PostEvent(e)
  PROVE  IInv'
<1>1. /\ emit[e].pc = "http"
      /\ emit[e].written => emit[e].raised
      /\ emit[e] \in EmitType /\ emit \in [Emits -> EmitType]
      /\ handled \in [Emits -> Nat] /\ handled[e] \in Nat
      /\ UNCHANGED <<sessionVars, tokenVars, ws, conn, listener, closer, sent, failures, yielded>>
  BY DEF IInv, Types, Progressed, PostEvent
<1>2. PICK reached, answered \in BOOLEAN : Post(e, reached, answered)
  BY DEF PostEvent
<1>3. PICK n : n = IF reached THEN handled[e] + 1 ELSE handled[e]
  OBVIOUS
<1>4. n \in Nat /\ n <= handled[e] + 1 /\ handled' = [handled EXCEPT ![e] = n] /\ (reached => n > 0)
  <2>1. CASE reached
    <3>1. n = handled[e] + 1 /\ handled' = [handled EXCEPT ![e] = handled[e] + 1]
      BY <1>2, <1>3, <2>1 DEF Post
    <3> QED BY <1>1, <3>1
  <2>2. CASE ~reached
    <3>1. n = handled[e] /\ handled' = handled
      BY <1>2, <1>3, <2>2 DEF Post
    <3> QED BY <1>1, <2>2, <3>1
  <2> QED BY <2>1, <2>2
<1>5. PICK r : r = [emit[e] EXCEPT !.pc = "done", !.result = (reached /\ answered)]
  OBVIOUS
<1>6. /\ r \in EmitType /\ r.pc = "done" /\ r.written = emit[e].written /\ r.raised = emit[e].raised
      /\ r.c = emit[e].c /\ (r.result => reached)
  BY <1>1, <1>5 DEF EmitType
<1>7. emit' = [emit EXCEPT ![e] = r]
  BY <1>1, <1>2, <1>5 DEF Post, EmitReturns
<1>8. Sound(r, n)
  BY <1>4, <1>6 DEF Sound
<1>9. n + Waits(e) <= WrittenIn(r) + PostedIn(r)
  <2>1. /\ Written(e) = WrittenIn(r) /\ Posted(e) = 0 /\ PostedIn(r) = 1
        /\ WrittenIn(r) \in 0 .. 1 /\ Waits(e) \in 0 .. 1
    BY <1>1, <1>6 DEF Written, Posted, WrittenIn, PostedIn, Waits, EmitType
  <2>2. handled[e] + Waits(e) <= Written(e) + Posted(e)
    BY FrameFacts
  <2> QED BY <1>1, <1>4, <2>1, <2>2
<1> QED BY <1>1, <1>4, <1>6, <1>7, <1>8, <1>9, EmitStep

(* The orchestrator reads a frame: it was the only one of its event.       *)
LEMMA GetEventInv ==
  ASSUME IInv, NEW c \in Conns, GetEvent(c)
  PROVE  IInv'
<1>1. PICK o : o = conn[c].outbox
  OBVIOUS
<1>2. /\ o # <<>> /\ o \in Seq(Emits) /\ Len(o) \in Nat
      /\ conn[c] \in ConnType /\ conn \in Seq(ConnType) /\ Len(conn) \in Nat /\ Conns = 1 .. Len(conn)
      /\ \A d \in Conns : conn[d] \in ConnType
  BY <1>1, ConnFacts, FrameFacts DEF IInv, GetEvent, Conns
<1>3. PICK e, q : e = Head(o) /\ q = Tail(o)
  OBVIOUS
<1>4. /\ e \in Emits /\ q \in Seq(Emits) /\ Len(q) = Len(o) - 1 /\ Len(q) \in Nat
      /\ o[1] = e /\ 1 \in 1 .. Len(o) /\ \A i \in 1 .. Len(q) : q[i] = o[i + 1] /\ i + 1 \in 1 .. Len(o)
  <2>1. Len(o) > 0 /\ 1 \in 1 .. Len(o)
    BY <1>2
  <2>2. e \in Emits /\ o[1] = e
    BY <1>2, <1>3, <2>1
  <2>3. q \in Seq(Emits) /\ Len(q) = Len(o) - 1 /\ Len(q) \in Nat
    BY <1>2, <1>3, <2>1
  <2>4. \A i \in 1 .. Len(q) : q[i] = o[i + 1] /\ i + 1 \in 1 .. Len(o)
    BY <1>2, <1>3, <2>1, <2>3
  <2> QED BY <2>1, <2>2, <2>3, <2>4
<1>5. /\ emit' = emit /\ handled' = [handled EXCEPT ![e] = handled[e] + 1]
      /\ UNCHANGED <<sessionVars, tokenVars, ws, listener, closer, sent, failures, yielded>>
  BY <1>1, <1>3 DEF GetEvent
<1>6. PICK k : k = [conn[c] EXCEPT !.outbox = q]
  OBVIOUS
<1>7. k \in ConnType /\ k.outbox = q /\ k.client = conn[c].client
  BY <1>2, <1>4, <1>6 DEF ConnType
<1>8. conn' = [conn EXCEPT ![c] = k]
  BY <1>1, <1>2, <1>3, <1>6 DEF GetEvent
<1>9. /\ conn' \in Seq(ConnType) /\ Len(conn') = Len(conn) /\ Conns' = Conns /\ conn'[c] = k
      /\ \A d \in Conns : d # c => conn'[d] = conn[d]
  BY <1>2, <1>7, <1>8 DEF Conns
<1>10. /\ handled \in [Emits -> Nat] /\ handled' \in [Emits -> Nat] /\ handled'[e] = handled[e] + 1
       /\ \A f \in Emits : f # e => handled'[f] = handled[f]
  BY <1>4, <1>5 DEF IInv, Types
<1>11. Types'
  BY <1>5, <1>9, <1>10 DEF IInv, Types, sessionVars, tokenVars
<1>12. NoOrphanSocket'
  <2>1. \A d \in Conns : conn'[d].client = conn[d].client
    BY <1>7, <1>9
  <2> QED BY <1>5, <1>9, <2>1 DEF IInv, NoOrphanSocket
<1>13. ASSUME NEW d \in Conns, NEW i \in 1 .. Len(conn'[d].outbox)
       PROVE  \E j \in 1 .. Len(conn[d].outbox) :
                conn'[d].outbox[i] = conn[d].outbox[j] /\ j = IF d = c THEN i + 1 ELSE i
  <2>1. CASE d = c
    BY <1>1, <1>4, <1>7, <1>9, <2>1
  <2>2. CASE d # c
    BY <1>9, <2>2
  <2> QED BY <2>1, <2>2
<1>14. FramesUnique'
  <2>1. ASSUME NEW d \in Conns, NEW i \in 1 .. Len(conn'[d].outbox)
        PROVE  emit[conn'[d].outbox[i]].c = d /\ emit[conn'[d].outbox[i]].written
    <3>1. PICK j \in 1 .. Len(conn[d].outbox) : conn'[d].outbox[i] = conn[d].outbox[j]
      BY <1>13
    <3>2. emit[conn[d].outbox[j]].c = d /\ emit[conn[d].outbox[j]].written
      BY DEF IInv, FramesUnique
    <3> QED BY <3>1, <3>2
  <2>2. ASSUME NEW d \in Conns, NEW i \in 1 .. Len(conn'[d].outbox),
               NEW j \in 1 .. Len(conn'[d].outbox), conn'[d].outbox[i] = conn'[d].outbox[j]
        PROVE  i = j
    <3>1. PICK x \in 1 .. Len(conn[d].outbox) :
            conn'[d].outbox[i] = conn[d].outbox[x] /\ x = IF d = c THEN i + 1 ELSE i
      BY <1>13
    <3>2. PICK y \in 1 .. Len(conn[d].outbox) :
            conn'[d].outbox[j] = conn[d].outbox[y] /\ y = IF d = c THEN j + 1 ELSE j
      BY <1>13
    <3>3. x = y
      <4>1. conn[d].outbox[x] = conn[d].outbox[y]
        BY <2>2, <3>1, <3>2
      <4> QED BY <4>1 DEF IInv, FramesUnique
    <3>4. i \in Int /\ j \in Int
      <4>1. Len(conn'[d].outbox) \in Nat
        BY <1>4, <1>7, <1>9, FrameFacts
      <4> QED BY <4>1
    <3> QED BY <3>1, <3>2, <3>3, <3>4
  <2> QED BY <1>5, <1>9, <2>1, <2>2 DEF FramesUnique
<1>15. ASSUME NEW f \in Emits, InFlight(f)' PROVE InFlight(f)
  <2>1. PICK d \in Conns : \E i \in 1 .. Len(conn'[d].outbox) : conn'[d].outbox[i] = f
    BY <1>9, <1>15 DEF InFlight
  <2> QED BY <1>13, <2>1 DEF InFlight
<1>16. InFlight(e) /\ ~InFlight(e)'
  <2>1. InFlight(e)
    BY <1>1, <1>4 DEF InFlight
  <2>2. ASSUME InFlight(e)' PROVE FALSE
    <3>1. PICK d \in Conns : \E i \in 1 .. Len(conn'[d].outbox) : conn'[d].outbox[i] = e
      BY <1>9, <2>2 DEF InFlight
    <3>2. PICK i \in 1 .. Len(conn'[d].outbox) : conn'[d].outbox[i] = e
      BY <3>1
    <3>3. PICK j \in 1 .. Len(conn[d].outbox) :
            conn'[d].outbox[i] = conn[d].outbox[j] /\ j = IF d = c THEN i + 1 ELSE i
      BY <1>13
    <3>4. emit[e].c = d /\ emit[e].c = c
      BY <1>1, <1>4, <3>2, <3>3 DEF IInv, FramesUnique
    <3>5. j = 1
      BY <1>1, <1>4, <3>2, <3>3, <3>4 DEF IInv, FramesUnique
    <3>6. i \in Nat \ {0}
      BY <1>4, <1>7, <1>9, <3>4
    <3> QED BY <3>3, <3>4, <3>5, <3>6
  <2> QED BY <2>1, <2>2
<1>17. Deliveries'
  <2>1. ASSUME NEW f \in Emits
        PROVE  handled'[f] + Waits(f)' <= Written(f) + Posted(f)
    <3>1. handled[f] + Waits(f) <= Written(f) + Posted(f) /\ handled[f] \in Nat
      BY FrameFacts
    <3>2. Written(f) \in Nat /\ Posted(f) \in Nat
      BY DEF Written, Posted
    <3>3. CASE f = e
      <4>1. Waits(f) = 1 /\ Waits(f)' = 0
        BY <1>16, <3>3 DEF Waits
      <4> QED BY <1>10, <3>1, <3>2, <3>3, <4>1
    <3>4. CASE f # e
      <4>1. Waits(f)' <= Waits(f) /\ Waits(f) \in 0 .. 1 /\ Waits(f)' \in 0 .. 1
        BY <1>15 DEF Waits
      <4> QED BY <1>10, <3>1, <3>2, <3>4, <4>1
    <3> QED BY <3>3, <3>4
  <2> QED BY <1>5, <2>1 DEF Deliveries, Written, Posted
<1>18. Progressed' /\ TrueMeansSent'
  <2>1. \A f \in Emits : handled[f] > 0 => handled'[f] > 0
    BY <1>10
  <2> QED BY <1>5, <1>9, <2>1 DEF IInv, Progressed, TrueMeansSent
<1> QED BY <1>11, <1>12, <1>14, <1>17, <1>18 DEF IInv

-----------------------------------------------------------------------------
(* The whole channel.                                                      *)

LEMMA InitInv == Init => IInv
<1> SUFFICES ASSUME Init PROVE IInv
  OBVIOUS
<1>1. Len(conn) = 0 /\ Conns = {} /\ conn \in Seq(ConnType)
  BY DEF Init, Conns
<1>2. [pc |-> "off", c |-> 0] \in ListenerType
  BY ChannelAssumption DEF ListenerType
<1>3. [pc |-> "idle", c |-> 0, written |-> FALSE, raised |-> FALSE, result |-> FALSE] \in EmitType
  BY ChannelAssumption DEF EmitType
<1>4. Types
  <2>1. Len(Text) \in Nat
    BY ChannelAssumption
  <2>2. /\ listener \in [Listeners -> ListenerType]
        /\ \A l \in Listeners : listener[l].pc \notin Holding
    BY <1>2 DEF Init, Holding
  <2>3. /\ emit \in [Emits -> EmitType] /\ handled \in [Emits -> Nat]
        /\ yielded \in [Listeners -> SUBSET (1 .. Len(Text))]
    BY <1>3 DEF Init
  <2>4. /\ token \in 0 .. valid /\ valid \in 0 .. MaxExpiries /\ failures \in 0 .. MaxFailures
        /\ ws \in 0 .. Len(conn) /\ closer \in 0 .. Len(conn) /\ Len(conn) <= MaxConns
        /\ sent \in 0 .. Len(Text)
    BY <1>1, <2>1, ChannelAssumption DEF Init
  <2>5. session \in {"none", "open", "closed"} /\ own_session \in BOOLEAN /\ closing \in BOOLEAN
    BY DEF Init
  <2> QED BY <1>1, <2>2, <2>3, <2>4, <2>5 DEF Types
<1>5. ASSUME NEW e \in Emits PROVE handled[e] = 0 /\ ~InFlight(e) /\ emit[e].pc = "idle"
  BY <1>1 DEF Init, InFlight
<1>6. Deliveries
  BY <1>5 DEF Deliveries, Waits, Written, Posted
<1>7. NoOrphanSocket /\ FramesUnique /\ Progressed /\ TrueMeansSent
  BY <1>1 DEF Init, NoOrphanSocket, FramesUnique, Progressed, TrueMeansSent
<1> QED BY <1>4, <1>6, <1>7 DEF IInv

(* Nothing changes.                                                        *)
LEMMA StutterInv ==
  ASSUME IInv, UNCHANGED vars
  PROVE  IInv'
BY ConnFacts, OthersKeep
   DEF IInv, Types, Kept, Conns, vars, sessionVars, tokenVars, serverVars

(* Every step preserves the invariant.                                     *)
LEMMA NextInv == IInv /\ [Next]_vars => IInv'
<1> SUFFICES ASSUME IInv, [Next]_vars PROVE IInv'
  OBVIOUS
<1>1. CASE UNCHANGED vars
  BY <1>1, StutterInv
<1>2. CASE Connect \/ Close \/ CloseWs \/ RefreshToken \/ Expire
  BY <1>2, ConnectInv, CloseInv, CloseWsInv, TokensInv
<1>3. ASSUME NEW l \in Listeners, Listen(l) \/ ListenerStep(l) \/ Cancel(l)
      PROVE  IInv'
  BY <1>3, ListenInv, ConnectedInv, ConnectFailedInv, ReceiveInv, EndOfStreamInv, ResumeInv,
     LeftInv, WakeInv, CancelInv DEF ListenerStep
<1>4. ASSUME NEW e \in Emits, Emit(e) \/ Drained(e) \/ PostEvent(e)
      PROVE  IInv'
  BY <1>4, EmitInv, DrainedInv, PostEventInv
<1>5. ASSUME NEW c \in Conns, Send(c) \/ GetEvent(c) \/ HangUp(c)
      PROVE  IInv'
  BY <1>5, SendInv, GetEventInv, HangUpInv
<1> QED BY <1>1, <1>2, <1>3, <1>4, <1>5 DEF Next

(* What the invariant says of the deliveries of one event.                 *)
LEMMA DeliveryFacts ==
  ASSUME IInv, NEW e \in Emits
  PROVE  /\ handled[e] \in 0 .. 2
         /\ handled[e] > 1 => handled[e] = 2 /\ emit[e].written /\ emit[e].raised
<1>1. handled[e] \in Nat /\ handled[e] + Waits(e) <= Written(e) + Posted(e) /\ emit[e] \in EmitType
  BY FrameFacts
<1>2. Waits(e) \in 0 .. 1 /\ Written(e) \in 0 .. 1 /\ Posted(e) \in 0 .. 1
  BY DEF Waits, Written, Posted
<1>3. handled[e] <= Written(e) + Posted(e) /\ handled[e] \in 0 .. 2
  BY <1>1, <1>2
<1>4. CASE handled[e] > 1
  <2>1. handled[e] = 2 /\ Written(e) = 1 /\ Posted(e) = 1
    BY <1>1, <1>2, <1>3, <1>4
  <2>2. emit[e].written /\ emit[e].raised
    BY <2>1 DEF Written, Posted
  <2> QED BY <1>3, <2>1, <2>2
<1> QED BY <1>3, <1>4

(* The session, the socket, the connections, the listeners and the events  *)
(* keep their types, for any number of them.                               *)
THEOREM TypeCorrect == Spec => []TypeOK
<1>1. IInv => TypeOK
  <2> SUFFICES ASSUME IInv PROVE TypeOK
    OBVIOUS
  <2>1. handled \in [Emits -> 0 .. 2]
    BY DeliveryFacts DEF IInv, Types
  <2> QED BY <2>1 DEF IInv, Types, TypeOK
<1> QED BY <1>1, InitInv, NextInv, PTL DEF Spec

(* However listeners are cancelled, reconnect and are closed under, a      *)
(* socket that is not closed has a listener inside it that will close it.  *)
THEOREM NoSocketIsOrphaned == Spec => []NoOrphanSocket
<1>1. IInv => NoOrphanSocket
  BY DEF IInv
<1> QED BY <1>1, InitInv, NextInv, PTL DEF Spec

(* emit_event delivers an event twice only when send_json raised after     *)
(* writing it, and never more often.                                       *)
THEOREM DuplicatesOnlyAfterError == Spec => []DuplicateOnlyAfterError
<1>1. IInv => DuplicateOnlyAfterError
  BY DeliveryFacts DEF DuplicateOnlyAfterError
<1> QED BY <1>1, InitInv, NextInv, PTL DEF Spec

(* emit_event returns True only for an event it wrote without an error or  *)
(* that the orchestrator has got.                                          *)
THEOREM TrueIsSent == Spec => []TrueMeansSent
<1>1. IInv => TrueMeansSent
  BY DEF IInv
<1> QED BY <1>1, InitInv, NextInv, PTL DEF Spec
=============================================================================
