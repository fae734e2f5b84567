------------------------------- MODULE Session -------------------------------
(***************************************************************************)
(* The life of a connection between two Endpoints (src/rudp.cpp) and what  *)
(* of it outlives the connection: StartConnect, the SYN handshake and its  *)
(* retries, heartbeats, idle timeouts, Disconnect and a process that       *)
(* starts anew, with the reliable transfer of messages on top.  Session    *)
(* ids, sequence numbers, replay filter, queue and reorder buffer are each *)
(* reset by some of these operations and kept by others, while the network *)
(* still holds frames of earlier connections.                              *)
(*                                                                         *)
(* A Tick in which several timers have run out does what Ticks with one    *)
(* each do in the order of its code; there is an action for each timer.    *)
(* send_raw takes every frame (one it refuses is one the network loses),   *)
(* FastRetransmit is a retransmission at another moment, authentication    *)
(* and pacing are off.  Module Transfer has what is left out here.         *)
(* Slip... operators are mistaken variants, for the mutation checks.       *)
(***************************************************************************)
EXTENDS SeqArith, ReplayOps, Sequences, FiniteSets

CONSTANTS
    A, B,                \* the two endpoints
    Active,              \* those whose application calls StartConnect
    SendWindow,          \* cfg_.send_window
    RecvWindow,          \* cfg_.recv_window, below kMaxQueue
    AckBits,             \* width of the selective-ack bitmap, 32
    MaxRetransmits,      \* cfg_.max_retransmits
    MaxConnectRetries,   \* cfg_.max_connect_retries
    NonceBase,           \* NonceBase[n][k]: tx_nonce_counter_ of n's session k
    Prompt,              \* TRUE: see Quiet and Patient
    Traffic,             \* bound: how many messages the nodes may send in all
    MaxPings,            \* bound: heartbeats the endpoints send
    Calls,               \* bound: the kinds of call made besides StartConnect
    MaxCalls,            \* bound: see calls
    MaxFaults            \* bound: frames lost or repeated

Node == {A, B}

ASSUME SessionAssumption ==
    /\ A # B
    /\ Active \subseteq Node
    /\ SendWindow \in Nat \ {0}
    /\ RecvWindow \in Nat \ {0}
    /\ 2 * RecvWindow <= SeqMod
    /\ AckBits \in Nat
    /\ MaxRetransmits \in Nat
    /\ MaxConnectRetries \in Nat
    /\ NonceBase \in [Node -> Seq(Nat)]
    /\ \A n \in Node : Len(NonceBase[n]) > MaxCalls
    /\ Prompt \in BOOLEAN
    /\ Traffic \subseteq [Node -> Nat]
    /\ MaxPings \in Nat
    /\ Calls \subseteq {"disconnect", "restart", "idle"}
    /\ MaxCalls \in Nat
    /\ MaxFaults \in Nat

Peer == [n \in Node |-> IF n = A THEN B ELSE A]

\* A session id is a hash of the time, another one for each session of a node
\* and never 0: here the session's ordinal.
Session == 1 .. MaxCalls + 1

\* A message is named by its ordinal among its node's messages.
Message == UNION {UNION {1 .. t[n] : n \in Node} : t \in Traffic}

VARIABLES
    ep,          \* the Endpoint of each node
    net,         \* frames in flight
    faults,      \* how much of MaxFaults is spent
    pings,       \* how much of MaxPings is spent
    sessions,    \* history: sessions each node has had
    calls,       \* history: StartConnect, Disconnect, restarts, idle timeouts
    attempts,    \* history: messages each application has sent
    restarts,    \* history: the values attempts had when the node started anew
    delivered    \* history: messages each application was given since it started

vars == <<ep, net, faults, pings, sessions, calls, attempts, restarts,
          delivered>>

AckInfo == [ack : SeqNum, bits : SUBSET (1 .. AckBits)]

\* meant: the session the sender took its peer to have, 0 for none.  It is not
\* in the frame.
Packet ==
    [src : Node, kind : {"syn", "synack", "ping", "ack", "data"},
     session : Session, nonce : Nat, seq : SeqNum, info : AckInfo,
     body : Message \cup {0}, meant : Session \cup {0},
     copy : 0 .. MaxRetransmits]   \* tells retransmissions apart

\* from, meant: the sessions of the two sides in the frame the message came in.
RecvSlot == [seq : SeqNum, body : Message, from : Session,
             meant : Session \cup {0}]

\* current: its sender's session is the one the receiver has joined.  meant: it
\* was sent to the session the receiver is in.
Delivery == [body : Message, current : BOOLEAN, meant : BOOLEAN]

Endpoint ==
    [conn_state : {"disconnected", "connecting", "connected", "timedout"},
     connect_retries : 0 .. MaxConnectRetries,
     local_session_id : Session,
     peer_session_id : Session \cup {0},   \* 0: has_peer_session_id_ is false
     tx_nonce_counter : Nat,
     rx_replay : Window,
     next_send_seq : SeqNum,
     send_slots : SUBSET Packet,
     pending_send_count : 0 .. SendWindow,
     recv_next_seq : SeqNum,
     newest_recv_seq : SeqNum,
     has_recv_seq : BOOLEAN,
     recv_slots : SUBSET RecvSlot,
     ack_dirty : BOOLEAN]

\* An Endpoint that Init has set up, in session k of node n.
NewEndpoint(n, k) ==
    [conn_state |-> "disconnected", connect_retries |-> 0,
     local_session_id |-> k, peer_session_id |-> 0,
     tx_nonce_counter |-> NonceBase[n][k], rx_replay |-> FreshWindow,
     next_send_seq |-> 1, send_slots |-> {}, pending_send_count |-> 0,
     recv_next_seq |-> 1, newest_recv_seq |-> 0, has_recv_seq |-> FALSE,
     recv_slots |-> {}, ack_dirty |-> FALSE]

Init ==
    /\ ep = [n \in Node |-> NewEndpoint(n, 1)]
    /\ net = {}
    /\ faults = 0
    /\ pings = 0
    /\ sessions = [n \in Node |-> 1]
    /\ calls = 0
    /\ attempts = [n \in Node |-> 0]
    /\ restarts = [n \in Node |-> {}]
    /\ delivered = [n \in Node |-> <<>>]

-----------------------------------------------------------------------------
(* Frames *)

BuildAckBits(e) ==
    {d \in 1 .. AckBits :
        \E r \in e.recv_slots :
            /\ IsSeqLess(r.seq, e.newest_recv_seq)
            /\ DistanceFrom(r.seq, e.newest_recv_seq) = d}

AckInfoOf(e) ==
    IF e.has_recv_seq THEN [ack |-> e.newest_recv_seq, bits |-> BuildAckBits(e)]
    ELSE [ack |-> 0, bits |-> {}]

ControlFrame(n, e, kind) ==
    [src |-> n, kind |-> kind, session |-> e.local_session_id,
     nonce |-> e.tx_nonce_counter + 1, seq |-> 0, info |-> AckInfoOf(e),
     body |-> 0, meant |-> e.peer_session_id, copy |-> 0]

DataFrame(n, e, body) ==
    [ControlFrame(n, e, "data") EXCEPT !.seq = e.next_send_seq, !.body = body]

NonceTaken(e) == [e EXCEPT !.tx_nonce_counter = @ + 1]

\* Node n in state e calls SendControl.
SendControl(n, e, kind) ==
    /\ ep' = [ep EXCEPT ![n] = NonceTaken(e)]
    /\ net' = net \cup {ControlFrame(n, e, kind)}

-----------------------------------------------------------------------------
(* The application *)

\* A prompt network: no timer runs out while a frame is in flight.
Quiet == Prompt => net = {}

\* And the SYN is repeated faster than a message, so that the retries of a
\* message are not spent on a peer that is not connected yet.
Patient(n) == Quiet /\ (Prompt => ep[Peer[n]].conn_state # "connecting")

\* One more of the calls a run is bounded by.
Called == calls < MaxCalls /\ calls' = calls + 1

\* The peer's session of an earlier connection is kept.
SlipStarted(n, e, k) ==
    [e EXCEPT !.conn_state = "connecting", !.connect_retries = 0,
              !.local_session_id = k, !.tx_nonce_counter = NonceBase[n][k],
              !.rx_replay = FreshWindow]

\* The messages of the new session are expected to start from number 1.
SlipStartedAfresh(n, e, k) ==
    [e EXCEPT !.conn_state = "connecting", !.connect_retries = 0,
              !.local_session_id = k, !.peer_session_id = 0,
              !.tx_nonce_counter = NonceBase[n][k], !.rx_replay = FreshWindow,
              !.recv_next_seq = 1]

\* StartConnect: a new session.  The sequence numbers, the queue, the reorder
\* buffer and ack_dirty_ stay.
Started(n, e, k) ==
    [e EXCEPT !.conn_state = "connecting", !.connect_retries = 0,
              !.local_session_id = k, !.peer_session_id = 0,
              !.tx_nonce_counter = NonceBase[n][k], !.rx_replay = FreshWindow]

StartConnect(n) ==
    /\ ep[n].conn_state \in {"disconnected", "timedout"}
    /\ Called
    /\ sessions' = [sessions EXCEPT ![n] = @ + 1]
    /\ SendControl(n, Started(n, ep[n], sessions[n] + 1), "syn")
    /\ UNCHANGED <<faults, pings, attempts, restarts, delivered>>

\* The local session, its nonces and the sequence numbers stay; nothing is
\* sent.
Disconnect(n) ==
    /\ "disconnect" \in Calls /\ Called
    /\ ep' = [ep EXCEPT ![n] =
           [@ EXCEPT !.conn_state = "disconnected", !.peer_session_id = 0,
                     !.rx_replay = FreshWindow, !.has_recv_seq = FALSE,
                     !.ack_dirty = FALSE, !.send_slots = {},
                     !.pending_send_count = 0, !.recv_slots = {}]]
    /\ UNCHANGED <<net, faults, pings, sessions, attempts, restarts, delivered>>

\* The process of n ends and another one makes an Endpoint and calls Init.
Restart(n) ==
    /\ "restart" \in Calls /\ Called
    /\ sessions' = [sessions EXCEPT ![n] = @ + 1]
    /\ ep' = [ep EXCEPT ![n] = NewEndpoint(n, sessions[n] + 1)]
    /\ restarts' = [restarts EXCEPT ![n] = @ \cup {attempts[n]}]
    /\ delivered' = [delivered EXCEPT ![n] = <<>>]
    /\ UNCHANGED <<net, faults, pings, attempts>>

Send(n) ==
    /\ ep[n].conn_state = "connected"
    /\ ep[n].pending_send_count < SendWindow
    /\ LET frame == DataFrame(n, ep[n], attempts[n] + 1)
       IN  /\ ep' = [ep EXCEPT ![n] =
                  [NonceTaken(ep[n]) EXCEPT !.next_send_seq = AddSeq(@, 1),
                                            !.send_slots = @ \cup {frame},
                                            !.pending_send_count = @ + 1]]
           /\ net' = net \cup {frame}
    /\ attempts' = [attempts EXCEPT ![n] = @ + 1]
    /\ \E t \in Traffic : \A j \in Node : attempts'[j] <= t[j]
    /\ UNCHANGED <<faults, pings, sessions, calls, restarts, delivered>>

-----------------------------------------------------------------------------
(* Tick, one timer at a time *)

\* connect_retry_ms has passed since the last SYN.
RetryConnect(n) ==
    /\ Quiet
    /\ ep[n].conn_state = "connecting"
    /\ \/ /\ ep[n].connect_retries >= MaxConnectRetries
          /\ ep' = [ep EXCEPT ![n].conn_state = "timedout"]
          /\ UNCHANGED net
       \/ /\ ep[n].connect_retries < MaxConnectRetries
          /\ SendControl(n, [ep[n] EXCEPT !.connect_retries = @ + 1], "syn")
    /\ UNCHANGED <<faults, pings, sessions, calls, attempts, restarts, delivered>>

\* idle_timeout_ms has passed since the last packet: Tick returns at once, and
\* the peer's session is kept.
IdleTimeout(n) ==
    /\ Quiet
    /\ ep[n].conn_state = "connected"
    /\ "idle" \in Calls /\ Called
    /\ ep' = [ep EXCEPT ![n].conn_state = "timedout"]
    /\ UNCHANGED <<net, faults, pings, sessions, attempts, restarts, delivered>>

\* heartbeat_ms has passed since the last frame sent.
Heartbeat(n) ==
    /\ Quiet
    /\ ep[n].conn_state = "connected"
    /\ pings < MaxPings
    /\ pings' = pings + 1
    /\ SendControl(n, ep[n], "ping")
    /\ UNCHANGED <<faults, sessions, calls, attempts, restarts, delivered>>

\* rto_ms_ has passed for a queued message, in whatever state the endpoint is.
Retransmit(n) ==
    /\ Patient(n)
    /\ \E frame \in ep[n].send_slots :
           \/ /\ frame.copy >= MaxRetransmits
              /\ ep' = [ep EXCEPT ![n].send_slots = @ \ {frame},
                                  ![n].pending_send_count = @ - 1]
              /\ UNCHANGED net
           \/ /\ frame.copy < MaxRetransmits
              /\ LET again == [frame EXCEPT !.copy = @ + 1]
                 IN  /\ ep' = [ep EXCEPT ![n].send_slots =
                                             (@ \ {frame}) \cup {again}]
                     /\ net' = net \cup {again}
    /\ UNCHANGED <<faults, pings, sessions, calls, attempts, restarts, delivered>>

\* The ack delay has passed.
FlushAcks(n) ==
    /\ ep[n].conn_state = "connected"
    /\ ep[n].ack_dirty
    /\ ep[n].has_recv_seq
    /\ SendControl(n, [ep[n] EXCEPT !.ack_dirty = FALSE], "ack")
    /\ UNCHANGED <<faults, pings, sessions, calls, attempts, restarts, delivered>>

-----------------------------------------------------------------------------
(* OnUdpPacket *)

\* HandleAck, in whatever state the endpoint is.
Covered(e, info) ==
    {f \in e.send_slots :
        \/ f.seq = info.ack
        \/ /\ IsSeqLess(f.seq, info.ack)
           /\ DistanceFrom(f.seq, info.ack) \in info.bits}

AfterAck(e, info) ==
    [e EXCEPT !.send_slots = @ \ Covered(e, info),
              !.pending_send_count = @ - Cardinality(Covered(e, info))]

SlipJoined(e, session) ==
    [e EXCEPT !.conn_state = "connected", !.connect_retries = 0,
              !.peer_session_id = session]

\* HandleControl on a SYN, or on a SYN-ACK while connecting: the peer's session
\* is learnt and, when it is another one, the replay filter starts anew.
Joined(e, session) ==
    [e EXCEPT !.conn_state = "connected", !.connect_retries = 0,
              !.peer_session_id = session,
              !.rx_replay = IF e.peer_session_id = session THEN @
                            ELSE FreshWindow]

Inserted(e, p) ==
    IF /\ SeqInWindow(p.seq, e.recv_next_seq, RecvWindow)
       /\ \A r \in e.recv_slots : r.seq # p.seq
    THEN e.recv_slots \cup
             {[seq |-> p.seq, body |-> p.body, from |-> p.session,
               meant |-> p.meant]}
    ELSE e.recv_slots

\* DrainInOrder takes k messages from next on and stops at a gap.
IsRun(slots, next, k) ==
    /\ \A i \in 0 .. k - 1 : \E r \in slots : r.seq = AddSeq(next, i)
    /\ \A r \in slots : r.seq # AddSeq(next, k)

RecvAt(slots, seq) == CHOOSE r \in slots : r.seq = seq

Run(slots, next, k) == {RecvAt(slots, AddSeq(next, i)) : i \in 0 .. k - 1}

\* What endpoint e gives its application when r's turn has come.
DeliveryOf(e, r) ==
    [body    |-> r.body,
     current |-> r.from = e.peer_session_id,
     meant   |-> r.meant = e.local_session_id]

Deliveries(e, slots, k) ==
    [i \in 1 .. k |->
        DeliveryOf(e, RecvAt(slots, AddSeq(e.recv_next_seq, i - 1)))]

TakesData(e, p) == p.kind = "data" /\ e.conn_state = "connected"

AfterData(e, p, k) ==
    [e EXCEPT
        !.recv_slots = Inserted(e, p) \ Run(Inserted(e, p), e.recv_next_seq, k),
        !.recv_next_seq = AddSeq(@, k),
        !.newest_recv_seq = IF ~ e.has_recv_seq \/ IsSeqLess(@, p.seq)
                            THEN p.seq ELSE @,
        !.has_recv_seq = TRUE,
        !.ack_dirty = TRUE]

\* A frame of another session than the peer's goes no further.
SlipForeign(e, p) == FALSE

Foreign(e, p) == e.peer_session_id \notin {0, p.session}

\* A repeated SYN is taken for a repeated acknowledgement.
SlipAnswers(e, p) ==
    CASE p.kind = "syn" /\ e.conn_state # "connected" -> {"synack"}
      [] p.kind = "synack" /\ e.conn_state = "connecting" -> {"ack"}
      [] p.kind = "ping" -> {"ack"}
      [] OTHER -> {}

\* The control frames HandleControl answers with: to a SYN and to a ping in
\* any state, to a SYN-ACK when it completes an attempt.
Answers(e, p) ==
    CASE p.kind = "syn" -> {"synack"}
      [] p.kind = "synack" /\ e.conn_state = "connecting" -> {"ack"}
      [] p.kind = "ping" -> {"ack"}
      [] OTHER -> {}

Joins(e, p) == p.kind \in {"syn", "synack"} /\ Answers(e, p) # {}

Replayed(e, p) == ~ Accepts(e.rx_replay, p.nonce)

\* left is the network without the packet handled.
DropPacket(n, p, left) ==
    /\ Foreign(ep[n], p) \/ Replayed(ep[n], p)
    /\ ep' = [ep EXCEPT ![n].ack_dirty =
           \/ @
           \/ /\ ~ Foreign(ep[n], p)
              /\ IsDuplicate(ep[n].rx_replay, p.nonce)
              /\ p.kind \in {"syn", "data"}]   \* kFlagAckOnly is clear
    /\ net' = left
    /\ UNCHANGED delivered

TakePacket(n, p, left) ==
    /\ ~ Foreign(ep[n], p)
    /\ ~ Replayed(ep[n], p)
    /\ LET heard == AfterAck([ep[n] EXCEPT !.rx_replay = Track(@, p.nonce)],
                             p.info)
           now   == IF Joins(heard, p) THEN Joined(heard, p.session) ELSE heard
       IN  IF TakesData(now, p)
           THEN \E k \in 0 .. Cardinality(Inserted(now, p)) :
                    /\ IsRun(Inserted(now, p), now.recv_next_seq, k)
                    /\ ep' = [ep EXCEPT ![n] = AfterData(now, p, k)]
                    /\ delivered' = [delivered EXCEPT ![n] =
                           @ \o Deliveries(now, Inserted(now, p), k)]
                    /\ net' = left
           ELSE /\ ep' = [ep EXCEPT ![n] =
                       IF Answers(heard, p) = {} THEN now ELSE NonceTaken(now)]
                /\ net' = left \cup {ControlFrame(n, now, kind) :
                                         kind \in Answers(heard, p)}
                /\ UNCHANGED delivered

OnUdpPacket(n, p, left) ==
    /\ p \in net
    /\ p.src = Peer[n]
    /\ DropPacket(n, p, left) \/ TakePacket(n, p, left)
    /\ UNCHANGED <<pings, sessions, calls, attempts, restarts>>

-----------------------------------------------------------------------------
(* The network *)

Arrive(n, p) == OnUdpPacket(n, p, net \ {p}) /\ UNCHANGED faults

Duplicate(n, p) ==
    /\ faults < MaxFaults
    /\ OnUdpPacket(n, p, net)
    /\ faults' = faults + 1

Lose(p) ==
    /\ faults < MaxFaults
    /\ net' = net \ {p}
    /\ faults' = faults + 1
    /\ UNCHANGED <<ep, pings, sessions, calls, attempts, restarts, delivered>>

Next ==
    \/ \E n \in Active : StartConnect(n)
    \/ \E n \in Node :
           \/ Disconnect(n) \/ Restart(n) \/ Send(n)
           \/ RetryConnect(n) \/ IdleTimeout(n) \/ Heartbeat(n)
           \/ Retransmit(n) \/ FlushAcks(n)
           \/ \E p \in net : Arrive(n, p) \/ Duplicate(n, p)
    \/ \E p \in net : Lose(p)

Spec == Init /\ [][Next]_vars
-----------------------------------------------------------------------------
(* Properties *)

\* A connecting endpoint knows no peer and a connected one does: the session
\* check of OnUdpPacket is open to any frame only before the handshake.
TypeOK ==
    /\ ep \in [Node -> Endpoint]
    /\ \A n \in Node :
           /\ ep[n].conn_state = "connecting" => ep[n].peer_session_id = 0
           /\ ep[n].conn_state = "connected" => ep[n].peer_session_id # 0
           /\ ep[n].pending_send_count = Cardinality(ep[n].send_slots)
    /\ net \subseteq Packet
    /\ faults \in 0 .. MaxFaults
    /\ pings \in 0 .. MaxPings
    /\ sessions \in [Node -> Session]
    /\ calls \in 0 .. MaxCalls
    /\ attempts \in [Node -> Nat]
    /\ restarts \in [Node -> SUBSET Nat]
    /\ delivered \in [Node -> Seq(Delivery)]

SameProcess(n, older, newer) ==
    ~ \E r \in restarts[n] : older <= r /\ r < newer

\* Whatever connections come and go, an application is given the messages of
\* one process of its peer in the order they were sent, and none twice.
InOrder ==
    \A n \in Node : \A j, k \in 1 .. Len(delivered[n]) :
        LET earlier == delivered[n][j].body
            later   == delivered[n][k].body
        IN  /\ j < k => earlier # later
            /\ j < k /\ later < earlier => ~ SameProcess(Peer[n], later, earlier)

\* An endpoint that waits to be called is given no message of a session its
\* peer has left, though the frames of that session are still in flight and
\* its reorder buffer held some of them.
LeftSessionSilent ==
    \A n \in Node \ Active : \A k \in 1 .. Len(delivered[n]) :
        delivered[n][k].current

\* A message is delivered in the connection it was sent in, to either side.
SessionIsolated ==
    \A n \in Node : \A k \in 1 .. Len(delivered[n]) :
        delivered[n][k].current /\ delivered[n][k].meant

\* An endpoint takes the next frame of the session it has joined, whatever
\* nonces its filter met in earlier sessions and before the handshake.
NextFrameAdmitted ==
    \A n \in Node :
        ep[n].peer_session_id = ep[Peer[n]].local_session_id =>
            Accepts(ep[n].rx_replay, ep[Peer[n]].tx_nonce_counter + 1)

-----------------------------------------------------------------------------
(* Fairness: the application calls Tick for ever, so the timers of an       *)
(* attempt, of a queued message and of an acknowledgement run out, and a    *)
(* frame that is not lost arrives.                                          *)

Fairness ==
    \A n \in Node :
        /\ WF_vars(RetryConnect(n))
        /\ WF_vars(Retransmit(n))
        /\ WF_vars(FlushAcks(n))
        /\ WF_vars(\E p \in net : Arrive(n, p))

FairSpec == Spec /\ Fairness

Agreed(n) ==
    /\ ep[n].conn_state = "connected"
    /\ ep[n].peer_session_id = ep[Peer[n]].local_session_id
    /\ ep[Peer[n]].conn_state = "connected"
    /\ ep[Peer[n]].peer_session_id = ep[n].local_session_id

\* The first SYN of an attempt is on its way and no other frame is; the called
\* side has left its last connection and its filter has met no frame since.
FreshAttempt(n) ==
    /\ ep[n].conn_state = "connecting" /\ ep[n].connect_retries = 0
    /\ ep[Peer[n]].conn_state = "disconnected"
    /\ ep[Peer[n]].rx_replay = FreshWindow
    /\ \E p \in net :
           /\ net = {p}
           /\ p.kind = "syn" /\ p.session = ep[n].local_session_id

\* Such an attempt ends with both sides connected in each other's session,
\* although frames of the handshake are lost or repeated, unless there is
\* another call in the meantime.
HandshakeCompletes ==
    \A n \in Active, c \in 1 .. MaxCalls :
        calls = c /\ FreshAttempt(n) ~> calls # c \/ Agreed(n)

\* In the first connection every message is delivered, those included that the
\* called side sends before its SYN-ACK has arrived.
EveryAcceptedDelivered ==
    \A n \in Node, m \in Message :
        calls = 1 /\ attempts[n] >= m
            ~> \/ calls # 1
               \/ \E k \in 1 .. Len(delivered[Peer[n]]) :
                      delivered[Peer[n]][k].body = m
=============================================================================
