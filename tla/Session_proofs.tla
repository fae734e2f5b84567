--------------------------- MODULE Session_proofs ----------------------------
(***************************************************************************)
(* Proofs about Session, for any windows, bounds, traffic and base nonces: *)
(* what an endpoint keeps of earlier connections, and the frames of them   *)
(* still in flight, do no harm to the one it is in.                        *)
(***************************************************************************)
EXTENDS Session, SeqArith_proofs, FiniteSetTheorems, SequenceTheorems, TLAPS

\* A frame of the endpoint e belongs to its session or to an earlier one; in
\* its session the nonce has been counted.
FrameOK(p, e) ==
    /\ p \in Packet
    /\ p.kind = "data" => p.body \in Message
    /\ p.session <= e.local_session_id
    /\ p.session = e.local_session_id => p.nonce <= e.tx_nonce_counter

\* The queue of node n, which has sent a messages: one frame for each message.
QueueOK(n, e, a) ==
    /\ IsFiniteSet(e.send_slots)
    /\ e.pending_send_count = Cardinality(e.send_slots)
    /\ \A f \in e.send_slots :
           f.src = n /\ f.kind = "data" /\ f.body <= a /\ FrameOK(f, e)
    /\ \A f, g \in e.send_slots : f.body = g.body => f = g

\* The reorder buffer holds a number once and lies in the window; that of an
\* endpoint which waits to be called is of the session it has joined.
BufferOK(n, e) ==
    /\ \A r, q \in e.recv_slots : r.seq = q.seq => r = q
    /\ \A r \in e.recv_slots : SeqInWindow(r.seq, e.recv_next_seq, RecvWindow)
    /\ n \notin Active =>
           /\ e.conn_state # "connecting"
           /\ \A r \in e.recv_slots : r.from = e.peer_session_id

EndpointOK(n, e, a) ==
    /\ e \in Endpoint
    /\ e.conn_state = "connecting" => e.peer_session_id = 0
    /\ e.conn_state = "connected" => e.peer_session_id # 0
    /\ QueueOK(n, e, a)
    /\ BufferOK(n, e)

\* Endpoint e and its peer o: e knows no session o has not had, and in o's
\* session its filter has met only nonces o has counted.
PairOK(e, o) ==
    /\ e.peer_session_id <= o.local_session_id
    /\ e.peer_session_id = o.local_session_id => e.rx_replay.max <= o.tx_nonce_counter

CurrentOnly(n, d) == n \notin Active => \A k \in 1 .. Len(d) : d[k].current

IInv ==
    /\ ep \in [Node -> Endpoint]
    /\ \A n \in Node :
           /\ EndpointOK(n, ep[n], attempts[n])
           /\ PairOK(ep[n], ep[Peer[n]])
           /\ ep[n].local_session_id = sessions[n]
           /\ sessions[n] <= calls + 1
           /\ CurrentOnly(n, delivered[n])
    /\ \A p \in net : p \in Packet /\ FrameOK(p, ep[p.src])
    /\ faults \in 0 .. MaxFaults
    /\ pings \in 0 .. MaxPings
    /\ sessions \in [Node -> Session]
    /\ calls \in 0 .. MaxCalls
    /\ attempts \in [Node -> Nat]
    /\ restarts \in [Node -> SUBSET Nat]
    /\ delivered \in [Node -> Seq(Delivery)]

-----------------------------------------------------------------------------
(* The replay window *)

LEMMA FreshType == FreshWindow \in Window /\ FreshWindow.max = 0
BY DEF FreshWindow, Window

LEMMA TrackType ==
    ASSUME NEW w \in Window, NEW x \in Nat, Accepts(w, x)
    PROVE  /\ Track(w, x) \in Window
           /\ Track(w, x).max \in {w.max, x}
<1>1. ReplayBits \in Nat \ {0}
  BY ReplayBitsAssumption
<1>2. CASE w.max = 0
  BY <1>1, <1>2 DEF Track, Window
<1>3. CASE w.max # 0 /\ x > w.max
  <2>1. ShiftLeft(w.bits, x - w.max) \subseteq 0 .. ReplayBits - 1
    BY <1>1, <1>3 DEF ShiftLeft, Window
  <2> QED BY <1>1, <1>3, <2>1 DEF Track, Window
<1>4. CASE w.max # 0 /\ ~ (x > w.max)
  <2>1. w.max - x \in 0 .. ReplayBits - 1
    BY <1>1, <1>4 DEF Accepts, Window
  <2> QED BY <1>4, <2>1 DEF Track, Window
<1> QED BY <1>2, <1>3, <1>4

LEMMA NewerAccepted ==
    ASSUME NEW w \in Window, NEW x \in Nat, w.max < x
    PROVE  Accepts(w, x)
BY DEF Accepts, Window

-----------------------------------------------------------------------------
(* The nodes and their frames *)

LEMMA NodeFacts ==
    ASSUME NEW n \in Node
    PROVE  /\ Peer[n] \in Node /\ Peer[n] # n /\ Peer[Peer[n]] = n
           /\ \A m \in Node : m = n \/ m = Peer[n]
BY SessionAssumption DEF Node, Peer

LEMMA ConstantFacts ==
    /\ SendWindow \in Nat \ {0} /\ RecvWindow \in Nat \ {0}
    /\ RecvWindow < SeqMod /\ SeqMod \in Nat \ {0, 1, 2}
    /\ MaxRetransmits \in Nat /\ MaxConnectRetries \in Nat
    /\ MaxPings \in Nat /\ MaxCalls \in Nat /\ MaxFaults \in Nat
BY SessionAssumption, SeqModAssumption

LEMMA MessageRange == Message \subseteq Nat \ {0}
<1> SUFFICES ASSUME NEW b \in Message PROVE b \in Nat \ {0}
  OBVIOUS
<1>1. \E t \in Traffic : \E n \in Node : b \in 1 .. t[n]
  <2>1. PICK t \in Traffic : b \in UNION {1 .. t[n] : n \in Node}
    BY DEF Message
  <2> QED BY <2>1
<1>2. \A t \in Traffic, n \in Node : t[n] \in Nat
  BY SessionAssumption
<1> QED BY <1>1, <1>2

LEMMA BaseNonce ==
    ASSUME NEW n \in Node, NEW k \in Session
    PROVE  NonceBase[n][k] \in Nat
<1>1. NonceBase[n] \in Seq(Nat) /\ Len(NonceBase[n]) \in Nat
        /\ Len(NonceBase[n]) > MaxCalls
  BY SessionAssumption
<1>2. k \in 1 .. Len(NonceBase[n])
  BY <1>1, ConstantFacts DEF Session
<1> QED BY <1>1, <1>2

LEMMA EndpointFields ==
    ASSUME NEW e \in Endpoint
    PROVE  /\ e.local_session_id \in Session /\ e.local_session_id \in Nat
           /\ e.local_session_id >= 1
           /\ e.peer_session_id \in Session \cup {0} /\ e.peer_session_id \in Nat
           /\ e.tx_nonce_counter \in Nat
           /\ e.rx_replay \in Window /\ e.rx_replay.max \in Nat
           /\ e.next_send_seq \in SeqNum /\ e.recv_next_seq \in SeqNum
           /\ e.newest_recv_seq \in SeqNum
           /\ e.send_slots \subseteq Packet /\ e.recv_slots \subseteq RecvSlot
           /\ e.pending_send_count \in 0 .. SendWindow
BY DEF Endpoint, Session, Window

LEMMA AckInfoType == ASSUME NEW e \in Endpoint PROVE AckInfoOf(e) \in AckInfo
<1>1. 0 \in SeqNum
  BY ConstantFacts DEF SeqNum
<1>2. BuildAckBits(e) \subseteq 1 .. AckBits
  BY DEF BuildAckBits
<1> QED BY <1>1, <1>2, EndpointFields DEF AckInfoOf, AckInfo

LEMMA ControlFrameOK ==
    ASSUME NEW n \in Node, NEW e \in Endpoint,
           NEW kind \in {"syn", "synack", "ping", "ack"}
    PROVE  /\ FrameOK(ControlFrame(n, e, kind), NonceTaken(e))
           /\ ControlFrame(n, e, kind).src = n
<1> DEFINE p == ControlFrame(n, e, kind)
<1>1. p \in Packet
  <2>1. 0 \in SeqNum /\ 0 \in 0 .. MaxRetransmits
    BY ConstantFacts DEF SeqNum
  <2> QED BY <2>1, AckInfoType, EndpointFields DEF ControlFrame, Packet
<1>2. /\ p.kind # "data" /\ p.session = e.local_session_id /\ p.src = n
      /\ p.nonce = e.tx_nonce_counter + 1
  BY DEF ControlFrame
<1>3. /\ NonceTaken(e).local_session_id = e.local_session_id
      /\ NonceTaken(e).tx_nonce_counter = e.tx_nonce_counter + 1
  BY DEF NonceTaken, Endpoint
<1> HIDE DEF p
<1>4. FrameOK(p, NonceTaken(e))
  BY <1>1, <1>2, <1>3, EndpointFields DEF FrameOK
<1> QED BY <1>2, <1>4 DEF p

\* How an endpoint of a node may change: its session grows or, in the same
\* session, its counter does.
Grows(old, e) ==
    /\ old.local_session_id <= e.local_session_id
    /\ old.local_session_id = e.local_session_id
           => old.tx_nonce_counter <= e.tx_nonce_counter

LEMMA FrameGrows ==
    ASSUME NEW old \in Endpoint, NEW e \in Endpoint, Grows(old, e),
           NEW p, FrameOK(p, old)
    PROVE  FrameOK(p, e)
<1>1. p.session \in Nat /\ p.nonce \in Nat
  BY DEF FrameOK, Packet, Session
<1> QED BY <1>1, EndpointFields DEF FrameOK, Grows

LEMMA PairGrows ==
    ASSUME NEW old \in Endpoint, NEW o \in Endpoint, Grows(old, o),
           NEW e \in Endpoint, PairOK(e, old)
    PROVE  PairOK(e, o)
BY EndpointFields DEF PairOK, Grows
-----------------------------------------------------------------------------
(* One endpoint changes *)

LEMMA UpdateOK ==
    ASSUME IInv, NEW n \in Node, NEW e,
           ep' = [ep EXCEPT ![n] = e],
           EndpointOK(n, e, attempts'[n]),
           Grows(ep[n], e), PairOK(e, ep[Peer[n]]),
           \A p \in net' : p \in net \/ (p.src = n /\ FrameOK(p, e)),
           sessions' = [sessions EXCEPT ![n] = e.local_session_id],
           calls' \in 0 .. MaxCalls, calls <= calls',
           e.local_session_id <= calls' + 1,
           faults' \in 0 .. MaxFaults, pings' \in 0 .. MaxPings,
           attempts' \in [Node -> Nat],
           \A m \in Node \ {n} : attempts'[m] = attempts[m],
           restarts' \in [Node -> SUBSET Nat],
           delivered' \in [Node -> Seq(Delivery)],
           \A m \in Node : CurrentOnly(m, delivered'[m])
    PROVE  IInv'
<1>1. /\ e \in Endpoint /\ ep' \in [Node -> Endpoint] /\ ep'[n] = e
      /\ ep'[Peer[n]] = ep[Peer[n]] /\ ep \in [Node -> Endpoint]
      /\ \A m \in Node : ep[m] \in Endpoint /\ ep'[m] \in Endpoint
  BY SMTT(40), NodeFacts DEF IInv, EndpointOK
<1>2. \A m \in Node : Grows(ep[m], ep'[m])
  BY SMTT(40), <1>1, NodeFacts, EndpointFields DEF Grows
<1>3. PairOK(ep[Peer[n]], ep[n])
  BY NodeFacts DEF IInv
<1>4. PairOK(ep'[Peer[n]], ep'[n])
  BY <1>1, <1>3, NodeFacts, PairGrows
<1>5. \A m \in Node : PairOK(ep'[m], ep'[Peer[m]])
  <2>1. PairOK(ep'[n], ep'[Peer[n]])
    BY <1>1
  <2> QED BY ZenonT(40), <1>4, <2>1, NodeFacts
<1>6. \A m \in Node : EndpointOK(m, ep'[m], attempts'[m])
  <2>1. EndpointOK(Peer[n], ep[Peer[n]], attempts[Peer[n]])
    BY NodeFacts DEF IInv
  <2>2. EndpointOK(Peer[n], ep'[Peer[n]], attempts'[Peer[n]])
    BY <1>1, <2>1, NodeFacts
  <2> QED BY <1>1, <2>2, NodeFacts
<1>7. sessions' \in [Node -> Session] /\ \A m \in Node :
          ep'[m].local_session_id = sessions'[m] /\ sessions'[m] <= calls' + 1
  <2>1. sessions \in [Node -> Session] /\ calls \in Nat /\ calls' \in Nat
    BY ConstantFacts DEF IInv
  <2>2. sessions' \in [Node -> Session] /\ sessions'[n] = e.local_session_id
          /\ sessions'[Peer[n]] = sessions[Peer[n]]
    BY <1>1, <2>1, NodeFacts, EndpointFields
  <2>3. /\ ep[Peer[n]].local_session_id = sessions[Peer[n]]
        /\ sessions[Peer[n]] <= calls + 1
    BY NodeFacts DEF IInv
  <2>4. sessions[Peer[n]] <= calls' + 1
    <3>1. sessions[Peer[n]] \in Nat
      BY <2>1, NodeFacts DEF Session
    <3> QED BY <2>1, <2>3, <3>1
  <2> QED BY <1>1, <2>2, <2>3, <2>4, NodeFacts
<1>8. \A p \in net' : p \in Packet /\ FrameOK(p, ep'[p.src])
  <2> TAKE p \in net'
  <2>1. CASE p \in net
    <3>1. p \in Packet /\ FrameOK(p, ep[p.src]) /\ p.src \in Node
      BY <2>1 DEF IInv, Packet
    <3> QED BY <1>1, <1>2, <3>1, FrameGrows
  <2>2. CASE p.src = n /\ FrameOK(p, e)
    BY <1>1, <2>2 DEF FrameOK
  <2> QED BY <2>1, <2>2
<1> QED BY <1>1, <1>5, <1>6, <1>7, <1>8 DEF IInv

\* An endpoint changes within its session, and no call is counted.
LEMMA StepInSession ==
    ASSUME IInv, NEW n \in Node, NEW e,
           ep' = [ep EXCEPT ![n] = e],
           EndpointOK(n, e, attempts[n]),
           e.local_session_id = ep[n].local_session_id,
           ep[n].tx_nonce_counter <= e.tx_nonce_counter,
           PairOK(e, ep[Peer[n]]),
           \A p \in net' : p \in net \/ (p.src = n /\ FrameOK(p, e)),
           faults' \in 0 .. MaxFaults, pings' \in 0 .. MaxPings,
           UNCHANGED <<sessions, calls, attempts, restarts>>,
           delivered' \in [Node -> Seq(Delivery)],
           \A m \in Node : CurrentOnly(m, delivered'[m])
    PROVE  IInv'
<1>1. /\ ep[n].local_session_id = sessions[n] /\ sessions \in [Node -> Session]
      /\ sessions[n] <= calls + 1 /\ calls \in 0 .. MaxCalls
      /\ ep[n] \in Endpoint /\ calls \in Nat
  BY ConstantFacts DEF IInv
<1>2. sessions' = [sessions EXCEPT ![n] = e.local_session_id]
  BY <1>1
<1>3. Grows(ep[n], e)
  BY <1>1, EndpointFields DEF Grows
<1>4. calls' \in 0 .. MaxCalls /\ calls <= calls' /\ e.local_session_id <= calls' + 1
  BY <1>1
<1>5. /\ attempts' \in [Node -> Nat] /\ attempts' = attempts
      /\ restarts' \in [Node -> SUBSET Nat]
  BY DEF IInv
<1> QED BY <1>2, <1>3, <1>4, <1>5, UpdateOK

\* Nothing of what an endpoint sends from or receives into changes.
LEMMA SameBuffers ==
    ASSUME NEW n \in Node, NEW old, NEW a, EndpointOK(n, old, a),
           NEW e \in Endpoint,
           e.conn_state = "connecting" => e.peer_session_id = 0,
           e.conn_state = "connected" => e.peer_session_id # 0,
           n \notin Active => e.conn_state # "connecting",
           Grows(old, e),
           e.send_slots = old.send_slots, e.pending_send_count = old.pending_send_count,
           e.recv_slots = old.recv_slots, e.recv_next_seq = old.recv_next_seq,
           n \in Active \/ e.peer_session_id = old.peer_session_id
               \/ old.recv_slots = {}
    PROVE  EndpointOK(n, e, a)
<1>1. QueueOK(n, e, a)
  BY FrameGrows DEF QueueOK, EndpointOK
<1>2. BufferOK(n, e)
  BY DEF BufferOK, EndpointOK
<1> QED BY <1>1, <1>2 DEF EndpointOK

\* An endpoint may lose queued messages; its numbers and its reorder buffer stay.
Kept(old, e) ==
    /\ e.send_slots \subseteq old.send_slots /\ e.recv_slots = old.recv_slots
    /\ e.next_send_seq = old.next_send_seq /\ e.recv_next_seq = old.recv_next_seq

LEMMA NonceTakenOK ==
    ASSUME NEW n \in Node, NEW e, NEW a, EndpointOK(n, e, a)
    PROVE  /\ EndpointOK(n, NonceTaken(e), a)
           /\ NonceTaken(e) \in Endpoint
           /\ NonceTaken(e).local_session_id = e.local_session_id
           /\ NonceTaken(e).tx_nonce_counter = e.tx_nonce_counter + 1
           /\ NonceTaken(e).peer_session_id = e.peer_session_id
           /\ NonceTaken(e).rx_replay = e.rx_replay /\ Kept(e, NonceTaken(e))
<1>1. e \in Endpoint /\ e.tx_nonce_counter \in Nat
  BY EndpointFields DEF EndpointOK
<1>2. /\ NonceTaken(e) \in Endpoint
      /\ NonceTaken(e).tx_nonce_counter = e.tx_nonce_counter + 1
      /\ NonceTaken(e).conn_state = e.conn_state
      /\ NonceTaken(e).local_session_id = e.local_session_id
      /\ NonceTaken(e).peer_session_id = e.peer_session_id
      /\ NonceTaken(e).rx_replay = e.rx_replay
      /\ NonceTaken(e).send_slots = e.send_slots
      /\ NonceTaken(e).pending_send_count = e.pending_send_count
      /\ NonceTaken(e).recv_slots = e.recv_slots
      /\ NonceTaken(e).recv_next_seq = e.recv_next_seq
      /\ NonceTaken(e).next_send_seq = e.next_send_seq
  BY <1>1 DEF NonceTaken, Endpoint
<1>3. Grows(e, NonceTaken(e))
  BY <1>1, <1>2, EndpointFields DEF Grows
<1>4. /\ e.conn_state = "connecting" => e.peer_session_id = 0
      /\ e.conn_state = "connected" => e.peer_session_id # 0
      /\ n \notin Active => e.conn_state # "connecting"
  BY DEF EndpointOK, BufferOK
<1>5. Kept(e, NonceTaken(e))
  BY <1>2 DEF Kept
<1> QED BY <1>2, <1>3, <1>4, <1>5, SameBuffers

LEMMA NodeState ==
    ASSUME IInv, NEW n \in Node
    PROVE  /\ EndpointOK(n, ep[n], attempts[n]) /\ ep[n] \in Endpoint
           /\ PairOK(ep[n], ep[Peer[n]]) /\ ep[Peer[n]] \in Endpoint
           /\ ep \in [Node -> Endpoint]
           /\ ep[n].local_session_id = sessions[n] /\ sessions[n] <= calls + 1
           /\ sessions[n] \in Nat /\ calls \in Nat
           /\ delivered \in [Node -> Seq(Delivery)]
           /\ \A m \in Node : CurrentOnly(m, delivered[m])
           /\ faults \in 0 .. MaxFaults /\ pings \in 0 .. MaxPings
           /\ attempts \in [Node -> Nat] /\ restarts \in [Node -> SUBSET Nat]
<1>1. \A m \in Node : CurrentOnly(m, delivered[m])
  BY DEF IInv
<1>2. sessions[n] \in Nat /\ calls \in Nat
  BY ConstantFacts DEF IInv, Session
<1>3. EndpointOK(n, ep[n], attempts[n]) /\ PairOK(ep[n], ep[Peer[n]])
        /\ ep[n].local_session_id = sessions[n] /\ sessions[n] <= calls + 1
  BY DEF IInv
<1> QED BY <1>1, <1>2, <1>3, NodeFacts DEF IInv

\* SendControl by an endpoint that is sound.
LEMMA SendControlOK ==
    ASSUME IInv, NEW n \in Node, NEW e, EndpointOK(n, e, attempts[n]),
           e.local_session_id = ep[n].local_session_id,
           ep[n].tx_nonce_counter <= e.tx_nonce_counter,
           PairOK(e, ep[Peer[n]]),
           NEW kind \in {"syn", "synack", "ping", "ack"},
           SendControl(n, e, kind),
           faults' \in 0 .. MaxFaults, pings' \in 0 .. MaxPings,
           UNCHANGED <<sessions, calls, attempts, restarts, delivered>>
    PROVE  IInv'
<1>1. /\ ep' = [ep EXCEPT ![n] = NonceTaken(e)]
      /\ net' = net \cup {ControlFrame(n, e, kind)}
  BY DEF SendControl
<1>2. e \in Endpoint /\ ep[n] \in Endpoint
  BY NodeState DEF EndpointOK
<1>3. /\ EndpointOK(n, NonceTaken(e), attempts[n])
      /\ NonceTaken(e).local_session_id = ep[n].local_session_id
      /\ ep[n].tx_nonce_counter <= NonceTaken(e).tx_nonce_counter
      /\ PairOK(NonceTaken(e), ep[Peer[n]])
  <2>1. EndpointOK(n, NonceTaken(e), attempts[n])
          /\ NonceTaken(e).local_session_id = e.local_session_id
          /\ NonceTaken(e).tx_nonce_counter = e.tx_nonce_counter + 1
          /\ NonceTaken(e).peer_session_id = e.peer_session_id
          /\ NonceTaken(e).rx_replay = e.rx_replay
    BY NonceTakenOK
  <2>2. PairOK(NonceTaken(e), ep[Peer[n]])
    BY <2>1 DEF PairOK
  <2>3. e.tx_nonce_counter \in Nat /\ ep[n].tx_nonce_counter \in Nat
    BY <1>2, EndpointFields
  <2> QED BY <2>1, <2>2, <2>3
<1>4. /\ FrameOK(ControlFrame(n, e, kind), NonceTaken(e))
      /\ ControlFrame(n, e, kind).src = n
  BY <1>2, ControlFrameOK
<1>5. \A p \in net' : p \in net \/ (p.src = n /\ FrameOK(p, NonceTaken(e)))
  BY <1>1, <1>4
<1>6. delivered' \in [Node -> Seq(Delivery)] /\ \A m \in Node : CurrentOnly(m, delivered'[m])
  BY NodeState
<1> QED BY <1>1, <1>3, <1>5, <1>6, StepInSession
-----------------------------------------------------------------------------
(* Steps that leave most of an endpoint as it is *)

\* Only flags, retries and the state of an endpoint change.
LEMMA SameState ==
    ASSUME IInv, NEW n \in Node, NEW e \in Endpoint,
           e.conn_state = ep[n].conn_state \/ e.conn_state = "timedout",
           e.local_session_id = ep[n].local_session_id,
           e.peer_session_id = ep[n].peer_session_id,
           e.tx_nonce_counter = ep[n].tx_nonce_counter,
           e.rx_replay = ep[n].rx_replay,
           e.send_slots = ep[n].send_slots,
           e.pending_send_count = ep[n].pending_send_count,
           e.recv_slots = ep[n].recv_slots, e.recv_next_seq = ep[n].recv_next_seq
    PROVE  /\ EndpointOK(n, e, attempts[n])
           /\ ep[n].tx_nonce_counter <= e.tx_nonce_counter
           /\ PairOK(e, ep[Peer[n]])
<1>1. Grows(ep[n], e) /\ ep[n].tx_nonce_counter <= e.tx_nonce_counter
  BY NodeState, EndpointFields DEF Grows
<1>2. /\ e.conn_state = "connecting" => e.peer_session_id = 0
      /\ e.conn_state = "connected" => e.peer_session_id # 0
      /\ n \notin Active => e.conn_state # "connecting"
  BY NodeState DEF EndpointOK, BufferOK
<1>3. PairOK(e, ep[Peer[n]])
  BY NodeState DEF PairOK
<1> QED BY <1>1, <1>2, <1>3, NodeState, SameBuffers

LEMMA QuietStepOK ==
    ASSUME IInv, NEW n \in Node, NEW e \in Endpoint,
           e.conn_state = ep[n].conn_state \/ e.conn_state = "timedout",
           e.local_session_id = ep[n].local_session_id,
           e.peer_session_id = ep[n].peer_session_id,
           e.tx_nonce_counter = ep[n].tx_nonce_counter,
           e.rx_replay = ep[n].rx_replay,
           e.send_slots = ep[n].send_slots,
           e.pending_send_count = ep[n].pending_send_count,
           e.recv_slots = ep[n].recv_slots, e.recv_next_seq = ep[n].recv_next_seq,
           ep' = [ep EXCEPT ![n] = e], net' \subseteq net,
           faults' \in 0 .. MaxFaults,
           UNCHANGED <<pings, sessions, calls, attempts, restarts, delivered>>
    PROVE  IInv'
<1>1. /\ EndpointOK(n, e, attempts[n])
      /\ ep[n].tx_nonce_counter <= e.tx_nonce_counter
      /\ PairOK(e, ep[Peer[n]])
  BY SameState
<1>2. /\ delivered' \in [Node -> Seq(Delivery)]
      /\ \A m \in Node : CurrentOnly(m, delivered'[m])
      /\ pings' \in 0 .. MaxPings
  BY NodeState
<1>3. \A p \in net' : p \in net
  OBVIOUS
<1> QED BY <1>1, <1>2, <1>3, StepInSession

\* Frames stay sound when their sender keeps its session and its counter.
LEMMA SameFrames ==
    ASSUME NEW old, NEW e, NEW f, FrameOK(f, old),
           e.local_session_id = old.local_session_id,
           e.tx_nonce_counter = old.tx_nonce_counter
    PROVE  FrameOK(f, e)
BY DEF FrameOK

LEMMA QueueStepOK ==
    ASSUME IInv, NEW n \in Node, NEW e \in Endpoint,
           e.conn_state = ep[n].conn_state,
           e.local_session_id = ep[n].local_session_id,
           e.peer_session_id = ep[n].peer_session_id,
           e.tx_nonce_counter = ep[n].tx_nonce_counter,
           e.rx_replay = ep[n].rx_replay,
           e.recv_slots = ep[n].recv_slots, e.recv_next_seq = ep[n].recv_next_seq,
           QueueOK(n, e, attempts[n]),
           ep' = [ep EXCEPT ![n] = e],
           \A p \in net' : p \in net \/ (p.src = n /\ FrameOK(p, e)),
           UNCHANGED <<faults, pings, sessions, calls, attempts, restarts, delivered>>
    PROVE  IInv'
<1>1. EndpointOK(n, e, attempts[n])
  BY NodeState DEF EndpointOK, BufferOK
<1>2. PairOK(e, ep[Peer[n]]) /\ ep[n].tx_nonce_counter <= e.tx_nonce_counter
  BY NodeState, EndpointFields DEF PairOK
<1>3. /\ delivered' \in [Node -> Seq(Delivery)]
      /\ \A m \in Node : CurrentOnly(m, delivered'[m])
      /\ pings' \in 0 .. MaxPings /\ faults' \in 0 .. MaxFaults
  BY NodeState
<1> QED BY <1>1, <1>2, <1>3, StepInSession
-----------------------------------------------------------------------------
(* The calls and the timers *)

LEMMA EmptyOK ==
    ASSUME NEW n \in Node, NEW a, NEW e \in Endpoint,
           e.conn_state = "disconnected", e.send_slots = {},
           e.pending_send_count = 0, e.recv_slots = {}
    PROVE  EndpointOK(n, e, a)
BY FS_EmptySet DEF EndpointOK, QueueOK, BufferOK

LEMMA InitOK == ASSUME Init PROVE IInv
<1>1. 1 \in Session /\ 0 \in SeqNum /\ 1 \in SeqNum /\ 0 \in 0 .. MaxConnectRetries
        /\ 0 \in 0 .. SendWindow
  BY ConstantFacts DEF Session, SeqNum
<1>2. ASSUME NEW n \in Node
      PROVE  /\ NewEndpoint(n, 1) \in Endpoint
             /\ EndpointOK(n, NewEndpoint(n, 1), 0)
  <2>1. NewEndpoint(n, 1) \in Endpoint
    BY <1>1, BaseNonce, FreshType DEF NewEndpoint, Endpoint
  <2> QED BY <2>1, EmptyOK DEF NewEndpoint
<1>3. \A n \in Node : ep[n] = NewEndpoint(n, 1) /\ ep[n] \in Endpoint
  BY <1>2 DEF Init
<1>4. ep \in [Node -> Endpoint]
  BY <1>2 DEF Init
<1>5. \A n, m \in Node : PairOK(NewEndpoint(n, 1), NewEndpoint(m, 1))
  BY DEF PairOK, NewEndpoint
<1>6. ASSUME NEW n \in Node
      PROVE  /\ EndpointOK(n, ep[n], attempts[n])
             /\ PairOK(ep[n], ep[Peer[n]])
             /\ ep[n].local_session_id = sessions[n]
             /\ sessions[n] <= calls + 1
             /\ CurrentOnly(n, delivered[n])
  <2>1. attempts[n] = 0 /\ sessions[n] = 1 /\ calls = 0 /\ delivered[n] = <<>>
    BY DEF Init
  <2>2. ep[n].local_session_id = 1
    <3>1. ep[n] = NewEndpoint(n, 1)
      BY <1>3
    <3> QED BY <3>1 DEF NewEndpoint
  <2> QED BY <1>2, <1>3, <1>5, <2>1, <2>2, NodeFacts DEF CurrentOnly
<1>7. /\ net = {} /\ faults = 0 /\ pings = 0 /\ calls = 0
      /\ sessions \in [Node -> Session] /\ attempts \in [Node -> Nat]
      /\ restarts \in [Node -> SUBSET Nat] /\ delivered \in [Node -> Seq(Delivery)]
  BY <1>1 DEF Init
<1> QED BY <1>4, <1>6, <1>7, ConstantFacts DEF IInv

\* Nothing of an endpoint's sessions and numbers but its local session, its
\* peer and its filter change.
LEMMA StartConnectOK == ASSUME IInv, NEW n \in Active, StartConnect(n) PROVE IInv'
<1> DEFINE k == sessions[n] + 1
           e == Started(n, ep[n], k)
<1>1. n \in Node
  BY SessionAssumption
<1>2. /\ ep[n].conn_state \in {"disconnected", "timedout"}
      /\ calls < MaxCalls /\ calls' = calls + 1
      /\ sessions' = [sessions EXCEPT ![n] = k]
      /\ ep' = [ep EXCEPT ![n] = NonceTaken(e)]
      /\ net' = net \cup {ControlFrame(n, e, "syn")}
      /\ UNCHANGED <<faults, pings, attempts, restarts, delivered>>
  BY DEF StartConnect, Called, SendControl
<1>3. k \in Session /\ k \in Nat /\ k <= calls' + 1 /\ ep[n].local_session_id < k
        /\ ep[n].local_session_id \in Nat /\ calls' \in 0 .. MaxCalls /\ calls <= calls'
  <2>1. /\ sessions[n] \in Nat /\ sessions[n] <= calls + 1 /\ calls \in Nat
        /\ ep[n].local_session_id = sessions[n]
    BY <1>1, NodeState
  <2> QED BY <1>2, <2>1, ConstantFacts DEF Session
<1>4. /\ e \in Endpoint /\ e.local_session_id = k /\ e.peer_session_id = 0
      /\ e.conn_state = "connecting"
      /\ e.send_slots = ep[n].send_slots /\ e.pending_send_count = ep[n].pending_send_count
      /\ e.recv_slots = ep[n].recv_slots /\ e.recv_next_seq = ep[n].recv_next_seq
  <2>1. ep[n] \in Endpoint /\ NonceBase[n][k] \in Nat /\ FreshWindow \in Window
          /\ 0 \in 0 .. MaxConnectRetries
    <3> HIDE DEF k, e
    <3>1. ep[n] \in Endpoint
      BY <1>1, NodeState
    <3>2. NonceBase[n][k] \in Nat
      BY <1>1, <1>3, BaseNonce
    <3> QED BY <3>1, <3>2, FreshType, ConstantFacts
  <2> HIDE DEF k
  <2> QED BY <1>3, <2>1 DEF Started, Endpoint
<1> HIDE DEF e, k
<1>5. EndpointOK(n, e, attempts[n])
  <2>1. Grows(ep[n], e)
    BY <1>3, <1>4 DEF Grows
  <2> QED BY <1>1, <1>4, <2>1, NodeState, SameBuffers
<1>6. /\ EndpointOK(n, NonceTaken(e), attempts[n])
      /\ NonceTaken(e).local_session_id = k /\ NonceTaken(e).peer_session_id = 0
  BY <1>1, <1>4, <1>5, NonceTakenOK
<1>7. Grows(ep[n], NonceTaken(e))
  <2> HIDE DEF k
  <2> QED BY <1>3, <1>6 DEF Grows
<1>8. PairOK(NonceTaken(e), ep[Peer[n]])
  BY <1>1, <1>6, NodeState, EndpointFields DEF PairOK
<1>9. \A p \in net' : p \in net \/ (p.src = n /\ FrameOK(p, NonceTaken(e)))
  BY <1>1, <1>2, <1>4, ControlFrameOK
<1>10. /\ attempts' = attempts /\ attempts' \in [Node -> Nat]
       /\ restarts' \in [Node -> SUBSET Nat]
       /\ delivered' \in [Node -> Seq(Delivery)]
       /\ \A m \in Node : CurrentOnly(m, delivered'[m])
       /\ faults' \in 0 .. MaxFaults /\ pings' \in 0 .. MaxPings
  BY <1>1, <1>2, NodeState
<1> QED BY <1>1, <1>2, <1>3, <1>6, <1>7, <1>8, <1>9, <1>10, UpdateOK

LEMMA DisconnectOK == ASSUME IInv, NEW n \in Node, Disconnect(n) PROVE IInv'
<1> DEFINE e == [ep[n] EXCEPT !.conn_state = "disconnected", !.peer_session_id = 0,
                     !.rx_replay = FreshWindow, !.has_recv_seq = FALSE,
                     !.ack_dirty = FALSE, !.send_slots = {},
                     !.pending_send_count = 0, !.recv_slots = {}]
<1>1. /\ ep' = [ep EXCEPT ![n] = e] /\ calls < MaxCalls /\ calls' = calls + 1
      /\ UNCHANGED <<net, faults, pings, sessions, attempts, restarts, delivered>>
  BY DEF Disconnect, Called
<1>2. /\ e \in Endpoint /\ e.conn_state = "disconnected" /\ e.send_slots = {}
      /\ e.pending_send_count = 0 /\ e.recv_slots = {} /\ e.peer_session_id = 0
      /\ e.local_session_id = ep[n].local_session_id
      /\ e.tx_nonce_counter = ep[n].tx_nonce_counter
  <2>1. ep[n] \in Endpoint /\ FreshWindow \in Window /\ 0 \in 0 .. SendWindow
    BY FreshType, NodeState, ConstantFacts
  <2> QED BY <2>1 DEF Endpoint
<1> HIDE DEF e
<1>3. EndpointOK(n, e, attempts'[n])
  BY <1>2, EmptyOK
<1>4. Grows(ep[n], e) /\ PairOK(e, ep[Peer[n]])
  BY <1>2, NodeState, EndpointFields DEF Grows, PairOK
<1>5. sessions' = [sessions EXCEPT ![n] = e.local_session_id]
  <2>1. sessions \in [Node -> Session]
    BY DEF IInv
  <2> QED BY <1>1, <1>2, <2>1, NodeState
<1>6. /\ calls' \in 0 .. MaxCalls /\ calls <= calls' /\ e.local_session_id <= calls' + 1
  <2>1. /\ sessions[n] \in Nat /\ sessions[n] <= calls + 1 /\ calls \in Nat
        /\ ep[n].local_session_id = sessions[n]
    BY NodeState
  <2> QED BY <1>1, <1>2, <2>1, ConstantFacts
<1>7. /\ attempts' = attempts /\ attempts' \in [Node -> Nat]
      /\ restarts' \in [Node -> SUBSET Nat]
      /\ delivered' \in [Node -> Seq(Delivery)]
      /\ \A m \in Node : CurrentOnly(m, delivered'[m])
      /\ faults' \in 0 .. MaxFaults /\ pings' \in 0 .. MaxPings
  BY <1>1, NodeState
<1> QED BY <1>1, <1>3, <1>4, <1>5, <1>6, <1>7, UpdateOK

LEMMA RestartOK == ASSUME IInv, NEW n \in Node, Restart(n) PROVE IInv'
<1> DEFINE k == sessions[n] + 1
           e == NewEndpoint(n, k)
<1>1. /\ ep' = [ep EXCEPT ![n] = e] /\ calls < MaxCalls /\ calls' = calls + 1
      /\ sessions' = [sessions EXCEPT ![n] = k]
      /\ restarts' = [restarts EXCEPT ![n] = @ \cup {attempts[n]}]
      /\ delivered' = [delivered EXCEPT ![n] = <<>>]
      /\ UNCHANGED <<net, faults, pings, attempts>>
  BY DEF Restart, Called
<1>2. k \in Session /\ k \in Nat /\ k <= calls' + 1 /\ ep[n].local_session_id < k
        /\ ep[n].local_session_id \in Nat /\ calls' \in 0 .. MaxCalls /\ calls <= calls'
  <2>1. /\ sessions[n] \in Nat /\ sessions[n] <= calls + 1 /\ calls \in Nat
        /\ ep[n].local_session_id = sessions[n]
    BY NodeState
  <2> QED BY <1>1, <2>1, ConstantFacts DEF Session
<1> HIDE DEF k
<1>3. /\ e \in Endpoint /\ e.local_session_id = k /\ e.peer_session_id = 0
      /\ EndpointOK(n, e, attempts'[n])
  <2>1. 0 \in SeqNum /\ 1 \in SeqNum /\ 0 \in 0 .. MaxConnectRetries
          /\ 0 \in 0 .. SendWindow
    BY ConstantFacts DEF SeqNum
  <2>2. e \in Endpoint
    BY <1>2, <2>1, BaseNonce, FreshType DEF NewEndpoint, Endpoint
  <2> QED BY <2>2, EmptyOK DEF NewEndpoint
<1> HIDE DEF e
<1>4. Grows(ep[n], e) /\ PairOK(e, ep[Peer[n]])
  BY SMTT(40), <1>2, <1>3, NodeState, EndpointFields DEF Grows, PairOK
<1>5. delivered' \in [Node -> Seq(Delivery)] /\ \A m \in Node : CurrentOnly(m, delivered'[m])
  <2>1. /\ delivered \in [Node -> Seq(Delivery)] /\ <<>> \in Seq(Delivery)
        /\ \A m \in Node : CurrentOnly(m, delivered[m])
    BY NodeState
  <2> QED BY <1>1, <2>1 DEF CurrentOnly
<1>6. /\ attempts' = attempts /\ attempts' \in [Node -> Nat]
      /\ restarts' \in [Node -> SUBSET Nat]
      /\ faults' \in 0 .. MaxFaults /\ pings' \in 0 .. MaxPings
  BY <1>1, NodeState
<1>7. \A p \in net' : p \in net
  BY <1>1
<1> QED BY <1>1, <1>2, <1>3, <1>4, <1>5, <1>6, <1>7, UpdateOK

LEMMA SendOK == ASSUME IInv, NEW n \in Node, Send(n) PROVE IInv'
<1> DEFINE f == DataFrame(n, ep[n], attempts[n] + 1)
           e == [NonceTaken(ep[n]) EXCEPT !.next_send_seq = AddSeq(@, 1),
                                          !.send_slots = @ \cup {f},
                                          !.pending_send_count = @ + 1]
<1>1. /\ ep[n].conn_state = "connected" /\ ep[n].pending_send_count < SendWindow
      /\ ep' = [ep EXCEPT ![n] = e] /\ net' = net \cup {f}
      /\ attempts' = [attempts EXCEPT ![n] = @ + 1]
      /\ \E t \in Traffic : \A j \in Node : attempts'[j] <= t[j]
      /\ UNCHANGED <<faults, pings, sessions, calls, restarts, delivered>>
  <2>1. ep' = [ep EXCEPT ![n] = e] /\ net' = net \cup {f}
    <3>1. net' = net \cup {f}
      BY Zenon DEF Send
    <3>2. ep' = [ep EXCEPT ![n] = e]
      BY Z3 DEF Send
    <3> QED BY <3>1, <3>2
  <2> HIDE DEF e, f
  <2>2. /\ ep[n].conn_state = "connected" /\ ep[n].pending_send_count < SendWindow
        /\ attempts' = [attempts EXCEPT ![n] = @ + 1]
        /\ UNCHANGED <<faults, pings, sessions, calls, restarts, delivered>>
    BY DEF Send
  <2>3. \E t \in Traffic : \A j \in Node : attempts'[j] <= t[j]
    BY DEF Send
  <2> QED BY <2>1, <2>2, <2>3
<1>2. ep[n] \in Endpoint /\ EndpointOK(n, ep[n], attempts[n]) /\ attempts[n] \in Nat
        /\ attempts \in [Node -> Nat]
  BY NodeState
<1>3. attempts[n] + 1 \in Message
  <2>1. PICK t \in Traffic : \A j \in Node : attempts'[j] <= t[j]
    BY <1>1
  <2>2. t[n] \in Nat /\ attempts[n] + 1 <= t[n]
    BY <1>1, <1>2, <2>1, SessionAssumption
  <2>3. attempts[n] + 1 \in 1 .. t[n]
    BY <1>2, <2>2
  <2>4. attempts[n] + 1 \in UNION {1 .. t[m] : m \in Node}
    BY <2>3
  <2> QED BY <2>1, <2>4 DEF Message
<1>4. /\ f \in Packet /\ f.src = n /\ f.kind = "data" /\ f.body = attempts[n] + 1
      /\ f.session = ep[n].local_session_id /\ f.nonce = ep[n].tx_nonce_counter + 1
  <2> DEFINE c == ControlFrame(n, ep[n], "ack")
  <2>1. c \in Packet
    BY <1>2, ControlFrameOK DEF FrameOK
  <2>2. /\ f = [ControlFrame(n, ep[n], "data") EXCEPT !.seq = ep[n].next_send_seq,
                                                    !.body = attempts[n] + 1]
        /\ ep[n].next_send_seq \in SeqNum
    BY <1>2, EndpointFields DEF DataFrame
  <2> QED BY ZenonT(60), <1>3, <2>1, <2>2 DEF ControlFrame, Packet
<1> HIDE DEF f
<1>5. /\ e \in Endpoint /\ e.conn_state = "connected"
      /\ e.local_session_id = ep[n].local_session_id
      /\ e.peer_session_id = ep[n].peer_session_id /\ e.rx_replay = ep[n].rx_replay
      /\ e.tx_nonce_counter = ep[n].tx_nonce_counter + 1
      /\ e.send_slots = ep[n].send_slots \cup {f}
      /\ e.pending_send_count = ep[n].pending_send_count + 1
      /\ e.recv_slots = ep[n].recv_slots /\ e.recv_next_seq = ep[n].recv_next_seq
  <2>1. 1 \in 0 .. SeqMod
    BY ConstantFacts
  <2>2. AddSeq(ep[n].next_send_seq, 1) \in SeqNum
    BY <1>2, <2>1, EndpointFields, AddSeqType
  <2>3. ep[n].pending_send_count + 1 \in 0 .. SendWindow
    BY <1>1, <1>2, EndpointFields, ConstantFacts
  <2>4. /\ NonceTaken(ep[n]) \in Endpoint
        /\ NonceTaken(ep[n]) = [ep[n] EXCEPT !.tx_nonce_counter = @ + 1]
    BY <1>2, NonceTakenOK DEF NonceTaken
  <2> QED BY ZenonT(60), <1>1, <1>2, <1>4, <2>2, <2>3, <2>4 DEF Endpoint
<1> HIDE DEF e
<1>6. FrameOK(f, e)
  BY <1>2, <1>3, <1>4, <1>5, EndpointFields DEF FrameOK
<1>7. Grows(ep[n], e)
  BY <1>2, <1>5, EndpointFields DEF Grows
<1>8. attempts' \in [Node -> Nat] /\ attempts'[n] = attempts[n] + 1
        /\ \A m \in Node \ {n} : attempts'[m] = attempts[m]
  BY <1>1, <1>2
<1>9. QueueOK(n, e, attempts'[n])
  <2>1. QueueOK(n, ep[n], attempts[n])
    BY <1>2 DEF EndpointOK
  <2>2. \A g \in ep[n].send_slots :
            /\ g.src = n /\ g.kind = "data" /\ g.body <= attempts[n] /\ FrameOK(g, e)
            /\ g.body \in Nat
    <3>1. \A g \in ep[n].send_slots :
              g.src = n /\ g.kind = "data" /\ g.body <= attempts[n] /\ FrameOK(g, e)
      BY <1>2, <1>5, <1>7, <2>1, FrameGrows DEF QueueOK
    <3>2. \A g \in ep[n].send_slots : g.body \in Nat
      <4>1. Message \cup {0} \subseteq Nat
        BY MessageRange
      <4>2. \A g \in Packet : g.body \in Message \cup {0}
        BY DEF Packet
      <4> QED BY <1>2, <4>1, <4>2, EndpointFields
    <3> QED BY <3>1, <3>2
  <2>3. f \notin ep[n].send_slots
    BY <1>2, <1>4, <2>2
  <2>4. /\ IsFiniteSet(e.send_slots)
        /\ Cardinality(e.send_slots) = Cardinality(ep[n].send_slots) + 1
    BY ZenonT(60), <1>5, <2>1, <2>3, FS_AddElement DEF QueueOK
  <2>5. \A g, h \in e.send_slots : g.body = h.body => g = h
    BY <1>2, <1>4, <1>5, <2>1, <2>2 DEF QueueOK
  <2>6. \A g \in e.send_slots :
            g.src = n /\ g.kind = "data" /\ g.body <= attempts'[n] /\ FrameOK(g, e)
    BY <1>2, <1>4, <1>5, <1>6, <1>8, <2>2
  <2>7. e.pending_send_count = Cardinality(e.send_slots)
    BY <1>5, <2>1, <2>4 DEF QueueOK
  <2> QED BY <2>4, <2>5, <2>6, <2>7 DEF QueueOK
<1>10. EndpointOK(n, e, attempts'[n])
  BY <1>1, <1>2, <1>5, <1>9 DEF EndpointOK, BufferOK
<1>11. PairOK(e, ep[Peer[n]])
  BY <1>5, NodeState DEF PairOK
<1>12. /\ sessions' = [sessions EXCEPT ![n] = e.local_session_id]
       /\ e.local_session_id <= calls' + 1
  <2>1. sessions \in [Node -> Session]
    BY DEF IInv
  <2> QED BY <1>1, <1>5, <2>1, NodeState
<1>13. /\ restarts' \in [Node -> SUBSET Nat]
       /\ delivered' \in [Node -> Seq(Delivery)]
       /\ \A m \in Node : CurrentOnly(m, delivered'[m])
       /\ faults' \in 0 .. MaxFaults /\ pings' \in 0 .. MaxPings
       /\ calls' \in 0 .. MaxCalls /\ calls <= calls'
  <2>1. calls \in 0 .. MaxCalls /\ calls <= calls
    BY DEF IInv
  <2> QED BY <1>1, <2>1, NodeState
<1>14. \A p \in net' : p \in net \/ (p.src = n /\ FrameOK(p, e))
  BY <1>1, <1>4, <1>6
<1> QED BY <1>1, <1>7, <1>8, <1>10, <1>11, <1>12, <1>13, <1>14, UpdateOK

LEMMA RetryConnectOK == ASSUME IInv, NEW n \in Node, RetryConnect(n) PROVE IInv'
<1>1. /\ ep[n].conn_state = "connecting"
      /\ UNCHANGED <<faults, pings, sessions, calls, attempts, restarts, delivered>>
      /\ ep[n] \in Endpoint /\ faults' \in 0 .. MaxFaults /\ pings' \in 0 .. MaxPings
  BY NodeState DEF RetryConnect
<1>2. CASE /\ ep[n].connect_retries >= MaxConnectRetries
           /\ ep' = [ep EXCEPT ![n].conn_state = "timedout"]
           /\ UNCHANGED net
  <2> DEFINE e == [ep[n] EXCEPT !.conn_state = "timedout"]
  <2>1. /\ e \in Endpoint /\ e.conn_state = "timedout"
        /\ e.local_session_id = ep[n].local_session_id
        /\ e.peer_session_id = ep[n].peer_session_id
        /\ e.tx_nonce_counter = ep[n].tx_nonce_counter /\ e.rx_replay = ep[n].rx_replay
        /\ e.send_slots = ep[n].send_slots /\ e.pending_send_count = ep[n].pending_send_count
        /\ e.recv_slots = ep[n].recv_slots /\ e.recv_next_seq = ep[n].recv_next_seq
    BY <1>1 DEF Endpoint
  <2>2. ep' = [ep EXCEPT ![n] = e]
    BY <1>2
  <2> HIDE DEF e
  <2>3. net' \subseteq net
    BY <1>2
  <2> QED BY <1>1, <2>1, <2>2, <2>3, QuietStepOK
<1>3. CASE /\ ep[n].connect_retries < MaxConnectRetries
           /\ SendControl(n, [ep[n] EXCEPT !.connect_retries = @ + 1], "syn")
  <2> DEFINE e == [ep[n] EXCEPT !.connect_retries = @ + 1]
  <2>1. ep[n].connect_retries + 1 \in 0 .. MaxConnectRetries
    <3>1. ep[n].connect_retries \in 0 .. MaxConnectRetries
      BY <1>1 DEF Endpoint
    <3> QED BY <1>3, <3>1, ConstantFacts
  <2>2. /\ e \in Endpoint /\ e.conn_state = ep[n].conn_state
        /\ e.local_session_id = ep[n].local_session_id
        /\ e.peer_session_id = ep[n].peer_session_id
        /\ e.tx_nonce_counter = ep[n].tx_nonce_counter /\ e.rx_replay = ep[n].rx_replay
        /\ e.send_slots = ep[n].send_slots /\ e.pending_send_count = ep[n].pending_send_count
        /\ e.recv_slots = ep[n].recv_slots /\ e.recv_next_seq = ep[n].recv_next_seq
    BY <1>1, <2>1 DEF Endpoint
  <2>3. SendControl(n, e, "syn")
    BY <1>3
  <2> HIDE DEF e
  <2> QED BY <1>1, <2>2, <2>3, SameState, SendControlOK, NodeState
<1> QED BY <1>2, <1>3 DEF RetryConnect

LEMMA IdleTimeoutOK == ASSUME IInv, NEW n \in Node, IdleTimeout(n) PROVE IInv'
<1> DEFINE e == [ep[n] EXCEPT !.conn_state = "timedout"]
<1>1. /\ ep' = [ep EXCEPT ![n] = e] /\ calls < MaxCalls /\ calls' = calls + 1
      /\ UNCHANGED <<net, faults, pings, sessions, attempts, restarts, delivered>>
      /\ ep[n] \in Endpoint
  BY NodeState DEF IdleTimeout, Called
<1>2. /\ e \in Endpoint /\ e.conn_state = "timedout"
      /\ e.local_session_id = ep[n].local_session_id
      /\ e.peer_session_id = ep[n].peer_session_id
      /\ e.tx_nonce_counter = ep[n].tx_nonce_counter /\ e.rx_replay = ep[n].rx_replay
      /\ e.send_slots = ep[n].send_slots /\ e.pending_send_count = ep[n].pending_send_count
      /\ e.recv_slots = ep[n].recv_slots /\ e.recv_next_seq = ep[n].recv_next_seq
  BY <1>1 DEF Endpoint
<1> HIDE DEF e
<1>3. Grows(ep[n], e) /\ PairOK(e, ep[Peer[n]])
  BY <1>2, NodeState, EndpointFields DEF Grows, PairOK
<1>4. EndpointOK(n, e, attempts'[n])
  BY <1>1, <1>2, <1>3, NodeState, SameBuffers
<1>5. sessions' = [sessions EXCEPT ![n] = e.local_session_id]
  <2>1. sessions \in [Node -> Session]
    BY DEF IInv
  <2> QED BY <1>1, <1>2, <2>1, NodeState
<1>6. /\ calls' \in 0 .. MaxCalls /\ calls <= calls' /\ e.local_session_id <= calls' + 1
  <2>1. /\ sessions[n] \in Nat /\ sessions[n] <= calls + 1 /\ calls \in Nat
        /\ ep[n].local_session_id = sessions[n]
    BY NodeState
  <2> QED BY <1>1, <1>2, <2>1, ConstantFacts
<1>7. /\ attempts' = attempts /\ attempts' \in [Node -> Nat]
      /\ restarts' \in [Node -> SUBSET Nat]
      /\ delivered' \in [Node -> Seq(Delivery)]
      /\ \A m \in Node : CurrentOnly(m, delivered'[m])
      /\ faults' \in 0 .. MaxFaults /\ pings' \in 0 .. MaxPings
  BY <1>1, NodeState
<1> QED BY <1>1, <1>3, <1>4, <1>5, <1>6, <1>7, UpdateOK

LEMMA HeartbeatOK == ASSUME IInv, NEW n \in Node, Heartbeat(n) PROVE IInv'
<1>1. /\ SendControl(n, ep[n], "ping") /\ pings < MaxPings /\ pings' = pings + 1
      /\ UNCHANGED <<faults, sessions, calls, attempts, restarts, delivered>>
  BY DEF Heartbeat
<1>2. pings' \in 0 .. MaxPings /\ faults' \in 0 .. MaxFaults
  BY <1>1, NodeState, ConstantFacts
<1>3. ep[n].tx_nonce_counter <= ep[n].tx_nonce_counter
  BY NodeState, EndpointFields
<1> QED BY <1>1, <1>2, <1>3, SendControlOK, NodeState

LEMMA FlushAcksOK == ASSUME IInv, NEW n \in Node, FlushAcks(n) PROVE IInv'
<1> DEFINE e == [ep[n] EXCEPT !.ack_dirty = FALSE]
<1>1. /\ SendControl(n, e, "ack")
      /\ UNCHANGED <<faults, pings, sessions, calls, attempts, restarts, delivered>>
      /\ ep[n] \in Endpoint
  BY NodeState DEF FlushAcks
<1>2. /\ e \in Endpoint /\ e.conn_state = ep[n].conn_state
      /\ e.local_session_id = ep[n].local_session_id
      /\ e.peer_session_id = ep[n].peer_session_id
      /\ e.tx_nonce_counter = ep[n].tx_nonce_counter /\ e.rx_replay = ep[n].rx_replay
      /\ e.send_slots = ep[n].send_slots /\ e.pending_send_count = ep[n].pending_send_count
      /\ e.recv_slots = ep[n].recv_slots /\ e.recv_next_seq = ep[n].recv_next_seq
  BY <1>1 DEF Endpoint
<1> HIDE DEF e
<1> QED BY <1>1, <1>2, SameState, SendControlOK, NodeState

LEMMA RetransmitOK == ASSUME IInv, NEW n \in Node, Retransmit(n) PROVE IInv'
<1>1. /\ UNCHANGED <<faults, pings, sessions, calls, attempts, restarts, delivered>>
      /\ ep[n] \in Endpoint /\ EndpointOK(n, ep[n], attempts[n])
      /\ QueueOK(n, ep[n], attempts[n])
  BY NodeState DEF Retransmit, EndpointOK
<1>2. PICK frame \in ep[n].send_slots :
          \/ /\ frame.copy >= MaxRetransmits
             /\ ep' = [ep EXCEPT ![n].send_slots = @ \ {frame},
                                 ![n].pending_send_count = @ - 1]
             /\ UNCHANGED net
          \/ /\ frame.copy < MaxRetransmits
             /\ LET again == [frame EXCEPT !.copy = @ + 1]
                IN  /\ ep' = [ep EXCEPT ![n].send_slots =
                                            (@ \ {frame}) \cup {again}]
                    /\ net' = net \cup {again}
  BY DEF Retransmit
<1>3. /\ IsFiniteSet(ep[n].send_slots \ {frame})
      /\ Cardinality(ep[n].send_slots \ {frame}) = ep[n].pending_send_count - 1
      /\ ep[n].pending_send_count - 1 \in 0 .. SendWindow
  <2>1. /\ IsFiniteSet(ep[n].send_slots \ {frame})
        /\ Cardinality(ep[n].send_slots \ {frame}) = ep[n].pending_send_count - 1
    BY ZenonT(60), <1>1, FS_RemoveElement DEF QueueOK
  <2>2. Cardinality(ep[n].send_slots \ {frame}) \in Nat
    BY <2>1, FS_CardinalityType
  <2>3. ep[n].pending_send_count \in 0 .. SendWindow
    BY <1>1, EndpointFields
  <2> QED BY <2>1, <2>2, <2>3, ConstantFacts
<1>4. CASE ep' = [ep EXCEPT ![n].send_slots = @ \ {frame},
                            ![n].pending_send_count = @ - 1] /\ UNCHANGED net
  <2> DEFINE e == [ep[n] EXCEPT !.send_slots = @ \ {frame}, !.pending_send_count = @ - 1]
  <2>1. /\ e \in Endpoint /\ e.conn_state = ep[n].conn_state
        /\ e.local_session_id = ep[n].local_session_id
        /\ e.peer_session_id = ep[n].peer_session_id
        /\ e.tx_nonce_counter = ep[n].tx_nonce_counter /\ e.rx_replay = ep[n].rx_replay
        /\ e.send_slots = ep[n].send_slots \ {frame}
        /\ e.pending_send_count = ep[n].pending_send_count - 1
        /\ e.recv_slots = ep[n].recv_slots /\ e.recv_next_seq = ep[n].recv_next_seq
    BY <1>1, <1>3 DEF Endpoint
  <2>2. ep' = [ep EXCEPT ![n] = e]
    BY <1>1, <1>4, NodeState
  <2> HIDE DEF e
  <2>3. QueueOK(n, e, attempts[n])
    BY <1>1, <1>3, <2>1, SameFrames DEF QueueOK
  <2> QED BY <1>1, <1>4, <2>1, <2>2, <2>3, QueueStepOK
<1>5. CASE frame.copy < MaxRetransmits /\
           LET again == [frame EXCEPT !.copy = @ + 1]
           IN  /\ ep' = [ep EXCEPT ![n].send_slots = (@ \ {frame}) \cup {again}]
               /\ net' = net \cup {again}
  <2> DEFINE again == [frame EXCEPT !.copy = @ + 1]
             e == [ep[n] EXCEPT !.send_slots = (@ \ {frame}) \cup {again}]
  <2>1. /\ again \in Packet /\ again.src = frame.src /\ again.kind = frame.kind
        /\ again.body = frame.body /\ again.session = frame.session
        /\ again.nonce = frame.nonce /\ again # frame
    <3>1. frame \in Packet /\ frame.copy \in 0 .. MaxRetransmits
      BY <1>1, EndpointFields DEF Packet
    <3>2. frame.copy + 1 \in 0 .. MaxRetransmits /\ frame.copy + 1 # frame.copy
      BY <1>5, <3>1, ConstantFacts
    <3>3. again.copy = frame.copy + 1
      BY <3>1 DEF Packet
    <3> QED BY <3>1, <3>2, <3>3 DEF Packet
  <2>2. ep' = [ep EXCEPT ![n] = e] /\ net' = net \cup {again}
    BY <1>1, <1>5, NodeState
  <2> HIDE DEF again
  <2>3. /\ e \in Endpoint /\ e.conn_state = ep[n].conn_state
        /\ e.local_session_id = ep[n].local_session_id
        /\ e.peer_session_id = ep[n].peer_session_id
        /\ e.tx_nonce_counter = ep[n].tx_nonce_counter /\ e.rx_replay = ep[n].rx_replay
        /\ e.send_slots = (ep[n].send_slots \ {frame}) \cup {again}
        /\ e.pending_send_count = ep[n].pending_send_count
        /\ e.recv_slots = ep[n].recv_slots /\ e.recv_next_seq = ep[n].recv_next_seq
    <3>1. (ep[n].send_slots \ {frame}) \cup {again} \subseteq Packet
      BY <1>1, <2>1, EndpointFields
    <3> QED BY <1>1, <3>1 DEF Endpoint
  <2> HIDE DEF e
  <2>4. again \notin ep[n].send_slots
    BY <1>1, <2>1 DEF QueueOK
  <2>5. /\ IsFiniteSet(e.send_slots)
        /\ Cardinality(e.send_slots) = ep[n].pending_send_count
    <3>1. again \notin ep[n].send_slots \ {frame}
      BY <2>4
    <3>2. Cardinality(e.send_slots) = (ep[n].pending_send_count - 1) + 1
            /\ IsFiniteSet(e.send_slots)
      <4> DEFINE rest == ep[n].send_slots \ {frame}
      <4>1. IsFiniteSet(rest) /\ Cardinality(rest) = ep[n].pending_send_count - 1
              /\ again \notin rest /\ e.send_slots = rest \cup {again}
        BY <1>3, <2>3, <3>1
      <4> HIDE DEF rest
      <4> QED BY <4>1, FS_AddElement
    <3> QED BY <1>1, <3>2, EndpointFields
  <2>6. frame.src = n /\ frame.kind = "data" /\ frame.body <= attempts[n]
          /\ FrameOK(frame, ep[n])
    BY <1>1 DEF QueueOK
  <2>7. FrameOK(again, e)
    BY <2>1, <2>3, <2>6 DEF FrameOK
  <2>8. QueueOK(n, e, attempts[n])
    <3>1. \A f \in e.send_slots :
              f.src = n /\ f.kind = "data" /\ f.body <= attempts[n] /\ FrameOK(f, e)
      BY <1>1, <2>1, <2>3, <2>6, <2>7, SameFrames DEF QueueOK
    <3>2. \A f, g \in e.send_slots : f.body = g.body => f = g
      BY <1>1, <2>1, <2>3 DEF QueueOK
    <3> QED BY <2>3, <2>5, <3>1, <3>2 DEF QueueOK
  <2>9. \A p \in net' : p \in net \/ (p.src = n /\ FrameOK(p, e))
    BY <2>1, <2>2, <2>6, <2>7
  <2> QED BY <1>1, <2>2, <2>3, <2>8, <2>9, QueueStepOK
<1> QED BY <1>2, <1>4, <1>5
-----------------------------------------------------------------------------
(* OnUdpPacket *)

LEMMA AfterAckOK ==
    ASSUME NEW n \in Node, NEW e, NEW a, EndpointOK(n, e, a), NEW info
    PROVE  /\ EndpointOK(n, AfterAck(e, info), a)
           /\ AfterAck(e, info).local_session_id = e.local_session_id
           /\ AfterAck(e, info).peer_session_id = e.peer_session_id
           /\ AfterAck(e, info).tx_nonce_counter = e.tx_nonce_counter
           /\ AfterAck(e, info).rx_replay = e.rx_replay /\ Kept(e, AfterAck(e, info))
<1> DEFINE gone == Covered(e, info)
           e2 == AfterAck(e, info)
<1>1. e \in Endpoint /\ QueueOK(n, e, a) /\ gone \subseteq e.send_slots
  BY DEF EndpointOK, Covered
<1>2. /\ IsFiniteSet(e.send_slots \ gone) /\ IsFiniteSet(gone)
      /\ Cardinality(e.send_slots \ gone) = e.pending_send_count - Cardinality(gone)
  <2> HIDE DEF gone
  <2>1. e.send_slots \cap gone = gone
    BY <1>1
  <2>2. IsFiniteSet(e.send_slots) /\ e.pending_send_count = Cardinality(e.send_slots)
    BY <1>1 DEF QueueOK
  <2>3. IsFiniteSet(gone)
    BY <1>1, <2>2, FS_Subset
  <2>4. /\ IsFiniteSet(e.send_slots \ gone)
        /\ Cardinality(e.send_slots \ gone)
               = Cardinality(e.send_slots) - Cardinality(e.send_slots \cap gone)
    BY <2>2, FS_Difference
  <2> QED BY <2>1, <2>2, <2>3, <2>4
<1> HIDE DEF gone
<1>3. e.pending_send_count - Cardinality(gone) \in 0 .. SendWindow
  <2>1. /\ Cardinality(gone) \in Nat /\ Cardinality(e.send_slots \ gone) \in Nat
        /\ e.pending_send_count \in 0 .. SendWindow
    BY <1>1, <1>2, FS_CardinalityType, EndpointFields
  <2> QED BY <1>2, <2>1, ConstantFacts
<1>4. /\ e2 \in Endpoint /\ e2.conn_state = e.conn_state
      /\ e2.local_session_id = e.local_session_id
      /\ e2.peer_session_id = e.peer_session_id
      /\ e2.tx_nonce_counter = e.tx_nonce_counter /\ e2.rx_replay = e.rx_replay
      /\ e2.send_slots = e.send_slots \ gone
      /\ e2.pending_send_count = e.pending_send_count - Cardinality(gone)
      /\ e2.recv_slots = e.recv_slots /\ e2.recv_next_seq = e.recv_next_seq
      /\ e2.next_send_seq = e.next_send_seq
  <2>1. e2 = [e EXCEPT !.send_slots = @ \ gone,
                       !.pending_send_count = @ - Cardinality(gone)]
    BY DEF AfterAck, gone
  <2> HIDE DEF e2
  <2> QED BY <1>1, <1>3, <2>1 DEF Endpoint
<1> HIDE DEF e2
<1>5. QueueOK(n, e2, a)
  BY <1>1, <1>2, <1>4, SameFrames DEF QueueOK
<1>6. EndpointOK(n, e2, a)
  BY <1>4, <1>5 DEF EndpointOK, BufferOK
<1>7. Kept(e, e2)
  BY <1>4 DEF Kept
<1> QED BY <1>4, <1>6, <1>7 DEF e2

\* A packet that the session check and the filter let pass leaves its nonce in
\* the filter.
LEMMA TrackedOK ==
    ASSUME NEW n \in Node, NEW e, NEW a, EndpointOK(n, e, a),
           NEW o \in Endpoint, PairOK(e, o),
           NEW p \in Packet, FrameOK(p, o), ~ Foreign(e, p), ~ Replayed(e, p),
           NEW e2, e2 = [e EXCEPT !.rx_replay = Track(@, p.nonce)]
    PROVE  /\ EndpointOK(n, e2, a) /\ PairOK(e2, o)
           /\ e2.local_session_id = e.local_session_id
           /\ e2.peer_session_id = e.peer_session_id
           /\ e2.tx_nonce_counter = e.tx_nonce_counter /\ Kept(e, e2)
<1>1. e \in Endpoint /\ p.nonce \in Nat /\ e.rx_replay \in Window
        /\ p.session \in Session
  BY EndpointFields DEF EndpointOK, Packet
<1>2. /\ Track(e.rx_replay, p.nonce) \in Window
      /\ Track(e.rx_replay, p.nonce).max \in {e.rx_replay.max, p.nonce}
  BY <1>1, TrackType DEF Replayed
<1>3. /\ e2 \in Endpoint /\ e2.conn_state = e.conn_state
      /\ e2.local_session_id = e.local_session_id
      /\ e2.peer_session_id = e.peer_session_id
      /\ e2.tx_nonce_counter = e.tx_nonce_counter
      /\ e2.rx_replay = Track(e.rx_replay, p.nonce)
      /\ e2.send_slots = e.send_slots /\ e2.pending_send_count = e.pending_send_count
      /\ e2.recv_slots = e.recv_slots /\ e2.recv_next_seq = e.recv_next_seq
      /\ e2.next_send_seq = e.next_send_seq
  BY <1>1, <1>2 DEF Endpoint
<1>4. EndpointOK(n, e2, a)
  <2>1. Grows(e, e2)
    BY <1>1, <1>3, EndpointFields DEF Grows
  <2>2. /\ e2.conn_state = "connecting" => e2.peer_session_id = 0
        /\ e2.conn_state = "connected" => e2.peer_session_id # 0
        /\ n \notin Active => e2.conn_state # "connecting"
    BY <1>3 DEF EndpointOK, BufferOK
  <2> QED BY <1>3, <2>1, <2>2, SameBuffers
<1>5. PairOK(e2, o)
  <2>1. ASSUME e.peer_session_id = o.local_session_id
        PROVE  p.nonce <= o.tx_nonce_counter
    <3>1. p.session = e.peer_session_id
      BY <1>1, <2>1, EndpointFields DEF Foreign
    <3> QED BY <2>1, <3>1 DEF FrameOK
  <2> QED BY <1>2, <1>3, <2>1 DEF PairOK
<1>6. Kept(e, e2)
  BY <1>3 DEF Kept
<1> QED BY <1>3, <1>4, <1>5, <1>6

\* A SYN or SYN-ACK that is not foreign: the peer's session is learnt.
LEMMA JoinedOK ==
    ASSUME NEW n \in Node, NEW e, NEW a, EndpointOK(n, e, a),
           NEW o \in Endpoint, PairOK(e, o),
           NEW s \in Session, s <= o.local_session_id,
           e.peer_session_id \in {0, s}
    PROVE  /\ EndpointOK(n, Joined(e, s), a) /\ PairOK(Joined(e, s), o)
           /\ Joined(e, s).local_session_id = e.local_session_id
           /\ Joined(e, s).tx_nonce_counter = e.tx_nonce_counter
           /\ Kept(e, Joined(e, s))
<1> DEFINE e2 == Joined(e, s)
<1>1. e \in Endpoint /\ s # 0 /\ 0 \in 0 .. MaxConnectRetries
  BY ConstantFacts DEF EndpointOK, Session
<1>2. /\ e2 \in Endpoint /\ e2.conn_state = "connected" /\ e2.peer_session_id = s
      /\ e2.local_session_id = e.local_session_id
      /\ e2.tx_nonce_counter = e.tx_nonce_counter
      /\ e2.rx_replay = IF e.peer_session_id = s THEN e.rx_replay ELSE FreshWindow
      /\ e2.send_slots = e.send_slots /\ e2.pending_send_count = e.pending_send_count
      /\ e2.recv_slots = e.recv_slots /\ e2.recv_next_seq = e.recv_next_seq
      /\ e2.next_send_seq = e.next_send_seq
  <2>1. FreshWindow \in Window
    BY FreshType
  <2> DEFINE w == IF e.peer_session_id = s THEN e.rx_replay ELSE FreshWindow
  <2>2. w \in Window
    BY <1>1, <2>1, EndpointFields
  <2>3. e2 = [e EXCEPT !.conn_state = "connected", !.connect_retries = 0,
                       !.peer_session_id = s, !.rx_replay = w]
    BY DEF Joined
  <2> HIDE DEF e2, w
  <2>4. /\ e2 \in Endpoint /\ e2.conn_state = "connected" /\ e2.peer_session_id = s
        /\ e2.local_session_id = e.local_session_id
        /\ e2.tx_nonce_counter = e.tx_nonce_counter
        /\ e2.rx_replay = w
        /\ e2.send_slots = e.send_slots /\ e2.pending_send_count = e.pending_send_count
        /\ e2.recv_slots = e.recv_slots /\ e2.recv_next_seq = e.recv_next_seq
        /\ e2.next_send_seq = e.next_send_seq
    BY <1>1, <2>2, <2>3 DEF Endpoint
  <2> QED BY <2>4 DEF w
<1> HIDE DEF e2
<1>3. Grows(e, e2)
  BY <1>1, <1>2, EndpointFields DEF Grows
<1>4. n \in Active \/ e2.peer_session_id = e.peer_session_id \/ e.recv_slots = {}
  <2>1. ASSUME n \notin Active, e.peer_session_id = 0, NEW r \in e.recv_slots PROVE FALSE
    <3>1. r.from = 0
      BY <2>1 DEF EndpointOK, BufferOK
    <3>2. r.from \in Session
      BY <1>1, EndpointFields DEF RecvSlot
    <3> QED BY <3>1, <3>2 DEF Session
  <2> QED BY <1>2, <2>1
<1>5. EndpointOK(n, e2, a)
  BY <1>1, <1>2, <1>3, <1>4, SameBuffers
<1>6. PairOK(e2, o)
  <2>1. FreshWindow.max <= o.tx_nonce_counter
    BY FreshType, EndpointFields
  <2> QED BY <1>2, <2>1 DEF PairOK
<1>7. Kept(e, e2)
  BY <1>2 DEF Kept
<1> QED BY <1>2, <1>5, <1>6, <1>7 DEF e2

LEMMA InsertedOK ==
    ASSUME NEW n \in Node, NEW e, NEW a, EndpointOK(n, e, a),
           NEW p \in Packet, p.body \in Message, p.session = e.peer_session_id
    PROVE  /\ Inserted(e, p) \subseteq RecvSlot
           /\ \A r, q \in Inserted(e, p) : r.seq = q.seq => r = q
           /\ \A r \in Inserted(e, p) : SeqInWindow(r.seq, e.recv_next_seq, RecvWindow)
           /\ n \notin Active => \A r \in Inserted(e, p) : r.from = e.peer_session_id
<1> DEFINE new == [seq |-> p.seq, body |-> p.body, from |-> p.session, meant |-> p.meant]
<1>1. e \in Endpoint /\ BufferOK(n, e) /\ e.recv_slots \subseteq RecvSlot
  BY EndpointFields DEF EndpointOK
<1>2. /\ new \in RecvSlot /\ new.seq = p.seq /\ new.from = e.peer_session_id
  BY DEF Packet, RecvSlot
<1>3. CASE SeqInWindow(p.seq, e.recv_next_seq, RecvWindow)
             /\ \A r \in e.recv_slots : r.seq # p.seq
  <2>1. Inserted(e, p) = e.recv_slots \cup {new}
    BY <1>3 DEF Inserted
  <2> HIDE DEF new
  <2> QED BY <1>1, <1>2, <1>3, <2>1 DEF BufferOK
<1>4. CASE ~ (SeqInWindow(p.seq, e.recv_next_seq, RecvWindow)
                /\ \A r \in e.recv_slots : r.seq # p.seq)
  <2>1. Inserted(e, p) = e.recv_slots
    BY <1>4 DEF Inserted
  <2> QED BY <1>1, <2>1 DEF BufferOK
<1> QED BY <1>3, <1>4

\* The drain of a buffer whose numbers are distinct and lie in the window ends
\* within the window, and what it leaves lies in the window that follows.
LEMMA DrainOK ==
    ASSUME NEW slots \in SUBSET RecvSlot, NEW next \in SeqNum, NEW k \in Nat,
           \A r, q \in slots : r.seq = q.seq => r = q,
           \A r \in slots : SeqInWindow(r.seq, next, RecvWindow),
           IsRun(slots, next, k)
    PROVE  /\ k \in 0 .. SeqMod - 1
           /\ \A i \in 0 .. k - 1 : RecvAt(slots, AddSeq(next, i)) \in slots
           /\ \A i \in 0 .. k - 1 : RecvAt(slots, AddSeq(next, i)).seq = AddSeq(next, i)
           /\ \A r \in slots \ Run(slots, next, k) :
                  SeqInWindow(r.seq, AddSeq(next, k), RecvWindow)
<1>1. k <= RecvWindow
  <2> SUFFICES ASSUME k > RecvWindow PROVE FALSE
    BY ConstantFacts
  <2>1. RecvWindow \in 0 .. k - 1 /\ RecvWindow \in 0 .. SeqMod - 1
    BY ConstantFacts
  <2>2. PICK r \in slots : r.seq = AddSeq(next, RecvWindow)
    BY <2>1 DEF IsRun
  <2>3. DistanceFrom(next, r.seq) = RecvWindow
    BY <2>1, <2>2, DistanceOfAdd
  <2> QED BY <2>3, ConstantFacts DEF SeqInWindow
<1>2. k \in 0 .. SeqMod - 1
  BY <1>1, ConstantFacts
<1>3. ASSUME NEW i \in 0 .. k - 1
      PROVE  /\ RecvAt(slots, AddSeq(next, i)) \in slots
             /\ RecvAt(slots, AddSeq(next, i)).seq = AddSeq(next, i)
  <2>1. \E r \in slots : r.seq = AddSeq(next, i)
    BY <1>3 DEF IsRun
  <2> QED BY <2>1 DEF RecvAt
<1>4. ASSUME NEW r \in slots \ Run(slots, next, k)
      PROVE  SeqInWindow(r.seq, AddSeq(next, k), RecvWindow)
  <2> DEFINE d == DistanceFrom(next, r.seq)
  <2>1. r.seq \in SeqNum /\ d \in 0 .. SeqMod - 1 /\ AddSeq(next, d) = r.seq
    BY DistanceType DEF RecvSlot
  <2>2. d < RecvWindow
    BY DEF SeqInWindow
  <2> HIDE DEF d
  <2>3. d >= k
    <3> SUFFICES ASSUME d < k PROVE FALSE
      BY <2>1
    <3>1. d \in 0 .. k - 1
      BY <2>1
    <3>2. RecvAt(slots, AddSeq(next, d)) = r
      BY <1>3, <2>1, <3>1
    <3> QED BY <3>1, <3>2 DEF Run
  <2>4. k \in 0 .. d
    BY <2>1, <2>3
  <2>5. DistanceFrom(AddSeq(next, k), r.seq) = d - k
    BY <2>1, <2>4, DistanceLess DEF d
  <2> QED BY <2>1, <2>2, <2>5, ConstantFacts DEF SeqInWindow
<1> QED BY <1>2, <1>3, <1>4

LEMMA AfterDataOK ==
    ASSUME NEW n \in Node, NEW e, NEW a, EndpointOK(n, e, a),
           NEW p \in Packet, p.body \in Message, p.session = e.peer_session_id,
           NEW k \in Nat, IsRun(Inserted(e, p), e.recv_next_seq, k)
    PROVE  /\ EndpointOK(n, AfterData(e, p, k), a)
           /\ AfterData(e, p, k).local_session_id = e.local_session_id
           /\ AfterData(e, p, k).peer_session_id = e.peer_session_id
           /\ AfterData(e, p, k).tx_nonce_counter = e.tx_nonce_counter
           /\ AfterData(e, p, k).rx_replay = e.rx_replay
           /\ AfterData(e, p, k).send_slots = e.send_slots
           /\ AfterData(e, p, k).next_send_seq = e.next_send_seq
           /\ AfterData(e, p, k).recv_slots \subseteq Inserted(e, p)
           /\ AfterData(e, p, k).recv_next_seq = AddSeq(e.recv_next_seq, k)
           /\ Deliveries(e, Inserted(e, p), k) \in Seq(Delivery)
           /\ CurrentOnly(n, Deliveries(e, Inserted(e, p), k))
<1> DEFINE slots == Inserted(e, p)
           next == e.recv_next_seq
           rest == slots \ Run(slots, next, k)
           newest == IF ~ e.has_recv_seq \/ IsSeqLess(e.newest_recv_seq, p.seq)
                     THEN p.seq ELSE e.newest_recv_seq
           e2 == AfterData(e, p, k)
<1>1. /\ e \in Endpoint /\ next \in SeqNum /\ p.seq \in SeqNum
      /\ e.newest_recv_seq \in SeqNum
  BY EndpointFields DEF EndpointOK, Packet
<1>2. /\ slots \in SUBSET RecvSlot
      /\ \A r, q \in slots : r.seq = q.seq => r = q
      /\ \A r \in slots : SeqInWindow(r.seq, next, RecvWindow)
      /\ n \notin Active => \A r \in slots : r.from = e.peer_session_id
  BY InsertedOK
<1>3. IsRun(slots, next, k)
  OBVIOUS
<1> HIDE DEF slots
<1>4. /\ k \in 0 .. SeqMod - 1
      /\ \A i \in 0 .. k - 1 : RecvAt(slots, AddSeq(next, i)) \in slots
      /\ \A r \in rest : SeqInWindow(r.seq, AddSeq(next, k), RecvWindow)
  BY <1>1, <1>2, <1>3, DrainOK
<1>5. AddSeq(next, k) \in SeqNum /\ newest \in SeqNum
  <2>1. k \in 0 .. SeqMod
    BY <1>4, ConstantFacts
  <2> QED BY <1>1, <2>1, AddSeqType
<1>6. rest \subseteq RecvSlot
  BY <1>2
<1>7. e2 = [e EXCEPT !.recv_slots = rest, !.recv_next_seq = AddSeq(next, k),
                     !.newest_recv_seq = newest, !.has_recv_seq = TRUE,
                     !.ack_dirty = TRUE]
  BY DEF AfterData, slots
<1> HIDE DEF e2, rest, newest
<1>8. /\ e2 \in Endpoint /\ e2.conn_state = e.conn_state
      /\ e2.local_session_id = e.local_session_id
      /\ e2.peer_session_id = e.peer_session_id
      /\ e2.tx_nonce_counter = e.tx_nonce_counter /\ e2.rx_replay = e.rx_replay
      /\ e2.send_slots = e.send_slots /\ e2.pending_send_count = e.pending_send_count
      /\ e2.recv_slots = rest /\ e2.recv_next_seq = AddSeq(next, k)
      /\ e2.next_send_seq = e.next_send_seq
  BY <1>1, <1>5, <1>6, <1>7 DEF Endpoint
<1>9. QueueOK(n, e2, a)
  BY <1>8, SameFrames DEF EndpointOK, QueueOK
<1>10. BufferOK(n, e2)
  <2>1. rest \subseteq slots
    BY DEF rest
  <2>2. n \notin Active => e.conn_state # "connecting"
    BY DEF EndpointOK, BufferOK
  <2> QED BY <1>2, <1>4, <1>8, <2>1, <2>2 DEF BufferOK
<1>11. EndpointOK(n, e2, a)
  BY <1>8, <1>9, <1>10 DEF EndpointOK
<1>12. ASSUME NEW i \in 1 .. k
       PROVE  /\ DeliveryOf(e, RecvAt(slots, AddSeq(next, i - 1))) \in Delivery
              /\ n \notin Active
                     => DeliveryOf(e, RecvAt(slots, AddSeq(next, i - 1))).current
  <2>1. i - 1 \in 0 .. k - 1
    BY <1>4
  <2>2. PICK r \in slots : r = RecvAt(slots, AddSeq(next, i - 1))
    BY <1>4, <2>1
  <2>3. r.body \in Message
    BY <1>2 DEF RecvSlot
  <2>4. DeliveryOf(e, r) \in Delivery
    BY <2>3 DEF DeliveryOf, Delivery
  <2>5. n \notin Active => DeliveryOf(e, r).current
    BY <1>2 DEF DeliveryOf
  <2> QED BY <2>2, <2>4, <2>5
<1>13. /\ Deliveries(e, slots, k) \in Seq(Delivery)
       /\ CurrentOnly(n, Deliveries(e, slots, k))
  <2>1. Deliveries(e, slots, k)
            = [i \in 1 .. k |-> DeliveryOf(e, RecvAt(slots, AddSeq(next, i - 1)))]
    BY DEF Deliveries
  <2>2. Deliveries(e, slots, k) \in [1 .. k -> Delivery]
    BY <1>12, <2>1
  <2>3. Deliveries(e, slots, k) \in Seq(Delivery) /\ Len(Deliveries(e, slots, k)) = k
    BY <1>4, <2>2
  <2>4. n \notin Active => \A i \in 1 .. k : Deliveries(e, slots, k)[i].current
    BY <1>12, <2>1
  <2> QED BY <2>3, <2>4 DEF CurrentOnly
<1>14. e2.recv_slots \subseteq slots
  BY <1>8 DEF rest
<1> QED BY <1>8, <1>11, <1>13, <1>14 DEF slots, e2

\* Node n takes packet p of its peer and is in state now before any data in it
\* is looked at.
LEMMA HeardOK ==
    ASSUME IInv, NEW n \in Node, NEW p \in net, p.src = Peer[n],
           ~ Foreign(ep[n], p), ~ Replayed(ep[n], p),
           NEW heard,
           heard = AfterAck([ep[n] EXCEPT !.rx_replay = Track(@, p.nonce)], p.info),
           NEW now,
           now = IF Joins(heard, p) THEN Joined(heard, p.session) ELSE heard
    PROVE  /\ EndpointOK(n, now, attempts[n]) /\ now \in Endpoint
           /\ PairOK(now, ep[Peer[n]])
           /\ now.local_session_id = ep[n].local_session_id
           /\ now.tx_nonce_counter = ep[n].tx_nonce_counter
           /\ Joins(heard, p) \/ now.peer_session_id = ep[n].peer_session_id
           /\ Kept(ep[n], now)
<1> DEFINE o == ep[Peer[n]]
           e == [ep[n] EXCEPT !.rx_replay = Track(@, p.nonce)]
<1>1. /\ p \in Packet /\ FrameOK(p, o) /\ o \in Endpoint /\ PairOK(ep[n], o)
      /\ EndpointOK(n, ep[n], attempts[n]) /\ ep[n] \in Endpoint
  BY NodeState DEF IInv
<1> HIDE DEF o, e
<1>2. /\ EndpointOK(n, e, attempts[n]) /\ PairOK(e, o)
      /\ e.local_session_id = ep[n].local_session_id
      /\ e.peer_session_id = ep[n].peer_session_id
      /\ e.tx_nonce_counter = ep[n].tx_nonce_counter /\ Kept(ep[n], e)
  BY <1>1, TrackedOK DEF e
<1>3. heard = AfterAck(e, p.info)
  BY DEF e
<1>4. /\ EndpointOK(n, heard, attempts[n]) /\ PairOK(heard, o)
      /\ heard.local_session_id = ep[n].local_session_id
      /\ heard.peer_session_id = ep[n].peer_session_id
      /\ heard.tx_nonce_counter = ep[n].tx_nonce_counter
      /\ Kept(ep[n], heard)
  <2>1. /\ EndpointOK(n, heard, attempts[n])
        /\ heard.local_session_id = e.local_session_id
        /\ heard.peer_session_id = e.peer_session_id
        /\ heard.tx_nonce_counter = e.tx_nonce_counter
        /\ heard.rx_replay = e.rx_replay /\ Kept(e, heard)
    BY <1>2, <1>3, AfterAckOK
  <2> QED BY <1>2, <2>1 DEF PairOK, Kept
<1>5. CASE Joins(heard, p)
  <2>1. p.session \in Session /\ p.session <= o.local_session_id
    BY <1>1 DEF Packet, FrameOK
  <2>2. heard.peer_session_id \in {0, p.session}
    BY <1>4 DEF Foreign
  <2>3. now = Joined(heard, p.session)
    BY <1>5
  <2>4. /\ EndpointOK(n, now, attempts[n]) /\ PairOK(now, o)
        /\ now.local_session_id = heard.local_session_id
        /\ now.tx_nonce_counter = heard.tx_nonce_counter /\ Kept(heard, now)
    BY <1>1, <1>4, <2>1, <2>2, <2>3, JoinedOK
  <2>5. Kept(ep[n], now)
    BY <1>4, <2>4 DEF Kept
  <2> QED BY <1>4, <1>5, <2>4, <2>5 DEF EndpointOK, o
<1>6. CASE ~ Joins(heard, p)
  BY <1>4, <1>6 DEF EndpointOK, o
<1> QED BY <1>5, <1>6

LEMMA TakePacketOK ==
    ASSUME IInv, NEW n \in Node, NEW p \in net, p.src = Peer[n],
           NEW left \in SUBSET net, TakePacket(n, p, left),
           faults' \in 0 .. MaxFaults,
           UNCHANGED <<pings, sessions, calls, attempts, restarts>>
    PROVE  IInv'
<1> DEFINE heard == AfterAck([ep[n] EXCEPT !.rx_replay = Track(@, p.nonce)], p.info)
           now == IF Joins(heard, p) THEN Joined(heard, p.session) ELSE heard
<1>1. ~ Foreign(ep[n], p) /\ ~ Replayed(ep[n], p)
  BY DEF TakePacket
<1>2. /\ EndpointOK(n, now, attempts[n]) /\ now \in Endpoint
      /\ PairOK(now, ep[Peer[n]])
      /\ now.local_session_id = ep[n].local_session_id
      /\ now.tx_nonce_counter = ep[n].tx_nonce_counter
      /\ Joins(heard, p) \/ now.peer_session_id = ep[n].peer_session_id
  <2> HIDE DEF heard
  <2> QED BY <1>1, HeardOK DEF heard
<1>3. /\ p \in Packet /\ FrameOK(p, ep[Peer[n]])
      /\ delivered \in [Node -> Seq(Delivery)] /\ pings' \in 0 .. MaxPings
      /\ \A m \in Node : CurrentOnly(m, delivered[m])
  BY NodeState DEF IInv
<1>4. IF TakesData(now, p)
      THEN \E k \in 0 .. Cardinality(Inserted(now, p)) :
               /\ IsRun(Inserted(now, p), now.recv_next_seq, k)
               /\ ep' = [ep EXCEPT ![n] = AfterData(now, p, k)]
               /\ delivered' = [delivered EXCEPT ![n] =
                      @ \o Deliveries(now, Inserted(now, p), k)]
               /\ net' = left
      ELSE /\ ep' = [ep EXCEPT ![n] =
                  IF Answers(heard, p) = {} THEN now ELSE NonceTaken(now)]
           /\ net' = left \cup {ControlFrame(n, now, kind) : kind \in Answers(heard, p)}
           /\ UNCHANGED delivered
  BY Zenon DEF TakePacket
<1>5. Answers(heard, p) \subseteq {"synack", "ack"}
        /\ (p.kind = "data" => Answers(heard, p) = {} /\ ~ Joins(heard, p))
  <2> HIDE DEF heard
  <2>1. p.kind = "data" => ~ Joins(heard, p)
    BY DEF Joins
  <2>2. CASE p.kind = "syn"
    BY <2>2 DEF Answers
  <2>3. CASE p.kind = "synack"
    BY <2>3 DEF Answers
  <2>4. CASE p.kind = "ping"
    BY <2>4 DEF Answers
  <2>5. CASE p.kind \notin {"syn", "synack", "ping"}
    BY <2>1, <2>5 DEF Answers
  <2> QED BY <2>1, <2>2, <2>3, <2>4, <2>5
<1> HIDE DEF heard, now
<1>6. CASE TakesData(now, p)
  <2>1. PICK k \in 0 .. Cardinality(Inserted(now, p)) :
            /\ IsRun(Inserted(now, p), now.recv_next_seq, k)
            /\ ep' = [ep EXCEPT ![n] = AfterData(now, p, k)]
            /\ delivered' = [delivered EXCEPT ![n] =
                   @ \o Deliveries(now, Inserted(now, p), k)]
            /\ net' = left
    BY <1>4, <1>6
  <2>2. k \in Nat
    OBVIOUS
  <2>3. p.body \in Message /\ p.session = now.peer_session_id
    <3>1. p.kind = "data" /\ now.conn_state = "connected"
      BY <1>6 DEF TakesData
    <3>2. now.peer_session_id # 0 /\ now.peer_session_id = ep[n].peer_session_id
      BY <1>2, <1>5, <3>1 DEF EndpointOK
    <3> QED BY <1>1, <1>3, <3>1, <3>2 DEF FrameOK, Foreign
  <2> DEFINE e == AfterData(now, p, k)
             given == Deliveries(now, Inserted(now, p), k)
  <2>4. /\ EndpointOK(n, e, attempts[n])
        /\ e.local_session_id = now.local_session_id
        /\ e.peer_session_id = now.peer_session_id
        /\ e.tx_nonce_counter = now.tx_nonce_counter
        /\ e.rx_replay = now.rx_replay
        /\ given \in Seq(Delivery) /\ CurrentOnly(n, given)
    BY <1>2, <1>3, <2>1, <2>2, <2>3, AfterDataOK
  <2>5. /\ ep' = [ep EXCEPT ![n] = e] /\ net' = left
        /\ delivered' = [delivered EXCEPT ![n] = @ \o given]
    BY <2>1
  <2> HIDE DEF e, given
  <2>6. PairOK(e, ep[Peer[n]])
    BY <1>2, <2>4 DEF PairOK
  <2>7. ep[n].tx_nonce_counter <= e.tx_nonce_counter
    BY <1>2, <2>4, EndpointFields
  <2>8. delivered' \in [Node -> Seq(Delivery)] /\ \A m \in Node : CurrentOnly(m, delivered'[m])
    <3>1. delivered[n] \in Seq(Delivery) /\ delivered[n] \o given \in Seq(Delivery)
      BY <1>3, <2>4
    <3>2. delivered' \in [Node -> Seq(Delivery)] /\ delivered'[n] = delivered[n] \o given
            /\ \A m \in Node \ {n} : delivered'[m] = delivered[m]
      BY <1>3, <2>5, <3>1
    <3>3. CurrentOnly(n, delivered[n] \o given)
      <4> SUFFICES ASSUME n \notin Active, NEW j \in 1 .. Len(delivered[n] \o given)
                   PROVE  (delivered[n] \o given)[j].current
        BY DEF CurrentOnly
      <4>1. CASE j \in 1 .. Len(delivered[n])
        BY <1>3, <2>4, <3>1, <4>1 DEF CurrentOnly
      <4>2. CASE j \notin 1 .. Len(delivered[n])
        <5>1. /\ j - Len(delivered[n]) \in 1 .. Len(given)
              /\ (delivered[n] \o given)[j] = given[j - Len(delivered[n])]
          BY <2>4, <3>1, <4>2
        <5> QED BY <2>4, <5>1 DEF CurrentOnly
      <4> QED BY <4>1, <4>2
    <3> QED BY <1>3, <3>2, <3>3
  <2>9. \A q \in net' : q \in net
    BY <2>5
  <2> QED BY <1>2, <1>3, <2>4, <2>5, <2>6, <2>7, <2>8, <2>9, StepInSession
<1>7. CASE ~ TakesData(now, p)
  <2>1. /\ ep' = [ep EXCEPT ![n] = IF Answers(heard, p) = {} THEN now ELSE NonceTaken(now)]
        /\ net' = left \cup {ControlFrame(n, now, kind) : kind \in Answers(heard, p)}
        /\ UNCHANGED delivered
    BY <1>4, <1>7
  <2>2. delivered' \in [Node -> Seq(Delivery)] /\ \A m \in Node : CurrentOnly(m, delivered'[m])
    BY <1>3, <2>1
  <2>3. CASE Answers(heard, p) = {}
    <3>1. ep' = [ep EXCEPT ![n] = now] /\ net' = left
      BY <2>1, <2>3
    <3>2. ep[n].tx_nonce_counter <= now.tx_nonce_counter
      BY <1>2, EndpointFields
    <3>3. \A q \in net' : q \in net
      BY <3>1
    <3> QED BY <1>2, <1>3, <2>2, <3>1, <3>2, <3>3, StepInSession
  <2>4. CASE Answers(heard, p) # {}
    <3> DEFINE e == NonceTaken(now)
    <3>1. ep' = [ep EXCEPT ![n] = e]
      BY <2>1, <2>4
    <3>2. /\ EndpointOK(n, e, attempts[n]) /\ e.local_session_id = now.local_session_id
          /\ e.tx_nonce_counter = now.tx_nonce_counter + 1
          /\ e.peer_session_id = now.peer_session_id /\ e.rx_replay = now.rx_replay
      BY <1>2, NonceTakenOK
    <3>3. \A q \in net' : q \in net \/ (q.src = n /\ FrameOK(q, e))
      <4> TAKE q \in net'
      <4>1. CASE q \in left
        BY <4>1
      <4>2. CASE q \notin left
        <5>1. PICK kind \in Answers(heard, p) : q = ControlFrame(n, now, kind)
          BY <2>1, <4>2
        <5>2. kind \in {"syn", "synack", "ping", "ack"}
          BY <1>5
        <5> QED BY <1>2, <5>1, <5>2, ControlFrameOK
      <4> QED BY <4>1, <4>2
    <3> HIDE DEF e
    <3>4. PairOK(e, ep[Peer[n]])
      BY <1>2, <3>2 DEF PairOK
    <3>5. ep[n].tx_nonce_counter <= e.tx_nonce_counter
            /\ e.local_session_id = ep[n].local_session_id
      BY <1>2, <3>2, EndpointFields
    <3> QED BY <1>3, <2>2, <3>1, <3>2, <3>3, <3>4, <3>5, StepInSession
  <2> QED BY <2>3, <2>4
<1> QED BY <1>6, <1>7

LEMMA OnUdpPacketOK ==
    ASSUME IInv, NEW n \in Node, NEW p, NEW left \in SUBSET net,
           OnUdpPacket(n, p, left), faults' \in 0 .. MaxFaults
    PROVE  IInv'
<1>1. /\ p \in net /\ p.src = Peer[n]
      /\ DropPacket(n, p, left) \/ TakePacket(n, p, left)
      /\ UNCHANGED <<pings, sessions, calls, attempts, restarts>>
  BY DEF OnUdpPacket
<1>2. CASE DropPacket(n, p, left)
  <2> DEFINE dirty == \/ ep[n].ack_dirty
                      \/ /\ ~ Foreign(ep[n], p)
                         /\ IsDuplicate(ep[n].rx_replay, p.nonce)
                         /\ p.kind \in {"syn", "data"}
             e == [ep[n] EXCEPT !.ack_dirty = dirty]
  <2>1. ep' = [ep EXCEPT ![n] = e] /\ net' = left /\ UNCHANGED delivered
    BY <1>2 DEF DropPacket
  <2>2. dirty \in BOOLEAN /\ ep[n] \in Endpoint
    BY NodeState DEF Endpoint
  <2> HIDE DEF dirty
  <2>3. /\ e \in Endpoint /\ e.conn_state = ep[n].conn_state
        /\ e.local_session_id = ep[n].local_session_id
        /\ e.peer_session_id = ep[n].peer_session_id
        /\ e.tx_nonce_counter = ep[n].tx_nonce_counter /\ e.rx_replay = ep[n].rx_replay
        /\ e.send_slots = ep[n].send_slots /\ e.pending_send_count = ep[n].pending_send_count
        /\ e.recv_slots = ep[n].recv_slots /\ e.recv_next_seq = ep[n].recv_next_seq
    BY <2>2 DEF Endpoint
  <2> HIDE DEF e
  <2> QED BY <1>1, <2>1, <2>3, QuietStepOK
<1>3. CASE TakePacket(n, p, left)
  BY <1>1, <1>3, TakePacketOK
<1> QED BY <1>1, <1>2, <1>3

LEMMA StepOK == ASSUME IInv, [Next]_vars PROVE IInv'
<1>1. ASSUME NEW n \in Active, StartConnect(n) PROVE IInv'
  BY <1>1, StartConnectOK
<1>2. ASSUME NEW n \in Node,
             Disconnect(n) \/ Restart(n) \/ Send(n) \/ RetryConnect(n)
                 \/ IdleTimeout(n) \/ Heartbeat(n) \/ Retransmit(n) \/ FlushAcks(n)
      PROVE  IInv'
  BY <1>2, DisconnectOK, RestartOK, SendOK, RetryConnectOK, IdleTimeoutOK,
     HeartbeatOK, RetransmitOK, FlushAcksOK
<1>3. ASSUME NEW n \in Node, NEW p \in net, Arrive(n, p) PROVE IInv'
  <2>1. OnUdpPacket(n, p, net \ {p}) /\ faults' \in 0 .. MaxFaults
    BY <1>3 DEF Arrive, IInv
  <2> QED BY <2>1, OnUdpPacketOK
<1>4. ASSUME NEW n \in Node, NEW p \in net, Duplicate(n, p) PROVE IInv'
  <2>1. /\ OnUdpPacket(n, p, net) /\ faults < MaxFaults /\ faults' = faults + 1
        /\ faults \in 0 .. MaxFaults
    BY <1>4 DEF Duplicate, IInv
  <2> QED BY <2>1, ConstantFacts, OnUdpPacketOK
<1>5. ASSUME NEW p \in net, Lose(p) PROVE IInv'
  <2>1. /\ faults < MaxFaults /\ faults' = faults + 1 /\ net' = net \ {p}
        /\ UNCHANGED <<ep, pings, sessions, calls, attempts, restarts, delivered>>
    BY <1>5 DEF Lose
  <2>2. faults' \in 0 .. MaxFaults
    BY <2>1, ConstantFacts DEF IInv
  <2> QED BY <2>1, <2>2 DEF IInv
<1>6. CASE UNCHANGED vars
  BY <1>6 DEF vars, IInv
<1> QED BY <1>1, <1>2, <1>3, <1>4, <1>5, <1>6 DEF Next
-----------------------------------------------------------------------------
(* Theorems *)

\* The inductive invariant: queues and buffers are sound, no frame belongs to a
\* session its sender has not had, and no filter is ahead of the session its
\* endpoint has joined.
THEOREM Invariance == Spec => []IInv
<1>1. IInv /\ [Next]_vars => IInv'
  BY StepOK
<1> QED BY <1>1, InitOK, PTL DEF Spec

\* Whatever calls, timers and frames follow each other, both endpoints keep
\* their types, the count of queued messages is exact, and the peer's session is
\* known exactly where the connection state says so.
THEOREM TypeCorrect == Spec => []TypeOK
<1>1. IInv => TypeOK
  BY DEF IInv, TypeOK, EndpointOK, QueueOK
<1> QED BY <1>1, Invariance, PTL

\* An endpoint that waits to be called gives its application nothing of a
\* session that its peer has left, whatever is still in flight or in its
\* reorder buffer.
THEOREM LeftSessionsSilent == Spec => []LeftSessionSilent
<1>1. IInv => LeftSessionSilent
  BY DEF IInv, CurrentOnly, LeftSessionSilent
<1> QED BY <1>1, Invariance, PTL

\* No nonce that the filter of OnUdpPacket met before makes it refuse the next
\* frame of the session the endpoint has joined.
THEOREM NextFrameTaken == Spec => []NextFrameAdmitted
<1>1. ASSUME IInv PROVE NextFrameAdmitted
  <2> SUFFICES ASSUME NEW n \in Node,
                      ep[n].peer_session_id = ep[Peer[n]].local_session_id
               PROVE  Accepts(ep[n].rx_replay, ep[Peer[n]].tx_nonce_counter + 1)
    BY DEF NextFrameAdmitted
  <2>1. /\ ep[n].rx_replay \in Window /\ ep[n].rx_replay.max \in Nat
        /\ ep[Peer[n]].tx_nonce_counter \in Nat
        /\ ep[n].rx_replay.max <= ep[Peer[n]].tx_nonce_counter
    BY <1>1, NodeState, EndpointFields DEF PairOK
  <2> QED BY <2>1, NewerAccepted
<1> QED BY <1>1, Invariance, PTL
-----------------------------------------------------------------------------
(* Order, as long as no sequence number is used twice in a process *)

\* No node has sent, since the last Init, so many messages that numbers come round.
ShortLived ==
    \A n \in Node : \A b \in restarts[n] \cup {0} :
        (\A r \in restarts[n] : r <= b) => attempts[n] + 1 - b < SeqMod

\* Message body of node m has the number seq: its ordinal among the messages of
\* the process that sent it, which began after message b.
Placed(m, seq, body) ==
    /\ body \in 1 .. attempts[m]
    /\ \E b \in restarts[m] \cup {0} :
           /\ b < body /\ seq = body - b /\ seq + 1 < SeqMod
           /\ \A r \in restarts[m] : r <= b \/ body <= r

SentPlaced(n, slots) == \A f \in slots : Placed(n, f.seq, f.body)

NextPlaced(n, next) ==
    /\ next < SeqMod
    /\ \E b \in restarts[n] \cup {0} :
           /\ b <= attempts[n] /\ next = attempts[n] + 1 - b
           /\ \A r \in restarts[n] : r <= b

ReceivedPlaced(n, e, d) ==
    /\ \A r \in e.recv_slots : Placed(Peer[n], r.seq, r.body)
    /\ e.recv_next_seq = Len(d) + 1
    /\ \A k \in 1 .. Len(d) : Placed(Peer[n], k, d[k].body)

\* What is queued, in flight, buffered and delivered has its place, and the
\* endpoints expect and use the number that comes next.
PlaceInv ==
    /\ \A n \in Node :
           /\ SentPlaced(n, ep[n].send_slots)
           /\ NextPlaced(n, ep[n].next_send_seq)
           /\ ReceivedPlaced(n, ep[n], delivered[n])
    /\ \A p \in net : p.kind = "data" => Placed(p.src, p.seq, p.body)

\* A process sends messages and another one begins after them.
HistoryGrows ==
    \A m \in Node :
        /\ attempts[m] \in Nat /\ attempts'[m] \in Nat
        /\ attempts[m] <= attempts'[m]
        /\ restarts[m] \subseteq restarts'[m]
        /\ \A r \in restarts'[m] : r \in Nat /\ (r \in restarts[m] \/ attempts[m] <= r)

LEMMA PlacedRange ==
    ASSUME NEW m \in Node, NEW s, NEW b, Placed(m, s, b),
           attempts[m] \in Nat, restarts[m] \subseteq Nat
    PROVE  b \in Nat /\ s \in Nat /\ 1 <= s /\ s + 1 < SeqMod
BY DEF Placed

LEMMA PlacedKept ==
    ASSUME HistoryGrows, NEW m \in Node, NEW s, NEW b, Placed(m, s, b)
    PROVE  Placed(m, s, b)'
<1>1. b \in 1 .. attempts[m] /\ attempts[m] \in Nat /\ attempts'[m] \in Nat
        /\ attempts[m] <= attempts'[m]
  BY DEF Placed, HistoryGrows
<1>2. PICK c \in restarts[m] \cup {0} :
          /\ c < b /\ s = b - c /\ s + 1 < SeqMod
          /\ \A r \in restarts[m] : r <= c \/ b <= r
  BY DEF Placed
<1>3. ASSUME NEW r \in restarts'[m] PROVE r <= c \/ b <= r
  <2>1. r \in Nat /\ (r \in restarts[m] \/ attempts[m] <= r)
    BY DEF HistoryGrows
  <2> QED BY <1>1, <1>2, <2>1
<1>4. c \in restarts'[m] \cup {0}
  BY <1>2 DEF HistoryGrows
<1>5. b \in 1 .. attempts'[m]
  BY <1>1
<1> QED BY <1>2, <1>3, <1>4, <1>5 DEF Placed

\* One node changes and its peer keeps its endpoint and its history.
LEMMA PlaceStep ==
    ASSUME IInv, PlaceInv, HistoryGrows, NEW n \in Node,
           ep'[Peer[n]] = ep[Peer[n]], delivered'[Peer[n]] = delivered[Peer[n]],
           attempts'[Peer[n]] = attempts[Peer[n]],
           restarts'[Peer[n]] = restarts[Peer[n]],
           SentPlaced(n, ep[n].send_slots)', NextPlaced(n, ep[n].next_send_seq)',
           ReceivedPlaced(n, ep[n], delivered[n])',
           \A p \in net' : p \in net \/ p.kind # "data" \/ Placed(p.src, p.seq, p.body)'
    PROVE  PlaceInv'
<1> DEFINE o == Peer[n]
<1>1. o \in Node /\ Peer[o] = n /\ \A m \in Node : m = n \/ m = o
  BY NodeFacts
<1>2. SentPlaced(o, ep[o].send_slots) /\ NextPlaced(o, ep[o].next_send_seq)
        /\ ReceivedPlaced(o, ep[o], delivered[o])
  BY <1>1 DEF PlaceInv
<1>3. SentPlaced(o, ep[o].send_slots)'
  BY <1>1, <1>2, PlacedKept DEF SentPlaced
<1>4. NextPlaced(o, ep[o].next_send_seq)'
  BY <1>1, <1>2 DEF NextPlaced
<1>5. ReceivedPlaced(o, ep[o], delivered[o])'
  <2>1. /\ \A r \in ep[o].recv_slots : Placed(n, r.seq, r.body)'
        /\ \A k \in 1 .. Len(delivered[o]) : Placed(n, k, delivered[o][k].body)'
    BY <1>1, <1>2, PlacedKept DEF ReceivedPlaced
  <2> QED BY <1>1, <1>2, <2>1 DEF ReceivedPlaced
<1>6. ASSUME NEW p \in net', p.kind = "data" PROVE Placed(p.src, p.seq, p.body)'
  <2>1. CASE p \in net
    <3>1. p.src \in Node
      BY <2>1 DEF IInv, Packet
    <3> QED BY <1>6, <2>1, <3>1, PlacedKept DEF PlaceInv
  <2> QED BY <1>6, <2>1
<1> HIDE DEF o
<1> QED BY <1>1, <1>3, <1>4, <1>5, <1>6 DEF PlaceInv

LEMMA SameHistory ==
    ASSUME IInv, UNCHANGED <<attempts, restarts>>
    PROVE  HistoryGrows
BY DEF IInv, HistoryGrows

\* The steps in which no message is sent or delivered.
LEMMA QuietPlaced ==
    ASSUME IInv, PlaceInv, NEW n \in Node, NEW e,
           ep' = [ep EXCEPT ![n] = e],
           UNCHANGED <<attempts, restarts, delivered>>,
           \A f \in e.send_slots :
               \E g \in ep[n].send_slots : f.seq = g.seq /\ f.body = g.body,
           e.recv_slots \subseteq ep[n].recv_slots,
           e.next_send_seq = ep[n].next_send_seq,
           e.recv_next_seq = ep[n].recv_next_seq,
           \A p \in net' :
               \/ p \in net \/ p.kind # "data"
               \/ \E g \in ep[n].send_slots :
                      p.src = n /\ p.seq = g.seq /\ p.body = g.body
    PROVE  PlaceInv'
<1>1. HistoryGrows /\ Peer[n] \in Node /\ Peer[n] # n
  BY SameHistory, NodeFacts
<1>2. ep'[n] = e /\ ep'[Peer[n]] = ep[Peer[n]]
  BY <1>1, NodeState
<1>3. SentPlaced(n, ep[n].send_slots) /\ NextPlaced(n, ep[n].next_send_seq)
        /\ ReceivedPlaced(n, ep[n], delivered[n])
  BY DEF PlaceInv
<1>4. \A g \in ep[n].send_slots : Placed(n, g.seq, g.body)'
  BY <1>1, <1>3, PlacedKept DEF SentPlaced
<1>5. SentPlaced(n, ep[n].send_slots)'
  <2>1. ASSUME NEW f \in e.send_slots PROVE Placed(n, f.seq, f.body)'
    <3>1. PICK g \in ep[n].send_slots : f.seq = g.seq /\ f.body = g.body
      OBVIOUS
    <3>2. Placed(n, g.seq, g.body)'
      BY <1>4
    <3> QED BY <3>1, <3>2
  <2> QED BY <1>2, <2>1 DEF SentPlaced
<1>6. NextPlaced(n, ep[n].next_send_seq)'
  BY <1>2, <1>3 DEF NextPlaced
<1>7. ReceivedPlaced(n, ep[n], delivered[n])'
  <2>1. /\ \A r \in e.recv_slots : Placed(Peer[n], r.seq, r.body)'
        /\ \A k \in 1 .. Len(delivered[n]) : Placed(Peer[n], k, delivered[n][k].body)'
    BY <1>1, <1>3, PlacedKept DEF ReceivedPlaced
  <2> QED BY <1>2, <1>3, <2>1 DEF ReceivedPlaced
<1>8. ASSUME NEW p \in net', p \notin net, p.kind = "data"
      PROVE  Placed(p.src, p.seq, p.body)'
  <2>1. PICK g \in ep[n].send_slots : p.src = n /\ p.seq = g.seq /\ p.body = g.body
    BY <1>8
  <2>2. Placed(n, g.seq, g.body)'
    BY <1>4
  <2> QED BY <2>1, <2>2
<1> QED BY <1>1, <1>2, <1>5, <1>6, <1>7, <1>8, PlaceStep

LEMMA KeptPlaced ==
    ASSUME IInv, PlaceInv, NEW n \in Node, NEW e, Kept(ep[n], e),
           ep' = [ep EXCEPT ![n] = e],
           UNCHANGED <<attempts, restarts, delivered>>,
           \A p \in net' : p \in net \/ p.kind # "data"
    PROVE  PlaceInv'
BY QuietPlaced DEF Kept

LEMMA InitPlaced == ASSUME Init PROVE PlaceInv
<1>1. ASSUME NEW n \in Node
      PROVE  /\ SentPlaced(n, ep[n].send_slots)
             /\ NextPlaced(n, ep[n].next_send_seq)
             /\ ReceivedPlaced(n, ep[n], delivered[n])
  <2>1. /\ ep[n] = NewEndpoint(n, 1) /\ attempts[n] = 0 /\ restarts[n] = {}
        /\ delivered[n] = <<>>
    BY DEF Init
  <2>2. /\ ep[n].send_slots = {} /\ ep[n].recv_slots = {}
        /\ ep[n].next_send_seq = 1 /\ ep[n].recv_next_seq = 1
    BY <2>1 DEF NewEndpoint
  <2> QED BY <2>1, <2>2, ConstantFacts DEF SentPlaced, NextPlaced, ReceivedPlaced
<1> QED BY <1>1 DEF PlaceInv, Init

\* The calls and the timers that send no message.
LEMMA StartConnectPlaced ==
    ASSUME IInv, PlaceInv, NEW n \in Active, StartConnect(n) PROVE PlaceInv'
<1> DEFINE k == sessions[n] + 1
           e == Started(n, ep[n], k)
<1>1. n \in Node /\ ep[n] \in Endpoint
  BY SessionAssumption, NodeState
<1>2. /\ ep' = [ep EXCEPT ![n] = NonceTaken(e)]
      /\ net' = net \cup {ControlFrame(n, e, "syn")}
      /\ UNCHANGED <<attempts, restarts, delivered>>
  BY DEF StartConnect, SendControl
<1>3. ControlFrame(n, e, "syn").kind = "syn"
  BY DEF ControlFrame
<1>4. Kept(ep[n], NonceTaken(e))
  <2> HIDE DEF k
  <2>1. /\ e.send_slots = ep[n].send_slots /\ e.recv_slots = ep[n].recv_slots
        /\ e.next_send_seq = ep[n].next_send_seq /\ e.recv_next_seq = ep[n].recv_next_seq
    BY <1>1 DEF Started, Endpoint
  <2>2. /\ NonceTaken(e).send_slots = e.send_slots
        /\ NonceTaken(e).recv_slots = e.recv_slots
        /\ NonceTaken(e).next_send_seq = e.next_send_seq
        /\ NonceTaken(e).recv_next_seq = e.recv_next_seq
    BY <1>1 DEF NonceTaken, Started, Endpoint
  <2> HIDE DEF e
  <2> QED BY <2>1, <2>2 DEF Kept
<1> HIDE DEF e
<1>5. \A p \in net' : p \in net \/ p.kind # "data"
  BY <1>2, <1>3
<1> QED BY <1>1, <1>2, <1>4, <1>5, KeptPlaced

LEMMA DisconnectPlaced ==
    ASSUME IInv, PlaceInv, NEW n \in Node, Disconnect(n) PROVE PlaceInv'
<1> DEFINE e == [ep[n] EXCEPT !.conn_state = "disconnected", !.peer_session_id = 0,
                     !.rx_replay = FreshWindow, !.has_recv_seq = FALSE,
                     !.ack_dirty = FALSE, !.send_slots = {},
                     !.pending_send_count = 0, !.recv_slots = {}]
<1>1. /\ ep' = [ep EXCEPT ![n] = e] /\ net' = net /\ ep[n] \in Endpoint
      /\ UNCHANGED <<attempts, restarts, delivered>>
  BY NodeState DEF Disconnect
<1>2. /\ e.send_slots = {} /\ e.recv_slots = {}
      /\ e.next_send_seq = ep[n].next_send_seq /\ e.recv_next_seq = ep[n].recv_next_seq
  BY <1>1 DEF Endpoint
<1> HIDE DEF e
<1> QED BY <1>1, <1>2, QuietPlaced

\* Node n, in state e but for a nonce, may call SendControl.
LEMMA ControlPlaced ==
    ASSUME IInv, PlaceInv, NEW n \in Node, NEW e \in Endpoint,
           Kept(ep[n], e),
           NEW kind, kind # "data", SendControl(n, e, kind),
           UNCHANGED <<attempts, restarts, delivered>>
    PROVE  PlaceInv'
<1>1. ep' = [ep EXCEPT ![n] = NonceTaken(e)] /\ net' = net \cup {ControlFrame(n, e, kind)}
  BY DEF SendControl
<1>2. Kept(ep[n], NonceTaken(e))
  <2>1. Kept(e, NonceTaken(e))
    BY DEF Kept, NonceTaken, Endpoint
  <2> QED BY <2>1 DEF Kept
<1>3. ControlFrame(n, e, kind).kind = kind
  BY DEF ControlFrame
<1> QED BY <1>1, <1>2, <1>3, KeptPlaced

LEMMA TimerPlaced ==
    ASSUME IInv, PlaceInv, NEW n \in Node,
           RetryConnect(n) \/ IdleTimeout(n) \/ Heartbeat(n) \/ FlushAcks(n)
    PROVE  PlaceInv'
<1>1. ep[n] \in Endpoint /\ Kept(ep[n], ep[n])
  BY NodeState DEF Kept
<1>2. CASE RetryConnect(n)
  <2>1. UNCHANGED <<attempts, restarts, delivered>>
    BY <1>2 DEF RetryConnect
  <2>2. CASE ep' = [ep EXCEPT ![n].conn_state = "timedout"] /\ UNCHANGED net
    <3> DEFINE e == [ep[n] EXCEPT !.conn_state = "timedout"]
    <3>1. Kept(ep[n], e)
      BY <1>1 DEF Kept, Endpoint
    <3>2. ep' = [ep EXCEPT ![n] = e]
      BY <2>2
    <3> HIDE DEF e
    <3> QED BY <2>1, <2>2, <3>1, <3>2, KeptPlaced
  <2>3. CASE /\ ep[n].connect_retries < MaxConnectRetries
             /\ SendControl(n, [ep[n] EXCEPT !.connect_retries = @ + 1], "syn")
    <3> DEFINE e == [ep[n] EXCEPT !.connect_retries = @ + 1]
    <3>1. ep[n].connect_retries + 1 \in 0 .. MaxConnectRetries
      <4>1. ep[n].connect_retries \in 0 .. MaxConnectRetries
        BY <1>1 DEF Endpoint
      <4> QED BY <2>3, <4>1, ConstantFacts
    <3>2. e \in Endpoint /\ Kept(ep[n], e)
      BY <1>1, <3>1 DEF Kept, Endpoint
    <3>3. SendControl(n, e, "syn")
      BY <2>3
    <3> HIDE DEF e
    <3> QED BY <2>1, <3>2, <3>3, ControlPlaced
  <2> QED BY <1>2, <2>2, <2>3 DEF RetryConnect
<1>3. CASE IdleTimeout(n)
  <2> DEFINE e == [ep[n] EXCEPT !.conn_state = "timedout"]
  <2>1. ep' = [ep EXCEPT ![n] = e] /\ UNCHANGED <<net, attempts, restarts, delivered>>
    BY <1>3 DEF IdleTimeout
  <2>2. Kept(ep[n], e)
    BY <1>1 DEF Kept, Endpoint
  <2> HIDE DEF e
  <2> QED BY <2>1, <2>2, KeptPlaced
<1>4. CASE Heartbeat(n)
  <2>1. SendControl(n, ep[n], "ping") /\ UNCHANGED <<attempts, restarts, delivered>>
    BY <1>4 DEF Heartbeat
  <2> QED BY <1>1, <2>1, ControlPlaced
<1>5. CASE FlushAcks(n)
  <2> DEFINE e == [ep[n] EXCEPT !.ack_dirty = FALSE]
  <2>1. SendControl(n, e, "ack") /\ UNCHANGED <<attempts, restarts, delivered>>
    BY <1>5 DEF FlushAcks
  <2>2. e \in Endpoint /\ Kept(ep[n], e)
    BY <1>1 DEF Kept, Endpoint
  <2> HIDE DEF e
  <2> QED BY <2>1, <2>2, ControlPlaced
<1> QED BY <1>2, <1>3, <1>4, <1>5

LEMMA RetransmitPlaced ==
    ASSUME IInv, PlaceInv, NEW n \in Node, Retransmit(n) PROVE PlaceInv'
<1>1. /\ UNCHANGED <<attempts, restarts, delivered>> /\ ep[n] \in Endpoint
      /\ ep \in [Node -> Endpoint]
  BY NodeState DEF Retransmit
<1>2. PICK frame \in ep[n].send_slots :
          \/ /\ frame.copy >= MaxRetransmits
             /\ ep' = [ep EXCEPT ![n].send_slots = @ \ {frame},
                                 ![n].pending_send_count = @ - 1]
             /\ UNCHANGED net
          \/ /\ frame.copy < MaxRetransmits
             /\ LET again == [frame EXCEPT !.copy = @ + 1]
                IN  /\ ep' = [ep EXCEPT ![n].send_slots =
                                            (@ \ {frame}) \cup {again}]
                    /\ net' = net \cup {again}
  BY DEF Retransmit
<1>3. CASE ep' = [ep EXCEPT ![n].send_slots = @ \ {frame},
                            ![n].pending_send_count = @ - 1] /\ UNCHANGED net
  <2> DEFINE e == [ep[n] EXCEPT !.send_slots = @ \ {frame}, !.pending_send_count = @ - 1]
  <2>1. Kept(ep[n], e)
    BY <1>1 DEF Kept, Endpoint
  <2>2. ep' = [ep EXCEPT ![n] = e]
    BY <1>1, <1>3
  <2> HIDE DEF e
  <2> QED BY <1>1, <1>3, <2>1, <2>2, KeptPlaced
<1>4. CASE frame.copy < MaxRetransmits /\
           LET again == [frame EXCEPT !.copy = @ + 1]
           IN  /\ ep' = [ep EXCEPT ![n].send_slots = (@ \ {frame}) \cup {again}]
               /\ net' = net \cup {again}
  <2> DEFINE again == [frame EXCEPT !.copy = @ + 1]
             e == [ep[n] EXCEPT !.send_slots = (@ \ {frame}) \cup {again}]
  <2>1. again.src = frame.src /\ again.seq = frame.seq /\ again.body = frame.body
    <3>1. frame \in Packet
      BY <1>1, EndpointFields
    <3> QED BY <3>1 DEF Packet
  <2>2. ep' = [ep EXCEPT ![n] = e] /\ net' = net \cup {again}
    BY <1>1, <1>4
  <2> HIDE DEF again
  <2>3. /\ e.send_slots = (ep[n].send_slots \ {frame}) \cup {again}
        /\ e.recv_slots = ep[n].recv_slots
        /\ e.next_send_seq = ep[n].next_send_seq /\ e.recv_next_seq = ep[n].recv_next_seq
    BY <1>1 DEF Endpoint
  <2> HIDE DEF e
  <2>4. frame.src = n
    BY NodeState DEF EndpointOK, QueueOK
  <2>5. \A f \in e.send_slots :
            \E g \in ep[n].send_slots : f.seq = g.seq /\ f.body = g.body
    BY <2>1, <2>3
  <2>6. \A p \in net' :
            \/ p \in net \/ p.kind # "data"
            \/ \E g \in ep[n].send_slots :
                   p.src = n /\ p.seq = g.seq /\ p.body = g.body
    BY <2>1, <2>2, <2>4
  <2>7. e.recv_slots \subseteq ep[n].recv_slots
    BY <2>3
  <2>8. UNCHANGED <<attempts, restarts, delivered>>
    BY <1>1
  <2>9. e.next_send_seq = ep[n].next_send_seq
    BY <2>3
  <2>10. e.recv_next_seq = ep[n].recv_next_seq
    BY <2>3
  <2>11. ep' = [ep EXCEPT ![n] = e]
    BY <2>2
  <2> QED BY ZenonT(60), <2>5, <2>6, <2>7, <2>8, <2>9, <2>10, <2>11, QuietPlaced
<1> QED BY <1>2, <1>3, <1>4

\* A new process counts its messages from 1 and expects the peer's from 1 on.
LEMMA RestartPlaced ==
    ASSUME IInv, PlaceInv, NEW n \in Node, Restart(n) PROVE PlaceInv'
<1> DEFINE k == sessions[n] + 1
<1>1. /\ ep' = [ep EXCEPT ![n] = NewEndpoint(n, k)]
      /\ restarts' = [restarts EXCEPT ![n] = @ \cup {attempts[n]}]
      /\ delivered' = [delivered EXCEPT ![n] = <<>>]
      /\ net' = net /\ attempts' = attempts
  BY DEF Restart
<1>2. /\ Peer[n] \in Node /\ Peer[n] # n /\ ep \in [Node -> Endpoint]
      /\ delivered \in [Node -> Seq(Delivery)]
      /\ attempts \in [Node -> Nat] /\ restarts \in [Node -> SUBSET Nat]
  BY NodeFacts, NodeState
<1> HIDE DEF k
<1>3. /\ ep'[n].send_slots = {} /\ ep'[n].recv_slots = {}
      /\ ep'[n].next_send_seq = 1 /\ ep'[n].recv_next_seq = 1
  <2>1. ep'[n] = NewEndpoint(n, k)
    BY <1>1, <1>2
  <2> QED BY <2>1 DEF NewEndpoint
<1>4. /\ ep'[Peer[n]] = ep[Peer[n]] /\ delivered'[Peer[n]] = delivered[Peer[n]]
      /\ attempts'[Peer[n]] = attempts[Peer[n]]
      /\ restarts'[Peer[n]] = restarts[Peer[n]]
      /\ delivered'[n] = <<>> /\ restarts'[n] = restarts[n] \cup {attempts[n]}
  BY <1>1, <1>2
<1>5. HistoryGrows
  <2>1. ASSUME NEW m \in Node, NEW r \in restarts'[m]
        PROVE  r \in Nat /\ (r \in restarts[m] \/ attempts[m] <= r)
    <3>1. attempts[m] \in Nat /\ restarts[m] \subseteq Nat
      BY <1>2
    <3>2. r \in restarts[m] \/ r = attempts[m]
      BY <1>1, <1>2, <2>1
    <3> QED BY <3>1, <3>2
  <2>2. \A m \in Node : restarts[m] \subseteq restarts'[m]
    BY <1>1, <1>2
  <2>3. \A m \in Node : attempts[m] \in Nat /\ attempts'[m] \in Nat
                          /\ attempts[m] <= attempts'[m]
    BY <1>1, <1>2
  <2> QED BY <2>1, <2>2, <2>3 DEF HistoryGrows
<1>6. NextPlaced(n, ep[n].next_send_seq)'
  <2>1. PICK b \in restarts[n] \cup {0} : b <= attempts[n] /\ \A r \in restarts[n] : r <= b
    BY DEF PlaceInv, NextPlaced
  <2>2. attempts[n] \in Nat /\ restarts[n] \subseteq Nat /\ 1 < SeqMod
    BY <1>2, ConstantFacts
  <2>3. \A r \in restarts'[n] : r <= attempts[n]
    BY <1>4, <2>1, <2>2
  <2>4. attempts[n] \in restarts'[n] \cup {0} /\ 1 = attempts[n] + 1 - attempts[n]
    BY <1>4, <2>2
  <2> QED BY <1>1, <1>3, <2>2, <2>3, <2>4 DEF NextPlaced
<1>7. SentPlaced(n, ep[n].send_slots)' /\ ReceivedPlaced(n, ep[n], delivered[n])'
  BY <1>3, <1>4 DEF SentPlaced, ReceivedPlaced
<1>8. \A p \in net' : p \in net
  BY <1>1
<1> QED BY <1>4, <1>5, <1>6, <1>7, <1>8, PlaceStep

\* A message gets the number after that of the process's last one.
LEMMA SendPlaced ==
    ASSUME IInv, PlaceInv, ShortLived', NEW n \in Node, Send(n) PROVE PlaceInv'
<1> DEFINE f == DataFrame(n, ep[n], attempts[n] + 1)
           e == [NonceTaken(ep[n]) EXCEPT !.next_send_seq = AddSeq(@, 1),
                                          !.send_slots = @ \cup {f},
                                          !.pending_send_count = @ + 1]
           next == ep[n].next_send_seq
<1>1. /\ ep' = [ep EXCEPT ![n] = e] /\ net' = net \cup {f}
      /\ attempts' = [attempts EXCEPT ![n] = @ + 1]
      /\ UNCHANGED <<restarts, delivered>>
  <2>1. net' = net \cup {f}
    BY Zenon DEF Send
  <2>2. ep' = [ep EXCEPT ![n] = e]
    BY Z3 DEF Send
  <2> HIDE DEF e, f
  <2> QED BY <2>1, <2>2 DEF Send
<1>2. /\ ep \in [Node -> Endpoint] /\ ep[n] \in Endpoint /\ EndpointOK(n, ep[n], attempts[n])
      /\ attempts \in [Node -> Nat] /\ restarts \in [Node -> SUBSET Nat]
      /\ Peer[n] \in Node /\ Peer[n] # n
  BY NodeState, NodeFacts
<1>3. f.src = n /\ f.seq = next /\ f.body = attempts[n] + 1
  BY DEF DataFrame, ControlFrame
<1> HIDE DEF f
<1>4. /\ e.send_slots = ep[n].send_slots \cup {f} /\ e.recv_slots = ep[n].recv_slots
      /\ e.next_send_seq = AddSeq(next, 1) /\ e.recv_next_seq = ep[n].recv_next_seq
  <2>1. NonceTaken(ep[n]) \in Endpoint /\ Kept(ep[n], NonceTaken(ep[n]))
          /\ NonceTaken(ep[n]).send_slots = ep[n].send_slots
    BY <1>2, NonceTakenOK DEF NonceTaken, Endpoint
  <2> QED BY <2>1 DEF Kept, Endpoint
<1> HIDE DEF e
<1>5. /\ ep'[n] = e /\ ep'[Peer[n]] = ep[Peer[n]] /\ restarts' = restarts
      /\ attempts'[n] = attempts[n] + 1 /\ attempts'[Peer[n]] = attempts[Peer[n]]
      /\ delivered' = delivered
  BY <1>1, <1>2
<1>6. HistoryGrows
  <2>1. \A m \in Node : attempts[m] \in Nat /\ attempts'[m] \in Nat
                          /\ attempts[m] <= attempts'[m]
    BY <1>1, <1>2
  <2>2. \A m \in Node : \A r \in restarts'[m] : r \in Nat /\ r \in restarts[m]
    BY <1>2, <1>5
  <2> QED BY <1>5, <2>1, <2>2 DEF HistoryGrows
<1>7. PICK b \in restarts[n] \cup {0} :
          /\ b <= attempts[n] /\ next = attempts[n] + 1 - b
          /\ \A r \in restarts[n] : r <= b
  BY DEF PlaceInv, NextPlaced
<1>8. attempts[n] \in Nat /\ b \in Nat /\ restarts'[n] = restarts[n]
  BY <1>2, <1>5
<1>9. next \in Nat /\ next + 1 < SeqMod
  <2>1. attempts'[n] + 1 - b < SeqMod
    BY <1>5, <1>7 DEF ShortLived
  <2> QED BY <1>5, <1>7, <1>8, <2>1
<1>10. \A m, s : m = attempts[n] + 1 /\ s = next => Placed(n, s, m)'
  <2> TAKE m, s
  <2> HAVE m = attempts[n] + 1 /\ s = next
  <2>1. m \in 1 .. attempts'[n] /\ b < m /\ s = m - b /\ s + 1 < SeqMod
    BY <1>5, <1>7, <1>8, <1>9
  <2>2. \A r \in restarts'[n] : r <= b \/ m <= r
    BY <1>7, <1>8
  <2>3. b \in restarts'[n] \cup {0}
    BY <1>7, <1>8
  <2> QED BY <2>1, <2>2, <2>3 DEF Placed
<1>11. NextPlaced(n, ep[n].next_send_seq)'
  <2>1. AddSeq(next, 1) = next + 1
    BY <1>9, ConstantFacts DEF AddSeq
  <2>2. ep'[n].next_send_seq = attempts'[n] + 1 - b /\ b <= attempts'[n]
    BY <1>4, <1>5, <1>7, <1>8, <2>1
  <2>3. ep'[n].next_send_seq < SeqMod
    BY <1>4, <1>5, <1>9, <2>1
  <2> QED BY <1>7, <1>8, <2>2, <2>3 DEF NextPlaced
<1>12. SentPlaced(n, ep[n].send_slots)'
  <2>1. \A g \in ep[n].send_slots : Placed(n, g.seq, g.body)'
    BY <1>6, PlacedKept DEF PlaceInv, SentPlaced
  <2>2. ASSUME NEW g \in ep'[n].send_slots PROVE Placed(n, g.seq, g.body)'
    <3>1. CASE g \in ep[n].send_slots
      BY <2>1, <3>1
    <3>2. CASE g = f
      <4>1. g.seq = next /\ g.body = attempts[n] + 1
        BY <1>3, <3>2
      <4> QED BY <1>10, <4>1
    <3> QED BY <1>4, <1>5, <3>1, <3>2
  <2> QED BY <2>2 DEF SentPlaced
<1>13. ReceivedPlaced(n, ep[n], delivered[n])'
  <2>1. ReceivedPlaced(n, ep[n], delivered[n])
    BY DEF PlaceInv
  <2>2. ASSUME NEW r \in ep[n].recv_slots PROVE Placed(Peer[n], r.seq, r.body)'
    <3>1. Placed(Peer[n], r.seq, r.body)
      BY <2>1 DEF ReceivedPlaced
    <3> QED BY <1>2, <1>6, <3>1, PlacedKept
  <2>3. ASSUME NEW k \in 1 .. Len(delivered[n])
        PROVE  \A m : m = delivered[n][k].body => Placed(Peer[n], k, m)'
    <3>1. \A m : m = delivered[n][k].body => Placed(Peer[n], k, m)
      BY <2>1 DEF ReceivedPlaced
    <3> QED BY <1>2, <1>6, <3>1, PlacedKept
  <2> QED BY <1>4, <1>5, <2>1, <2>2, <2>3 DEF ReceivedPlaced
<1>14. ASSUME NEW p \in net' PROVE p \in net \/ Placed(p.src, p.seq, p.body)'
  <2>1. CASE p = f
    <3>1. p.src = n /\ p.seq = next /\ p.body = attempts[n] + 1
      BY <1>3, <2>1
    <3> QED BY <1>10, <3>1
  <2> QED BY <1>1, <2>1
<1> QED BY <1>5, <1>6, <1>11, <1>12, <1>13, <1>14, PlaceStep

\* Numbers are not used up, so a run the reorder buffer holds does not wrap.
LEMMA RunStraight ==
    ASSUME IInv, PlaceInv, NEW n \in Node,
           NEW slots, \A r \in slots : Placed(Peer[n], r.seq, r.body),
           NEW next \in SeqNum, NEW k \in 0 .. SeqMod - 1,
           \A i \in 0 .. k - 1 : RecvAt(slots, AddSeq(next, i)) \in slots,
           \A i \in 0 .. k - 1 :
               RecvAt(slots, AddSeq(next, i)).seq = AddSeq(next, i)
    PROVE  \A i \in 0 .. k : AddSeq(next, i) = next + i
<1>1. /\ Peer[n] \in Node /\ attempts[Peer[n]] \in Nat
      /\ restarts[Peer[n]] \subseteq Nat /\ SeqMod \in Nat \ {0, 1, 2}
  BY NodeFacts, NodeState, ConstantFacts
<1>2. \A i \in 0 .. k - 1 : AddSeq(next, i) + 1 < SeqMod
  <2> TAKE i \in 0 .. k - 1
  <2>1. Placed(Peer[n], AddSeq(next, i), RecvAt(slots, AddSeq(next, i)).body)
    OBVIOUS
  <2> QED BY <1>1, <2>1, PlacedRange
<1>3. next \in Nat /\ next < SeqMod
  BY <1>1 DEF SeqNum
<1>4. next + k < SeqMod
  <2> SUFFICES ASSUME next + k >= SeqMod PROVE FALSE
    BY <1>1, <1>3
  <2> DEFINE i == SeqMod - 1 - next
  <2>1. i \in 0 .. k - 1 /\ next + i = SeqMod - 1
    BY <1>1, <1>3
  <2>2. AddSeq(next, i) = SeqMod - 1
    BY <1>1, <2>1 DEF AddSeq
  <2> QED BY <1>1, <1>2, <2>1, <2>2
<1> QED BY <1>1, <1>3, <1>4 DEF AddSeq

\* What Inserted adds to the reorder buffer is the message of the packet.
LEMMA InsertedPlaced ==
    ASSUME NEW n \in Node, NEW e, NEW p, Placed(Peer[n], p.seq, p.body),
           \A r \in e.recv_slots : Placed(Peer[n], r.seq, r.body)
    PROVE  \A r \in Inserted(e, p) : Placed(Peer[n], r.seq, r.body)
<1> DEFINE new == [seq |-> p.seq, body |-> p.body, from |-> p.session, meant |-> p.meant]
<1> TAKE r \in Inserted(e, p)
<1>1. r \in e.recv_slots \/ r = new
  BY Zenon DEF Inserted
<1>2. new.seq = p.seq /\ new.body = p.body
  OBVIOUS
<1> HIDE DEF new
<1> QED BY <1>1, <1>2

\* A data packet extends what is delivered by the run that follows it.
LEMMA DataPlaced ==
    ASSUME IInv, PlaceInv, NEW n \in Node, NEW p \in net,
           p.src = Peer[n], p.kind = "data", p.body \in Message,
           NEW now, EndpointOK(n, now, attempts[n]), Kept(ep[n], now),
           p.session = now.peer_session_id,
           NEW k \in Nat, IsRun(Inserted(now, p), now.recv_next_seq, k),
           ep' = [ep EXCEPT ![n] = AfterData(now, p, k)],
           delivered' = [delivered EXCEPT ![n] =
               @ \o Deliveries(now, Inserted(now, p), k)],
           net' \subseteq net, UNCHANGED <<attempts, restarts>>
    PROVE  PlaceInv'
<1> DEFINE slots == Inserted(now, p)
           next == now.recv_next_seq
           d == delivered[n]
           given == Deliveries(now, slots, k)
           e == AfterData(now, p, k)
<1>1. /\ p \in Packet /\ Peer[n] \in Node /\ Peer[n] # n
      /\ ep \in [Node -> Endpoint] /\ delivered \in [Node -> Seq(Delivery)]
      /\ d \in Seq(Delivery)
  BY NodeState, NodeFacts DEF IInv
<1>2. /\ SentPlaced(n, ep[n].send_slots) /\ NextPlaced(n, ep[n].next_send_seq)
      /\ ReceivedPlaced(n, ep[n], d) /\ Placed(Peer[n], p.seq, p.body)
  BY DEF PlaceInv
<1>3. /\ next = Len(d) + 1 /\ next \in SeqNum /\ next \in Nat
      /\ \A r \in slots : Placed(Peer[n], r.seq, r.body)
  <2>1. /\ next = Len(d) + 1 /\ now.recv_slots = ep[n].recv_slots
        /\ \A r \in now.recv_slots : Placed(Peer[n], r.seq, r.body)
    BY <1>2 DEF Kept, ReceivedPlaced
  <2>2. next \in SeqNum
    BY EndpointFields DEF EndpointOK
  <2> QED BY <1>1, <1>2, <2>1, <2>2, InsertedPlaced
<1>4. /\ EndpointOK(n, e, attempts[n]) /\ e.send_slots = now.send_slots
      /\ e.next_send_seq = now.next_send_seq /\ e.recv_slots \subseteq slots
      /\ e.recv_next_seq = AddSeq(next, k) /\ given \in Seq(Delivery)
  BY <1>1, AfterDataOK
<1>5. /\ slots \in SUBSET RecvSlot /\ IsRun(slots, next, k)
      /\ \A r, q \in slots : r.seq = q.seq => r = q
      /\ \A r \in slots : SeqInWindow(r.seq, next, RecvWindow)
  BY <1>1, InsertedOK
<1>6. /\ ep' = [ep EXCEPT ![n] = e]
      /\ delivered' = [delivered EXCEPT ![n] = d \o given]
  OBVIOUS
<1>7. given = [i \in 1 .. k |->
          DeliveryOf(now, RecvAt(slots, AddSeq(next, i - 1)))]
  BY DEF Deliveries
<1> HIDE DEF slots, next, d, given, e
<1>8. /\ k \in 0 .. SeqMod - 1
      /\ \A i \in 0 .. k - 1 : RecvAt(slots, AddSeq(next, i)) \in slots
      /\ \A i \in 0 .. k - 1 :
             RecvAt(slots, AddSeq(next, i)).seq = AddSeq(next, i)
  <2>1. next \in SeqNum
    BY <1>3
  <2> QED BY Zenon, <1>5, <2>1, DrainOK
<1>9. \A i \in 0 .. k : AddSeq(next, i) = next + i
  <2>1. next \in SeqNum /\ \A r \in slots : Placed(Peer[n], r.seq, r.body)
    BY <1>3
  <2> QED BY Zenon, <1>8, <2>1, RunStraight
<1>10. Len(given) = k /\ \A i \in 1 .. k : Placed(Peer[n], next + i - 1, given[i].body)
  <2>1. Len(given) = k
    BY <1>7
  <2>2. ASSUME NEW i \in 1 .. k PROVE Placed(Peer[n], next + i - 1, given[i].body)
    <3> DEFINE r == RecvAt(slots, AddSeq(next, i - 1))
    <3>1. i - 1 \in 0 .. k - 1 /\ i - 1 \in 0 .. k
      OBVIOUS
    <3>2. r \in slots /\ r.seq = next + (i - 1)
      BY <1>8, <1>9, <3>1
    <3>3. given[i].body = r.body
      BY <1>7 DEF DeliveryOf
    <3> HIDE DEF r
    <3>4. next + (i - 1) = next + i - 1
      BY <1>3
    <3> QED BY <1>3, <3>2, <3>3, <3>4
  <2> QED BY <2>1, <2>2
<1>11. /\ Len(d \o given) = Len(d) + k
       /\ \A j \in 1 .. Len(d \o given) : Placed(Peer[n], j, (d \o given)[j].body)
  <2>1. Len(d \o given) = Len(d) + k /\ Len(d) \in Nat
    <3>1. d \in Seq(Delivery) /\ given \in Seq(Delivery) /\ Len(given) = k
      BY <1>1, <1>4, <1>10
    <3>2. Len(d \o given) = Len(d) + Len(given)
      BY <3>1, ConcatProperties
    <3>3. Len(d) \in Nat
      BY <3>1, LenProperties
    <3> QED BY <3>1, <3>2, <3>3
  <2>2. ASSUME NEW j \in 1 .. Len(d \o given)
        PROVE  Placed(Peer[n], j, (d \o given)[j].body)
    <3>1. CASE j \in 1 .. Len(d)
      <4>1. (d \o given)[j] = d[j]
        BY <1>1, <1>4, <3>1
      <4> QED BY <1>2, <3>1, <4>1 DEF ReceivedPlaced
    <3>2. CASE j \notin 1 .. Len(d)
      <4>1. j - Len(d) \in 1 .. k /\ next + (j - Len(d)) - 1 = j
        BY <1>3, <2>1, <3>2
      <4>2. (d \o given)[j] = given[j - Len(d)]
        BY <1>1, <1>4, <1>10, <2>1, <3>2
      <4> QED BY <1>10, <4>1, <4>2
    <3> QED BY <3>1, <3>2
  <2> QED BY <2>1, <2>2
<1>12. /\ ep'[n] = e /\ ep'[Peer[n]] = ep[Peer[n]] /\ delivered'[n] = d \o given
       /\ delivered'[Peer[n]] = delivered[Peer[n]]
  BY <1>1, <1>6
<1>13. HistoryGrows
  BY SameHistory
<1>14. SentPlaced(n, ep[n].send_slots)'
  <2>1. e.send_slots \subseteq ep[n].send_slots
    BY <1>4 DEF Kept
  <2>2. ASSUME NEW f \in e.send_slots PROVE Placed(n, f.seq, f.body)'
    <3>1. Placed(n, f.seq, f.body)
      BY <1>2, <2>1 DEF SentPlaced
    <3> QED BY <1>13, <3>1, PlacedKept
  <2> QED BY <1>12, <2>2 DEF SentPlaced
<1>15. NextPlaced(n, ep[n].next_send_seq)'
  <2>1. ep'[n].next_send_seq = ep[n].next_send_seq
    BY <1>4, <1>12 DEF Kept
  <2> QED BY <1>2, <2>1 DEF NextPlaced
<1>16. ReceivedPlaced(n, ep[n], delivered[n])'
  <2>1. ASSUME NEW r \in e.recv_slots PROVE Placed(Peer[n], r.seq, r.body)'
    <3>1. Placed(Peer[n], r.seq, r.body)
      BY <1>3, <1>4
    <3> QED BY <1>1, <1>13, <3>1, PlacedKept
  <2>2. ASSUME NEW j \in 1 .. Len(delivered'[n])
        PROVE  \A m : m = delivered'[n][j].body => Placed(Peer[n], j, m)'
    <3>1. \A m : m = delivered'[n][j].body => Placed(Peer[n], j, m)
      BY <1>11, <1>12
    <3> QED BY <1>1, <1>13, <3>1, PlacedKept
  <2>3. e.recv_next_seq = Len(delivered'[n]) + 1
    <3>1. e.recv_next_seq = next + k
      BY <1>4, <1>8, <1>9
    <3>2. Len(delivered'[n]) = Len(d) + k /\ Len(d) \in Nat
      BY <1>1, <1>11, <1>12
    <3> QED BY <1>3, <3>1, <3>2
  <2> QED BY <1>12, <2>1, <2>2, <2>3 DEF ReceivedPlaced
<1> QED BY <1>12, <1>13, <1>14, <1>15, <1>16, PlaceStep

LEMMA TakePacketPlaced ==
    ASSUME IInv, PlaceInv, NEW n \in Node, NEW p \in net, p.src = Peer[n],
           NEW left \in SUBSET net, TakePacket(n, p, left),
           UNCHANGED <<attempts, restarts>>
    PROVE  PlaceInv'
<1> DEFINE heard == AfterAck([ep[n] EXCEPT !.rx_replay = Track(@, p.nonce)], p.info)
           now == IF Joins(heard, p) THEN Joined(heard, p.session) ELSE heard
<1>1. ~ Foreign(ep[n], p) /\ ~ Replayed(ep[n], p)
  BY DEF TakePacket
<1>2. /\ EndpointOK(n, now, attempts[n]) /\ Kept(ep[n], now)
      /\ Joins(heard, p) \/ now.peer_session_id = ep[n].peer_session_id
  <2> HIDE DEF heard
  <2> QED BY <1>1, HeardOK DEF heard
<1>3. IF TakesData(now, p)
      THEN \E k \in 0 .. Cardinality(Inserted(now, p)) :
               /\ IsRun(Inserted(now, p), now.recv_next_seq, k)
               /\ ep' = [ep EXCEPT ![n] = AfterData(now, p, k)]
               /\ delivered' = [delivered EXCEPT ![n] =
                      @ \o Deliveries(now, Inserted(now, p), k)]
               /\ net' = left
      ELSE /\ ep' = [ep EXCEPT ![n] =
                  IF Answers(heard, p) = {} THEN now ELSE NonceTaken(now)]
           /\ net' = left \cup {ControlFrame(n, now, kind) : kind \in Answers(heard, p)}
           /\ UNCHANGED delivered
  BY Zenon DEF TakePacket
<1>4. p.kind = "data" => ~ Joins(heard, p)
  <2> HIDE DEF heard
  <2> QED BY DEF Joins
<1>5. \A kind \in Answers(heard, p) : kind \in {"synack", "ack"}
  <2> HIDE DEF heard
  <2>1. CASE p.kind \in {"syn", "synack", "ping"}
    BY <2>1 DEF Answers
  <2>2. CASE p.kind \notin {"syn", "synack", "ping"}
    BY <2>2 DEF Answers
  <2> QED BY <2>1, <2>2
<1> HIDE DEF heard, now
<1>6. CASE TakesData(now, p)
  <2>1. p.kind = "data" /\ now.conn_state = "connected"
    BY <1>6 DEF TakesData
  <2>2. p.body \in Message /\ p.session = now.peer_session_id
    <3>1. FrameOK(p, ep[Peer[n]])
      BY DEF IInv
    <3>2. now.peer_session_id # 0 /\ now.peer_session_id = ep[n].peer_session_id
      BY <1>2, <1>4, <2>1 DEF EndpointOK
    <3> QED BY <1>1, <2>1, <3>1, <3>2 DEF FrameOK, Foreign
  <2>3. PICK k \in 0 .. Cardinality(Inserted(now, p)) :
            /\ IsRun(Inserted(now, p), now.recv_next_seq, k)
            /\ ep' = [ep EXCEPT ![n] = AfterData(now, p, k)]
            /\ delivered' = [delivered EXCEPT ![n] =
                   @ \o Deliveries(now, Inserted(now, p), k)]
            /\ net' = left
    BY <1>3, <1>6
  <2>4. k \in Nat /\ net' \subseteq net
    BY <2>3
  <2> QED BY ZenonT(60), <1>2, <2>1, <2>2, <2>3, <2>4, DataPlaced
<1>7. CASE ~ TakesData(now, p)
  <2> DEFINE e == IF Answers(heard, p) = {} THEN now ELSE NonceTaken(now)
  <2>1. /\ ep' = [ep EXCEPT ![n] = e]
        /\ net' = left \cup {ControlFrame(n, now, kind) : kind \in Answers(heard, p)}
        /\ UNCHANGED delivered
    BY <1>3, <1>7
  <2>2. Kept(ep[n], e)
    <3>1. Kept(now, NonceTaken(now))
      BY <1>2, NonceTakenOK
    <3>2. Kept(ep[n], NonceTaken(now))
      BY <1>2, <3>1 DEF Kept
    <3> QED BY <1>2, <3>2
  <2> HIDE DEF e
  <2>3. ASSUME NEW q \in net' PROVE q \in net \/ q.kind # "data"
    <3>1. CASE q \in left
      BY <3>1
    <3>2. CASE q \notin left
      <4>1. PICK kind \in Answers(heard, p) : q = ControlFrame(n, now, kind)
        BY <2>1, <3>2
      <4> QED BY <1>5, <4>1 DEF ControlFrame
    <3> QED BY <3>1, <3>2
  <2> QED BY <2>1, <2>2, <2>3, KeptPlaced
<1> QED BY <1>6, <1>7

LEMMA PacketPlaced ==
    ASSUME IInv, PlaceInv, NEW n \in Node, NEW p, NEW left \in SUBSET net,
           OnUdpPacket(n, p, left)
    PROVE  PlaceInv'
<1>1. /\ p \in net /\ p.src = Peer[n]
      /\ DropPacket(n, p, left) \/ TakePacket(n, p, left)
      /\ UNCHANGED <<attempts, restarts>>
  BY DEF OnUdpPacket
<1>2. CASE DropPacket(n, p, left)
  <2> DEFINE dirty == \/ ep[n].ack_dirty
                      \/ /\ ~ Foreign(ep[n], p)
                         /\ IsDuplicate(ep[n].rx_replay, p.nonce)
                         /\ p.kind \in {"syn", "data"}
             e == [ep[n] EXCEPT !.ack_dirty = dirty]
  <2>1. ep' = [ep EXCEPT ![n] = e] /\ net' = left /\ UNCHANGED delivered
    BY <1>2 DEF DropPacket
  <2> HIDE DEF dirty
  <2>2. Kept(ep[n], e)
    BY NodeState DEF Kept, Endpoint
  <2> HIDE DEF e
  <2>3. \A q \in net' : q \in net
    BY <2>1
  <2> QED BY ZenonT(60), <1>1, <2>1, <2>2, <2>3, KeptPlaced
<1>3. CASE TakePacket(n, p, left)
  BY <1>1, <1>3, TakePacketPlaced
<1> QED BY <1>1, <1>2, <1>3

\* The network loses a frame, or nothing happens.
LEMMA LossPlaced ==
    ASSUME IInv, PlaceInv, net' \subseteq net,
           UNCHANGED <<ep, attempts, restarts, delivered>>
    PROVE  PlaceInv'
<1>1. A \in Node /\ Kept(ep[A], ep[A]) /\ ep' = [ep EXCEPT ![A] = ep[A]]
  <2>1. A \in Node
    BY DEF Node
  <2>2. ep \in [Node -> Endpoint]
    BY DEF IInv
  <2> QED BY <2>1, <2>2 DEF Kept
<1>2. \A p \in net' : p \in net
  OBVIOUS
<1> QED BY <1>1, <1>2, KeptPlaced

LEMMA StepPlaced ==
    ASSUME IInv, PlaceInv, ShortLived', [Next]_vars PROVE PlaceInv'
<1>1. ASSUME NEW n \in Active, StartConnect(n) PROVE PlaceInv'
  BY <1>1, StartConnectPlaced
<1>2. ASSUME NEW n \in Node,
             Disconnect(n) \/ Restart(n) \/ Send(n) \/ RetryConnect(n)
                 \/ IdleTimeout(n) \/ Heartbeat(n) \/ Retransmit(n) \/ FlushAcks(n)
      PROVE  PlaceInv'
  BY <1>2, DisconnectPlaced, RestartPlaced, SendPlaced, TimerPlaced,
     RetransmitPlaced
<1>3. ASSUME NEW n \in Node, NEW p \in net, Arrive(n, p) \/ Duplicate(n, p)
      PROVE  PlaceInv'
  <2>1. OnUdpPacket(n, p, net \ {p}) \/ OnUdpPacket(n, p, net)
    BY <1>3 DEF Arrive, Duplicate
  <2> QED BY <2>1, PacketPlaced
<1>4. ASSUME NEW p \in net, Lose(p) PROVE PlaceInv'
  BY <1>4, LossPlaced DEF Lose
<1>5. CASE UNCHANGED vars
  BY <1>5, LossPlaced DEF vars
<1> QED BY <1>1, <1>2, <1>3, <1>4, <1>5 DEF Next

\* Two messages of one process have their numbers in the order of their bodies.
LEMMA PlacedInOrder ==
    ASSUME NEW m \in Node, restarts[m] \subseteq Nat, attempts[m] \in Nat,
           NEW s, NEW b, Placed(m, s, b), NEW t, NEW c, Placed(m, t, c),
           b <= c, SameProcess(m, b, c)
    PROVE  s \in Nat /\ t \in Nat /\ t - s = c - b /\ b \in Nat /\ c \in Nat
<1>1. PICK x \in restarts[m] \cup {0} :
          /\ x < b /\ s = b - x
          /\ \A r \in restarts[m] : r <= x \/ b <= r
  BY DEF Placed
<1>2. PICK y \in restarts[m] \cup {0} :
          /\ y < c /\ t = c - y
          /\ \A r \in restarts[m] : r <= y \/ c <= r
  BY DEF Placed
<1>3. x \in Nat /\ y \in Nat /\ b \in Nat /\ c \in Nat
  BY <1>1, <1>2 DEF Placed
<1>4. y < b
  <2> SUFFICES ASSUME b <= y PROVE FALSE
    BY <1>3
  <2>1. y \in restarts[m]
    BY <1>1, <1>2, <1>3
  <2> QED BY <1>2, <2>1 DEF SameProcess
<1>5. y <= x
  BY <1>1, <1>2, <1>3, <1>4
<1>6. x <= y
  BY <1>1, <1>2, <1>3
<1> QED BY <1>1, <1>2, <1>3, <1>5, <1>6

\* As long as no process uses a sequence number twice, an application is given
\* the messages of one process of its peer in the order of Send and none twice,
\* whatever connections come and go, frames are lost, repeated or overtaken.
THEOREM DeliveredInOrder == Spec /\ []ShortLived => []InOrder
<1>1. Init => PlaceInv
  BY InitPlaced
<1>2. IInv /\ PlaceInv /\ ShortLived' /\ [Next]_vars => PlaceInv'
  BY StepPlaced
<1>3. ASSUME IInv, PlaceInv PROVE InOrder
  <2> SUFFICES ASSUME NEW n \in Node, NEW j \in 1 .. Len(delivered[n]),
                      NEW k \in 1 .. Len(delivered[n]), j < k
               PROVE  LET earlier == delivered[n][j].body
                          later   == delivered[n][k].body
                      IN  /\ earlier # later
                          /\ later < earlier => ~ SameProcess(Peer[n], later, earlier)
    BY DEF InOrder
  <2> DEFINE earlier == delivered[n][j].body
             later == delivered[n][k].body
  <2>1. Placed(Peer[n], j, earlier) /\ Placed(Peer[n], k, later)
    BY <1>3 DEF PlaceInv, ReceivedPlaced
  <2>2. /\ Peer[n] \in Node /\ restarts[Peer[n]] \subseteq Nat
        /\ attempts[Peer[n]] \in Nat
    BY <1>3, NodeFacts, NodeState
  <2> HIDE DEF earlier, later
  <2>3. earlier \in Nat /\ later \in Nat /\ j \in Nat /\ k \in Nat
    BY <2>1, <2>2, PlacedRange
  <2>4. earlier # later
    <3> SUFFICES ASSUME earlier = later PROVE FALSE
      OBVIOUS
    <3>1. SameProcess(Peer[n], earlier, later)
      BY <2>2, <2>3 DEF SameProcess
    <3>2. k - j = later - earlier
      BY <2>1, <2>2, <2>3, <3>1, PlacedInOrder
    <3> QED BY <2>3, <3>2
  <2>5. ASSUME later < earlier, SameProcess(Peer[n], later, earlier) PROVE FALSE
    <3>1. j - k = earlier - later
      BY <2>1, <2>2, <2>3, <2>5, PlacedInOrder
    <3> QED BY <2>3, <2>5, <3>1
  <2> QED BY <2>4, <2>5 DEF earlier, later
<1> QED BY <1>1, <1>2, <1>3, Invariance, PTL DEF Spec
=============================================================================
