------------------------------ MODULE Transfer ------------------------------
(***************************************************************************)
(* Reliable ordered delivery between two connected Endpoints (class        *)
(* Endpoint, src/rudp.cpp) over a UDP-like network that loses, repeats     *)
(* and reorders datagrams.                                                 *)
(*                                                                         *)
(* Each node is an Endpoint after Init and ForceConnectedForTest, as the   *)
(* repository's tests set it up, driven by one thread.  heartbeat_ms,      *)
(* idle_timeout_ms and pacing_bytes_per_tick are 0 and auth is off, so the *)
(* only control frames are acknowledgements and the session never changes. *)
(* pending_send_count_, which neither the constructor nor Init sets, starts *)
(* at 0 as it does in an Endpoint of static storage duration.              *)
(* Time is abstract: a Tick finds any set of retransmission timers and     *)
(* perhaps the ack delay elapsed.  Slip... operators are mistaken variants *)
(* of the definitions after them, for the mutation checks.                 *)
(***************************************************************************)
EXTENDS SeqArith, ReplayOps, Sequences, FiniteSets, Functions

CONSTANTS
    A, B,             \* the two endpoints
    SendWindow,       \* cfg_.send_window
    RecvWindow,       \* cfg_.recv_window
    MaxQueue,         \* kMaxQueue, the slots of send_slots_ and recv_slots_
    AckBits,          \* width of the selective-ack bitmap, 32
    MaxRetransmits,   \* cfg_.max_retransmits
    DupThreshold,     \* repeated acks that trigger FastRetransmit, 3
    NonceMod,         \* 2^32
    NonceStart,       \* tx_nonce_counter_ left by Init
    MtuFits,          \* max_payload + kHeaderLen <= mtu; Init does not check it
    MaxSend,          \* bound: messages each application tries to send
    MaxFaults         \* bound: losses, duplications and refused send_raw calls

Node == {A, B}

ASSUME TransferAssumption ==
    /\ A # B
    /\ MaxQueue \in Nat
    /\ SendWindow \in 1 .. MaxQueue
    /\ RecvWindow \in 1 .. MaxQueue
    /\ 2 * RecvWindow <= SeqMod
    /\ AckBits \in Nat
    /\ MaxRetransmits \in Nat
    /\ DupThreshold \in Nat \ {0}
    /\ NonceMod \in Nat \ {0}
    /\ NonceStart \in 0 .. NonceMod - 1
    /\ MtuFits \in BOOLEAN
    /\ MaxSend \in [Node -> Nat]
    /\ MaxFaults \in Nat

Peer == [n \in Node |-> IF n = A THEN B ELSE A]

Slot == 0 .. MaxQueue - 1

\* A message is named by the ordinal of the Send call that offered it.
Message == 1 .. MaxSend[A] + MaxSend[B]

VARIABLES
    next_send_seq, send_slots, pending_send_count, tx_nonce_counter,
    last_seen_ack, dup_ack_count,
    recv_next_seq, newest_recv_seq, has_recv_seq, recv_slots, rx_replay,
    ack_dirty,
    net,         \* datagrams in flight
    faults,      \* how much of MaxFaults is spent
    attempts,    \* history: Send calls that took a sequence number
    accepted,    \* history: the messages for which Send returned kOk
    delivered,   \* history: the messages given to on_deliver
    acked        \* history: the messages HandleAck released

sender == <<next_send_seq, attempts, accepted>>
window == <<send_slots, pending_send_count, last_seen_ack, dup_ack_count, acked>>
receiver == <<recv_next_seq, newest_recv_seq, has_recv_seq, recv_slots, delivered>>
wire == <<net, faults>>
vars == <<sender, window, receiver, wire, tx_nonce_counter, rx_replay, ack_dirty>>

AckInfo == [ack : SeqNum, bits : SUBSET (1 .. AckBits)]

Packet == [src   : Node,
           kind  : {"data", "ack"},    \* kFlagAckOnly clear or set
           seq   : SeqNum,
           info  : AckInfo,            \* header fields ack and ack_bits
           nonce : 0 .. NonceMod - 1,
           body  : Message \cup {0},   \* the message; 0 in a control frame
           copy  : 0 .. MaxRetransmits]   \* tells retransmissions apart

PacketSlot == [frame : Packet, ever_sent : BOOLEAN, retries : 0 .. MaxRetransmits]

RecvSlot == [seq : SeqNum, body : Message]

\* The used slots of send_slots_ are the domain of send_slots.
Init ==
    /\ next_send_seq = [n \in Node |-> 1]
    /\ send_slots = [n \in Node |-> [i \in {} |-> {}]]
    /\ pending_send_count = [n \in Node |-> 0]
    /\ tx_nonce_counter = [n \in Node |-> NonceStart]
    /\ last_seen_ack = [n \in Node |-> [ack |-> 0, bits |-> {}]]
    /\ dup_ack_count = [n \in Node |-> 0]
    /\ recv_next_seq = [n \in Node |-> 1]
    /\ newest_recv_seq = [n \in Node |-> 0]
    /\ has_recv_seq = [n \in Node |-> FALSE]
    /\ recv_slots = [n \in Node |-> {}]
    /\ rx_replay = [n \in Node |-> FreshWindow]
    /\ ack_dirty = [n \in Node |-> FALSE]
    /\ net = {}
    /\ faults = 0
    /\ attempts = [n \in Node |-> 0]
    /\ accepted = [n \in Node |-> <<>>]
    /\ delivered = [n \in Node |-> <<>>]
    /\ acked = [n \in Node |-> {}]

-----------------------------------------------------------------------------
(* Frames *)

\* BuildAckBits: a bit for every buffered message at most AckBits behind the
\* newest.  A message already delivered has left its slot and has no bit.
BuildAckBits(n) ==
    {d \in 1 .. AckBits :
        \E r \in recv_slots[n] :
            /\ IsSeqLess(r.seq, newest_recv_seq[n])
            /\ DistanceFrom(r.seq, newest_recv_seq[n]) = d}

AckInfoOf(n) ==
    IF has_recv_seq[n]
    THEN [ack |-> newest_recv_seq[n], bits |-> BuildAckBits(n)]
    ELSE [ack |-> 0, bits |-> {}]

\* ++tx_nonce_counter_, a uint32_t.
NextNonce(n) ==
    IF tx_nonce_counter[n] + 1 < NonceMod THEN tx_nonce_counter[n] + 1 ELSE 0

TakeNonce(n) == tx_nonce_counter' = [tx_nonce_counter EXCEPT ![n] = NextNonce(n)]

DataFrame(n) ==
    [src |-> n, kind |-> "data", seq |-> next_send_seq[n],
     info |-> AckInfoOf(n), nonce |-> NextNonce(n),
     body |-> attempts[n] + 1, copy |-> 0]

ControlFrame(n) ==
    [src |-> n, kind |-> "ack", seq |-> 0,
     info |-> AckInfoOf(n), nonce |-> NextNonce(n),
     body |-> 0, copy |-> 0]

\* The stored frame goes out again as it was built: same nonce, same ack.
Transmission(slot) == [slot.frame EXCEPT !.copy = slot.retries]

SlipOneDecrement(count, k) == IF k > 0 THEN count - 1 ELSE count

\* What is left of count after k decrements guarded by count > 0.
Decremented(count, k) == IF count > k THEN count - k ELSE 0

-----------------------------------------------------------------------------
(* The application *)

\* Any free slot will do: the window is not looked at.
SlipCanSend(n, i) ==
    /\ attempts[n] < MaxSend[n]
    /\ i \notin DOMAIN send_slots[n]
    /\ \A j \in Slot : j < i => j \in DOMAIN send_slots[n]

\* AllocateSendSlot: the first unused slot, unless the window is full.
CanSend(n, i) ==
    /\ attempts[n] < MaxSend[n]
    /\ pending_send_count[n] < SendWindow
    /\ i \notin DOMAIN send_slots[n]
    /\ \A j \in Slot : j < i => j \in DOMAIN send_slots[n]

\* Send, with a payload that fits.  The frame is kept whether or not send_raw
\* takes it (refused): Tick sends it later.
Send(n, i, refused) ==
    /\ CanSend(n, i)
    /\ refused => faults < MaxFaults
    /\ send_slots' = [send_slots EXCEPT ![n] =
           [j \in DOMAIN @ \cup {i} |->
               IF j = i THEN [frame |-> DataFrame(n), ever_sent |-> ~ refused,
                              retries |-> 0]
               ELSE @[j]]]
    /\ pending_send_count' = [pending_send_count EXCEPT ![n] = @ + 1]
    /\ next_send_seq' = [next_send_seq EXCEPT ![n] = AddSeq(@, 1)]
    /\ TakeNonce(n)
    /\ attempts' = [attempts EXCEPT ![n] = @ + 1]
    /\ accepted' = [accepted EXCEPT ![n] = Append(@, attempts[n] + 1)]
    /\ net' = IF refused THEN net ELSE net \cup {DataFrame(n)}
    /\ faults' = IF refused THEN faults + 1 ELSE faults
    /\ UNCHANGED <<receiver, rx_replay, ack_dirty,
                   last_seen_ack, dup_ack_count, acked>>

\* Send, with a payload within max_payload whose frame exceeds mtu:
\* BuildDataFrame fails after next_send_seq_ has moved on.
SendTooLong(n, i) ==
    /\ ~ MtuFits
    /\ CanSend(n, i)
    /\ next_send_seq' = [next_send_seq EXCEPT ![n] = AddSeq(@, 1)]
    /\ attempts' = [attempts EXCEPT ![n] = @ + 1]
    /\ UNCHANGED <<accepted, window, receiver, wire, tx_nonce_counter,
                   rx_replay, ack_dirty>>

-----------------------------------------------------------------------------
(* Tick *)

Unsent(n) == {i \in DOMAIN send_slots[n] : ~ send_slots[n][i].ever_sent}

SlipOneTooMany(n, i) == send_slots[n][i].retries > MaxRetransmits

SlipOneTooFew(n, i) == send_slots[n][i].retries + 1 >= MaxRetransmits

Exhausted(n, i) == send_slots[n][i].retries >= MaxRetransmits

\* The slot loop of Tick: slots never sent are sent, slots in due have waited
\* out the RTO and are sent again or, their retries spent, given up.
Tried(n, due) == Unsent(n) \cup {i \in due : ~ Exhausted(n, i)}

Retried(n, due, refused) ==
    [i \in DOMAIN send_slots[n] \ {j \in due : Exhausted(n, j)} |->
        IF i \notin Tried(n, due) THEN send_slots[n][i]
        ELSE [send_slots[n][i] EXCEPT
                 !.ever_sent = @ \/ i \notin refused,
                 !.retries = IF i \in due THEN @ + 1 ELSE @]]

\* FlushAcks: send the pending acknowledgement if its delay has elapsed.
\* FlushAcks runs last in Tick; its SendControl takes a nonce even when
\* send_raw refuses the frame, and then the acknowledgement stays pending.
Flushes(n, flush) == flush /\ ack_dirty[n] /\ has_recv_seq[n]

Tick(n, due, refused, flush, ackRefused) ==
    /\ due \subseteq DOMAIN send_slots[n] \ Unsent(n)
    /\ refused \subseteq Tried(n, due)
    /\ ackRefused => Flushes(n, flush)
    /\ send_slots' = [send_slots EXCEPT ![n] = Retried(n, due, refused)]
    /\ pending_send_count' = [pending_send_count EXCEPT ![n] =
           Decremented(@, Cardinality({i \in due : Exhausted(n, i)}))]
    /\ tx_nonce_counter' = [tx_nonce_counter EXCEPT ![n] =
           IF Flushes(n, flush) THEN NextNonce(n) ELSE @]
    /\ ack_dirty' = [ack_dirty EXCEPT ![n] =
           @ /\ (Flushes(n, flush) => ackRefused)]
    /\ net' = net
           \cup {Transmission(Retried(n, due, refused)[i]) :
                    i \in Tried(n, due) \ refused}
           \cup (IF Flushes(n, flush) /\ ~ ackRefused
                 THEN {ControlFrame(n)} ELSE {})
    /\ faults' = faults + Cardinality(refused) + (IF ackRefused THEN 1 ELSE 0)
    /\ faults' <= MaxFaults
    /\ UNCHANGED <<sender, receiver, rx_replay, last_seen_ack, dup_ack_count,
                   acked>>

-----------------------------------------------------------------------------
(* HandleAck *)

\* Everything up to ack is released.
SlipCumulative(n, info) ==
    {i \in DOMAIN send_slots[n] :
        LET seq == send_slots[n][i].frame.seq
        IN  seq = info.ack \/ IsSeqLess(seq, info.ack)}

\* The slots an acknowledgement covers: its own number, and those behind it
\* whose bit is set.
Covered(n, info) ==
    {i \in DOMAIN send_slots[n] :
        LET seq == send_slots[n][i].frame.seq
        IN  \/ seq = info.ack
            \/ /\ IsSeqLess(seq, info.ack)
               /\ DistanceFrom(seq, info.ack) \in info.bits}

\* FastRetransmit's victim is the earliest slot that was sent.  Slots whose
\* numbers lie within half the number space of each other have just one.
Victim(n) ==
    {v \in DOMAIN send_slots[n] \ Unsent(n) :
        \A i \in DOMAIN send_slots[n] \ Unsent(n) :
            ~ IsSeqLess(send_slots[n][i].frame.seq, send_slots[n][v].frame.seq)}

\* left is the network without the packet handled, spent the faults so far.
AckReleases(n, info, left, spent) ==
    /\ Covered(n, info) # {}
    /\ send_slots' = [send_slots EXCEPT ![n] =
                          Restrict(@, DOMAIN @ \ Covered(n, info))]
    /\ pending_send_count' = [pending_send_count EXCEPT ![n] =
                                  Decremented(@, Cardinality(Covered(n, info)))]
    /\ acked' = [acked EXCEPT ![n] =
           @ \cup {send_slots[n][i].frame.body : i \in Covered(n, info)}]
    /\ last_seen_ack' = [last_seen_ack EXCEPT ![n] = info]
    /\ dup_ack_count' = [dup_ack_count EXCEPT ![n] = 0]
    /\ net' = left
    /\ faults' = spent

AckIsNew(n, info, left, spent) ==
    /\ Covered(n, info) = {}
    /\ info # last_seen_ack[n]
    /\ last_seen_ack' = [last_seen_ack EXCEPT ![n] = info]
    /\ dup_ack_count' = [dup_ack_count EXCEPT ![n] = 0]
    /\ net' = left
    /\ faults' = spent
    /\ UNCHANGED <<send_slots, pending_send_count, acked>>

AckRepeats(n, info, left, spent) ==
    /\ Covered(n, info) = {}
    /\ info = last_seen_ack[n]
    /\ dup_ack_count[n] + 1 < DupThreshold \/ Victim(n) = {}
    /\ dup_ack_count' = [dup_ack_count EXCEPT ![n] =
                             IF @ + 1 < DupThreshold THEN @ + 1 ELSE 0]
    /\ net' = left
    /\ faults' = spent
    /\ UNCHANGED <<send_slots, pending_send_count, last_seen_ack, acked>>

FastRetransmit(n, info, left, spent, refused) ==
    /\ Covered(n, info) = {}
    /\ info = last_seen_ack[n]
    /\ dup_ack_count[n] + 1 >= DupThreshold
    /\ dup_ack_count' = [dup_ack_count EXCEPT ![n] = 0]
    /\ \E v \in Victim(n) :
           \/ /\ Exhausted(n, v)
              /\ send_slots' = [send_slots EXCEPT ![n] =
                                    Restrict(@, DOMAIN @ \ {v})]
              /\ pending_send_count' = [pending_send_count EXCEPT ![n] =
                                            Decremented(@, 1)]
              /\ net' = left
              /\ faults' = spent
           \/ /\ ~ Exhausted(n, v)
              /\ send_slots' = [send_slots EXCEPT ![n][v].retries = @ + 1]
              /\ net' = IF refused THEN left
                        ELSE left \cup {Transmission(send_slots'[n][v])}
              /\ faults' = IF refused THEN spent + 1 ELSE spent
              /\ UNCHANGED pending_send_count
    /\ UNCHANGED <<last_seen_ack, acked>>

HandleAck(n, info, left, spent) ==
    \/ AckReleases(n, info, left, spent)
    \/ AckIsNew(n, info, left, spent)
    \/ AckRepeats(n, info, left, spent)
    \/ \E refused \in BOOLEAN : FastRetransmit(n, info, left, spent, refused)

-----------------------------------------------------------------------------
(* OnUdpPacket *)

\* InsertRecv: the buffer with the packet's message added, unless it is
\* outside the window, buffered already, or there is no free slot.
Inserted(n, p) ==
    IF /\ SeqInWindow(p.seq, recv_next_seq[n], RecvWindow)
       /\ \A r \in recv_slots[n] : r.seq # p.seq
       /\ Cardinality(recv_slots[n]) < MaxQueue
    THEN recv_slots[n] \cup {[seq |-> p.seq, body |-> p.body]}
    ELSE recv_slots[n]

\* DrainInOrder takes k slots, whose numbers run on from next without a gap.
IsRun(slots, next, k) ==
    /\ \A i \in 0 .. k - 1 : \E r \in slots : r.seq = AddSeq(next, i)
    /\ \A r \in slots : r.seq # AddSeq(next, k)

Drained(slots, next, k) == {r \in slots : DistanceFrom(next, r.seq) < k}

BodyAt(slots, seq) == (CHOOSE r \in slots : r.seq = seq).body

\* A message of the window is delivered as it arrives.
SlipNoReorder(n, p) ==
    /\ SeqInWindow(p.seq, recv_next_seq[n], RecvWindow)
    /\ recv_next_seq' = [recv_next_seq EXCEPT ![n] = AddSeq(p.seq, 1)]
    /\ delivered' = [delivered EXCEPT ![n] = Append(@, p.body)]
    /\ newest_recv_seq' = [newest_recv_seq EXCEPT ![n] = p.seq]
    /\ has_recv_seq' = [has_recv_seq EXCEPT ![n] = TRUE]
    /\ ack_dirty' = [ack_dirty EXCEPT ![n] = TRUE]
    /\ UNCHANGED recv_slots

\* The data part of OnUdpPacket.  newest_recv_seq_ moves up to the packet's
\* number even when InsertRecv did not keep the packet.
TakeData(n, p) ==
    LET slots == Inserted(n, p)
        next  == recv_next_seq[n]
    IN  \E k \in 0 .. Cardinality(slots) :
            /\ IsRun(slots, next, k)
            /\ recv_slots' = [recv_slots EXCEPT
                                  ![n] = slots \ Drained(slots, next, k)]
            /\ recv_next_seq' = [recv_next_seq EXCEPT ![n] = AddSeq(next, k)]
            /\ delivered' = [delivered EXCEPT ![n] =
                   @ \o [i \in 1 .. k |-> BodyAt(slots, AddSeq(next, i - 1))]]
            /\ newest_recv_seq' = [newest_recv_seq EXCEPT ![n] =
                   IF ~ has_recv_seq[n] \/ IsSeqLess(@, p.seq)
                   THEN p.seq ELSE @]
            /\ has_recv_seq' = [has_recv_seq EXCEPT ![n] = TRUE]
            /\ ack_dirty' = [ack_dirty EXCEPT ![n] = TRUE]

\* ValidateAndTrackReplay lets the packet through.
TakePacket(n, p, left, spent) ==
    /\ p.nonce # 0
    /\ Accepts(rx_replay[n], p.nonce)
    /\ rx_replay' = [rx_replay EXCEPT ![n] = Track(@, p.nonce)]
    /\ HandleAck(n, p.info, left, spent)
    /\ \/ p.kind = "data" /\ TakeData(n, p)
       \/ p.kind = "ack" /\ UNCHANGED <<receiver, ack_dirty>>
    /\ UNCHANGED <<sender, tx_nonce_counter>>

\* A nonce of 0, or one the replay window refuses.  A repeated data frame
\* still asks for an acknowledgement.
DropPacket(n, p, left, spent) ==
    /\ p.nonce = 0 \/ ~ Accepts(rx_replay[n], p.nonce)
    /\ ack_dirty' = [ack_dirty EXCEPT ![n] =
           \/ @
           \/ /\ p.nonce # 0
              /\ IsDuplicate(rx_replay[n], p.nonce)
              /\ p.kind = "data"]
    /\ net' = left
    /\ faults' = spent
    /\ UNCHANGED <<sender, window, receiver, tx_nonce_counter, rx_replay>>

OnUdpPacket(n, p, left, spent) ==
    /\ p \in net
    /\ p.src = Peer[n]
    /\ TakePacket(n, p, left, spent) \/ DropPacket(n, p, left, spent)
    /\ faults' <= MaxFaults

-----------------------------------------------------------------------------
(* The network *)

Arrive(n, p) == OnUdpPacket(n, p, net \ {p}, faults)

\* The network delivers a copy and keeps another.
Duplicate(n, p) == OnUdpPacket(n, p, net, faults + 1)

Lose(p) ==
    /\ faults < MaxFaults
    /\ net' = net \ {p}
    /\ faults' = faults + 1
    /\ UNCHANGED <<sender, window, receiver, tx_nonce_counter, rx_replay,
                   ack_dirty>>

SendStep(n) ==
    \E i \in Slot : \/ \E refused \in BOOLEAN : Send(n, i, refused)
                    \/ SendTooLong(n, i)

TickStep(n) ==
    \E due \in SUBSET DOMAIN send_slots[n], flush, ackRefused \in BOOLEAN :
        \E refused \in SUBSET Tried(n, due) :
            Tick(n, due, refused, flush, ackRefused)

ReceiveStep(n) == \E p \in net : Arrive(n, p) \/ Duplicate(n, p)

Next ==
    \/ \E n \in Node : SendStep(n) \/ TickStep(n) \/ ReceiveStep(n)
    \/ \E p \in net : Lose(p)

Spec == Init /\ [][Next]_vars
-----------------------------------------------------------------------------
(* Properties *)

TypeOK ==
    /\ next_send_seq \in [Node -> SeqNum]
    /\ DOMAIN send_slots = Node
    /\ \A n \in Node :
           /\ DOMAIN send_slots[n] \subseteq Slot
           /\ \A i \in DOMAIN send_slots[n] : send_slots[n][i] \in PacketSlot
    /\ pending_send_count \in [Node -> Nat]
    /\ tx_nonce_counter \in [Node -> 0 .. NonceMod - 1]
    /\ last_seen_ack \in [Node -> AckInfo]
    /\ dup_ack_count \in [Node -> 0 .. DupThreshold - 1]
    /\ recv_next_seq \in [Node -> SeqNum]
    /\ newest_recv_seq \in [Node -> SeqNum]
    /\ has_recv_seq \in [Node -> BOOLEAN]
    /\ recv_slots \in [Node -> SUBSET RecvSlot]
    /\ rx_replay \in [Node -> Window]
    /\ ack_dirty \in [Node -> BOOLEAN]
    /\ net \subseteq Packet
    /\ faults \in 0 .. MaxFaults
    /\ attempts \in [Node -> Nat]
    /\ accepted \in [Node -> Seq(Message)]
    /\ delivered \in [Node -> Seq(Message)]
    /\ acked \in [Node -> SUBSET Message]

\* GetPendingSend is the number of unacknowledged messages, whichever of the
\* four paths released the others (acknowledged, given up by Tick, given up
\* by FastRetransmit, never built), and it stays within the window.
PendingExact ==
    \A n \in Node :
        /\ pending_send_count[n] = Cardinality(DOMAIN send_slots[n])
        /\ pending_send_count[n] <= SendWindow

\* on_deliver gives a peer's messages in the order Send accepted them, with
\* none skipped, repeated or invented.
InOrder ==
    \A n \in Node :
        /\ Len(delivered[n]) <= Len(accepted[Peer[n]])
        /\ \A k \in 1 .. Len(delivered[n]) : delivered[n][k] = accepted[Peer[n]][k]

OC == INSTANCE OrderedChannel

\* The two endpoints and the network between them are an ordered channel.
OrderedDelivery == OC!Spec

\* Between calls the reorder buffer holds messages of the window alone, each
\* once, and never the next one due, which DrainInOrder has taken.  So
\* AllocateRecvSlot finds a slot whenever InsertRecv asks for one.
RecvBufferSound ==
    \A n \in Node :
        /\ \A r \in recv_slots[n] :
               DistanceFrom(recv_next_seq[n], r.seq) \in 1 .. RecvWindow - 1
        /\ \A r, s \in recv_slots[n] : r.seq = s.seq => r = s
        /\ Cardinality(recv_slots[n]) < MaxQueue

Retained(n, body) ==
    \/ \E k \in 1 .. Len(delivered[n]) : delivered[n][k] = body
    \/ \E r \in recv_slots[n] : r.body = body

\* A message the sender drops as acknowledged is with the receiver: it was
\* delivered, or waits in the reorder buffer.
AckedIsRetained ==
    \A n \in Node : \A body \in acked[n] : Retained(Peer[n], body)

\* Sending a queued message again can still help: its nonce, kept from the
\* first transmission, is refused by the peer only if the peer has it.
RetransmitUseful ==
    \A n \in Node : \A i \in DOMAIN send_slots[n] :
        \/ Accepts(rx_replay[Peer[n]], send_slots[n][i].frame.nonce)
        \/ Retained(Peer[n], send_slots[n][i].frame.body)

\* The acknowledgement an endpoint would send covers every message it has
\* delivered within the reach of the bitmap.
AckInfoComplete ==
    \A n \in Node : \A k \in 1 .. Len(delivered[n]) :
        LET seq == k % SeqMod
            d   == DistanceFrom(seq, newest_recv_seq[n])
        IN  d <= AckBits => d = 0 \/ d \in AckInfoOf(n).bits

-----------------------------------------------------------------------------
(* Fairness: the application calls Tick for ever and every timer runs out,  *)
(* and a datagram that is not lost arrives.                                 *)

TimerFires(n, i) ==
    \E due \in SUBSET DOMAIN send_slots[n], flush, ackRefused \in BOOLEAN :
        /\ i \in Tried(n, due) \/ (i \in due /\ Exhausted(n, i))
        /\ \E refused \in SUBSET Tried(n, due) :
               Tick(n, due, refused, flush, ackRefused)

AckDelayEnds(n) ==
    \E due \in SUBSET DOMAIN send_slots[n], ackRefused \in BOOLEAN :
        /\ Flushes(n, TRUE)
        /\ \E refused \in SUBSET Tried(n, due) :
               Tick(n, due, refused, TRUE, ackRefused)

Fairness ==
    \A n \in Node :
        /\ \A i \in Slot : WF_vars(TimerFires(n, i))
        /\ WF_vars(AckDelayEnds(n))
        /\ WF_vars(\E p \in net : Arrive(n, p))

FairSpec == Spec /\ Fairness

\* Every message Send accepted is delivered, although up to MaxFaults of its
\* datagrams are lost and acknowledgements stay incomplete.
EveryAcceptedDelivered ==
    \A n \in Node : \A k \in 1 .. MaxSend[n] :
        Len(accepted[n]) >= k ~> Len(delivered[Peer[n]]) >= k

\* No message occupies its send slot for ever: it is acknowledged or given up,
\* and the sender's window opens again.
QueueDrains ==
    \A n \in Node : pending_send_count[n] > 0 ~> pending_send_count[n] = 0
=============================================================================
