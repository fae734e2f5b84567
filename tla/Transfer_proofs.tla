--------------------------- MODULE Transfer_proofs ---------------------------
(***************************************************************************)
(* Two Endpoints and the network between them are an ordered channel, for  *)
(* every window, queue, bitmap and retry limit, every traffic in either    *)
(* direction and any number of losses, duplications and refused sends.     *)
(*                                                                         *)
(* The first invariant, IInv, assumes nothing of the run.  It says what a  *)
(* number means: the sequence number of the b-th message is b % SeqMod, in *)
(* the send slots, in flight and in the reorder buffer alike, and          *)
(* recv_next_seq_ is the number of the message after those delivered.      *)
(* Types, the count of pending sends and the reorder buffer follow.        *)
(*                                                                         *)
(* That delivery is in order needs more, because every number stands for   *)
(* a message of each cycle of SeqMod.  What tells them apart is the nonce: *)
(* OrderInv says that the replay window refuses every frame whose message  *)
(* the receiver has, so that a number it takes is of a message to come.    *)
(* InCycle bounds how far ahead that message can be.                       *)
(*                                                                         *)
(* What an acknowledgement promises is KeptInv, and that a message queued  *)
(* is worth sending again is UsefulInv, both while InWindow holds: no      *)
(* endpoint is further ahead of its peer than InsertRecv will buffer.      *)
(***************************************************************************)
EXTENDS Transfer, SeqArith_proofs, FiniteSetTheorems, TLAPS

Offered(n) == {accepted[n][j] : j \in DOMAIN accepted[n]}

\* The sender counts Send calls with its sequence numbers.  The j-th message
\* accepted came with the j-th call or, some having failed, a later one.
SenderInv ==
    /\ next_send_seq \in [Node -> SeqNum]
    /\ attempts \in [Node -> Nat]
    /\ accepted \in [Node -> Seq(Nat)]
    /\ \A n \in Node :
           /\ attempts[n] <= MaxSend[n]
           /\ Numbers(next_send_seq[n], attempts[n] + 1)
           /\ Len(accepted[n]) <= attempts[n]
           /\ \A j \in DOMAIN accepted[n] : accepted[n][j] \in j .. attempts[n]

\* A data frame carries an accepted message under its own number.
Sound(p) ==
    /\ p \in Packet
    /\ p.kind = "data" => Numbers(p.seq, p.body) /\ p.body \in Offered(p.src)

SlotSound(n, s) ==
    /\ s \in PacketSlot
    /\ Sound(s.frame)
    /\ s.frame.src = n
    /\ s.frame.kind = "data"

WindowInv ==
    /\ DOMAIN send_slots = Node
    /\ pending_send_count \in [Node -> Nat]
    /\ last_seen_ack \in [Node -> AckInfo]
    /\ dup_ack_count \in [Node -> 0 .. DupThreshold - 1]
    /\ acked \in [Node -> SUBSET Message]
    /\ \A n \in Node :
           /\ DOMAIN send_slots[n] \subseteq Slot
           /\ \A i \in DOMAIN send_slots[n] : SlotSound(n, send_slots[n][i])
           /\ pending_send_count[n] = Cardinality(DOMAIN send_slots[n])
           /\ pending_send_count[n] <= SendWindow

\* A buffer that holds numbers of the window beyond the next one, each once.
BufferSound(slots, next) ==
    /\ \A r \in slots : DistanceFrom(next, r.seq) \in 1 .. RecvWindow - 1
    /\ \A r, s \in slots : r.seq = s.seq => r = s

\* Nothing is made up, and the next number counts what was delivered.
ReceiverInv ==
    /\ recv_next_seq \in [Node -> SeqNum]
    /\ newest_recv_seq \in [Node -> SeqNum]
    /\ has_recv_seq \in [Node -> BOOLEAN]
    /\ recv_slots \in [Node -> SUBSET RecvSlot]
    /\ delivered \in [Node -> Seq(Nat)]
    /\ \A n \in Node :
           /\ IsFiniteSet(recv_slots[n])
           /\ BufferSound(recv_slots[n], recv_next_seq[n])
           /\ \A r \in recv_slots[n] :
                  Numbers(r.seq, r.body) /\ r.body \in Offered(Peer[n])
           /\ Numbers(recv_next_seq[n], Len(delivered[n]) + 1)
           /\ \A k \in DOMAIN delivered[n] : delivered[n][k] \in Offered(Peer[n])

RestInv ==
    /\ tx_nonce_counter \in [Node -> 0 .. NonceMod - 1]
    /\ rx_replay \in [Node -> Window]
    /\ ack_dirty \in [Node -> BOOLEAN]
    /\ faults \in 0 .. MaxFaults

NetInv == \A p \in net : Sound(p)

IInv == SenderInv /\ WindowInv /\ ReceiverInv /\ RestInv /\ NetInv

-----------------------------------------------------------------------------
(* Constants and frames *)

LEMMA ConstantFacts ==
    /\ MaxQueue \in Nat /\ SendWindow \in Nat /\ RecvWindow \in Nat
    /\ RecvWindow >= 1 /\ RecvWindow <= MaxQueue /\ SendWindow <= MaxQueue
    /\ SeqMod \in Nat /\ SeqMod > 2
    /\ MaxRetransmits \in Nat /\ DupThreshold \in Nat /\ DupThreshold > 0
    /\ NonceMod \in Nat /\ NonceMod > 0 /\ MaxFaults \in Nat
    /\ AckBits \in Nat /\ ReplayBits \in Nat /\ ReplayBits > 0
    /\ \A n \in Node : MaxSend[n] \in Nat
    /\ \A n \in Node : Peer[n] \in Node /\ Peer[n] # n /\ Peer[Peer[n]] = n
    /\ A \in Node /\ B \in Node /\ A # B
BY TransferAssumption, SeqModAssumption, ReplayBitsAssumption DEF Node, Peer

LEMMA MessageRange ==
    ASSUME NEW n \in Node, NEW b \in 1 .. MaxSend[n]
    PROVE  b \in Message
BY ConstantFacts DEF Node, Message

LEMMA OfferedRange ==
    ASSUME SenderInv, NEW n \in Node, NEW b \in Offered(n)
    PROVE  b \in Nat /\ b >= 1 /\ b <= attempts[n] /\ b <= MaxSend[n] /\ b \in Message
<1>1. PICK j \in DOMAIN accepted[n] : b = accepted[n][j]
  BY DEF Offered
<1>2. j \in Nat /\ j >= 1 /\ b \in j .. attempts[n]
  BY <1>1 DEF SenderInv
<1>3. attempts[n] \in Nat /\ attempts[n] <= MaxSend[n] /\ MaxSend[n] \in Nat
  BY ConstantFacts DEF SenderInv
<1>4. b \in Nat /\ b >= 1 /\ b <= attempts[n] /\ b <= MaxSend[n]
  BY <1>2, <1>3
<1> QED BY <1>3, <1>4, MessageRange

LEMMA AckInfoType ==
    ASSUME ReceiverInv, NEW n \in Node
    PROVE  AckInfoOf(n) \in AckInfo
<1>1. BuildAckBits(n) \in SUBSET (1 .. AckBits)
  BY DEF BuildAckBits
<1>2. newest_recv_seq[n] \in SeqNum /\ 0 \in SeqNum
  BY ConstantFacts DEF ReceiverInv, SeqNum
<1> QED BY <1>1, <1>2 DEF AckInfoOf, AckInfo

LEMMA NonceType ==
    ASSUME RestInv, NEW n \in Node
    PROVE  NextNonce(n) \in 0 .. NonceMod - 1
BY ConstantFacts DEF RestInv, NextNonce

LEMMA ControlFrameSound ==
    ASSUME ReceiverInv, RestInv, NEW n \in Node
    PROVE  Sound(ControlFrame(n))
<1>1. 0 \in SeqNum /\ 0 \in 0 .. MaxRetransmits
  BY ConstantFacts DEF SeqNum
<1> QED BY <1>1, AckInfoType, NonceType DEF ControlFrame, Sound, Packet

\* A stored frame stays sound however often it is sent.
LEMMA TransmissionSound ==
    ASSUME NEW n \in Node, NEW s, SlotSound(n, s)
    PROVE  Sound(Transmission(s))
BY DEF SlotSound, Transmission, Sound, Packet, PacketSlot

-----------------------------------------------------------------------------
(* Initial states *)

LEMMA InitInv == ASSUME Init PROVE IInv
<1> USE ConstantFacts, TransferAssumption
<1>1. SenderInv
  <2>1. \A n \in Node : accepted[n] = <<>> /\ attempts[n] = 0 /\ next_send_seq[n] = 1
    BY DEF Init
  <2>2. 1 \in SeqNum
    BY DEF SeqNum
  <2>3. Numbers(1, 1)
    BY <2>2, NumbersSelf
  <2> QED BY <2>1, <2>2, <2>3 DEF Init, SenderInv
<1>2. WindowInv
  <2>1. \A n \in Node : DOMAIN send_slots[n] = {}
    BY DEF Init
  <2>2. Cardinality({}) = 0
    BY FS_EmptySet
  <2>3. [ack |-> 0, bits |-> {}] \in AckInfo
    BY DEF AckInfo, SeqNum
  <2> QED BY <2>1, <2>2, <2>3 DEF Init, WindowInv
<1>3. ReceiverInv
  <2>1. \A n \in Node : delivered[n] = <<>> /\ recv_slots[n] = {}
                          /\ accepted[Peer[n]] = <<>> /\ recv_next_seq[n] = 1
    BY DEF Init
  <2>2. IsFiniteSet({})
    BY FS_EmptySet
  <2>3. 1 \in SeqNum /\ 0 \in SeqNum
    BY DEF SeqNum
  <2>4. Numbers(1, 1)
    BY <2>3, NumbersSelf
  <2> QED BY <2>1, <2>2, <2>3, <2>4 DEF Init, ReceiverInv, BufferSound
<1>4. RestInv
  BY DEF Init, RestInv, Window, FreshWindow
<1>5. NetInv
  BY DEF Init, NetInv
<1> QED BY <1>1, <1>2, <1>3, <1>4, <1>5 DEF IInv

-----------------------------------------------------------------------------
(* Send *)

\* The messages accepted so far keep their places as more are accepted.
Grows ==
    \A m \in Node :
        /\ Len(accepted[m]) <= Len(accepted'[m])
        /\ \A k \in DOMAIN accepted[m] :
               k \in DOMAIN accepted'[m] /\ accepted'[m][k] = accepted[m][k]

LEMMA OfferedGrows ==
    ASSUME Grows, NEW m \in Node
    PROVE  Offered(m) \subseteq Offered(m)'
BY DEF Grows, Offered

LEMMA SoundGrows ==
    ASSUME Grows, NEW p, Sound(p)
    PROVE  Sound(p)'
<1>1. p.src \in Node
  BY DEF Sound, Packet
<1> QED BY <1>1, OfferedGrows DEF Sound

LEMMA SlotSoundGrows ==
    ASSUME Grows, NEW n \in Node, NEW s, SlotSound(n, s)
    PROVE  SlotSound(n, s)'
BY SoundGrows DEF SlotSound

LEMMA ReceiverGrows ==
    ASSUME ReceiverInv, Grows, UNCHANGED receiver
    PROVE  ReceiverInv'
<1>1. \A n \in Node : Peer[n] \in Node
  BY ConstantFacts
<1>2. \A n \in Node : Offered(Peer[n]) \subseteq Offered(Peer[n])'
  BY <1>1, OfferedGrows
<1> QED BY <1>2 DEF ReceiverInv, receiver

LEMMA FiniteSlots ==
    ASSUME WindowInv, NEW n \in Node
    PROVE  IsFiniteSet(DOMAIN send_slots[n])
<1>1. IsFiniteSet(Slot)
  BY FS_Interval, ConstantFacts DEF Slot
<1>2. DOMAIN send_slots[n] \in SUBSET Slot
  BY DEF WindowInv
<1> QED BY <1>1, <1>2, FS_Subset

LEMMA SendInv ==
    ASSUME IInv, NEW n \in Node, NEW i \in Slot, NEW refused \in BOOLEAN,
           Send(n, i, refused)
    PROVE  IInv' /\ Grows
<1> DEFINE body == attempts[n] + 1
<1>1. /\ attempts[n] \in Nat /\ attempts[n] < MaxSend[n] /\ MaxSend[n] \in Nat
      /\ next_send_seq[n] \in SeqNum /\ Numbers(next_send_seq[n], body)
      /\ body \in Message
  <2>1. attempts[n] \in Nat /\ attempts[n] < MaxSend[n] /\ MaxSend[n] \in Nat
        /\ next_send_seq[n] \in SeqNum /\ Numbers(next_send_seq[n], body)
    BY ConstantFacts DEF IInv, SenderInv, Send, CanSend
  <2> QED BY <2>1, ConstantFacts, MessageRange
<1>2. /\ accepted' = [accepted EXCEPT ![n] = Append(accepted[n], body)]
      /\ accepted \in [Node -> Seq(Nat)]
  BY DEF Send, IInv, SenderInv
<1>3. /\ accepted'[n] \in Seq(Nat)
      /\ Len(accepted'[n]) = Len(accepted[n]) + 1
      /\ accepted'[n][Len(accepted[n]) + 1] = body
      /\ \A k \in 1 .. Len(accepted[n]) : accepted'[n][k] = accepted[n][k]
      /\ \A m \in Node \ {n} : accepted'[m] = accepted[m]
  BY <1>1, <1>2
<1>4. Len(accepted[n]) \in Nat /\ DOMAIN accepted[n] = 1 .. Len(accepted[n])
      /\ DOMAIN accepted'[n] = 1 .. Len(accepted[n]) + 1
  BY <1>2, <1>3
<1>5. Grows
  <2> SUFFICES ASSUME NEW m \in Node
               PROVE  /\ Len(accepted[m]) <= Len(accepted'[m])
                      /\ \A k \in DOMAIN accepted[m] :
                             k \in DOMAIN accepted'[m] /\ accepted'[m][k] = accepted[m][k]
    BY DEF Grows
  <2>1. CASE m = n
    BY <2>1, <1>3, <1>4
  <2>2. CASE m # n
    <3>1. Len(accepted[m]) \in Nat
      BY <1>2
    <3> QED BY <2>2, <3>1, <1>3
  <2> QED BY <2>1, <2>2
<1>6. SenderInv'
  <2>1. next_send_seq' = [next_send_seq EXCEPT ![n] = AddSeq(next_send_seq[n], 1)]
    BY DEF Send
  <2>2. attempts' = [attempts EXCEPT ![n] = body]
    BY DEF Send
  <2>3. \A j \in DOMAIN accepted'[n] : accepted'[n][j] \in j .. body
    <3>1. \A j \in 1 .. Len(accepted[n]) : accepted[n][j] \in j .. attempts[n]
      BY <1>4 DEF IInv, SenderInv
    <3>2. Len(accepted[n]) <= attempts[n]
      BY DEF IInv, SenderInv
    <3>3. ASSUME NEW j \in DOMAIN accepted'[n] PROVE accepted'[n][j] \in j .. body
      <4>1. CASE j = Len(accepted[n]) + 1
        <5>1. accepted'[n][j] = body
          BY <1>3, <4>1
        <5>2. j \in Nat /\ j <= body /\ body \in Nat
          BY <1>1, <1>4, <3>2, <4>1
        <5>3. body \in j .. body
          BY <5>2
        <5> QED BY <5>1, <5>3, Zenon
      <4>2. CASE j \in 1 .. Len(accepted[n])
        <5>1. accepted'[n][j] = accepted[n][j]
          BY <1>3, <4>2
        <5>2. accepted[n][j] \in j .. attempts[n]
          BY <3>1, <4>2
        <5>3. accepted[n][j] \in j .. body
          BY <1>1, <4>2, <5>2
        <5> QED BY <5>1, <5>3, Zenon
      <4> QED BY <1>4, <3>3, <4>1, <4>2
    <3> QED BY <3>3
  <2>4. Len(accepted'[n]) <= body
    BY <1>1, <1>3, <1>4 DEF IInv, SenderInv
  <2>5. AddSeq(next_send_seq[n], 1) \in SeqNum
        /\ Numbers(AddSeq(next_send_seq[n], 1), body + 1)
    BY <1>1, AddSeqType, NumbersAdd, ConstantFacts
  <2>6. accepted' \in [Node -> Seq(Nat)]
    BY <1>2, <1>3
  <2>7. next_send_seq' \in [Node -> SeqNum] /\ attempts' \in [Node -> Nat]
    BY <1>1, <2>1, <2>2, <2>5 DEF IInv, SenderInv
  <2>8. ASSUME NEW m \in Node
        PROVE  /\ attempts'[m] <= MaxSend[m]
               /\ Numbers(next_send_seq'[m], attempts'[m] + 1)
               /\ Len(accepted'[m]) <= attempts'[m]
               /\ \A j \in DOMAIN accepted'[m] : accepted'[m][j] \in j .. attempts'[m]
    <3>1. CASE m = n
      <4>1. attempts'[n] = body /\ next_send_seq'[n] = AddSeq(next_send_seq[n], 1)
        BY <2>1, <2>2 DEF IInv, SenderInv
      <4> QED BY <3>1, <4>1, <1>1, <2>3, <2>4, <2>5
    <3>2. CASE m # n
      <4>1. attempts'[m] = attempts[m] /\ next_send_seq'[m] = next_send_seq[m]
            /\ accepted'[m] = accepted[m]
        BY <3>2, <1>3, <2>1, <2>2 DEF IInv, SenderInv
      <4> QED BY <4>1 DEF IInv, SenderInv
    <3> QED BY <3>1, <3>2
  <2> QED BY <2>6, <2>7, <2>8 DEF SenderInv
<1>7. PICK f : f = DataFrame(n)
  OBVIOUS
<1>8. /\ f \in Packet /\ f.src = n /\ f.kind = "data" /\ Numbers(f.seq, body) /\ f.body = body
      /\ f.body \in Offered(n)'
  <2>1. AckInfoOf(n) \in AckInfo /\ NextNonce(n) \in 0 .. NonceMod - 1
        /\ next_send_seq[n] \in SeqNum /\ 0 \in 0 .. MaxRetransmits
    BY AckInfoType, NonceType, ConstantFacts DEF IInv, SenderInv
  <2>2. body \in Offered(n)'
    <3>1. Len(accepted[n]) + 1 \in DOMAIN accepted'[n]
      BY <1>4
    <3> QED BY <3>1, <1>3 DEF Offered
  <2> QED BY <1>1, <1>7, <2>1, <2>2 DEF DataFrame, Packet
<1>9. Sound(f)'
  BY <1>8 DEF Sound
<1>10. NetInv'
  <2>1. net' = net \/ net' = net \cup {f}
    BY <1>7 DEF Send
  <2>2. \A p \in net : Sound(p)'
    BY <1>5, SoundGrows DEF IInv, NetInv
  <2> QED BY <1>9, <2>1, <2>2 DEF NetInv
<1>11. RestInv'
  <2>1. NextNonce(n) \in 0 .. NonceMod - 1
    BY NonceType DEF IInv
  <2>2. faults' \in 0 .. MaxFaults
    BY SMTT(40), ConstantFacts DEF Send, IInv, RestInv
  <2> QED BY <2>1, <2>2 DEF Send, TakeNonce, IInv, RestInv
<1>12. ReceiverInv'
  BY <1>5, ReceiverGrows DEF Send, IInv
<1>13. WindowInv'
  <2> DEFINE s == [frame |-> f, ever_sent |-> ~ refused, retries |-> 0]
             old == send_slots[n]
             new == [j \in DOMAIN old \cup {i} |-> IF j = i THEN s ELSE old[j]]
  <2>1. /\ send_slots' = [send_slots EXCEPT ![n] = new]
        /\ i \notin DOMAIN old /\ pending_send_count[n] < SendWindow
        /\ pending_send_count' = [pending_send_count EXCEPT ![n] = @ + 1]
    BY <1>7 DEF Send, CanSend
  <2>2. SlotSound(n, s)'
    BY <1>8, <1>9, ConstantFacts DEF SlotSound, PacketSlot
  <2>3. /\ DOMAIN send_slots = Node /\ send_slots'[n] = new
        /\ \A m \in Node \ {n} : send_slots'[m] = send_slots[m]
    BY <2>1 DEF IInv, WindowInv
  <2>4. ASSUME NEW m \in Node, NEW j \in DOMAIN send_slots'[m]
        PROVE  SlotSound(m, send_slots[m][j])' /\ j \in Slot
    <3>1. CASE m = n /\ j = i
      <4>1. send_slots'[m][j] = s
        BY <2>3, <3>1
      <4> QED BY <2>2, <3>1, <4>1, Zenon
    <3>2. CASE ~ (m = n /\ j = i)
      <4>1. j \in DOMAIN send_slots[m] /\ send_slots'[m][j] = send_slots[m][j]
        BY <2>3, <3>2
      <4>2. SlotSound(m, send_slots[m][j]) /\ j \in Slot
        BY <4>1 DEF IInv, WindowInv
      <4>3. PICK s0 : s0 = send_slots[m][j]
        OBVIOUS
      <4>4. SlotSound(m, s0)'
        BY <1>5, <4>2, <4>3, SlotSoundGrows
      <4> QED BY <4>1, <4>2, <4>3, <4>4, Zenon
    <3> QED BY <3>1, <3>2
  <2>5. ASSUME NEW m \in Node
        PROVE  /\ pending_send_count'[m] = Cardinality(DOMAIN send_slots'[m])
               /\ pending_send_count'[m] <= SendWindow
    <3>1. CASE m = n
      <4>1. DOMAIN send_slots'[n] = DOMAIN old \cup {i}
        BY <2>3
      <4>2. IsFiniteSet(DOMAIN old)
        BY FiniteSlots DEF IInv
      <4>3. Cardinality(DOMAIN old \cup {i}) = Cardinality(DOMAIN old) + 1
        BY <2>1, <4>2, FS_AddElement
      <4>4. pending_send_count'[n] = pending_send_count[n] + 1
        BY <2>1 DEF IInv, WindowInv
      <4>5. pending_send_count[n] = Cardinality(DOMAIN old)
            /\ pending_send_count[n] \in Nat
        BY DEF IInv, WindowInv
      <4>6. pending_send_count[n] + 1 <= SendWindow
        BY <2>1, <4>5, ConstantFacts
      <4> QED BY <3>1, <4>1, <4>3, <4>4, <4>5, <4>6, Zenon
    <3>2. CASE m # n
      <4>1. pending_send_count'[m] = pending_send_count[m]
            /\ send_slots'[m] = send_slots[m]
        BY <2>1, <2>3, <3>2 DEF IInv, WindowInv
      <4> QED BY <4>1 DEF IInv, WindowInv
    <3> QED BY <3>1, <3>2
  <2>6. pending_send_count' \in [Node -> Nat]
    BY <2>1 DEF IInv, WindowInv
  <2>7. DOMAIN send_slots' = Node
    BY <2>1 DEF IInv, WindowInv
  <2> QED BY <2>4, <2>5, <2>6, <2>7 DEF Send, IInv, WindowInv
<1> QED BY <1>5, <1>6, <1>10, <1>11, <1>12, <1>13 DEF IInv

-----------------------------------------------------------------------------
(* What a step that accepts no message leaves as it was *)

LEMMA UnchangedGrows ==
    ASSUME SenderInv, UNCHANGED accepted
    PROVE  Grows
<1>1. \A m \in Node : Len(accepted[m]) \in Nat
  BY DEF SenderInv
<1> QED BY <1>1 DEF Grows

LEMMA SenderSteady ==
    ASSUME SenderInv, UNCHANGED sender
    PROVE  SenderInv' /\ Grows
BY UnchangedGrows DEF SenderInv, sender

LEMMA ReceiverSteady ==
    ASSUME SenderInv, ReceiverInv, UNCHANGED <<sender, receiver>>
    PROVE  ReceiverInv'
BY SenderSteady, ReceiverGrows

LEMMA WindowSteady ==
    ASSUME SenderInv, WindowInv, UNCHANGED <<accepted, window>>
    PROVE  WindowInv'
BY DEF WindowInv, window, SlotSound, Sound, Offered

LEMMA NetSteady ==
    ASSUME SenderInv, NetInv, UNCHANGED accepted, \A p \in net' : p \in net \/ Sound(p)
    PROVE  NetInv'
BY DEF NetInv, Sound, Offered

LEMMA SendTooLongInv ==
    ASSUME IInv, NEW n \in Node, NEW i \in Slot, SendTooLong(n, i)
    PROVE  IInv' /\ Grows
<1>1. Grows
  BY UnchangedGrows DEF SendTooLong, IInv
<1>2. SenderInv'
  <2> DEFINE next == AddSeq(next_send_seq[n], 1)
  <2>1. /\ attempts[n] \in Nat /\ attempts[n] < MaxSend[n] /\ MaxSend[n] \in Nat
        /\ next_send_seq[n] \in SeqNum
        /\ Numbers(next_send_seq[n], attempts[n] + 1)
    BY ConstantFacts DEF IInv, SenderInv, SendTooLong, CanSend
  <2>2. next \in SeqNum /\ Numbers(next, attempts[n] + 2)
    <3>1. PICK s, b : s = next_send_seq[n] /\ b = attempts[n] + 1
      OBVIOUS
    <3>2. s \in SeqNum /\ b \in Nat /\ Numbers(s, b) /\ b + 1 = attempts[n] + 2
      BY <2>1, <3>1
    <3>3. 1 \in 0 .. SeqMod - 1 /\ 1 \in 0 .. SeqMod
      BY ConstantFacts
    <3>4. AddSeq(s, 1) \in SeqNum /\ Numbers(AddSeq(s, 1), b + 1)
      BY <3>2, <3>3, AddSeqType, NumbersAdd, Zenon
    <3> QED BY <3>1, <3>2, <3>4, Zenon
  <2>3. /\ next_send_seq' = [next_send_seq EXCEPT ![n] = next]
        /\ attempts' = [attempts EXCEPT ![n] = attempts[n] + 1]
        /\ accepted' = accepted
    BY DEF SendTooLong
  <2>4. ASSUME NEW m \in Node
        PROVE  /\ attempts'[m] <= MaxSend[m]
               /\ Numbers(next_send_seq'[m], attempts'[m] + 1)
               /\ Len(accepted[m]) <= attempts'[m]
               /\ \A j \in DOMAIN accepted[m] : accepted[m][j] \in j .. attempts'[m]
    <3>1. CASE m = n
      <4>1. attempts'[n] = attempts[n] + 1 /\ next_send_seq'[n] = next
        BY <2>3 DEF IInv, SenderInv
      <4>6. Numbers(next_send_seq'[n], attempts'[n] + 1)
        <5>1. attempts'[n] + 1 = attempts[n] + 2
          BY <2>1, <4>1
        <5> QED BY <2>2, <4>1, <5>1, Zenon
      <4>2. Len(accepted[n]) \in Nat /\ DOMAIN accepted[n] = 1 .. Len(accepted[n])
        BY DEF IInv, SenderInv
      <4>3. ASSUME NEW j \in DOMAIN accepted[n] PROVE accepted[n][j] \in j .. attempts'[n]
        <5>1. accepted[n][j] \in j .. attempts[n]
          BY DEF IInv, SenderInv
        <5> QED BY <2>1, <4>1, <4>2, <5>1
      <4>4. Len(accepted[n]) <= attempts[n]
        BY DEF IInv, SenderInv
      <4>5. Len(accepted[n]) <= attempts'[n]
        BY <2>1, <4>1, <4>2, <4>4
      <4> QED BY <3>1, <2>1, <4>1, <4>3, <4>5, <4>6
    <3>2. CASE m # n
      <4>1. attempts'[m] = attempts[m] /\ next_send_seq'[m] = next_send_seq[m]
        BY <2>3, <3>2 DEF IInv, SenderInv
      <4> QED BY <4>1 DEF IInv, SenderInv
    <3> QED BY <3>1, <3>2
  <2>6. next_send_seq' \in [Node -> SeqNum] /\ attempts' \in [Node -> Nat]
    BY <2>1, <2>2, <2>3 DEF IInv, SenderInv
  <2> QED BY <2>3, <2>4, <2>6 DEF IInv, SenderInv
<1>3. ReceiverInv'
  BY <1>1, ReceiverGrows DEF SendTooLong, IInv
<1>4. WindowInv'
  BY WindowSteady DEF SendTooLong, IInv
<1>5. NetInv' /\ RestInv'
  BY NetSteady DEF SendTooLong, IInv, RestInv, wire
<1> QED BY <1>1, <1>2, <1>3, <1>4, <1>5 DEF IInv

-----------------------------------------------------------------------------
(* Slots released and slots sent again *)

LEMMA DecrementedExact ==
    ASSUME NEW S, IsFiniteSet(S), NEW T \in SUBSET S
    PROVE  /\ Decremented(Cardinality(S), Cardinality(T)) = Cardinality(S \ T)
           /\ Cardinality(S \ T) \in Nat
           /\ Cardinality(S \ T) <= Cardinality(S)
<1>1. IsFiniteSet(T) /\ Cardinality(T) <= Cardinality(S)
  BY FS_Subset
<1>2. Cardinality(S) \in Nat /\ Cardinality(T) \in Nat
  BY <1>1, FS_CardinalityType
<1>3. S \cap T = T
  OBVIOUS
<1>4. Cardinality(S \ T) = Cardinality(S) - Cardinality(T)
  BY <1>3, FS_Difference
<1> QED BY <1>1, <1>2, <1>4 DEF Decremented

\* Whichever way slots are freed and others rewritten, the count follows.
LEMMA SlotsUpdate ==
    ASSUME WindowInv, UNCHANGED accepted, NEW n \in Node, NEW kept,
           NEW freed \in SUBSET DOMAIN send_slots[n],
           send_slots' = [send_slots EXCEPT ![n] = kept],
           DOMAIN kept = DOMAIN send_slots[n] \ freed,
           \A i \in DOMAIN kept : SlotSound(n, kept[i]),
           pending_send_count' = [pending_send_count EXCEPT
                                      ![n] = Decremented(@, Cardinality(freed))],
           last_seen_ack' \in [Node -> AckInfo],
           dup_ack_count' \in [Node -> 0 .. DupThreshold - 1],
           acked' \in [Node -> SUBSET Message]
    PROVE  WindowInv'
<1>1. /\ DOMAIN send_slots' = Node
      /\ send_slots'[n] = kept
      /\ \A m \in Node \ {n} : send_slots'[m] = send_slots[m]
  BY DEF WindowInv
<1>2. /\ pending_send_count[n] = Cardinality(DOMAIN send_slots[n])
      /\ pending_send_count[n] <= SendWindow
      /\ pending_send_count[n] \in Nat
  BY DEF WindowInv
<1>3. /\ Decremented(pending_send_count[n], Cardinality(freed)) = Cardinality(DOMAIN kept)
      /\ Cardinality(DOMAIN kept) \in Nat
      /\ Cardinality(DOMAIN kept) <= pending_send_count[n]
  <2>1. IsFiniteSet(DOMAIN send_slots[n])
    BY FiniteSlots
  <2>2. /\ Decremented(Cardinality(DOMAIN send_slots[n]), Cardinality(freed))
              = Cardinality(DOMAIN send_slots[n] \ freed)
        /\ Cardinality(DOMAIN send_slots[n] \ freed) \in Nat
        /\ Cardinality(DOMAIN send_slots[n] \ freed) <= Cardinality(DOMAIN send_slots[n])
    BY <2>1, DecrementedExact
  <2> QED BY <1>2, <2>2, Zenon
<1>4. /\ pending_send_count' \in [Node -> Nat]
      /\ pending_send_count'[n] = Cardinality(DOMAIN kept)
      /\ \A m \in Node \ {n} : pending_send_count'[m] = pending_send_count[m]
  BY <1>3 DEF WindowInv
<1>5. Cardinality(DOMAIN kept) <= SendWindow
  BY <1>2, <1>3, ConstantFacts
<1>6. ASSUME NEW m \in Node
      PROVE  /\ DOMAIN send_slots'[m] \subseteq Slot
             /\ \A i \in DOMAIN send_slots'[m] : SlotSound(m, send_slots'[m][i])
             /\ pending_send_count'[m] = Cardinality(DOMAIN send_slots'[m])
             /\ pending_send_count'[m] <= SendWindow
  <2>1. CASE m = n
    <3>1. DOMAIN kept \subseteq Slot
      BY DEF WindowInv
    <3> QED BY <2>1, <3>1, <1>1, <1>4, <1>5
  <2>2. CASE m # n
    BY <2>2, <1>1, <1>4 DEF WindowInv
  <2> QED BY <2>1, <2>2
<1>7. \A m \in Node : Offered(m)' = Offered(m)
  BY DEF Offered
<1>8. ASSUME NEW m \in Node, NEW i \in DOMAIN send_slots'[m]
      PROVE  SlotSound(m, send_slots[m][i])'
  <2>1. SlotSound(m, send_slots'[m][i])
    BY <1>6
  <2>2. send_slots'[m][i].frame.src = m
    BY <2>1 DEF SlotSound
  <2> QED BY <2>1, <2>2, <1>7 DEF SlotSound, Sound
<1> QED BY <1>1, <1>4, <1>6, <1>8 DEF WindowInv

\* A slot sent again keeps its frame.
LEMMA ResentSlot ==
    ASSUME NEW n \in Node, NEW s, SlotSound(n, s), NEW sent \in BOOLEAN,
           NEW tries \in 0 .. MaxRetransmits
    PROVE  SlotSound(n, [s EXCEPT !.ever_sent = sent, !.retries = tries])
BY DEF SlotSound, PacketSlot

LEMMA TickInv ==
    ASSUME IInv, NEW n \in Node, NEW due \in SUBSET DOMAIN send_slots[n],
           NEW flush \in BOOLEAN, NEW ackRefused \in BOOLEAN,
           NEW refused \in SUBSET Tried(n, due),
           Tick(n, due, refused, flush, ackRefused)
    PROVE  IInv' /\ Grows
<1> DEFINE kept == Retried(n, due, refused)
           freed == {j \in due : Exhausted(n, j)}
<1>1. UNCHANGED sender /\ UNCHANGED receiver /\ UNCHANGED accepted
  BY DEF Tick, sender
<1>2. DOMAIN kept = DOMAIN send_slots[n] \ freed /\ freed \in SUBSET DOMAIN send_slots[n]
  BY DEF Retried
<1>3. ASSUME NEW i \in DOMAIN kept PROVE SlotSound(n, kept[i])
  <2> DEFINE s == send_slots[n][i]
             sent == s.ever_sent \/ i \notin refused
             tries == IF i \in due THEN s.retries + 1 ELSE s.retries
  <2>1. i \in DOMAIN send_slots[n] /\ ~ (i \in due /\ Exhausted(n, i))
    BY <1>2
  <2>2. SlotSound(n, s)
    BY <2>1 DEF IInv, WindowInv
  <2>3. CASE i \notin Tried(n, due)
    BY <2>2, <2>3 DEF Retried
  <2>4. CASE i \in Tried(n, due)
    <3>1. kept[i] = [s EXCEPT !.ever_sent = sent, !.retries = tries]
      BY <2>4 DEF Retried
    <3>2. sent \in BOOLEAN
      BY <2>2 DEF SlotSound, PacketSlot
    <3>3. tries \in 0 .. MaxRetransmits
      BY <2>1, <2>2, ConstantFacts DEF SlotSound, PacketSlot, Exhausted
    <3>4. SlotSound(n, [s EXCEPT !.ever_sent = sent, !.retries = tries])
      BY <2>2, <3>2, <3>3, ResentSlot
    <3> QED BY <3>1, <3>4, Zenon
  <2> QED BY <2>3, <2>4
<1>4. WindowInv'
  BY <1>1, <1>2, <1>3, SlotsUpdate DEF Tick, IInv, WindowInv
<1>5. NetInv'
  <2>1. ASSUME NEW i \in Tried(n, due) PROVE i \in DOMAIN kept
    BY <2>1 DEF Tried, Unsent, Tick, Retried
  <2>2. ASSUME NEW i \in Tried(n, due) \ refused PROVE Sound(Transmission(kept[i]))
    BY <1>3, <2>1, TransmissionSound
  <2>3. Sound(ControlFrame(n))
    BY ControlFrameSound DEF IInv
  <2>4. \A p \in net' : p \in net \/ Sound(p)
    BY <2>2, <2>3 DEF Tick
  <2> QED BY <1>1, <2>4, NetSteady DEF IInv
<1>6. RestInv'
  <2>1. faults' \in 0 .. MaxFaults
    <3>1. IsFiniteSet(refused)
      <4>1. Tried(n, due) \in SUBSET DOMAIN send_slots[n]
        BY DEF Tried, Unsent
      <4>2. refused \in SUBSET DOMAIN send_slots[n]
        BY <4>1
      <4> QED BY <4>2, FiniteSlots, FS_Subset DEF IInv
    <3>2. Cardinality(refused) \in Nat
      BY <3>1, FS_CardinalityType
    <3> QED BY <3>2, ConstantFacts DEF Tick, IInv, RestInv
  <2>2. NextNonce(n) \in 0 .. NonceMod - 1
    BY NonceType DEF IInv
  <2>3. tx_nonce_counter' \in [Node -> 0 .. NonceMod - 1]
    BY <2>2 DEF Tick, IInv, RestInv
  <2>4. ack_dirty' \in [Node -> BOOLEAN] /\ rx_replay' = rx_replay
    BY DEF Tick, IInv, RestInv
  <2> QED BY <2>1, <2>3, <2>4 DEF IInv, RestInv
<1> QED BY <1>1, <1>4, <1>5, <1>6, SenderSteady, ReceiverSteady DEF IInv

LEMMA LoseInv ==
    ASSUME IInv, NEW p \in net, Lose(p)
    PROVE  IInv' /\ Grows
<1>1. UNCHANGED sender /\ UNCHANGED receiver /\ UNCHANGED window /\ UNCHANGED accepted
  BY DEF Lose, sender
<1>2. RestInv'
  BY ConstantFacts DEF Lose, IInv, RestInv
<1>3. NetInv'
  BY <1>1, NetSteady DEF Lose, IInv
<1> QED BY <1>1, <1>2, <1>3, SenderSteady, ReceiverSteady, WindowSteady DEF IInv

-----------------------------------------------------------------------------
(* OnUdpPacket *)

\* What a step of HandleAck keeps, whichever of its branches it takes.
LEMMA HandleAckKeeps ==
    ASSUME IInv, UNCHANGED accepted, NEW n \in Node, NEW info \in AckInfo,
           NEW left \in SUBSET net, NEW spent \in Nat,
           HandleAck(n, info, left, spent)
    PROVE  WindowInv' /\ NetInv' /\ faults' \in Nat
<1> USE DEF IInv
<1>1. last_seen_ack \in [Node -> AckInfo] /\ acked \in [Node -> SUBSET Message]
      /\ dup_ack_count \in [Node -> 0 .. DupThreshold - 1]
  BY DEF WindowInv
<1>2. CASE AckReleases(n, info, left, spent)
  <2> DEFINE freed == Covered(n, info)
             kept == Restrict(send_slots[n], DOMAIN send_slots[n] \ freed)
  <2>1. freed \in SUBSET DOMAIN send_slots[n]
    BY DEF Covered
  <2>2. DOMAIN kept = DOMAIN send_slots[n] \ freed
        /\ \A i \in DOMAIN kept : kept[i] = send_slots[n][i]
    BY DEF Restrict
  <2>3. \A i \in DOMAIN kept : SlotSound(n, kept[i])
    BY <2>2 DEF WindowInv
  <2>4. {send_slots[n][i].frame.body : i \in freed} \in SUBSET Message
    <3>1. ASSUME NEW i \in freed PROVE send_slots[n][i].frame.body \in Message
      <4>1. SlotSound(n, send_slots[n][i])
        BY <2>1 DEF WindowInv
      <4>2. send_slots[n][i].frame.body \in Offered(n)
        BY <4>1 DEF SlotSound, Sound
      <4> QED BY <4>2, OfferedRange
    <3> QED BY <3>1
  <2>5. acked' \in [Node -> SUBSET Message] /\ last_seen_ack' \in [Node -> AckInfo]
        /\ dup_ack_count' \in [Node -> 0 .. DupThreshold - 1]
    BY <1>1, <1>2, <2>4, ConstantFacts DEF AckReleases
  <2>6. WindowInv'
    BY ZenonT(60), <1>2, <2>1, <2>2, <2>3, <2>5, SlotsUpdate DEF AckReleases
  <2> QED BY <1>2, <2>6, NetSteady DEF AckReleases
<1>3. CASE AckIsNew(n, info, left, spent)
  <2>1. last_seen_ack' \in [Node -> AckInfo]
        /\ dup_ack_count' \in [Node -> 0 .. DupThreshold - 1]
    BY <1>1, <1>3, ConstantFacts DEF AckIsNew
  <2>2. UNCHANGED <<send_slots, pending_send_count, acked>>
    BY <1>3 DEF AckIsNew
  <2>3. WindowInv'
    BY <2>1, <2>2 DEF WindowInv, SlotSound, Sound, Offered
  <2> QED BY <1>3, <2>3, NetSteady DEF AckIsNew
<1>4. CASE AckRepeats(n, info, left, spent)
  <2>1. dup_ack_count' \in [Node -> 0 .. DupThreshold - 1]
    BY <1>1, <1>4, ConstantFacts DEF AckRepeats
  <2>2. UNCHANGED <<send_slots, pending_send_count, last_seen_ack, acked>>
    BY <1>4 DEF AckRepeats
  <2>3. WindowInv'
    BY <2>1, <2>2 DEF WindowInv, SlotSound, Sound, Offered
  <2> QED BY <1>4, <2>3, NetSteady DEF AckRepeats
<1>5. ASSUME NEW refused \in BOOLEAN, FastRetransmit(n, info, left, spent, refused)
      PROVE  WindowInv' /\ NetInv' /\ faults' \in Nat
  <2>1. dup_ack_count' \in [Node -> 0 .. DupThreshold - 1]
        /\ last_seen_ack' = last_seen_ack /\ acked' = acked
    BY <1>1, <1>5, ConstantFacts DEF FastRetransmit
  <2>2. PICK v \in Victim(n) :
           \/ /\ Exhausted(n, v)
              /\ send_slots' = [send_slots EXCEPT ![n] =
                                    Restrict(@, DOMAIN @ \ {v})]
              /\ pending_send_count' = [pending_send_count EXCEPT ![n] =
                                            Decremented(@, 1)]
              /\ net' = left
              /\ faults' = spent
           \/ /\ ~ Exhausted(n, v)
              /\ send_slots' = [send_slots EXCEPT ![n][v].retries = @ + 1]
              /\ net' = IF refused THEN left
                        ELSE left \cup {Transmission(send_slots'[n][v])}
              /\ faults' = IF refused THEN spent + 1 ELSE spent
              /\ UNCHANGED pending_send_count
    BY <1>5 DEF FastRetransmit
  <2>3. v \in DOMAIN send_slots[n] /\ SlotSound(n, send_slots[n][v])
    BY DEF Victim, WindowInv
  <2>4. CASE Exhausted(n, v)
    <3> DEFINE kept == Restrict(send_slots[n], DOMAIN send_slots[n] \ {v})
    <3>1. DOMAIN kept = DOMAIN send_slots[n] \ {v}
          /\ \A i \in DOMAIN kept : kept[i] = send_slots[n][i]
      BY DEF Restrict
    <3>2. \A i \in DOMAIN kept : SlotSound(n, kept[i])
      BY <3>1 DEF WindowInv
    <3>3. Cardinality({v}) = 1 /\ {v} \in SUBSET DOMAIN send_slots[n]
      BY <2>3, FS_Singleton
    <3>4. send_slots' = [send_slots EXCEPT ![n] = kept]
          /\ pending_send_count' = [pending_send_count EXCEPT
                                        ![n] = Decremented(@, Cardinality({v}))]
      BY <2>2, <2>4, <3>3
    <3>5. last_seen_ack' \in [Node -> AckInfo] /\ acked' \in [Node -> SUBSET Message]
      BY <1>1, <2>1
    <3>6. WindowInv'
      BY <2>1, <3>1, <3>2, <3>3, <3>4, <3>5, SlotsUpdate
    <3> QED BY <2>2, <2>4, <3>6, NetSteady
  <2>5. CASE ~ Exhausted(n, v)
    <3> DEFINE s == send_slots[n][v]
               again == [s EXCEPT !.retries = s.retries + 1]
             kept == [send_slots[n] EXCEPT ![v] = again]
    <3>1. s.retries + 1 \in 0 .. MaxRetransmits
      BY <2>3, <2>5, ConstantFacts DEF SlotSound, PacketSlot, Exhausted
    <3>2. SlotSound(n, again)
      BY <2>3, <3>1 DEF SlotSound, PacketSlot
    <3>3. send_slots' = [send_slots EXCEPT ![n] = kept]
      BY <2>2, <2>5
    <3>4. DOMAIN kept = DOMAIN send_slots[n] \ {} /\ kept[v] = again
          /\ \A i \in DOMAIN send_slots[n] \ {v} : kept[i] = send_slots[n][i]
      BY <2>3
    <3>5. \A i \in DOMAIN kept : SlotSound(n, kept[i])
      BY <3>2, <3>4 DEF WindowInv
    <3>6. pending_send_count' = [pending_send_count EXCEPT
                                     ![n] = Decremented(@, Cardinality({}))]
      <4>1. pending_send_count[n] \in Nat /\ pending_send_count \in [Node -> Nat]
        BY DEF WindowInv
      <4>2. Decremented(pending_send_count[n], Cardinality({})) = pending_send_count[n]
        BY <4>1, FS_EmptySet DEF Decremented
      <4> QED BY <2>2, <2>5, <4>1, <4>2
    <3>7. last_seen_ack' \in [Node -> AckInfo] /\ acked' \in [Node -> SUBSET Message]
      BY <1>1, <2>1
    <3>8. WindowInv'
      <4>1. PICK none \in SUBSET DOMAIN send_slots[n] : none = {}
        OBVIOUS
      <4>2. DOMAIN kept = DOMAIN send_slots[n] \ none
        BY <3>4, <4>1
      <4>3. pending_send_count' = [pending_send_count EXCEPT
                                       ![n] = Decremented(@, Cardinality(none))]
        BY <3>6, <4>1
      <4> QED BY <2>1, <3>3, <3>5, <3>7, <4>2, <4>3, SlotsUpdate
    <3>9. send_slots'[n][v] = again
      BY <2>3, <3>3, <3>4 DEF WindowInv
    <3>10. Sound(Transmission(again))
      BY <3>2, TransmissionSound
    <3> QED BY <2>2, <2>5, <3>8, <3>9, <3>10, NetSteady
  <2> QED BY <2>4, <2>5
<1> QED BY <1>2, <1>3, <1>4, <1>5 DEF HandleAck

-----------------------------------------------------------------------------
(* The first ordinal that no message got *)

\* Below the ordinal h of the first Send that failed (or of the next Send,
\* if none did) the messages are numbered without a gap; above it they are
\* all numbered past h, so h itself never comes.
FirstGap(n, h) ==
    /\ h \in Nat \ {0} /\ h <= attempts[n] + 1
    /\ h <= Len(accepted[n]) + 1
    /\ h = attempts[n] + 1 => Len(accepted[n]) = attempts[n]
    /\ \A q \in DOMAIN accepted[n] : IF q < h THEN accepted[n][q] = q
                                             ELSE accepted[n][q] > h

GapInv == \A n \in Node : \E h \in Nat : FirstGap(n, h)

LEMMA InitGap == ASSUME Init PROVE GapInv
<1> SUFFICES ASSUME NEW n \in Node PROVE FirstGap(n, 1)
  BY DEF GapInv
<1>1. accepted[n] = <<>> /\ attempts[n] = 0
  BY DEF Init
<1> QED BY <1>1 DEF FirstGap

LEMMA SendGap ==
    ASSUME SenderInv, GapInv, NEW n \in Node, NEW i \in Slot, NEW refused \in BOOLEAN,
           Send(n, i, refused)
    PROVE  GapInv'
<1> SUFFICES ASSUME NEW m \in Node PROVE \E h \in Nat : FirstGap(m, h)'
  BY DEF GapInv
<1>1. PICK h \in Nat : FirstGap(m, h)
  BY DEF GapInv
<1>2. /\ accepted \in [Node -> Seq(Nat)] /\ attempts \in [Node -> Nat]
      /\ accepted' = [accepted EXCEPT ![n] = Append(accepted[n], attempts[n] + 1)]
      /\ attempts' = [attempts EXCEPT ![n] = attempts[n] + 1]
  BY DEF Send, SenderInv
<1>3. CASE m # n
  <2>1. accepted'[m] = accepted[m] /\ attempts'[m] = attempts[m]
    BY <1>2, <1>3
  <2> QED BY <1>1, <2>1 DEF FirstGap
<1>4. CASE m = n
  <2> DEFINE len == Len(accepted[n])
             body == attempts[n] + 1
  <2>1. /\ len \in Nat /\ DOMAIN accepted[n] = 1 .. len
        /\ attempts[n] \in Nat /\ attempts'[n] = body
        /\ Len(accepted'[n]) = len + 1 /\ DOMAIN accepted'[n] = 1 .. len + 1
        /\ accepted'[n][len + 1] = body
        /\ \A q \in 1 .. len : accepted'[n][q] = accepted[n][q]
    BY <1>2
  <2>2. /\ h \in Nat /\ h # 0 /\ h <= body /\ h <= len + 1
        /\ h = body => len = attempts[n]
        /\ \A q \in 1 .. len : IF q < h THEN accepted[n][q] = q
                                       ELSE accepted[n][q] > h
    BY <1>1, <1>4, <2>1 DEF FirstGap
  <2>3. CASE h = body
    <3>1. len = attempts[n] /\ h = len + 1
      BY <2>1, <2>2, <2>3
    <3>2. ASSUME NEW q \in 1 .. len + 1 PROVE accepted'[n][q] = q
      <4>1. CASE q = len + 1
        BY <2>1, <2>3, <3>1, <4>1
      <4>2. CASE q \in 1 .. len
        BY <2>1, <2>2, <3>1, <4>2
      <4> QED BY <2>1, <4>1, <4>2
    <3>3. FirstGap(n, h + 1)'
      BY <2>1, <2>2, <2>3, <3>1, <3>2 DEF FirstGap
    <3> QED BY <1>4, <3>3
  <2>4. CASE h # body
    <3>1. ASSUME NEW q \in 1 .. len + 1
          PROVE  IF q < h THEN accepted'[n][q] = q ELSE accepted'[n][q] > h
      <4>1. CASE q = len + 1
        BY <2>1, <2>2, <2>4, <4>1
      <4>2. CASE q \in 1 .. len
        BY <2>1, <2>2, <4>2
      <4> QED BY <2>1, <4>1, <4>2
    <3>2. FirstGap(n, h)'
      BY <2>1, <2>2, <2>4, <3>1 DEF FirstGap
    <3> QED BY <1>4, <3>2
  <2> QED BY <2>3, <2>4
<1> QED BY <1>3, <1>4

LEMMA SendTooLongGap ==
    ASSUME SenderInv, GapInv, NEW n \in Node, NEW i \in Slot, SendTooLong(n, i)
    PROVE  GapInv'
<1> SUFFICES ASSUME NEW m \in Node PROVE \E h \in Nat : FirstGap(m, h)'
  BY DEF GapInv
<1>1. PICK h \in Nat : FirstGap(m, h)
  BY DEF GapInv
<1>2. /\ attempts \in [Node -> Nat] /\ accepted' = accepted
      /\ attempts' = [attempts EXCEPT ![n] = attempts[n] + 1]
  BY DEF SendTooLong, SenderInv
<1>3. attempts[m] \in Nat /\ attempts'[m] \in {attempts[m], attempts[m] + 1}
  BY <1>2
<1>4. Len(accepted[m]) \in Nat /\ Len(accepted[m]) <= attempts[m]
  BY DEF SenderInv
<1>5. FirstGap(m, h)'
  BY <1>1, <1>2, <1>3, <1>4 DEF FirstGap
<1> QED BY <1>5

LEMMA GapSteady ==
    ASSUME GapInv, UNCHANGED sender
    PROVE  GapInv'
BY DEF GapInv, FirstGap, sender

\* Messages whose ordinals are all offered up to j stand at their ordinals.
LEMMA PrefixInPlace ==
    ASSUME SenderInv, GapInv, NEW n \in Node, NEW j \in Nat,
           \A b \in 1 .. j : b \in Offered(n)
    PROVE  j <= Len(accepted[n]) /\ \A b \in 1 .. j : accepted[n][b] = b
<1>1. PICK h \in Nat : FirstGap(n, h)
  BY DEF GapInv
<1>2. Len(accepted[n]) \in Nat /\ DOMAIN accepted[n] = 1 .. Len(accepted[n])
  BY DEF SenderInv
<1>3. h \notin Offered(n)
  <2> SUFFICES ASSUME NEW q \in DOMAIN accepted[n], accepted[n][q] = h PROVE FALSE
    BY DEF Offered
  <2> QED BY <1>1, <1>2 DEF FirstGap
<1>4. h > j
  BY <1>1, <1>3 DEF FirstGap
<1> QED BY <1>1, <1>2, <1>4 DEF FirstGap

-----------------------------------------------------------------------------
(* Received data *)

\* Numbers of the window are few, so a sound buffer has a free slot.
LEMMA RoomLeft ==
    ASSUME NEW slots \in SUBSET RecvSlot, NEW next \in SeqNum, BufferSound(slots, next)
    PROVE  Cardinality(slots) < MaxQueue
<1> DEFINE T == 1 .. RecvWindow - 1
           f == [r \in slots |-> DistanceFrom(next, r.seq)]
<1>1. IsFiniteSet(T) /\ Cardinality(T) = RecvWindow - 1
  BY ConstantFacts, FS_Interval
<1>2. f \in [slots -> T]
  BY DEF BufferSound
<1>3. ASSUME NEW r \in slots, NEW s \in slots, f[r] = f[s] PROVE r = s
  <2>1. r.seq \in SeqNum /\ s.seq \in SeqNum
    BY DEF RecvSlot
  <2>2. r.seq = s.seq
    BY <1>3, <2>1, DistanceType
  <2> QED BY <2>2 DEF BufferSound
<1> HIDE DEF f
<1>4. f \in Injection(slots, T)
  BY <1>2, <1>3 DEF Injection, IsInjective
<1>5. IsFiniteSet(slots) /\ Cardinality(slots) <= Cardinality(T)
  BY <1>1, <1>4, FS_Injection
<1>6. Cardinality(slots) \in Nat
  BY <1>5, FS_CardinalityType
<1> QED BY <1>1, <1>5, <1>6, ConstantFacts

\* The buffer DrainInOrder starts from: all of the window, each number once.
LEMMA InsertedSound ==
    ASSUME IInv, NEW n \in Node, NEW p, Sound(p), p.src = Peer[n], p.kind = "data"
    PROVE  /\ Inserted(n, p) \in SUBSET RecvSlot
           /\ IsFiniteSet(Inserted(n, p))
           /\ recv_slots[n] \subseteq Inserted(n, p)
           /\ \A r \in Inserted(n, p) :
                  /\ r \in recv_slots[n] \/ (r.seq = p.seq /\ r.body = p.body)
                  /\ Numbers(r.seq, r.body) /\ r.body \in Offered(Peer[n])
                  /\ SeqInWindow(r.seq, recv_next_seq[n], RecvWindow)
           /\ \A r, s \in Inserted(n, p) : r.seq = s.seq => r = s
<1> DEFINE m == Peer[n]
           new == [seq |-> p.seq, body |-> p.body]
<1>1. m \in Node
  BY ConstantFacts
<1>2. Numbers(p.seq, p.body) /\ p.body \in Offered(m) /\ p.seq \in SeqNum
  BY DEF Sound, Packet
<1>3. new \in RecvSlot
  BY <1>1, <1>2, OfferedRange DEF IInv, RecvSlot
<1>4. /\ recv_slots[n] \in SUBSET RecvSlot /\ IsFiniteSet(recv_slots[n])
      /\ BufferSound(recv_slots[n], recv_next_seq[n])
      /\ \A r \in recv_slots[n] : Numbers(r.seq, r.body) /\ r.body \in Offered(m)
  BY DEF IInv, ReceiverInv
<1>5. \A r \in recv_slots[n] : SeqInWindow(r.seq, recv_next_seq[n], RecvWindow)
  BY <1>4, ConstantFacts DEF BufferSound, SeqInWindow
<1>6. \A r, s \in recv_slots[n] : r.seq = s.seq => r = s
  BY <1>4 DEF BufferSound
<1>7. CASE Inserted(n, p) = recv_slots[n]
  BY <1>4, <1>5, <1>6, <1>7
<1>8. CASE /\ Inserted(n, p) = recv_slots[n] \cup {new}
           /\ SeqInWindow(p.seq, recv_next_seq[n], RecvWindow)
           /\ \A r \in recv_slots[n] : r.seq # p.seq
  <2>2. new.seq = p.seq /\ new.body = p.body
    OBVIOUS
  <2> HIDE DEF new, m
  <2>1. IsFiniteSet(recv_slots[n] \cup {new})
    BY <1>4, FS_AddElement, Zenon
  <2> QED BY <1>2, <1>3, <1>4, <1>5, <1>6, <1>8, <2>1, <2>2 DEF m
<1> QED BY <1>7, <1>8 DEF Inserted

\* DrainInOrder stops within the window.
LEMMA RunShort ==
    ASSUME NEW slots \in SUBSET RecvSlot, NEW next \in SeqNum, NEW k \in Nat,
           IsRun(slots, next, k),
           \A r \in slots : SeqInWindow(r.seq, next, RecvWindow)
    PROVE  k <= RecvWindow /\ k \in 0 .. SeqMod - 1
<1>1. RecvWindow \in 0 .. SeqMod - 1 /\ RecvWindow \in Nat /\ SeqMod \in Nat
  BY TransferAssumption, SeqModAssumption, ConstantFacts
<1>2. k <= RecvWindow
  <2> SUFFICES ASSUME k > RecvWindow PROVE FALSE
    BY <1>1
  <2>1. PICK r \in slots : r.seq = AddSeq(next, RecvWindow)
    BY <1>1 DEF IsRun
  <2>2. DistanceFrom(next, r.seq) = RecvWindow
    BY <1>1, <2>1, DistanceOfAdd
  <2> QED BY <1>1, <2>2 DEF SeqInWindow
<1> QED BY <1>1, <1>2

LEMMA Joined ==
    ASSUME NEW d \in Seq(Nat), NEW e \in Seq(Nat)
    PROVE  /\ d \o e \in Seq(Nat) /\ Len(d \o e) = Len(d) + Len(e)
           /\ \A j \in 1 .. Len(d) : (d \o e)[j] = d[j]
           /\ \A i \in 1 .. Len(e) : (d \o e)[Len(d) + i] = e[i]
<1>1. d \o e \in Seq(Nat) /\ Len(d \o e) = Len(d) + Len(e)
  OBVIOUS
<1>2. \A j \in 1 .. Len(d) : (d \o e)[j] = d[j]
  OBVIOUS
<1>3. ASSUME NEW i \in 1 .. Len(e) PROVE (d \o e)[Len(d) + i] = e[i]
  <2>1. Len(d) + i \in Len(d) + 1 .. Len(d) + Len(e) /\ (Len(d) + i) - Len(d) = i
    OBVIOUS
  <2> QED BY <2>1
<1> QED BY <1>1, <1>2, <1>3

\* What TakeData does when DrainInOrder takes k slots.
Took(n, p, k) ==
    LET slots == Inserted(n, p)
        next  == recv_next_seq[n]
        len   == Len(delivered[n])
    IN  /\ k <= RecvWindow /\ k \in 0 .. SeqMod - 1
        /\ recv_slots'[n] = slots \ Drained(slots, next, k)
        /\ \A r \in slots : r.seq # AddSeq(next, k)
        /\ recv_next_seq'[n] = AddSeq(next, k)
        /\ delivered' \in [Node -> Seq(Nat)]
        /\ Len(delivered'[n]) = len + k
        /\ \A j \in 1 .. len : delivered'[n][j] = delivered[n][j]
        /\ \A i \in 1 .. k : \E r \in slots :
               r.seq = AddSeq(next, i - 1) /\ delivered'[n][len + i] = r.body
        /\ newest_recv_seq'[n] =
               IF ~ has_recv_seq[n] \/ IsSeqLess(newest_recv_seq[n], p.seq)
               THEN p.seq ELSE newest_recv_seq[n]
        /\ has_recv_seq'[n] = TRUE
        /\ \A m \in Node \ {n} :
               /\ recv_slots'[m] = recv_slots[m]
               /\ recv_next_seq'[m] = recv_next_seq[m]
               /\ delivered'[m] = delivered[m]
               /\ newest_recv_seq'[m] = newest_recv_seq[m]
               /\ has_recv_seq'[m] = has_recv_seq[m]

LEMMA TakeDataTook ==
    ASSUME IInv, NEW n \in Node, NEW p, Sound(p), p.src = Peer[n], p.kind = "data",
           TakeData(n, p)
    PROVE  \E k \in Nat : Took(n, p, k)
<1> DEFINE slots == Inserted(n, p)
           next == recv_next_seq[n]
           len == Len(delivered[n])
<1>1. PICK k \in 0 .. Cardinality(slots) :
          /\ IsRun(slots, next, k)
          /\ recv_slots' = [recv_slots EXCEPT
                                ![n] = slots \ Drained(slots, next, k)]
          /\ recv_next_seq' = [recv_next_seq EXCEPT ![n] = AddSeq(next, k)]
          /\ delivered' = [delivered EXCEPT ![n] =
                 @ \o [i \in 1 .. k |-> BodyAt(slots, AddSeq(next, i - 1))]]
          /\ newest_recv_seq' = [newest_recv_seq EXCEPT ![n] =
                 IF ~ has_recv_seq[n] \/ IsSeqLess(@, p.seq)
                 THEN p.seq ELSE @]
          /\ has_recv_seq' = [has_recv_seq EXCEPT ![n] = TRUE]
  BY DEF TakeData
<1>2. /\ slots \in SUBSET RecvSlot /\ IsFiniteSet(slots)
      /\ \A r \in slots : SeqInWindow(r.seq, next, RecvWindow)
  BY InsertedSound
<1>3. k \in Nat
  BY <1>2, FS_CardinalityType
<1>4. /\ next \in SeqNum /\ len \in Nat
      /\ DOMAIN delivered[n] = 1 .. len /\ delivered[n] \in Seq(Nat)
  BY DEF IInv, ReceiverInv
<1>5. k <= RecvWindow /\ k \in 0 .. SeqMod - 1
  <2> HIDE DEF slots, next
  <2> QED BY <1>1, <1>2, <1>3, <1>4, RunShort
<1> DEFINE run == [i \in 1 .. k |-> BodyAt(slots, AddSeq(next, i - 1))]
<1>6. ASSUME NEW i \in 1 .. k
      PROVE  \E r \in slots : r.seq = AddSeq(next, i - 1) /\ run[i] = r.body
  <2>1. i - 1 \in 0 .. k - 1
    BY <1>3
  <2>2. PICK s : s = AddSeq(next, i - 1)
    OBVIOUS
  <2>3. \E r \in slots : r.seq = s
    BY <1>1, <2>1, <2>2 DEF IsRun
  <2>4. (CHOOSE r \in slots : r.seq = s) \in slots
        /\ (CHOOSE r \in slots : r.seq = s).seq = s
    BY <2>3, Zenon
  <2>5. run[i] = BodyAt(slots, s)
    BY <2>2
  <2> HIDE DEF run, slots, next
  <2> QED BY <2>2, <2>4, <2>5, Zenon DEF BodyAt
<1>7. \A r \in slots : r.body \in Nat
  <2>1. \A b \in Message : b \in Nat
    BY ConstantFacts DEF Message
  <2> QED BY <1>2, <2>1 DEF RecvSlot
<1>8. run \in Seq(Nat) /\ Len(run) = k
  <2>1. \A i \in 1 .. k : run[i] \in Nat
    <3> HIDE DEF run, slots, next
    <3> QED BY <1>6, <1>7, Zenon
  <2> QED BY <1>3, <2>1
<1>9. /\ delivered'[n] = delivered[n] \o run
      /\ delivered' = [delivered EXCEPT ![n] = delivered[n] \o run]
  BY <1>1 DEF IInv, ReceiverInv
<1> HIDE DEF run
<1>10. /\ delivered'[n] \in Seq(Nat) /\ Len(delivered'[n]) = len + k
       /\ \A j \in 1 .. len : delivered'[n][j] = delivered[n][j]
       /\ \A i \in 1 .. k : delivered'[n][len + i] = run[i]
  <2> HIDE DEF len, next
  <2>1. PICK d, e : d = delivered[n] /\ e = delivered'[n]
    OBVIOUS
  <2>2. d \in Seq(Nat) /\ Len(d) = len /\ e = d \o run
    BY <1>4, <1>9, <2>1, Zenon DEF len
  <2>3. /\ e \in Seq(Nat) /\ Len(e) = len + k
        /\ \A j \in 1 .. len : e[j] = d[j]
        /\ \A i \in 1 .. k : e[len + i] = run[i]
    <3>1. /\ d \o run \in Seq(Nat) /\ Len(d \o run) = Len(d) + Len(run)
          /\ \A j \in 1 .. Len(d) : (d \o run)[j] = d[j]
          /\ \A i \in 1 .. Len(run) : (d \o run)[Len(d) + i] = run[i]
      BY <1>8, <2>2, Joined
    <3> QED BY <1>8, <2>2, <3>1, Zenon
  <2> QED BY <2>1, <2>3, Zenon
<1>11. delivered' \in [Node -> Seq(Nat)]
  BY <1>9, <1>10 DEF IInv, ReceiverInv
<1>12. \A i \in 1 .. k : \E r \in slots :
           r.seq = AddSeq(next, i - 1) /\ delivered'[n][len + i] = r.body
  BY <1>6, <1>10, Zenon
<1>13. \A r \in slots : r.seq # AddSeq(next, k)
  BY <1>1 DEF IsRun
<1>14. /\ recv_slots \in [Node -> SUBSET RecvSlot] /\ recv_next_seq \in [Node -> SeqNum]
       /\ newest_recv_seq \in [Node -> SeqNum] /\ has_recv_seq \in [Node -> BOOLEAN]
       /\ delivered \in [Node -> Seq(Nat)]
  BY DEF IInv, ReceiverInv
<1>15. \A m \in Node \ {n} :
           /\ recv_slots'[m] = recv_slots[m] /\ recv_next_seq'[m] = recv_next_seq[m]
           /\ delivered'[m] = delivered[m] /\ newest_recv_seq'[m] = newest_recv_seq[m]
           /\ has_recv_seq'[m] = has_recv_seq[m]
  BY <1>1, <1>9, <1>14
<1>16. /\ recv_slots'[n] = slots \ Drained(slots, next, k)
       /\ recv_next_seq'[n] = AddSeq(next, k)
       /\ newest_recv_seq'[n] = IF ~ has_recv_seq[n] \/ IsSeqLess(newest_recv_seq[n], p.seq)
                                THEN p.seq ELSE newest_recv_seq[n]
       /\ has_recv_seq'[n] = TRUE
  BY <1>1, <1>14
<1> HIDE DEF slots, next, len
<1>17. Took(n, p, k)
  BY <1>5, <1>10, <1>11, <1>12, <1>13, <1>15, <1>16 DEF Took, slots, next, len
<1> QED BY <1>3, <1>17

\* InsertRecv and DrainInOrder: what the drain leaves lies beyond a gap.
LEMMA DrainLeavesSound ==
    ASSUME NEW slots \in SUBSET RecvSlot, NEW next \in SeqNum, NEW k \in 0 .. SeqMod - 1,
           \A r \in slots : SeqInWindow(r.seq, next, RecvWindow),
           \A r, s \in slots : r.seq = s.seq => r = s,
           \A r \in slots : r.seq # AddSeq(next, k)
    PROVE  BufferSound(slots \ Drained(slots, next, k), AddSeq(next, k))
<1> DEFINE left == slots \ Drained(slots, next, k)
<1>1. ASSUME NEW r \in left
      PROVE  DistanceFrom(AddSeq(next, k), r.seq) \in 1 .. RecvWindow - 1
  <2> DEFINE d == DistanceFrom(next, r.seq)
  <2>1. r \in slots /\ r.seq \in SeqNum /\ ~ d < k
    BY <1>1 DEF Drained, RecvSlot
  <2>2. d \in 0 .. SeqMod - 1 /\ AddSeq(next, d) = r.seq
    BY <2>1, DistanceType
  <2>3. r.seq # AddSeq(next, k)
    BY <2>1
  <2>4. d < RecvWindow
    BY <2>1 DEF SeqInWindow
  <2> HIDE DEF d
  <2>5. d # k
    BY <2>2, <2>3
  <2>6. k \in 0 .. d /\ d - k \in 1 .. RecvWindow - 1
    BY <2>1, <2>2, <2>4, <2>5, ConstantFacts
  <2>7. DistanceFrom(AddSeq(next, k), r.seq) = d - k
    BY <2>1, <2>6, DistanceLess DEF d
  <2> QED BY <2>6, <2>7
<1> QED BY <1>1 DEF BufferSound

LEMMA TakeDataInv ==
    ASSUME IInv, UNCHANGED sender, NEW n \in Node,
           NEW p, Sound(p), p.src = Peer[n], p.kind = "data", TakeData(n, p)
    PROVE  ReceiverInv' /\ ack_dirty' \in [Node -> BOOLEAN]
<1> DEFINE m == Peer[n]
           slots == Inserted(n, p)
           next == recv_next_seq[n]
           len == Len(delivered[n])
<1>1. PICK k \in Nat : Took(n, p, k)
  BY TakeDataTook
<1>2. /\ slots \in SUBSET RecvSlot /\ IsFiniteSet(slots)
      /\ \A r \in slots : /\ Numbers(r.seq, r.body) /\ r.body \in Offered(m)
                          /\ SeqInWindow(r.seq, next, RecvWindow)
      /\ \A r, s \in slots : r.seq = s.seq => r = s
  BY InsertedSound
<1>3. /\ next \in SeqNum /\ len \in Nat /\ Numbers(next, len + 1)
      /\ DOMAIN delivered[n] = 1 .. len
      /\ \A j \in 1 .. len : delivered[n][j] \in Offered(m)
  BY DEF IInv, ReceiverInv
<1>4. /\ k \in 0 .. SeqMod - 1
      /\ recv_slots'[n] = slots \ Drained(slots, next, k)
      /\ \A r \in slots : r.seq # AddSeq(next, k)
      /\ recv_next_seq'[n] = AddSeq(next, k)
      /\ delivered' \in [Node -> Seq(Nat)]
      /\ Len(delivered'[n]) = len + k
      /\ \A j \in 1 .. len : delivered'[n][j] = delivered[n][j]
      /\ \A i \in 1 .. k : \E r \in slots :
             r.seq = AddSeq(next, i - 1) /\ delivered'[n][len + i] = r.body
  BY <1>1 DEF Took
<1>5. \A q \in Node : Offered(q)' = Offered(q)
  BY DEF Offered, sender
<1> HIDE DEF slots, next, len, m
<1>6. recv_slots'[n] \in SUBSET RecvSlot /\ IsFiniteSet(recv_slots'[n])
      /\ \A r \in recv_slots'[n] : Numbers(r.seq, r.body) /\ r.body \in Offered(m)
  <2>1. recv_slots'[n] \in SUBSET slots
    BY <1>4
  <2>2. IsFiniteSet(recv_slots'[n])
    BY <1>2, <2>1, FS_Subset
  <2> QED BY <1>2, <2>1, <2>2
<1>7. BufferSound(recv_slots'[n], recv_next_seq'[n])
  <2>1. BufferSound(slots \ Drained(slots, next, k), AddSeq(next, k))
    BY <1>2, <1>3, <1>4, DrainLeavesSound
  <2> QED BY <1>4, <2>1, Zenon
<1>8. recv_next_seq'[n] \in SeqNum /\ Numbers(recv_next_seq'[n], Len(delivered'[n]) + 1)
  <2>1. len + 1 \in Nat /\ k \in 0 .. SeqMod /\ (len + 1) + k = (len + k) + 1
    BY <1>3, <1>4, ConstantFacts
  <2>2. AddSeq(next, k) \in SeqNum /\ Numbers(AddSeq(next, k), (len + 1) + k)
    BY <1>3, <1>4, <2>1, AddSeqType, NumbersAdd
  <2> QED BY <1>4, <2>1, <2>2, Zenon
<1>9. ASSUME NEW j \in DOMAIN delivered'[n] PROVE delivered'[n][j] \in Offered(m)
  <2>1. j \in 1 .. len + k
    BY <1>4, <1>9
  <2>2. CASE j \in 1 .. len
    BY <1>3, <1>4, <2>2
  <2>3. CASE j > len
    <3>1. j - len \in 1 .. k /\ len + (j - len) = j
      BY <1>3, <1>4, <2>1, <2>3
    <3>2. PICK r \in slots : delivered'[n][len + (j - len)] = r.body
      BY <1>4, <3>1
    <3> QED BY <1>2, <3>1, <3>2
  <2> QED BY <1>3, <1>4, <2>1, <2>2, <2>3
<1>10. \A q \in Node \ {n} :
           /\ recv_slots'[q] = recv_slots[q] /\ recv_next_seq'[q] = recv_next_seq[q]
           /\ delivered'[q] = delivered[q]
  BY <1>1 DEF Took
<1>11. ASSUME NEW q \in Node
       PROVE  /\ IsFiniteSet(recv_slots'[q])
              /\ recv_slots'[q] \in SUBSET RecvSlot
              /\ recv_next_seq'[q] \in SeqNum
              /\ BufferSound(recv_slots'[q], recv_next_seq'[q])
              /\ \A r \in recv_slots'[q] :
                     Numbers(r.seq, r.body) /\ r.body \in Offered(Peer[q])
              /\ Numbers(recv_next_seq'[q], Len(delivered'[q]) + 1)
              /\ \A j \in DOMAIN delivered'[q] : delivered'[q][j] \in Offered(Peer[q])
  <2>1. CASE q = n
    BY <1>6, <1>7, <1>8, <1>9, <2>1 DEF m
  <2>2. CASE q # n
    BY <1>10, <2>2 DEF IInv, ReceiverInv
  <2> QED BY <2>1, <2>2
<1>12. /\ recv_slots' = [recv_slots EXCEPT ![n] = recv_slots'[n]]
       /\ recv_next_seq' = [recv_next_seq EXCEPT ![n] = recv_next_seq'[n]]
       /\ newest_recv_seq' \in [Node -> SeqNum] /\ has_recv_seq' \in [Node -> BOOLEAN]
       /\ ack_dirty' \in [Node -> BOOLEAN]
  <2>1. p.seq \in SeqNum
    BY DEF Sound, Packet
  <2> QED BY <2>1 DEF TakeData, IInv, ReceiverInv, RestInv
<1>13. recv_slots' \in [Node -> SUBSET RecvSlot] /\ recv_next_seq' \in [Node -> SeqNum]
  BY <1>11, <1>12 DEF IInv, ReceiverInv
<1>14. \A q \in Node : Offered(Peer[q])' = Offered(Peer[q])
  BY <1>5, ConstantFacts
<1>15. ASSUME NEW q \in Node
       PROVE  /\ \A r \in recv_slots'[q] :
                     Numbers(r.seq, r.body) /\ r.body \in Offered(Peer[q])'
              /\ \A j \in DOMAIN delivered'[q] : delivered'[q][j] \in Offered(Peer[q])'
  BY <1>11, <1>14
<1>16. ReceiverInv'
  BY <1>4, <1>11, <1>12, <1>13, <1>15 DEF ReceiverInv
<1> QED BY <1>12, <1>16

\* InsertRecv and DrainInOrder lose nothing, and come by the packet's message
\* alone.
LEMMA TakeDataRetains ==
    ASSUME IInv, NEW n \in Node, NEW p, Sound(p), p.src = Peer[n], p.kind = "data",
           TakeData(n, p)
    PROVE  /\ \A m \in Node, b \in Nat : Retained(m, b) => Retained(m, b)'
           /\ \A r \in Inserted(n, p) : Retained(n, r.body)'
           /\ \A m \in Node, b \in Nat :
                  Retained(m, b)' => Retained(m, b) \/ (m = n /\ b = p.body)
<1> DEFINE slots == Inserted(n, p)
           next == recv_next_seq[n]
           len == Len(delivered[n])
<1>1. PICK k \in Nat : Took(n, p, k)
  BY TakeDataTook
<1>2. /\ slots \in SUBSET RecvSlot /\ recv_slots[n] \subseteq slots
      /\ \A r \in slots : r \in recv_slots[n] \/ r.body = p.body
      /\ \A r, s \in slots : r.seq = s.seq => r = s
  BY InsertedSound
<1>3. next \in SeqNum /\ len \in Nat
  BY DEF IInv, ReceiverInv
<1>4. /\ recv_slots'[n] = slots \ Drained(slots, next, k)
      /\ delivered' \in [Node -> Seq(Nat)]
      /\ Len(delivered'[n]) = len + k
      /\ \A j \in 1 .. len : delivered'[n][j] = delivered[n][j]
      /\ \A i \in 1 .. k : \E r \in slots :
             r.seq = AddSeq(next, i - 1) /\ delivered'[n][len + i] = r.body
      /\ \A m \in Node \ {n} :
             recv_slots'[m] = recv_slots[m] /\ delivered'[m] = delivered[m]
  BY <1>1 DEF Took
<1> HIDE DEF slots, next
<1>5. ASSUME NEW r \in slots PROVE Retained(n, r.body)'
  <2>1. CASE r \in recv_slots'[n]
    BY <2>1 DEF Retained
  <2>2. CASE r \in Drained(slots, next, k)
    <3> DEFINE d == DistanceFrom(next, r.seq)
    <3>1. r.seq \in SeqNum /\ d < k
      BY <1>2, <2>2 DEF Drained, RecvSlot
    <3>2. d \in 0 .. SeqMod - 1 /\ AddSeq(next, d) = r.seq
      BY <1>3, <3>1, DistanceType
    <3> HIDE DEF d
    <3>3. d + 1 \in 1 .. k /\ (d + 1) - 1 = d
      BY <3>1, <3>2, ConstantFacts
    <3>4. PICK s \in slots : s.seq = AddSeq(next, (d + 1) - 1) /\ delivered'[n][len + (d + 1)] = s.body
      BY <1>4, <3>3, Zenon
    <3>5. s = r
      BY <1>2, <3>2, <3>3, <3>4
    <3>6. len + (d + 1) \in 1 .. len + k
      BY <1>3, <3>3
    <3> QED BY <1>4, <3>4, <3>5, <3>6 DEF Retained
  <2> QED BY <1>4, <2>1, <2>2
<1>6. ASSUME NEW m \in Node, NEW b \in Nat, Retained(m, b) PROVE Retained(m, b)'
  <2>1. CASE m # n
    BY <1>4, <1>6, <2>1 DEF Retained
  <2>2. CASE m = n /\ \E r \in recv_slots[n] : r.body = b
    <3>1. PICK r \in slots : r.body = b
      BY <1>2, <2>2
    <3> QED BY <1>5, <2>2, <3>1
  <2>3. CASE m = n /\ \E j \in 1 .. len : delivered[n][j] = b
    <3>1. PICK j \in 1 .. len : delivered[n][j] = b
      BY <2>3
    <3>2. j \in 1 .. len + k
      BY <1>3
    <3> QED BY <1>4, <2>3, <3>1, <3>2 DEF Retained
  <2> QED BY <1>6, <2>1, <2>2, <2>3 DEF Retained
<1>7. ASSUME NEW m \in Node, NEW b \in Nat, Retained(m, b)'
      PROVE  Retained(m, b) \/ (m = n /\ b = p.body)
  <2>1. CASE m # n
    BY <1>4, <1>7, <2>1 DEF Retained
  <2>2. ASSUME m = n, NEW r \in slots, r.body = b
        PROVE  Retained(m, b) \/ (m = n /\ b = p.body)
    BY <1>2, <2>2 DEF Retained
  <2>3. CASE m = n /\ \E r \in recv_slots'[n] : r.body = b
    BY <1>4, <2>2, <2>3
  <2>4. ASSUME m = n, NEW j \in 1 .. len + k, delivered'[n][j] = b
        PROVE  Retained(m, b) \/ (m = n /\ b = p.body)
    <3>1. CASE j \in 1 .. len
      BY <1>4, <2>4, <3>1 DEF Retained
    <3>2. CASE j > len
      <4>1. j - len \in 1 .. k /\ len + (j - len) = j
        BY <1>3, <3>2
      <4>2. PICK r \in slots : delivered'[n][len + (j - len)] = r.body
        BY <1>4, <4>1
      <4> QED BY <2>2, <2>4, <4>1, <4>2
    <3> QED BY <1>3, <3>1, <3>2
  <2> QED BY <1>4, <1>7, <2>1, <2>3, <2>4 DEF Retained
<1> QED BY <1>5, <1>6, <1>7 DEF slots

\* The window the code keeps after a nonce it accepts is again a window.
LEMMA TrackType ==
    ASSUME NEW w \in Window, NEW nonce \in Nat, Accepts(w, nonce)
    PROVE  Track(w, nonce) \in Window
<1> USE ConstantFacts
<1>1. CASE w.max = 0
  BY <1>1 DEF Track, Window
<1>2. CASE w.max # 0 /\ nonce > w.max
  <2>1. ShiftLeft(w.bits, nonce - w.max) \cup {0} \in SUBSET (0 .. ReplayBits - 1)
    BY <1>2 DEF ShiftLeft, Window
  <2> QED BY <1>2, <2>1 DEF Track, Window
<1>3. CASE w.max # 0 /\ ~ nonce > w.max
  <2>1. w.max - nonce \in 0 .. ReplayBits - 1
    BY <1>3 DEF Accepts, Window
  <2> QED BY <1>3, <2>1 DEF Track, Window
<1> QED BY <1>1, <1>2, <1>3

LEMMA TakePacketInv ==
    ASSUME IInv, NEW n \in Node, NEW p \in net, p.src = Peer[n],
           NEW left \in SUBSET net, NEW spent \in Nat,
           TakePacket(n, p, left, spent), faults' <= MaxFaults
    PROVE  IInv'
<1>1. Sound(p) /\ p \in Packet
  BY DEF IInv, NetInv, Sound
<1>2. p.info \in AckInfo /\ p.nonce \in Nat
  BY <1>1 DEF Packet
<1>3. UNCHANGED sender /\ UNCHANGED accepted /\ HandleAck(n, p.info, left, spent)
  BY DEF TakePacket, sender
<1>4. WindowInv' /\ NetInv' /\ faults' \in Nat
  BY <1>2, <1>3, HandleAckKeeps
<1>5. ReceiverInv' /\ ack_dirty' \in [Node -> BOOLEAN]
  <2>1. CASE p.kind = "data" /\ TakeData(n, p)
    BY <1>1, <1>3, <2>1, TakeDataInv
  <2>2. CASE UNCHANGED <<receiver, ack_dirty>>
    <3>1. ReceiverInv'
      BY <1>3, <2>2, ReceiverSteady DEF IInv
    <3> QED BY <2>2, <3>1 DEF IInv, RestInv
  <2> QED BY <2>1, <2>2 DEF TakePacket
<1>6. RestInv'
  <2>1. Track(rx_replay[n], p.nonce) \in Window
    BY <1>2, TrackType DEF TakePacket, IInv, RestInv
  <2>2. rx_replay' \in [Node -> Window] /\ tx_nonce_counter' = tx_nonce_counter
    BY <2>1 DEF TakePacket, IInv, RestInv
  <2>3. faults' \in 0 .. MaxFaults
    BY <1>4, ConstantFacts
  <2> QED BY <1>5, <2>2, <2>3 DEF IInv, RestInv
<1> QED BY <1>3, <1>4, <1>5, <1>6, SenderSteady DEF IInv

LEMMA DropPacketInv ==
    ASSUME IInv, NEW n \in Node, NEW p \in net, NEW left \in SUBSET net, NEW spent \in Nat,
           DropPacket(n, p, left, spent), faults' <= MaxFaults
    PROVE  IInv'
<1>1. UNCHANGED sender /\ UNCHANGED accepted /\ UNCHANGED window /\ UNCHANGED receiver
  BY DEF DropPacket, sender
<1>2. RestInv'
  BY ConstantFacts DEF DropPacket, IInv, RestInv
<1>3. NetInv'
  BY <1>1, NetSteady DEF DropPacket, IInv
<1> QED BY <1>1, <1>2, <1>3, SenderSteady, ReceiverSteady, WindowSteady DEF IInv

\* A datagram handled, whether the network keeps a copy of it or not.
LEMMA Handled ==
    ASSUME IInv, NEW n \in Node, ReceiveStep(n)
    PROVE  \E p \in net, left \in SUBSET net, spent \in Nat :
               /\ p.src = Peer[n] /\ faults' <= MaxFaults
               /\ TakePacket(n, p, left, spent) \/ DropPacket(n, p, left, spent)
<1>1. PICK p \in net : Arrive(n, p) \/ Duplicate(n, p)
  BY DEF ReceiveStep
<1>2. faults \in Nat /\ faults + 1 \in Nat
  BY DEF IInv, RestInv
<1>3. net \ {p} \in SUBSET net /\ net \in SUBSET net
  OBVIOUS
<1> QED BY <1>1, <1>2, <1>3 DEF Arrive, Duplicate, OnUdpPacket

LEMMA ReceiveInv ==
    ASSUME IInv, NEW n \in Node, ReceiveStep(n)
    PROVE  IInv' /\ UNCHANGED sender
<1>1. PICK p \in net, left \in SUBSET net, spent \in Nat :
          /\ p.src = Peer[n] /\ faults' <= MaxFaults
          /\ TakePacket(n, p, left, spent) \/ DropPacket(n, p, left, spent)
  BY Handled
<1>2. CASE TakePacket(n, p, left, spent)
  BY <1>1, <1>2, TakePacketInv DEF TakePacket
<1>3. CASE DropPacket(n, p, left, spent)
  BY <1>1, <1>3, DropPacketInv DEF DropPacket
<1> QED BY <1>1, <1>2, <1>3

-----------------------------------------------------------------------------
(* Every step *)

Inv == IInv /\ GapInv

LEMMA SendStepInv ==
    ASSUME Inv, NEW n \in Node, SendStep(n)
    PROVE  Inv'
<1>1. PICK i \in Slot : (\E refused \in BOOLEAN : Send(n, i, refused)) \/ SendTooLong(n, i)
  BY DEF SendStep
<1>2. ASSUME NEW refused \in BOOLEAN, Send(n, i, refused) PROVE Inv'
  BY <1>2, SendInv, SendGap DEF Inv, IInv
<1>3. CASE SendTooLong(n, i)
  BY <1>3, SendTooLongInv, SendTooLongGap DEF Inv, IInv
<1> QED BY <1>1, <1>2, <1>3

LEMMA TickStepInv ==
    ASSUME Inv, NEW n \in Node, TickStep(n)
    PROVE  Inv' /\ UNCHANGED <<sender, receiver>>
<1>1. PICK due \in SUBSET DOMAIN send_slots[n], flush \in BOOLEAN, ackRefused \in BOOLEAN :
          \E refused \in SUBSET Tried(n, due) : Tick(n, due, refused, flush, ackRefused)
  BY DEF TickStep
<1>2. PICK refused \in SUBSET Tried(n, due) : Tick(n, due, refused, flush, ackRefused)
  BY <1>1
<1>3. UNCHANGED sender /\ UNCHANGED receiver
  BY <1>2 DEF Tick
<1>4. IInv'
  BY <1>2, TickInv DEF Inv
<1> QED BY <1>3, <1>4, GapSteady DEF Inv

LEMMA StepInv ==
    ASSUME Inv, [Next]_vars
    PROVE  Inv'
<1>1. CASE UNCHANGED vars
  <2>1. UNCHANGED sender /\ UNCHANGED receiver /\ UNCHANGED window /\ UNCHANGED accepted
    BY <1>1 DEF vars, sender
  <2>2. NetInv' /\ RestInv'
    BY <1>1, <2>1, NetSteady DEF vars, wire, Inv, IInv, RestInv
  <2>3. IInv'
    BY <2>1, <2>2, SenderSteady, ReceiverSteady, WindowSteady DEF Inv, IInv
  <2> QED BY <2>1, <2>3, GapSteady DEF Inv
<1>2. ASSUME NEW n \in Node, ReceiveStep(n) PROVE Inv'
  BY <1>2, ReceiveInv, GapSteady DEF Inv
<1>3. ASSUME NEW p \in net, Lose(p) PROVE Inv'
  <2>1. UNCHANGED sender
    BY <1>3 DEF Lose
  <2> QED BY <1>3, <2>1, LoseInv, GapSteady DEF Inv
<1> QED BY <1>1, <1>2, <1>3, SendStepInv, TickStepInv DEF Next

\* The invariant of every reachable state of Send, SendTooLong, Tick,
\* OnUdpPacket and Lose: sequence numbers stand for ordinals everywhere,
\* however often they have come round.
THEOREM Invariance == Spec => []Inv
<1>1. Init => Inv
  BY InitInv, InitGap DEF Inv
<1>2. Inv /\ [Next]_vars => Inv'
  BY StepInv
<1> QED BY <1>1, <1>2, PTL DEF Spec

\* Every variable of the Endpoints keeps its type, whatever frames arrive.
THEOREM TypeCorrect == Spec => []TypeOK
<1>1. Inv => TypeOK
  <2> SUFFICES ASSUME Inv PROVE TypeOK
    OBVIOUS
  <2>1. \A n \in Node : Offered(n) \subseteq Message
    BY OfferedRange DEF Inv, IInv
  <2>2. ASSUME NEW n \in Node PROVE accepted[n] \in Seq(Message)
    <3>1. \A j \in DOMAIN accepted[n] : accepted[n][j] \in Message
      BY <2>1 DEF Offered
    <3> QED BY <3>1 DEF Inv, IInv, SenderInv
  <2>3. ASSUME NEW n \in Node PROVE delivered[n] \in Seq(Message)
    <3>1. Peer[n] \in Node
      BY ConstantFacts
    <3>2. \A k \in DOMAIN delivered[n] : delivered[n][k] \in Message
      BY <2>1, <3>1 DEF Inv, IInv, ReceiverInv
    <3> QED BY <3>2 DEF Inv, IInv, ReceiverInv
  <2>4. accepted \in [Node -> Seq(Message)] /\ delivered \in [Node -> Seq(Message)]
    BY <2>2, <2>3 DEF Inv, IInv, SenderInv, ReceiverInv
  <2>5. \A n \in Node : \A i \in DOMAIN send_slots[n] : send_slots[n][i] \in PacketSlot
    BY DEF Inv, IInv, WindowInv, SlotSound
  <2>6. net \subseteq Packet
    BY DEF Inv, IInv, NetInv, Sound
  <2> QED BY <2>4, <2>5, <2>6 DEF Inv, IInv, SenderInv, WindowInv, ReceiverInv, RestInv, TypeOK
<1> QED BY <1>1, Invariance, PTL

\* GetPendingSend is exact and AllocateSendSlot keeps it within send_window,
\* whichever of HandleAck, FastRetransmit and Tick frees the slots.
THEOREM PendingCountExact == Spec => []PendingExact
<1>1. Inv => PendingExact
  BY DEF Inv, IInv, WindowInv, PendingExact
<1> QED BY <1>1, Invariance, PTL

\* The reorder buffer holds numbers of the window once each and never the next
\* one due, so that AllocateRecvSlot always finds a free slot for InsertRecv.
THEOREM BufferHasRoom == Spec => []RecvBufferSound
<1>1. Inv => RecvBufferSound
  <2> SUFFICES ASSUME Inv, NEW n \in Node
               PROVE  /\ BufferSound(recv_slots[n], recv_next_seq[n])
                      /\ Cardinality(recv_slots[n]) < MaxQueue
    BY DEF RecvBufferSound, BufferSound
  <2>1. /\ recv_slots[n] \in SUBSET RecvSlot /\ recv_next_seq[n] \in SeqNum
        /\ BufferSound(recv_slots[n], recv_next_seq[n])
    BY DEF Inv, IInv, ReceiverInv
  <2> QED BY <2>1, RoomLeft
<1> QED BY <1>1, Invariance, PTL

-----------------------------------------------------------------------------
(* The replay window *)

\* What DropPacket drops.
Refuses(w, x) == x = 0 \/ ~ Accepts(w, x)

\* A nonce refused once is refused for good.
LEMMA RefusedStays ==
    ASSUME NEW w \in Window, NEW x \in Nat, NEW y \in Nat, y # 0, Accepts(w, y),
           Refuses(w, x)
    PROVE  Refuses(Track(w, y), x)
<1> SUFFICES ASSUME ~ Accepts(w, x) PROVE ~ Accepts(Track(w, y), x)
  BY DEF Refuses
<1>1. /\ w.max \in Nat /\ w.max # 0 /\ x <= w.max
      /\ w.bits \in SUBSET (0 .. ReplayBits - 1) /\ ReplayBits \in Nat
      /\ w.max - x >= ReplayBits \/ (w.max - x) \in w.bits
  BY ConstantFacts DEF Window, Accepts
<1>2. CASE y > w.max
  <2> DEFINE d == y - w.max
             bits == ShiftLeft(w.bits, d) \cup {0}
  <2>1. Track(w, y).max = y /\ Track(w, y).bits = bits
    BY <1>1, <1>2 DEF Track
  <2>2. y - x = (w.max - x) + d
    BY <1>1
  <2>3. y - x >= ReplayBits \/ (y - x) \in bits
    <3>1. CASE w.max - x >= ReplayBits
      BY <1>1, <1>2, <2>2, <3>1
    <3>2. CASE (w.max - x) \in w.bits
      BY <1>1, <1>2, <2>2, <3>2 DEF ShiftLeft
    <3> QED BY <1>1, <3>1, <3>2
  <2> HIDE DEF bits, d
  <2> QED BY <1>1, <1>2, <2>1, <2>3 DEF Accepts
<1>3. CASE ~ y > w.max
  <2>1. Track(w, y).max = w.max /\ Track(w, y).bits = w.bits \cup {w.max - y}
    BY <1>1, <1>3 DEF Track, Window
  <2> QED BY <1>1, <2>1 DEF Accepts
<1> QED BY <1>2, <1>3

LEMMA TrackedRefused ==
    ASSUME NEW w \in Window, NEW y \in Nat, y # 0, Accepts(w, y)
    PROVE  Refuses(Track(w, y), y)
<1>1. w.max \in Nat /\ ReplayBits \in Nat
  BY ConstantFacts DEF Window
<1>2. CASE w.max = 0 \/ y > w.max
  <2>1. Track(w, y).max = y /\ 0 \in Track(w, y).bits /\ y - y = 0
    BY <1>2 DEF Track
  <2> QED BY <1>1, <2>1 DEF Refuses, Accepts
<1>3. CASE w.max # 0 /\ ~ y > w.max
  <2>1. Track(w, y).max = w.max /\ (w.max - y) \in Track(w, y).bits
    BY <1>3 DEF Track, Window
  <2> QED BY <1>1, <1>3, <2>1 DEF Refuses, Accepts
<1> QED BY <1>2, <1>3

-----------------------------------------------------------------------------
(* Where frames come from *)

\* The frames of endpoint n, in flight and stored.
Frames(n) ==
    {p \in net : p.src = n} \cup {send_slots[n][i].frame : i \in DOMAIN send_slots[n]}

\* Transmissions of one frame differ in their copy number alone.
Same(f, g) ==
    /\ f.src = g.src /\ f.kind = g.kind /\ f.seq = g.seq
    /\ f.info = g.info /\ f.nonce = g.nonce /\ f.body = g.body

\* A frame this step builds: a message's, or an acknowledgement's.
Fresh(n, f) ==
    /\ f.info = AckInfoOf(n)
    /\ f.nonce = NextNonce(n) /\ tx_nonce_counter'[n] = NextNonce(n)
    /\ IF attempts'[n] = attempts[n] THEN f.kind = "ack" /\ f.body = 0
       ELSE f.kind = "data" /\ f.body = attempts[n] + 1

FramesCome ==
    \A n \in Node : \A f \in Frames(n)' : Fresh(n, f) \/ \E g \in Frames(n) : Same(f, g)

\* One endpoint at most takes one packet in a step.
Takes(n, p) ==
    /\ p \in net /\ p.src = Peer[n]
    /\ p.nonce # 0 /\ Accepts(rx_replay[n], p.nonce)
    /\ rx_replay'[n] = Track(rx_replay[n], p.nonce)
    /\ rx_replay'[Peer[n]] = rx_replay[Peer[n]]
    /\ \/ p.kind = "data" /\ TakeData(n, p)
       \/ p.kind = "ack" /\ UNCHANGED receiver
    /\ UNCHANGED <<sender, tx_nonce_counter>>
    /\ \A m \in Node : \A b \in acked'[m] :
           b \in acked[m] \/ (m = n /\ \E i \in Covered(n, p.info) :
                                          b = send_slots[n][i].frame.body)

TakesNone ==
    /\ UNCHANGED <<receiver, rx_replay, acked>>
    /\ \A n \in Node : attempts'[n] \in {attempts[n], attempts[n] + 1}
    /\ \A n \in Node : tx_nonce_counter'[n] \in {tx_nonce_counter[n], NextNonce(n)}

LEMMA FrameSound ==
    ASSUME IInv, NEW n \in Node, NEW f \in Frames(n)
    PROVE  Sound(f) /\ f \in Packet /\ f.src = n
BY DEF Frames, IInv, NetInv, WindowInv, SlotSound, Sound

LEMMA SameItself == ASSUME NEW f PROVE Same(f, f)
BY DEF Same

LEMMA TransmissionSame ==
    ASSUME NEW n \in Node, NEW s, SlotSound(n, s)
    PROVE  Same(Transmission(s), s.frame) /\ Transmission(s).src = n
BY DEF SlotSound, Sound, Packet, Transmission, Same

\* It is enough to look at the network and the slots one by one.
LEMMA FramesFrom ==
    ASSUME \A p \in net' : p \in net \/ Fresh(p.src, p) \/
               \E n \in Node : \E i \in DOMAIN send_slots[n] :
                   p.src = n /\ Same(p, send_slots[n][i].frame),
           \A n \in Node : \A i \in DOMAIN send_slots'[n] :
               \/ Fresh(n, send_slots'[n][i].frame)
               \/ \E j \in DOMAIN send_slots[n] :
                      send_slots'[n][i].frame = send_slots[n][j].frame
    PROVE  FramesCome
<1> SUFFICES ASSUME NEW n \in Node, NEW f \in Frames(n)'
             PROVE  Fresh(n, f) \/ \E g \in Frames(n) : Same(f, g)
  BY DEF FramesCome
<1>1. CASE f \in net' /\ f.src = n
  <2>1. CASE f \in net
    BY <1>1, <2>1, SameItself DEF Frames
  <2>2. ASSUME NEW m \in Node, NEW i \in DOMAIN send_slots[m], f.src = m,
               Same(f, send_slots[m][i].frame)
        PROVE  \E g \in Frames(n) : Same(f, g)
    BY <1>1, <2>2 DEF Frames
  <2> QED BY <1>1, <2>1, <2>2
<1>2. ASSUME NEW i \in DOMAIN send_slots'[n], f = send_slots'[n][i].frame
      PROVE  Fresh(n, f) \/ \E g \in Frames(n) : Same(f, g)
  BY <1>2, SameItself DEF Frames
<1> QED BY <1>1, <1>2 DEF Frames

LEMMA SendShape ==
    ASSUME IInv, NEW n \in Node, NEW i \in Slot, NEW refused \in BOOLEAN,
           Send(n, i, refused)
    PROVE  FramesCome /\ TakesNone
<1>1. /\ attempts \in [Node -> Nat] /\ attempts' = [attempts EXCEPT ![n] = @ + 1]
      /\ tx_nonce_counter' = [tx_nonce_counter EXCEPT ![n] = NextNonce(n)]
      /\ tx_nonce_counter \in [Node -> 0 .. NonceMod - 1]
  BY DEF Send, TakeNonce, IInv, SenderInv, RestInv
<1>2. Fresh(n, DataFrame(n)) /\ DataFrame(n).src = n
  BY <1>1 DEF Fresh, DataFrame
<1>3. \A p \in net' : p \in net \/ Fresh(p.src, p)
  <2>1. \A p \in net' : p \in net \/ p = DataFrame(n)
    BY DEF Send
  <2>2. ASSUME NEW p, p = DataFrame(n) PROVE Fresh(p.src, p)
    <3>1. p.src = n /\ Fresh(n, p)
      BY <1>2, <2>2, Zenon
    <3> QED BY <3>1, Zenon
  <2> QED BY <2>1, <2>2
<1>4. /\ DOMAIN send_slots'[n] = DOMAIN send_slots[n] \cup {i}
      /\ \A m \in Node \ {n} : send_slots'[m] = send_slots[m]
      /\ send_slots'[n][i].frame = DataFrame(n)
      /\ \A j \in DOMAIN send_slots[n] \ {i} : send_slots'[n][j] = send_slots[n][j]
  BY DEF Send, IInv, WindowInv
<1>5. ASSUME NEW m \in Node, NEW j \in DOMAIN send_slots'[m]
      PROVE  \/ Fresh(m, send_slots'[m][j].frame)
             \/ \E h \in DOMAIN send_slots[m] :
                    send_slots'[m][j].frame = send_slots[m][h].frame
  <2>1. CASE m = n /\ j = i
    <3>1. PICK f : f = send_slots'[m][j].frame
      OBVIOUS
    <3>2. f = DataFrame(n)
      BY <1>4, <2>1, <3>1
    <3>3. Fresh(m, f)
      BY <1>2, <2>1, <3>2, Zenon
    <3> QED BY <3>1, <3>3, Zenon
  <2>2. CASE ~ (m = n /\ j = i)
    <3>1. j \in DOMAIN send_slots[m] /\ send_slots'[m][j] = send_slots[m][j]
      BY <1>4, <1>5, <2>2
    <3> QED BY <3>1
  <2> QED BY <2>1, <2>2
<1>6. FramesCome
  BY <1>3, <1>5, FramesFrom
<1>7. TakesNone
  BY <1>1 DEF Send, TakesNone
<1> QED BY <1>6, <1>7

LEMMA TickShape ==
    ASSUME IInv, NEW n \in Node, NEW due \in SUBSET DOMAIN send_slots[n],
           NEW flush \in BOOLEAN, NEW ackRefused \in BOOLEAN,
           NEW refused \in SUBSET Tried(n, due),
           Tick(n, due, refused, flush, ackRefused)
    PROVE  FramesCome /\ TakesNone
<1> DEFINE kept == Retried(n, due, refused)
<1>1. /\ attempts' = attempts
      /\ tx_nonce_counter' = [tx_nonce_counter EXCEPT ![n] =
             IF Flushes(n, flush) THEN NextNonce(n) ELSE @]
      /\ tx_nonce_counter \in [Node -> 0 .. NonceMod - 1]
  BY DEF Tick, sender, IInv, RestInv
<1>2. ASSUME NEW i \in DOMAIN kept
      PROVE  i \in DOMAIN send_slots[n] /\ kept[i].frame = send_slots[n][i].frame
  <2>1. i \in DOMAIN send_slots[n] /\ send_slots[n][i] \in PacketSlot
    BY DEF Retried, IInv, WindowInv, SlotSound
  <2> QED BY <2>1 DEF Retried, PacketSlot
<1>3. \A i \in Tried(n, due) : i \in DOMAIN kept
  BY DEF Tried, Unsent, Tick, Retried
<1>4. ASSUME NEW i \in DOMAIN kept
      PROVE  /\ Transmission(kept[i]).src = n
             /\ Same(Transmission(kept[i]), send_slots[n][i].frame)
  <2>1. kept[i].frame \in Packet /\ kept[i].frame.src = n
    BY <1>2 DEF IInv, WindowInv, SlotSound, Sound
  <2> QED BY <1>2, <2>1 DEF Transmission, Packet, Same
<1> HIDE DEF kept
<1>5. ASSUME NEW p \in net'
      PROVE  \/ p \in net \/ Fresh(p.src, p)
             \/ \E m \in Node : \E i \in DOMAIN send_slots[m] :
                    p.src = m /\ Same(p, send_slots[m][i].frame)
  <2>1. CASE Flushes(n, flush) /\ p = ControlFrame(n)
    <3>1. p.src = n /\ Fresh(n, p)
      BY <1>1, <2>1 DEF Fresh, ControlFrame
    <3> QED BY <3>1, Zenon
  <2>2. ASSUME NEW i \in Tried(n, due), p = Transmission(kept[i])
        PROVE  \E m \in Node : \E j \in DOMAIN send_slots[m] :
                   p.src = m /\ Same(p, send_slots[m][j].frame)
    <3>1. i \in DOMAIN send_slots[n] /\ p.src = n /\ Same(p, send_slots[n][i].frame)
      BY <1>2, <1>3, <1>4, <2>2
    <3> QED BY <3>1
  <2>3. \/ p \in net
        \/ Flushes(n, flush) /\ p = ControlFrame(n)
        \/ \E i \in Tried(n, due) : p = Transmission(kept[i])
    BY DEF Tick, kept
  <2> QED BY <2>1, <2>2, <2>3
<1>6. send_slots'[n] = kept /\ \A m \in Node \ {n} : send_slots'[m] = send_slots[m]
  BY DEF Tick, IInv, WindowInv, kept
<1>7. ASSUME NEW m \in Node, NEW i \in DOMAIN send_slots'[m]
      PROVE  \E j \in DOMAIN send_slots[m] :
                 send_slots'[m][i].frame = send_slots[m][j].frame
  BY <1>2, <1>6, <1>7
<1>8. FramesCome
  BY <1>5, <1>7, FramesFrom
<1>9. TakesNone
  <2>1. attempts \in [Node -> Nat]
    BY DEF IInv, SenderInv
  <2>2. UNCHANGED <<receiver, rx_replay, acked>>
    BY DEF Tick
  <2> QED BY <1>1, <2>1, <2>2 DEF TakesNone
<1> QED BY <1>8, <1>9

\* HandleAck sends and keeps frames it had, and acknowledges what it covers.
LEMMA HandleAckShape ==
    ASSUME IInv, NEW n \in Node, NEW info \in AckInfo,
           NEW left \in SUBSET net, NEW spent,
           HandleAck(n, info, left, spent)
    PROVE  /\ FramesCome
           /\ \A m \in Node : \A b \in acked'[m] :
                  b \in acked[m] \/ (m = n /\ \E i \in Covered(n, info) :
                                                 b = send_slots[n][i].frame.body)
<1> DEFINE Released == \A m \in Node : \A b \in acked'[m] :
               b \in acked[m] \/ (m = n /\ \E i \in Covered(n, info) :
                                              b = send_slots[n][i].frame.body)
<1>1. DOMAIN send_slots = Node /\ acked \in [Node -> SUBSET Message]
  BY DEF IInv, WindowInv
<1>2. ASSUME net' = left,
             \A m \in Node : \A i \in DOMAIN send_slots'[m] :
                 i \in DOMAIN send_slots[m] /\ send_slots'[m][i] = send_slots[m][i]
      PROVE  FramesCome
  <2>1. \A p \in net' : p \in net
    BY <1>2
  <2>2. ASSUME NEW m \in Node, NEW i \in DOMAIN send_slots'[m]
        PROVE  \E j \in DOMAIN send_slots[m] :
                   send_slots'[m][i].frame = send_slots[m][j].frame
    BY <1>2, <2>2
  <2> QED BY <2>1, <2>2, FramesFrom
<1>3. CASE AckReleases(n, info, left, spent)
  <2>1. ASSUME NEW m \in Node, NEW i \in DOMAIN send_slots'[m]
        PROVE  i \in DOMAIN send_slots[m] /\ send_slots'[m][i] = send_slots[m][i]
    BY <1>1, <1>3, <2>1 DEF AckReleases, Restrict
  <2>2. FramesCome
    BY <1>2, <1>3, <2>1 DEF AckReleases
  <2>3. Released
    BY <1>1, <1>3 DEF AckReleases
  <2> QED BY <2>2, <2>3
<1>4. CASE AckIsNew(n, info, left, spent) \/ AckRepeats(n, info, left, spent)
  <2>1. UNCHANGED <<send_slots, acked>> /\ net' = left
    BY <1>4 DEF AckIsNew, AckRepeats
  <2> QED BY <1>2, <2>1
<1>5. ASSUME NEW refused \in BOOLEAN, FastRetransmit(n, info, left, spent, refused)
      PROVE  FramesCome /\ UNCHANGED acked
  <2>1. UNCHANGED acked
    BY <1>5 DEF FastRetransmit
  <2>2. PICK v \in Victim(n) :
           \/ /\ send_slots' = [send_slots EXCEPT ![n] = Restrict(@, DOMAIN @ \ {v})]
              /\ net' = left
           \/ /\ send_slots' = [send_slots EXCEPT ![n][v].retries = @ + 1]
              /\ net' = IF refused THEN left
                        ELSE left \cup {Transmission(send_slots'[n][v])}
    BY <1>5 DEF FastRetransmit
  <2>3. v \in DOMAIN send_slots[n] /\ SlotSound(n, send_slots[n][v])
    BY DEF Victim, IInv, WindowInv
  <2>4. CASE send_slots' = [send_slots EXCEPT ![n] = Restrict(@, DOMAIN @ \ {v})] /\ net' = left
    <3>1. ASSUME NEW m \in Node, NEW i \in DOMAIN send_slots'[m]
          PROVE  i \in DOMAIN send_slots[m] /\ send_slots'[m][i] = send_slots[m][i]
      BY <1>1, <2>4, <3>1 DEF Restrict
    <3> QED BY <1>2, <2>1, <2>4, <3>1
  <2>5. CASE /\ send_slots' = [send_slots EXCEPT ![n][v].retries = @ + 1]
             /\ net' = IF refused THEN left
                       ELSE left \cup {Transmission(send_slots'[n][v])}
    <3> DEFINE s == send_slots[n][v]
               again == [s EXCEPT !.retries = s.retries + 1]
               kept == [send_slots[n] EXCEPT ![v] = again]
    <3>1. send_slots' = [send_slots EXCEPT ![n] = kept]
      BY <2>5
    <3>2. DOMAIN kept = DOMAIN send_slots[n] /\ kept[v] = again
          /\ \A i \in DOMAIN send_slots[n] \ {v} : kept[i] = send_slots[n][i]
      BY <2>3
    <3>3. again.frame = s.frame
      BY <2>3 DEF SlotSound, PacketSlot
    <3>4. Transmission(again).src = n /\ Same(Transmission(again), s.frame)
      BY <2>3, <3>3 DEF Transmission, SlotSound, Sound, Packet, Same
    <3> HIDE DEF kept, again
    <3>5. send_slots'[n] = kept /\ \A m \in Node \ {n} : send_slots'[m] = send_slots[m]
      BY <1>1, <3>1
    <3>6. ASSUME NEW m \in Node, NEW i \in DOMAIN send_slots'[m]
          PROVE  \E j \in DOMAIN send_slots[m] :
                     send_slots'[m][i].frame = send_slots[m][j].frame
      <4>1. i \in DOMAIN send_slots[m]
        BY <3>2, <3>5, <3>6
      <4>2. send_slots'[m][i].frame = send_slots[m][i].frame
        BY <3>2, <3>3, <3>5, <3>6
      <4> QED BY <4>1, <4>2
    <3>7. \A p \in net' : p \in net \/ p = Transmission(again)
      BY <2>5, <3>2, <3>5
    <3>8. ASSUME NEW p \in net'
          PROVE  \/ p \in net
                 \/ \E m \in Node : \E i \in DOMAIN send_slots[m] :
                        p.src = m /\ Same(p, send_slots[m][i].frame)
      BY <2>3, <3>4, <3>7, <3>8
    <3> QED BY <2>1, <3>6, <3>8, FramesFrom
  <2> QED BY <2>2, <2>4, <2>5
<1> QED BY <1>3, <1>4, <1>5 DEF HandleAck

LEMMA QuietShape ==
    ASSUME IInv, net' \subseteq net, UNCHANGED <<send_slots, tx_nonce_counter>>,
           UNCHANGED <<receiver, rx_replay, acked>>,
           \A n \in Node : attempts'[n] \in {attempts[n], attempts[n] + 1}
    PROVE  FramesCome /\ TakesNone
<1>1. \A p \in net' : p \in net
  OBVIOUS
<1>2. ASSUME NEW n \in Node, NEW i \in DOMAIN send_slots'[n]
      PROVE  \E j \in DOMAIN send_slots[n] :
                 send_slots'[n][i].frame = send_slots[n][j].frame
  BY <1>2
<1> QED BY <1>1, <1>2, FramesFrom DEF TakesNone

LEMMA ReceiveShape ==
    ASSUME IInv, NEW n \in Node, ReceiveStep(n)
    PROVE  FramesCome /\ (TakesNone \/ \E p \in net : Takes(n, p))
<1>1. PICK p \in net, left \in SUBSET net, spent \in Nat :
          /\ p.src = Peer[n] /\ faults' <= MaxFaults
          /\ TakePacket(n, p, left, spent) \/ DropPacket(n, p, left, spent)
  BY Handled
<1>2. CASE TakePacket(n, p, left, spent)
  <2>1. p.info \in AckInfo /\ HandleAck(n, p.info, left, spent)
    BY <1>2 DEF TakePacket, IInv, NetInv, Sound, Packet
  <2>2. /\ FramesCome
        /\ \A m \in Node : \A b \in acked'[m] :
               b \in acked[m] \/ (m = n /\ \E i \in Covered(n, p.info) :
                                              b = send_slots[n][i].frame.body)
    BY <2>1, HandleAckShape
  <2>3. /\ rx_replay'[n] = Track(rx_replay[n], p.nonce)
        /\ rx_replay'[Peer[n]] = rx_replay[Peer[n]]
    BY <1>2, ConstantFacts DEF TakePacket, IInv, RestInv
  <2>4. Takes(n, p)
    BY <1>1, <1>2, <2>2, <2>3 DEF TakePacket, Takes
  <2> QED BY <2>2, <2>4
<1>3. CASE DropPacket(n, p, left, spent)
  BY <1>3, QuietShape DEF DropPacket, window, sender
<1> QED BY <1>1, <1>2, <1>3

LEMMA StepShape ==
    ASSUME IInv, [Next]_vars
    PROVE  FramesCome /\ (TakesNone \/ \E n \in Node : \E p \in net : Takes(n, p))
<1>1. ASSUME NEW n \in Node, SendStep(n) PROVE FramesCome /\ TakesNone
  <2>1. PICK i \in Slot : (\E refused \in BOOLEAN : Send(n, i, refused)) \/ SendTooLong(n, i)
    BY <1>1 DEF SendStep
  <2>2. CASE SendTooLong(n, i)
    <3>1. \A m \in Node : attempts'[m] \in {attempts[m], attempts[m] + 1}
      BY <2>2 DEF SendTooLong, IInv, SenderInv
    <3> QED BY <2>2, <3>1, QuietShape DEF SendTooLong, window, wire
  <2> QED BY <2>1, <2>2, SendShape
<1>2. ASSUME NEW n \in Node, TickStep(n) PROVE FramesCome /\ TakesNone
  <2>1. PICK due \in SUBSET DOMAIN send_slots[n], flush \in BOOLEAN, ackRefused \in BOOLEAN :
            \E refused \in SUBSET Tried(n, due) : Tick(n, due, refused, flush, ackRefused)
    BY <1>2 DEF TickStep
  <2> QED BY <2>1, TickShape
<1>3. ASSUME NEW p \in net, Lose(p) PROVE FramesCome /\ TakesNone
  BY <1>3, QuietShape DEF Lose, window, sender
<1>4. CASE UNCHANGED vars
  BY <1>4, QuietShape DEF vars, window, sender, wire
<1> QED BY <1>1, <1>2, <1>3, <1>4, ReceiveShape DEF Next

-----------------------------------------------------------------------------
(* Delivery in order *)

\* No endpoint is a whole cycle of numbers ahead of what its peer delivered.
InCycle == \A n \in Node : attempts[n] - Len(delivered[Peer[n]]) <= SeqMod

\* What was delivered is what came first, and what waits comes later.
Placed(n) ==
    /\ \A k \in DOMAIN delivered[n] : delivered[n][k] = k
    /\ \A r \in recv_slots[n] : r.body > Len(delivered[n])

\* A message has one nonce, and once the peer has the message refuses it.
NoncesSound(n) ==
    /\ \A f, g \in Frames(n) :
           f.kind = "data" /\ g.kind = "data" /\ f.body = g.body => f.nonce = g.nonce
    /\ \A f \in Frames(n) :
           f.kind = "data" /\ Retained(Peer[n], f.body)
               => Refuses(rx_replay[Peer[n]], f.nonce)

OrderInv == \A n \in Node : Placed(n) /\ NoncesSound(n)

LEMMA RetainedRange ==
    ASSUME IInv, NEW n \in Node, NEW b, Retained(n, b)
    PROVE  /\ b \in Offered(Peer[n]) /\ b \in Nat /\ b >= 1 /\ b \in Message
           /\ b <= attempts[Peer[n]] /\ b <= MaxSend[Peer[n]]
<1>1. Peer[n] \in Node
  BY ConstantFacts
<1>2. b \in Offered(Peer[n])
  <2>1. CASE \E r \in recv_slots[n] : r.body = b
    BY <2>1 DEF IInv, ReceiverInv
  <2>2. CASE \E k \in 1 .. Len(delivered[n]) : delivered[n][k] = b
    <3>1. DOMAIN delivered[n] = 1 .. Len(delivered[n])
      BY DEF IInv, ReceiverInv
    <3> QED BY <2>2, <3>1 DEF IInv, ReceiverInv
  <2> QED BY <2>1, <2>2 DEF Retained
<1> QED BY <1>1, <1>2, OfferedRange DEF IInv

LEMMA DataRange ==
    ASSUME IInv, NEW n \in Node, NEW f \in Frames(n), f.kind = "data"
    PROVE  f.body \in Nat /\ f.body >= 1 /\ f.body <= attempts[n] /\ f.body \in Offered(n)
BY FrameSound, OfferedRange DEF Sound, IInv

\* A packet let through brings a message of the numbers to come.
LEMMA TakenIsNew ==
    ASSUME IInv, OrderInv, NEW n \in Node, NEW p \in net, Takes(n, p), p.kind = "data"
    PROVE  /\ Sound(p) /\ ~ Retained(n, p.body)
           /\ p.body \in Nat /\ p.body > Len(delivered[n])
<1>1. Peer[n] \in Node /\ Peer[Peer[n]] = n
  BY ConstantFacts
<1>2. p \in Frames(Peer[n])
  BY DEF Takes, Frames
<1>3. Sound(p) /\ p.body \in Nat /\ p.body >= 1
  BY <1>1, <1>2, FrameSound, DataRange
<1>4. ~ Refuses(rx_replay[n], p.nonce)
  BY DEF Takes, Refuses
<1>5. ~ Retained(n, p.body)
  <2>1. NoncesSound(Peer[n])
    BY <1>1 DEF OrderInv
  <2>2. Retained(Peer[Peer[n]], p.body) => Refuses(rx_replay[Peer[Peer[n]]], p.nonce)
    BY <1>2, <2>1 DEF NoncesSound
  <2> QED BY <1>1, <1>4, <2>2, Zenon
<1>6. p.body > Len(delivered[n])
  <2> SUFFICES ASSUME p.body <= Len(delivered[n]) PROVE FALSE
    <3>1. Len(delivered[n]) \in Nat
      BY DEF IInv, ReceiverInv
    <3> QED BY <1>3, <3>1
  <2>1. DOMAIN delivered[n] = 1 .. Len(delivered[n]) /\ Len(delivered[n]) \in Nat
    BY DEF IInv, ReceiverInv
  <2>2. p.body \in 1 .. Len(delivered[n]) /\ delivered[n][p.body] = p.body
    BY <1>3, <2>1 DEF OrderInv, Placed
  <2> QED BY <1>5, <2>2 DEF Retained
<1> QED BY <1>3, <1>5, <1>6

\* The numbers DrainInOrder follows are then those of the very next messages.
LEMMA TakenPlaced ==
    ASSUME IInv, OrderInv, InCycle, NEW n \in Node, NEW p \in net, Takes(n, p)
    PROVE  \A q \in Node : Placed(q)'
<1>1. CASE p.kind = "ack" /\ UNCHANGED receiver
  BY <1>1 DEF OrderInv, Placed, receiver
<1>2. CASE p.kind = "data" /\ TakeData(n, p)
  <2> DEFINE m == Peer[n]
             slots == Inserted(n, p)
             next == recv_next_seq[n]
             len == Len(delivered[n])
  <2>1. m \in Node /\ Peer[m] = n
    BY ConstantFacts
  <2>2. p.src = m /\ Sound(p) /\ p.body \in Nat /\ p.body > len
    BY <1>2, TakenIsNew DEF Takes
  <2>3. PICK k \in Nat : Took(n, p, k)
    BY <1>2, <2>2, TakeDataTook
  <2>4. /\ slots \in SUBSET RecvSlot
        /\ \A r \in slots : /\ r \in recv_slots[n] \/ r.body = p.body
                            /\ Numbers(r.seq, r.body) /\ r.body \in Offered(m)
                            /\ SeqInWindow(r.seq, next, RecvWindow)
    BY <1>2, <2>2, InsertedSound
  <2>5. /\ next \in SeqNum /\ len \in Nat /\ Numbers(next, len + 1)
        /\ DOMAIN delivered[n] = 1 .. len
    BY DEF IInv, ReceiverInv
  <2>6. /\ \A j \in 1 .. len : delivered[n][j] = j
        /\ \A r \in recv_slots[n] : r.body > len
    BY <2>5 DEF OrderInv, Placed
  <2>7. /\ k \in 0 .. SeqMod - 1
        /\ recv_slots'[n] = slots \ Drained(slots, next, k)
        /\ delivered' \in [Node -> Seq(Nat)]
        /\ Len(delivered'[n]) = len + k
        /\ \A j \in 1 .. len : delivered'[n][j] = delivered[n][j]
        /\ \A i \in 1 .. k : \E r \in slots :
               r.seq = AddSeq(next, i - 1) /\ delivered'[n][len + i] = r.body
        /\ \A q \in Node \ {n} :
               recv_slots'[q] = recv_slots[q] /\ delivered'[q] = delivered[q]
    BY <2>3 DEF Took
  <2>8. attempts[m] \in Nat /\ attempts[m] - len <= SeqMod /\ SeqMod \in Nat
    BY <2>1, ConstantFacts DEF InCycle, IInv, SenderInv
  <2> HIDE DEF slots, next, len, m
  <2>9. ASSUME NEW r \in slots
        PROVE  /\ r.seq \in SeqNum /\ r.body \in Nat
               /\ DistanceFrom(next, r.seq) = r.body - (len + 1)
               /\ r.body - (len + 1) \in 0 .. SeqMod - 1
    <3>1. r.seq \in SeqNum /\ Numbers(r.seq, r.body)
      BY <2>4 DEF RecvSlot
    <3>2. r.body \in Nat /\ r.body <= attempts[m]
      BY <2>1, <2>4, OfferedRange DEF IInv
    <3>3. r.body > len
      BY <2>2, <2>4, <2>6
    <3>4. len + 1 \in Nat /\ r.body - (len + 1) \in 0 .. SeqMod - 1
      BY <2>5, <2>8, <3>2, <3>3
    <3>5. DistanceFrom(next, r.seq) = r.body - (len + 1)
      BY <2>5, <3>1, <3>2, <3>4, NumbersDistance
    <3> QED BY <3>1, <3>2, <3>4, <3>5
  <2>10. ASSUME NEW j \in 1 .. len + k PROVE delivered'[n][j] = j
    <3>1. CASE j \in 1 .. len
      BY <2>6, <2>7, <3>1
    <3>2. CASE j > len
      <4>1. j - len \in 1 .. k /\ len + (j - len) = j /\ (j - len) - 1 \in 0 .. SeqMod - 1
        BY <2>5, <2>7, <2>8, <3>2
      <4>2. PICK r \in slots : r.seq = AddSeq(next, (j - len) - 1)
                               /\ delivered'[n][len + (j - len)] = r.body
        BY <2>7, <4>1, Zenon
      <4>3. DistanceFrom(next, r.seq) = (j - len) - 1
        BY <2>5, <4>1, <4>2, DistanceOfAdd
      <4>4. r.body = j
        <5>1. r.body \in Nat /\ r.body - (len + 1) = (j - len) - 1
          BY <2>9, <4>3
        <5> QED BY <2>5, <5>1
      <4> QED BY <4>1, <4>2, <4>4
    <3> QED BY <2>5, <3>1, <3>2
  <2>11. ASSUME NEW r \in recv_slots'[n] PROVE r.body > len + k
    <3>1. r \in slots /\ ~ DistanceFrom(next, r.seq) < k
      BY <2>7 DEF Drained
    <3> QED BY <2>5, <2>9, <3>1
  <2>12. Placed(n)'
    <3>1. DOMAIN delivered'[n] = 1 .. len + k
      BY <2>7
    <3> QED BY <2>7, <2>10, <2>11, <3>1 DEF Placed
  <2>13. \A q \in Node \ {n} : Placed(q)'
    BY <2>7 DEF OrderInv, Placed
  <2> QED BY <2>12, <2>13
<1> QED BY <1>1, <1>2 DEF Takes

\* The packet taken is refused from now on, and so is every copy of it.
LEMMA TakenRefused ==
    ASSUME IInv, OrderInv, FramesCome, NEW q \in Node, NEW p \in net, Takes(q, p)
    PROVE  \A n \in Node : NoncesSound(n)'
<1> SUFFICES ASSUME NEW n \in Node PROVE NoncesSound(n)'
  OBVIOUS
<1>1. \A f \in Frames(n)' : f.kind = "data" => \E g \in Frames(n) : Same(f, g)
  BY DEF FramesCome, Fresh, Takes, sender
<1>2. NoncesSound(n) /\ Peer[n] \in Node /\ Peer[Peer[n]] = n
  BY ConstantFacts DEF OrderInv
<1>3. ASSUME NEW f \in Frames(n)', NEW g \in Frames(n)',
             f.kind = "data", g.kind = "data", f.body = g.body
      PROVE  f.nonce = g.nonce
  <2>1. PICK e \in Frames(n) : Same(f, e)
    BY <1>1, <1>3
  <2>2. PICK h \in Frames(n) : Same(g, h)
    BY <1>1, <1>3
  <2> QED BY <1>2, <1>3, <2>1, <2>2 DEF NoncesSound, Same
<1>4. ASSUME NEW f \in Frames(n)', f.kind = "data", Retained(Peer[n], f.body)'
      PROVE  Refuses(rx_replay'[Peer[n]], f.nonce)
  <2>1. PICK g \in Frames(n) : Same(f, g)
    BY <1>1, <1>4
  <2>2. /\ g.kind = "data" /\ g.nonce = f.nonce /\ g.body = f.body
        /\ f.body \in Nat /\ f.nonce \in Nat
    BY <1>4, <2>1, DataRange, FrameSound DEF Same, Packet
  <2>3. p \in Packet /\ p.nonce \in Nat /\ p.nonce # 0 /\ Accepts(rx_replay[q], p.nonce)
        /\ rx_replay'[q] = Track(rx_replay[q], p.nonce) /\ rx_replay[q] \in Window
        /\ p.src = Peer[q] /\ Peer[q] \in Node /\ Peer[Peer[q]] = q
    BY ConstantFacts DEF Takes, IInv, NetInv, RestInv, Sound, Packet
  <2>4. CASE Retained(Peer[n], f.body)
    <3>1. Refuses(rx_replay[Peer[n]], f.nonce)
      BY <1>2, <2>2, <2>4 DEF NoncesSound
    <3>2. CASE q = Peer[n]
      <4>1. Refuses(Track(rx_replay[q], p.nonce), f.nonce)
        BY <2>2, <2>3, <3>1, <3>2, RefusedStays
      <4> QED BY <2>3, <3>2, <4>1
    <3>3. CASE q # Peer[n]
      <4>1. Peer[n] = Peer[q]
        BY <1>2, <3>3 DEF Node, Peer
      <4> QED BY <3>1, <4>1 DEF Takes
    <3> QED BY <3>2, <3>3
  <2>5. CASE ~ Retained(Peer[n], f.body)
    <3>1. p.kind = "data" /\ TakeData(q, p)
      BY <1>4, <2>5 DEF Takes, Retained, receiver
    <3>2. Peer[n] = q /\ f.body = p.body
      <4>1. Sound(p)
        BY DEF IInv, NetInv
      <4>2. \A m \in Node, b \in Nat :
                Retained(m, b)' => Retained(m, b) \/ (m = q /\ b = p.body)
        BY <2>3, <3>1, <4>1, TakeDataRetains
      <4>3. PICK m \in Node, b \in Nat : m = Peer[n] /\ b = f.body
        BY <1>2, <2>2
      <4>4. Retained(m, b)' /\ ~ Retained(m, b)
        BY <1>4, <2>5, <4>3 DEF Retained
      <4> QED BY <4>2, <4>3, <4>4
    <3>3. p \in Frames(n)
      BY <1>2, <2>3, <3>2 DEF Frames
    <3>4. f.nonce = p.nonce
      BY <1>2, <2>2, <3>1, <3>2, <3>3 DEF NoncesSound
    <3>5. Refuses(Track(rx_replay[q], p.nonce), p.nonce)
      BY <2>3, TrackedRefused
    <3> QED BY <2>3, <3>2, <3>4, <3>5
  <2> QED BY <2>4, <2>5
<1>5. \A f \in Frames(n)' : f.kind = "data" /\ Retained(Peer[n], f.body)'
          => Refuses(rx_replay'[Peer[n]], f.nonce)
  BY <1>4
<1> QED BY <1>3, <1>5 DEF NoncesSound

\* A message sent now is one nobody has, under a number of its own.
LEMMA NoneTakenOrder ==
    ASSUME IInv, OrderInv, FramesCome, TakesNone
    PROVE  OrderInv'
<1> SUFFICES ASSUME NEW n \in Node PROVE Placed(n)' /\ NoncesSound(n)'
  BY DEF OrderInv
<1>1. Placed(n)'
  BY DEF OrderInv, Placed, TakesNone, receiver
<1>2. NoncesSound(n) /\ Peer[n] \in Node /\ Peer[Peer[n]] = n /\ attempts[n] \in Nat
  BY ConstantFacts DEF OrderInv, IInv, SenderInv
<1>3. ASSUME NEW f \in Frames(n)', f.kind = "data"
      PROVE  \/ f.nonce = NextNonce(n) /\ f.body = attempts[n] + 1
             \/ \E g \in Frames(n) : Same(f, g) /\ g.kind = "data" /\ f.body <= attempts[n]
  <2>1. CASE Fresh(n, f)
    BY <1>3, <2>1 DEF Fresh
  <2>2. ASSUME NEW g \in Frames(n), Same(f, g)
        PROVE  g.kind = "data" /\ f.body <= attempts[n]
    BY <1>3, <2>2, DataRange DEF Same
  <2> QED BY <1>3, <2>1, <2>2 DEF FramesCome
<1>4. ASSUME NEW f \in Frames(n)', NEW g \in Frames(n)',
             f.kind = "data", g.kind = "data", f.body = g.body
      PROVE  f.nonce = g.nonce
  <2>1. CASE f.body = attempts[n] + 1
    <3>1. ~ f.body <= attempts[n]
      BY <1>2, <2>1
    <3> QED BY <1>3, <1>4, <3>1
  <2>2. CASE f.body # attempts[n] + 1
    <3>1. PICK e \in Frames(n) : Same(f, e) /\ e.kind = "data"
      BY <1>3, <1>4, <2>2
    <3>2. PICK h \in Frames(n) : Same(g, h) /\ h.kind = "data"
      BY <1>3, <1>4, <2>2
    <3> QED BY <1>2, <1>4, <3>1, <3>2 DEF NoncesSound, Same
  <2> QED BY <2>1, <2>2
<1>5. \A b : Retained(Peer[n], b)' <=> Retained(Peer[n], b)
  BY DEF Retained, TakesNone, receiver
<1>6. ASSUME NEW f \in Frames(n)', f.kind = "data", Retained(Peer[n], f.body)
      PROVE  Refuses(rx_replay'[Peer[n]], f.nonce)
  <2>1. f.body <= attempts[n] /\ f.body \in Nat
    BY <1>2, <1>6, RetainedRange
  <2>2. PICK g \in Frames(n) : Same(f, g)
    BY <1>2, <1>3, <1>6, <2>1
  <2> QED BY <1>2, <1>6, <2>2 DEF NoncesSound, Same, TakesNone
<1>7. ASSUME NEW f \in Frames(n)', f.kind = "data", Retained(Peer[n], f.body)'
      PROVE  Refuses(rx_replay'[Peer[n]], f.nonce)
  <2>1. PICK b : b = f.body
    OBVIOUS
  <2>2. Retained(Peer[n], b)'
    BY <1>7, <2>1 DEF Retained
  <2> QED BY <1>5, <1>6, <1>7, <2>1, <2>2
<1>8. NoncesSound(n)'
  BY <1>4, <1>7 DEF NoncesSound
<1> QED BY <1>1, <1>8

LEMMA OrderStep ==
    ASSUME Inv, OrderInv, InCycle, [Next]_vars
    PROVE  OrderInv'
<1>1. IInv
  BY DEF Inv
<1>2. FramesCome /\ (TakesNone \/ \E n \in Node : \E p \in net : Takes(n, p))
  BY <1>1, StepShape
<1>3. ASSUME NEW n \in Node, NEW p \in net, Takes(n, p) PROVE OrderInv'
  BY <1>1, <1>2, <1>3, TakenPlaced, TakenRefused DEF OrderInv
<1> QED BY <1>1, <1>2, <1>3, NoneTakenOrder

LEMMA OrderedPrefix ==
    ASSUME Inv, OrderInv
    PROVE  InOrder
<1> SUFFICES ASSUME NEW n \in Node
             PROVE  /\ Len(delivered[n]) <= Len(accepted[Peer[n]])
                    /\ \A k \in 1 .. Len(delivered[n]) :
                           delivered[n][k] = accepted[Peer[n]][k]
  BY DEF InOrder
<1>1. Peer[n] \in Node /\ Len(delivered[n]) \in Nat
      /\ DOMAIN delivered[n] = 1 .. Len(delivered[n])
  BY ConstantFacts DEF Inv, IInv, ReceiverInv
<1>2. \A k \in 1 .. Len(delivered[n]) : delivered[n][k] = k
  BY <1>1 DEF OrderInv, Placed
<1>3. \A k \in 1 .. Len(delivered[n]) : k \in Offered(Peer[n])
  BY <1>1, <1>2 DEF Inv, IInv, ReceiverInv
<1>4. /\ Len(delivered[n]) <= Len(accepted[Peer[n]])
      /\ \A k \in 1 .. Len(delivered[n]) : accepted[Peer[n]][k] = k
  BY <1>1, <1>3, PrefixInPlace DEF Inv, IInv
<1> QED BY <1>2, <1>4

\* What one step accepts or delivers is a step of the ordered channel.
LEMMA AcceptStep ==
    ASSUME Inv, [Next]_vars
    PROVE  UNCHANGED accepted \/ \E n \in Node : OC!Accept(n)
<1>1. ASSUME NEW n \in Node, NEW i \in Slot, NEW refused \in BOOLEAN, Send(n, i, refused)
      PROVE  OC!Accept(n)
  <2>1. attempts[n] \in Nat /\ attempts[n] < MaxSend[n] /\ MaxSend[n] \in Nat
    BY <1>1, ConstantFacts DEF Send, CanSend, Inv, IInv, SenderInv
  <2>2. attempts[n] + 1 \in 1 .. MaxSend[n]
    BY <2>1
  <2>3. attempts[n] + 1 \in Message
    BY <2>2, MessageRange
  <2> QED BY <1>1, <2>3 DEF Send, OC!Accept, receiver
<1>2. ASSUME NEW n \in Node, NEW i \in Slot, SendTooLong(n, i) PROVE UNCHANGED accepted
  BY <1>2 DEF SendTooLong
<1>3. ASSUME NEW n \in Node, TickStep(n) PROVE UNCHANGED accepted
  BY <1>3 DEF TickStep, Tick, sender
<1>4. ASSUME NEW n \in Node, ReceiveStep(n) PROVE UNCHANGED accepted
  BY <1>4, ReceiveInv DEF Inv, sender
<1>5. ASSUME NEW p \in net, Lose(p) PROVE UNCHANGED accepted
  BY <1>5 DEF Lose, sender
<1>6. CASE UNCHANGED vars
  BY <1>6 DEF vars, sender
<1> QED BY <1>1, <1>2, <1>3, <1>4, <1>5, <1>6 DEF Next, SendStep

LEMMA SameEntries ==
    ASSUME NEW d \in Seq(Nat), NEW e \in Seq(Nat), Len(e) = Len(d),
           \A j \in 1 .. Len(d) : e[j] = d[j]
    PROVE  e = d
OBVIOUS

LEMMA ChannelStep ==
    ASSUME Inv, Inv', OrderInv, OrderInv', [Next]_vars
    PROVE  [OC!Next]_(OC!vars)
<1>1. CASE \E n \in Node : OC!Accept(n)
  BY <1>1 DEF OC!Next
<1>2. CASE UNCHANGED accepted /\ TakesNone
  BY <1>2 DEF TakesNone, receiver, OC!vars
<1>3. ASSUME UNCHANGED accepted, NEW n \in Node, NEW p \in net, Takes(n, p)
      PROVE  [OC!Next]_(OC!vars)
  <2>1. CASE UNCHANGED receiver
    BY <1>3, <2>1 DEF receiver, OC!vars
  <2>2. CASE p.kind = "data" /\ TakeData(n, p)
    <3>1. p.src = Peer[n] /\ Sound(p) /\ IInv
      BY <1>3 DEF Takes, Inv, IInv, NetInv
    <3>2. PICK k \in Nat : Took(n, p, k)
      BY <2>2, <3>1, TakeDataTook
    <3> DEFINE len == Len(delivered[n])
               from == accepted[Peer[n]]
    <3>3. /\ delivered' \in [Node -> Seq(Nat)] /\ Len(delivered'[n]) = len + k
          /\ \A j \in 1 .. len : delivered'[n][j] = delivered[n][j]
          /\ \A m \in Node \ {n} : delivered'[m] = delivered[m]
      BY <3>2 DEF Took
    <3>4. /\ delivered \in [Node -> Seq(Nat)] /\ from \in Seq(Nat) /\ len \in Nat
          /\ Len(from) \in Nat
      <4>1. Peer[n] \in Node
        BY ConstantFacts
      <4>2. delivered \in [Node -> Seq(Nat)] /\ from \in Seq(Nat)
        BY <4>1 DEF Inv, IInv, ReceiverInv, SenderInv
      <4> QED BY <4>2
    <3>5. /\ len + k <= Len(from)
          /\ \A j \in 1 .. len + k : delivered'[n][j] = from[j]
      <4>1. InOrder'
        BY OrderedPrefix, PTL
      <4>2. /\ Len(delivered'[n]) <= Len(accepted'[Peer[n]])
            /\ \A j \in 1 .. Len(delivered'[n]) :
                   delivered'[n][j] = accepted'[Peer[n]][j]
        BY <4>1 DEF InOrder
      <4> QED BY <1>3, <3>3, <4>2
    <3>6. CASE k = 0
      <4>1. delivered'[n] = delivered[n]
        <5>1. PICK d, e : d = delivered[n] /\ e = delivered'[n]
          OBVIOUS
        <5>2. /\ d \in Seq(Nat) /\ e \in Seq(Nat) /\ Len(e) = Len(d)
              /\ \A j \in 1 .. Len(d) : e[j] = d[j]
          BY <3>3, <3>4, <3>6, <5>1
        <5> QED BY <5>1, <5>2, SameEntries, Zenon
      <4>2. delivered' = delivered
        BY <3>3, <3>4, <4>1
      <4> QED BY <1>3, <4>2 DEF OC!vars
    <3>7. CASE k > 0
      <4>1. delivered'[n] = SubSeq(from, 1, len + k)
        <5>1. PICK d, e : d = from /\ e = delivered'[n]
          OBVIOUS
        <5>2. /\ d \in Seq(Nat) /\ e \in Seq(Nat) /\ Len(e) = len + k /\ len + k <= Len(d)
              /\ \A j \in 1 .. len + k : e[j] = d[j]
          BY <3>3, <3>4, <3>5, <5>1
        <5>3. e = SubSeq(d, 1, len + k)
          <6> HIDE DEF len, from
          <6> QED BY <3>4, <5>2
        <5> QED BY <5>1, <5>3
      <4>2. len + k \in len + 1 .. Len(from)
        BY <3>4, <3>5, <3>7
      <4>3. delivered' = [delivered EXCEPT ![n] = SubSeq(from, 1, len + k)]
        BY <3>3, <3>4, <4>1
      <4>4. OC!Deliver(n)
        BY <1>3, <4>2, <4>3 DEF OC!Deliver
      <4> QED BY <4>4 DEF OC!Next
    <3> QED BY <3>6, <3>7
  <2> QED BY <1>3, <2>1, <2>2 DEF Takes
<1>4. IInv
  BY DEF Inv
<1> QED BY <1>1, <1>2, <1>3, <1>4, StepShape, AcceptStep

LEMMA InitOrder == ASSUME Init PROVE OrderInv
<1> SUFFICES ASSUME NEW n \in Node PROVE Placed(n) /\ NoncesSound(n)
  BY DEF OrderInv
<1>1. delivered[n] = <<>> /\ recv_slots[n] = {}
  BY DEF Init
<1>2. Frames(n) = {}
  BY DEF Init, Frames
<1> QED BY <1>1, <1>2 DEF Placed, NoncesSound

\* What InsertRecv and DrainInOrder hand to on_deliver is, place by place,
\* what the peer's Send accepted, however often the numbers have come round.
THEOREM DeliveredInOrder == Spec /\ []InCycle => []InOrder
<1>1. Init => OrderInv
  BY InitOrder
<1>2. Inv /\ OrderInv /\ InCycle /\ [Next]_vars => OrderInv'
  BY OrderStep
<1>3. Inv /\ OrderInv => InOrder
  BY OrderedPrefix
<1> QED BY <1>1, <1>2, <1>3, Invariance, PTL DEF Spec

\* Two Endpoints over a network that loses, repeats and reorders implement an
\* ordered channel: each step is an acceptance, a delivery or a stutter of it.
THEOREM ImplementsChannel == Spec /\ []InCycle => OrderedDelivery
<1>1. Init => OrderInv /\ OC!Init
  BY InitOrder DEF Init, OC!Init
<1>2. Inv /\ OrderInv /\ InCycle /\ [Next]_vars => OrderInv'
  BY OrderStep
<1>3. Inv /\ Inv' /\ OrderInv /\ OrderInv' /\ [Next]_vars => [OC!Next]_(OC!vars)
  BY ChannelStep
<1> QED BY <1>1, <1>2, <1>3, Invariance, PTL DEF Spec, OrderedDelivery, OC!Spec

-----------------------------------------------------------------------------
(* What is acknowledged is kept, while no endpoint runs further ahead of    *)
(* its peer than the receive window reaches                                *)

InWindow == \A n \in Node : attempts[n] - Len(delivered[Peer[n]]) <= RecvWindow

\* Acknowledgements name messages by their numbers alone.
NoReuse == \A n \in Node : MaxSend[n] < SeqMod

\* The messages an acknowledgement of endpoint n names are with n.
Backed(n, info) ==
    /\ info.ack = 0 => info.bits = {}
    /\ info.ack # 0 => Retained(n, info.ack)
    /\ \A d \in info.bits : Retained(n, info.ack - d)

\* newest_recv_seq_ is the last of the messages the endpoint has.
NewestSound(n) ==
    IF has_recv_seq[n]
    THEN /\ Retained(n, newest_recv_seq[n])
         /\ \A b \in Nat : Retained(n, b) => b <= newest_recv_seq[n]
    ELSE \A b \in Nat : ~ Retained(n, b)

KeptInv ==
    /\ \A n \in Node : NewestSound(n) /\ \A f \in Frames(n) : Backed(n, f.info)
    /\ AckedIsRetained

RetainedGrows == \A n \in Node, b \in Nat : Retained(n, b) => Retained(n, b)'

LEMMA RetainedNumber ==
    ASSUME NoReuse, IInv, NEW n \in Node, NEW b, Retained(n, b)
    PROVE  b \in Nat /\ b \in 1 .. SeqMod - 1
<1>1. b \in Nat /\ b >= 1 /\ b <= MaxSend[Peer[n]]
  BY RetainedRange
<1>2. MaxSend[Peer[n]] \in Nat /\ MaxSend[Peer[n]] < SeqMod /\ SeqMod \in Nat
  BY ConstantFacts DEF NoReuse
<1> QED BY <1>1, <1>2

\* BuildAckBits names messages of the reorder buffer alone.
LEMMA AckInfoBacked ==
    ASSUME NoReuse, IInv, KeptInv, NEW n \in Node
    PROVE  Backed(n, AckInfoOf(n))
<1> DEFINE new == newest_recv_seq[n]
<1>1. CASE ~ has_recv_seq[n]
  BY <1>1 DEF AckInfoOf, Backed
<1>2. CASE has_recv_seq[n]
  <2>1. Retained(n, new) /\ \A b \in Nat : Retained(n, b) => b <= new
    BY <1>2 DEF KeptInv, NewestSound
  <2>2. new \in Nat /\ new # 0
    BY <2>1, RetainedNumber
  <2>3. AckInfoOf(n) = [ack |-> new, bits |-> BuildAckBits(n)]
    BY <1>2 DEF AckInfoOf
  <2>4. ASSUME NEW d \in BuildAckBits(n) PROVE Retained(n, new - d)
    <3>1. PICK r \in recv_slots[n] : DistanceFrom(r.seq, new) = d
      BY <2>4 DEF BuildAckBits
    <3>2. Numbers(r.seq, r.body) /\ r.seq \in SeqNum /\ Retained(n, r.body)
      BY DEF IInv, ReceiverInv, RecvSlot, Retained
    <3>3. r.body \in Nat /\ r.body \in 0 .. SeqMod - 1
      BY <3>2, RetainedNumber
    <3>4. r.seq = r.body
      BY <3>2, <3>3, NumbersStraight
    <3>5. r.body <= new
      BY <2>1, <3>2, <3>3
    <3>6. d = new - r.body
      BY <2>2, <3>1, <3>3, <3>4, <3>5 DEF DistanceFrom
    <3>7. new - d = r.body
      BY <2>2, <3>3, <3>6
    <3> QED BY <3>2, <3>7
  <2> HIDE DEF new
  <2> QED BY <2>1, <2>2, <2>3, <2>4 DEF Backed
<1> QED BY <1>1, <1>2

\* A message an acknowledgement covers is one it names.
LEMMA CoveredRetained ==
    ASSUME NoReuse, IInv, NEW n \in Node, NEW info \in AckInfo,
           Backed(Peer[n], info), NEW i \in Covered(n, info)
    PROVE  Retained(Peer[n], send_slots[n][i].frame.body)
<1> DEFINE f == send_slots[n][i].frame
<1>1. Peer[n] \in Node /\ Peer[Peer[n]] = n
  BY ConstantFacts
<1>2. SlotSound(n, send_slots[n][i])
  BY DEF Covered, IInv, WindowInv
<1>3. f.seq \in SeqNum /\ Numbers(f.seq, f.body) /\ f.body \in Offered(n)
  BY <1>2 DEF SlotSound, Sound, Packet
<1>4. f.body \in Nat /\ f.body >= 1 /\ f.body <= MaxSend[n]
  BY <1>3, OfferedRange DEF IInv
<1>5. f.body \in 0 .. SeqMod - 1 /\ f.seq >= 1 /\ f.seq = f.body
  <2>1. MaxSend[n] \in Nat /\ MaxSend[n] < SeqMod /\ SeqMod \in Nat
    BY ConstantFacts DEF NoReuse
  <2>2. f.body \in 0 .. SeqMod - 1
    BY <1>4, <2>1
  <2>3. f.seq = f.body
    BY <1>3, <2>2, NumbersStraight
  <2> QED BY <1>4, <2>2, <2>3
<1>6. f.seq = info.ack \/ DistanceFrom(f.seq, info.ack) \in info.bits
  BY DEF Covered
<1>7. info.ack \in Nat /\ info.bits \subseteq Nat /\ info.ack < SeqMod /\ SeqMod \in Nat
  BY ConstantFacts DEF AckInfo, SeqNum
<1> HIDE DEF f
<1>8. CASE f.seq = info.ack
  <2>1. Retained(Peer[n], info.ack)
    BY <1>4, <1>5, <1>8 DEF Backed
  <2> QED BY <1>5, <1>8, <2>1 DEF f
<1>9. CASE DistanceFrom(f.seq, info.ack) \in info.bits
  <2>1. PICK d : d = DistanceFrom(f.seq, info.ack)
    OBVIOUS
  <2>2. Retained(Peer[n], info.ack - d)
    BY <1>9, <2>1 DEF Backed
  <2>3. info.ack - d \in Nat /\ info.ack - d >= 1
    BY <1>1, <2>2, RetainedNumber
  <2>4. info.ack - d = f.seq
    BY <1>4, <1>5, <1>7, <2>1, <2>3 DEF DistanceFrom
  <2>5. info.ack - d = f.body
    BY <1>5, <2>4
  <2>6. Retained(Peer[n], f.body)
    BY <2>2, <2>5, Zenon
  <2> QED BY <2>6 DEF f
<1> QED BY <1>6, <1>8, <1>9

\* A packet taken within the window is kept.
LEMMA TakenIsKept ==
    ASSUME InWindow, IInv, OrderInv, NEW n \in Node, NEW p \in net, Takes(n, p),
           p.kind = "data"
    PROVE  Retained(n, p.body)'
<1> DEFINE m == Peer[n]
           next == recv_next_seq[n]
           len == Len(delivered[n])
           new == [seq |-> p.seq, body |-> p.body]
<1>1. m \in Node /\ Peer[m] = n /\ p.src = m /\ TakeData(n, p)
  BY ConstantFacts DEF Takes
<1>2. Sound(p) /\ ~ Retained(n, p.body) /\ p.body \in Nat /\ p.body > len
  BY TakenIsNew
<1>3. p.seq \in SeqNum /\ Numbers(p.seq, p.body)
  BY <1>2 DEF Sound, Packet
<1>4. /\ next \in SeqNum /\ len \in Nat /\ Numbers(next, len + 1)
      /\ BufferSound(recv_slots[n], next) /\ recv_slots[n] \in SUBSET RecvSlot
      /\ \A r \in recv_slots[n] : Numbers(r.seq, r.body) /\ r.body \in Offered(m)
  BY DEF IInv, ReceiverInv
<1>5. attempts[m] \in Nat /\ attempts[m] - len <= RecvWindow
      /\ RecvWindow \in Nat /\ RecvWindow < SeqMod /\ SeqMod \in Nat
  <2>1. attempts[m] \in Nat /\ attempts[m] - len <= RecvWindow
    BY <1>1 DEF InWindow, IInv, SenderInv
  <2>2. RecvWindow \in Nat /\ RecvWindow < SeqMod /\ SeqMod \in Nat
    BY TransferAssumption, SeqModAssumption, ConstantFacts
  <2> QED BY <2>1, <2>2
<1>6. p.body <= attempts[m]
  <2>1. p \in Frames(m)
    BY <1>1 DEF Frames
  <2> QED BY <1>1, <2>1, DataRange
<1>7. ASSUME NEW s \in SeqNum, NEW b \in Nat, Numbers(s, b), b > len, b <= attempts[m]
      PROVE  DistanceFrom(next, s) = b - (len + 1) /\ b - (len + 1) \in 0 .. RecvWindow - 1
  <2>1. b - (len + 1) \in 0 .. RecvWindow - 1 /\ b - (len + 1) \in 0 .. SeqMod - 1
        /\ len + 1 \in Nat
    BY <1>4, <1>5, <1>7
  <2> HIDE DEF next, len, m
  <2> QED BY <1>4, <1>7, <2>1, NumbersDistance
<1>8. DistanceFrom(next, p.seq) = p.body - (len + 1)
      /\ SeqInWindow(p.seq, next, RecvWindow)
  <2>1. DistanceFrom(next, p.seq) = p.body - (len + 1)
        /\ p.body - (len + 1) \in 0 .. RecvWindow - 1
    BY <1>2, <1>3, <1>6, <1>7
  <2> QED BY <1>5, <2>1 DEF SeqInWindow
<1>9. ASSUME NEW r \in recv_slots[n] PROVE r.seq # p.seq
  <2>1. /\ r.seq \in SeqNum /\ r.body \in Nat /\ r.body > len /\ r.body <= attempts[m]
        /\ Numbers(r.seq, r.body)
    BY <1>1, <1>4, OfferedRange DEF RecvSlot, OrderInv, Placed, IInv
  <2>2. DistanceFrom(next, r.seq) = r.body - (len + 1)
    BY <1>7, <2>1
  <2>3. r.body # p.body
    BY <1>2 DEF Retained
  <2>4. r.body - (len + 1) # p.body - (len + 1)
    BY <1>2, <1>4, <2>1, <2>3
  <2> QED BY <1>8, <2>2, <2>4
<1>10. Cardinality(recv_slots[n]) < MaxQueue
  BY <1>4, RoomLeft
<1>11. new \in Inserted(n, p)
  BY <1>8, <1>9, <1>10 DEF Inserted
<1>12. \A r \in Inserted(n, p) : Retained(n, r.body)'
  BY <1>1, <1>2, TakeDataRetains
<1>13. PICK r \in Inserted(n, p) : r.body = p.body
  BY <1>11
<1> QED BY <1>12, <1>13

\* Comparisons within the window come out as the messages were sent.
LEMMA NewerNumber ==
    ASSUME NEW a \in 1 .. SeqMod - 1, NEW b \in 1 .. SeqMod - 1,
           a # b, a - b < RecvWindow, b - a <= RecvWindow
    PROVE  IsSeqLess(a, b) <=> a < b
<1>1. 2 * RecvWindow <= SeqMod /\ SeqMod \in Nat /\ RecvWindow \in Nat
  BY TransferAssumption, SeqModAssumption, ConstantFacts
<1>2. CASE a < b
  <2>1. DistanceFrom(b, a) = a - b + SeqMod
    BY <1>1, <1>2 DEF DistanceFrom
  <2> QED BY <1>1, <1>2, <2>1 DEF IsSeqLess
<1>3. CASE b < a
  <2>1. DistanceFrom(b, a) = a - b
    BY <1>1, <1>3 DEF DistanceFrom
  <2> QED BY <1>1, <1>3, <2>1 DEF IsSeqLess
<1> QED BY <1>1, <1>2, <1>3

LEMMA TakenNewest ==
    ASSUME NoReuse, InWindow, IInv, IInv', OrderInv, KeptInv, NEW n \in Node,
           NEW p \in net, Takes(n, p), p.kind = "data"
    PROVE  RetainedGrows /\ \A m \in Node : NewestSound(m)'
<1> DEFINE new == newest_recv_seq[n]
           len == Len(delivered[n])
<1>1. Peer[n] \in Node /\ Peer[Peer[n]] = n /\ p.src = Peer[n] /\ TakeData(n, p)
  BY ConstantFacts DEF Takes
<1>2. Sound(p) /\ ~ Retained(n, p.body) /\ p.body \in Nat /\ p.body > len
  BY TakenIsNew
<1>3. Retained(n, p.body)'
  BY TakenIsKept
<1>4. /\ \A m \in Node, b \in Nat : Retained(m, b) => Retained(m, b)'
      /\ \A m \in Node, b \in Nat :
             Retained(m, b)' => Retained(m, b) \/ (m = n /\ b = p.body)
  BY <1>1, <1>2, TakeDataRetains
<1>5. PICK k \in Nat : Took(n, p, k)
  BY <1>1, <1>2, TakeDataTook
<1>6. /\ newest_recv_seq'[n] = IF ~ has_recv_seq[n] \/ IsSeqLess(new, p.seq)
                               THEN p.seq ELSE new
      /\ has_recv_seq'[n] = TRUE
      /\ \A m \in Node \ {n} :
             /\ newest_recv_seq'[m] = newest_recv_seq[m]
             /\ has_recv_seq'[m] = has_recv_seq[m]
  BY <1>5 DEF Took
<1>7. /\ p.body <= attempts[Peer[n]] /\ p.body \in 1 .. SeqMod - 1 /\ p.seq = p.body
      /\ len \in Nat /\ attempts[Peer[n]] \in Nat
      /\ attempts[Peer[n]] - len <= RecvWindow
  <2>1. p \in Frames(Peer[n])
    BY <1>1 DEF Frames
  <2>2. p.body <= attempts[Peer[n]] /\ p.body >= 1 /\ p.body \in Offered(Peer[n])
    BY <1>1, <2>1, DataRange
  <2>3. p.body <= MaxSend[Peer[n]] /\ MaxSend[Peer[n]] < SeqMod
        /\ MaxSend[Peer[n]] \in Nat /\ SeqMod \in Nat
    BY <1>1, <2>2, OfferedRange, ConstantFacts DEF NoReuse, IInv
  <2>4. p.body \in 1 .. SeqMod - 1 /\ p.body \in 0 .. SeqMod - 1
    BY <1>2, <2>2, <2>3
  <2>5. p.seq = p.body
    BY <1>2, <2>4, NumbersStraight DEF Sound, Packet
  <2>6. len \in Nat /\ attempts[Peer[n]] \in Nat /\ attempts[Peer[n]] - len <= RecvWindow
    <3>1. PICK m \in Node : m = Peer[n] /\ Peer[m] = n
      BY <1>1
    <3>2. attempts[m] - Len(delivered[Peer[m]]) <= RecvWindow
      BY DEF InWindow
    <3>3. len \in Nat /\ attempts[m] \in Nat
      BY DEF IInv, ReceiverInv, SenderInv
    <3> QED BY <3>1, <3>2, <3>3
  <2> QED BY <2>2, <2>4, <2>5, <2>6
<1>8. ASSUME has_recv_seq[n]
      PROVE  /\ Retained(n, new) /\ new \in 1 .. SeqMod - 1 /\ new \in Nat
             /\ \A b \in Nat : Retained(n, b) => b <= new
             /\ IsSeqLess(new, p.seq) <=> new < p.body
  <2>1. Retained(n, new) /\ \A b \in Nat : Retained(n, b) => b <= new
    BY <1>8 DEF KeptInv, NewestSound
  <2>2. new \in 1 .. SeqMod - 1 /\ new \in Nat /\ new <= attempts[Peer[n]]
    BY <2>1, RetainedNumber, RetainedRange
  <2>3. new >= len
    <3>1. CASE len = 0
      BY <2>2, <3>1
    <3>2. CASE len # 0
      <4>1. len \in 1 .. Len(delivered[n]) /\ DOMAIN delivered[n] = 1 .. len
        BY <1>7, <3>2 DEF IInv, ReceiverInv
      <4>2. delivered[n][len] = len
        BY <4>1 DEF OrderInv, Placed
      <4>3. Retained(n, len)
        BY <4>1, <4>2 DEF Retained
      <4> QED BY <1>7, <2>1, <4>3
    <3> QED BY <3>1, <3>2
  <2>4. new # p.body
    BY <1>2, <2>1
  <2>5. RecvWindow \in Nat
    BY ConstantFacts
  <2>6. new - p.body < RecvWindow /\ p.body - new <= RecvWindow
    BY <1>2, <1>7, <2>2, <2>3, <2>5
  <2> HIDE DEF new
  <2>7. IsSeqLess(new, p.body) <=> new < p.body
    BY <1>7, <2>2, <2>4, <2>6, NewerNumber
  <2> QED BY <1>7, <2>1, <2>2, <2>7
<1> HIDE DEF new, len
<1>9. PICK top \in Nat :
          /\ top = newest_recv_seq'[n]
          /\ top = p.body \/ Retained(n, top)
          /\ p.body <= top /\ \A b \in Nat : Retained(n, b) => b <= top
  <2>1. CASE ~ has_recv_seq[n]
    <3>1. \A b \in Nat : ~ Retained(n, b)
      BY <2>1 DEF KeptInv, NewestSound
    <3> QED BY <1>2, <1>6, <1>7, <2>1, <3>1
  <2>2. CASE has_recv_seq[n]
    <3>1. /\ Retained(n, new) /\ new \in Nat
          /\ \A b \in Nat : Retained(n, b) => b <= new
          /\ IsSeqLess(new, p.seq) <=> new < p.body
      BY <1>8, <2>2
    <3>2. CASE new < p.body
      <4>1. newest_recv_seq'[n] = p.body
        BY <1>6, <1>7, <3>1, <3>2
      <4> QED BY <1>2, <3>1, <3>2, <4>1
    <3>3. CASE ~ new < p.body
      <4>1. newest_recv_seq'[n] = new
        BY <1>6, <2>2, <3>1, <3>3
      <4> QED BY <1>2, <3>1, <3>3, <4>1
    <3> QED BY <3>2, <3>3
  <2> QED BY <2>1, <2>2
<1>10. NewestSound(n)'
  <2>1. Retained(n, top)'
    <3>1. CASE top = p.body
      BY <1>3, <3>1 DEF Retained
    <3> QED BY <1>4, <1>9, <3>1
  <2>2. Retained(n, newest_recv_seq[n])'
    BY <1>9, <2>1 DEF Retained
  <2>3. \A b \in Nat : Retained(n, b)' => b <= top
    BY <1>4, <1>9
  <2> QED BY <1>6, <1>9, <2>2, <2>3 DEF NewestSound
<1>11. ASSUME NEW m \in Node, m # n PROVE NewestSound(m)'
  <2>1. \A b : Retained(m, b)' <=> Retained(m, b)
    BY <1>5, <1>11 DEF Took, Retained
  <2>2. PICK b : b = newest_recv_seq[m]
    OBVIOUS
  <2>3. newest_recv_seq'[m] = b /\ has_recv_seq'[m] = has_recv_seq[m]
    BY <1>6, <1>11, <2>2
  <2>4. NewestSound(m)
    BY DEF KeptInv
  <2>5. CASE has_recv_seq[m]
    <3>1. Retained(m, b) /\ \A c \in Nat : Retained(m, c) => c <= b
      BY <2>2, <2>4, <2>5 DEF NewestSound
    <3>2. Retained(m, b)' /\ \A c \in Nat : Retained(m, c)' => c <= b
      BY <2>1, <3>1
    <3>3. Retained(m, newest_recv_seq[m])'
      BY <2>3, <3>2 DEF Retained
    <3> QED BY <2>3, <2>5, <3>2, <3>3 DEF NewestSound
  <2>6. CASE ~ has_recv_seq[m]
    BY <2>1, <2>3, <2>4, <2>6 DEF NewestSound
  <2> QED BY <2>5, <2>6
<1> QED BY <1>4, <1>10, <1>11 DEF RetainedGrows

LEMMA FramesBacked ==
    ASSUME NoReuse, IInv, KeptInv, FramesCome, RetainedGrows
    PROVE  \A n \in Node : \A f \in Frames(n)' : Backed(n, f.info)'
<1>1. ASSUME NEW n \in Node, NEW info, Backed(n, info) PROVE Backed(n, info)'
  <2>1. \A b : Retained(n, b) => b \in Nat
    BY RetainedNumber
  <2> QED BY <1>1, <2>1 DEF Backed, RetainedGrows
<1>2. ASSUME NEW n \in Node, NEW f \in Frames(n)' PROVE Backed(n, f.info)'
  <2>1. PICK info : info = f.info
    OBVIOUS
  <2>2. Backed(n, info)
    <3>1. CASE Fresh(n, f)
      BY <2>1, <3>1, AckInfoBacked DEF Fresh
    <3>2. ASSUME NEW g \in Frames(n), Same(f, g) PROVE Backed(n, info)
      BY <2>1, <3>2 DEF KeptInv, Same
    <3> QED BY <1>2, <3>1, <3>2 DEF FramesCome
  <2>3. Backed(n, info)'
    BY <1>1, <2>2
  <2> QED BY <2>1, <2>3
<1> QED BY <1>2

LEMMA KeptStep ==
    ASSUME NoReuse, InWindow, Inv, Inv', OrderInv, KeptInv, [Next]_vars
    PROVE  KeptInv'
<1>1. IInv /\ IInv'
  BY DEF Inv
<1>2. FramesCome /\ (TakesNone \/ \E n \in Node : \E p \in net : Takes(n, p))
  BY <1>1, StepShape
<1>3. ASSUME UNCHANGED receiver
      PROVE  RetainedGrows /\ \A m \in Node : NewestSound(m)'
  <2>1. \A m \in Node : \A b : Retained(m, b)' <=> Retained(m, b)
    BY <1>3 DEF Retained, receiver
  <2>2. ASSUME NEW m \in Node PROVE NewestSound(m)'
    BY <1>3, <2>1 DEF KeptInv, NewestSound, Retained, receiver
  <2> QED BY <2>1, <2>2 DEF RetainedGrows
<1>4. ASSUME RetainedGrows, NEW m \in Node, NEW b, Retained(Peer[m], b)
      PROVE  Retained(Peer[m], b)'
  BY <1>1, <1>4, RetainedRange, ConstantFacts DEF RetainedGrows
<1>5. CASE TakesNone
  <2>1. RetainedGrows /\ \A m \in Node : NewestSound(m)'
    BY <1>3, <1>5 DEF TakesNone
  <2>2. AckedIsRetained'
    BY <1>4, <1>5, <2>1 DEF KeptInv, AckedIsRetained, TakesNone
  <2> QED BY <1>1, <1>2, <2>1, <2>2, FramesBacked DEF KeptInv
<1>6. ASSUME NEW n \in Node, NEW p \in net, Takes(n, p) PROVE KeptInv'
  <2>1. RetainedGrows /\ \A m \in Node : NewestSound(m)'
    <3>1. CASE p.kind = "data"
      BY <1>1, <1>6, <3>1, TakenNewest
    <3> QED BY <1>3, <1>6, <3>1 DEF Takes
  <2>2. Backed(Peer[n], p.info) /\ p.info \in AckInfo
    <3>1. p \in Frames(Peer[n]) /\ Peer[n] \in Node
      BY <1>6, ConstantFacts DEF Takes, Frames
    <3> QED BY <1>1, <3>1, FrameSound DEF KeptInv, Packet
  <2>3. ASSUME NEW m \in Node, NEW b \in acked'[m] PROVE Retained(Peer[m], b)'
    <3>1. CASE b \in acked[m]
      BY <1>4, <2>1, <3>1 DEF KeptInv, AckedIsRetained
    <3>2. ASSUME m = n, NEW i \in Covered(n, p.info), b = send_slots[n][i].frame.body
          PROVE  Retained(Peer[m], b)
      BY <1>1, <2>2, <3>2, CoveredRetained
    <3> QED BY <1>4, <1>6, <2>1, <2>3, <3>1, <3>2 DEF Takes
  <2> QED BY <1>1, <1>2, <2>1, <2>3, FramesBacked DEF KeptInv, AckedIsRetained
<1> QED BY <1>2, <1>5, <1>6

LEMMA InitKept == ASSUME Init PROVE KeptInv
<1>1. ASSUME NEW n \in Node PROVE NewestSound(n) /\ Frames(n) = {} /\ acked[n] = {}
  <2>1. delivered[n] = <<>> /\ recv_slots[n] = {} /\ has_recv_seq[n] = FALSE
    BY DEF Init
  <2>2. \A b : ~ Retained(n, b)
    BY <2>1 DEF Retained
  <2> QED BY <2>1, <2>2 DEF Init, NewestSound, Frames
<1> QED BY <1>1 DEF KeptInv, AckedIsRetained

LEMMA WindowInCycle == ASSUME Inv, InWindow PROVE InCycle
<1>1. RecvWindow <= SeqMod /\ RecvWindow \in Nat /\ SeqMod \in Nat
  BY TransferAssumption, SeqModAssumption, ConstantFacts
<1>2. ASSUME NEW n \in Node PROVE attempts[n] - Len(delivered[Peer[n]]) <= SeqMod
  <2>1. attempts[n] \in Nat /\ Len(delivered[Peer[n]]) \in Nat
    BY ConstantFacts DEF Inv, IInv, SenderInv, ReceiverInv
  <2>2. attempts[n] - Len(delivered[Peer[n]]) <= RecvWindow
    BY DEF InWindow
  <2> QED BY <1>1, <2>1, <2>2
<1> QED BY <1>2 DEF InCycle

\* A message that HandleAck releases is with the receiver for good, in whatever
\* order acknowledgements arrive.  InWindow is what the code does not see to:
\* newest_recv_seq_ moves up to a number InsertRecv refused, and only a number
\* past the window is refused.
THEOREM AcknowledgedKept ==
    ASSUME NoReuse
    PROVE  Spec /\ []InWindow => []AckedIsRetained
<1>1. Init => OrderInv /\ KeptInv
  BY InitOrder, InitKept
<1>2. Inv /\ Inv' /\ InWindow /\ OrderInv /\ KeptInv /\ [Next]_vars => OrderInv' /\ KeptInv'
  BY WindowInCycle, OrderStep, KeptStep
<1>3. KeptInv => AckedIsRetained
  BY DEF KeptInv
<1> QED BY <1>1, <1>2, <1>3, Invariance, PTL DEF Spec

-----------------------------------------------------------------------------
(* Retransmissions that can still help *)

\* tx_nonce_counter_ stays short of the wrap.
NoncesLeft == \A n \in Node : tx_nonce_counter[n] + 1 < NonceMod

\* No queued message has been overtaken by as many nonces as the peer tracks.
InReach ==
    \A n \in Node : \A i \in DOMAIN send_slots[n] :
        tx_nonce_counter[n] - send_slots[n][i].frame.nonce < ReplayBits

\* The bit of nonce x is set.
Tracked(w, x) == w.max # 0 /\ x <= w.max /\ (w.max - x) \in w.bits

\* Nonces of endpoint n are fresh, tell its frames apart, and are set in the
\* peer's window only for messages the peer has.
UsefulSound(n, w) ==
    /\ w.max <= tx_nonce_counter[n]
    /\ \A f \in Frames(n) : f.nonce <= tx_nonce_counter[n]
    /\ \A f \in Frames(n) : \A g \in Frames(n) :
           f.nonce = g.nonce => f.kind = g.kind /\ f.body = g.body
    /\ \A f \in Frames(n) :
           f.kind = "data" /\ Tracked(w, f.nonce) => Retained(Peer[n], f.body)

UsefulInv == \A n \in Node : UsefulSound(n, rx_replay[Peer[n]])

LEMMA TrackSetsOne ==
    ASSUME NEW w \in Window, NEW x \in Nat, NEW y \in Nat, y # 0, Accepts(w, y)
    PROVE  /\ Track(w, y).max \in {w.max, y}
           /\ Tracked(Track(w, y), x) => Tracked(w, x) \/ x = y
<1>1. w.max \in Nat /\ w.bits \in SUBSET (0 .. ReplayBits - 1) /\ ReplayBits \in Nat
  BY ConstantFacts DEF Window
<1>2. CASE w.max = 0
  BY <1>1, <1>2 DEF Track, Tracked
<1>3. CASE w.max # 0 /\ y > w.max
  <2> DEFINE d == y - w.max
  <2>1. Track(w, y) = [max |-> y, bits |-> ShiftLeft(w.bits, d) \cup {0}]
    BY <1>3 DEF Track
  <2>2. ASSUME NEW b \in w.bits, y - x = b + d PROVE w.max - x = b
    BY <1>1, <1>3, <2>2
  <2>3. ASSUME Tracked(Track(w, y), x), x # y PROVE Tracked(w, x)
    <3>1. (y - x) \in ShiftLeft(w.bits, d)
      BY <1>1, <2>1, <2>3 DEF Tracked
    <3>2. PICK b \in w.bits : y - x = b + d
      BY <3>1 DEF ShiftLeft
    <3>3. w.max - x = b
      BY <2>2, <3>2
    <3> QED BY <1>1, <1>3, <3>3 DEF Tracked
  <2> QED BY <2>1, <2>3
<1>4. CASE w.max # 0 /\ ~ y > w.max
  <2>1. Track(w, y).max = w.max /\ Track(w, y).bits = w.bits \cup {w.max - y}
    BY <1>4 DEF Track, Window
  <2> QED BY <1>1, <2>1 DEF Tracked
<1> QED BY <1>2, <1>3, <1>4

\* A nonce within reach is refused because its bit is set.
LEMMA RefusedTracked ==
    ASSUME NEW w \in Window, NEW x \in Nat, w.max - x < ReplayBits, ~ Accepts(w, x)
    PROVE  Tracked(w, x)
BY ConstantFacts DEF Window, Accepts, Tracked

LEMMA NonceRange ==
    ASSUME IInv, NoncesLeft, NEW n \in Node
    PROVE  /\ tx_nonce_counter[n] \in Nat /\ NextNonce(n) = tx_nonce_counter[n] + 1
           /\ rx_replay[n] \in Window /\ rx_replay[n].max \in Nat
           /\ \A f \in Frames(n) : f.nonce \in Nat
<1>1. tx_nonce_counter[n] \in 0 .. NonceMod - 1 /\ NonceMod \in Nat /\ rx_replay[n] \in Window
  BY TransferAssumption DEF IInv, RestInv
<1>2. NextNonce(n) = tx_nonce_counter[n] + 1
  BY DEF NoncesLeft, NextNonce
<1>3. \A f \in Frames(n) : f.nonce \in 0 .. NonceMod - 1
  BY FrameSound DEF Packet
<1> QED BY <1>1, <1>2, <1>3 DEF Window

LEMMA NoneTakenUseful ==
    ASSUME IInv, NoncesLeft, UsefulInv, FramesCome, TakesNone
    PROVE  UsefulInv'
<1> SUFFICES ASSUME NEW n \in Node PROVE UsefulSound(n, rx_replay[Peer[n]])'
  BY DEF UsefulInv
<1> DEFINE count == tx_nonce_counter[n]
           new == tx_nonce_counter'[n]
<1>1. PICK m \in Node : m = Peer[n]
  BY ConstantFacts
<1>2. PICK w : w = rx_replay[m]
  OBVIOUS
<1>3. UsefulSound(n, w) /\ rx_replay'[m] = w
  BY <1>1, <1>2 DEF UsefulInv, TakesNone
<1>4. /\ count \in Nat /\ NextNonce(n) = count + 1 /\ new \in {count, count + 1}
      /\ w.max \in Nat /\ \A f \in Frames(n) : f.nonce \in Nat
  BY <1>2, NonceRange DEF TakesNone
<1>5. ASSUME NEW f \in Frames(n)'
      PROVE  \/ Fresh(n, f) /\ f.nonce = count + 1 /\ new = count + 1
             \/ \E g \in Frames(n) : Same(f, g)
  BY <1>4, <1>5 DEF FramesCome, Fresh
<1>6. ASSUME NEW f \in Frames(n)', NEW g \in Frames(n), Same(f, g)
      PROVE  f.nonce = g.nonce /\ f.nonce \in Nat /\ f.nonce <= count
             /\ f.kind = g.kind /\ f.body = g.body
  BY <1>3, <1>4, <1>6 DEF UsefulSound, Same
<1>7. ASSUME NEW f \in Frames(n)' PROVE f.nonce <= new
  BY <1>4, <1>5, <1>6
<1>8. ASSUME NEW f \in Frames(n)', NEW h \in Frames(n)', f.nonce = h.nonce
      PROVE  f.kind = h.kind /\ f.body = h.body
  <2>1. CASE Fresh(n, f) /\ f.nonce = count + 1
    <3>1. \A g \in Frames(n) : ~ Same(h, g)
      <4> SUFFICES ASSUME NEW g \in Frames(n), Same(h, g) PROVE FALSE
        OBVIOUS
      <4>1. h.nonce \in Nat /\ h.nonce <= count
        BY <1>6
      <4> QED BY <1>4, <1>8, <2>1, <4>1
    <3>2. Fresh(n, h)
      BY <1>5, <3>1
    <3> QED BY <2>1, <3>2 DEF Fresh
  <2>2. ASSUME NEW e \in Frames(n), Same(f, e) PROVE f.kind = h.kind /\ f.body = h.body
    <3>1. PICK g \in Frames(n) : Same(h, g)
      BY <1>4, <1>5, <1>6, <1>8, <2>2
    <3>2. e.nonce = g.nonce
      BY <1>6, <1>8, <2>2, <3>1
    <3>3. e.kind = g.kind /\ e.body = g.body
      BY <1>3, <3>2 DEF UsefulSound
    <3> QED BY <1>6, <2>2, <3>1, <3>3
  <2> QED BY <1>5, <2>1, <2>2
<1>9. ASSUME NEW f \in Frames(n)', f.kind = "data", Tracked(w, f.nonce)
      PROVE  Retained(m, f.body)'
  <2>1. f.nonce <= count
    <3>1. f.nonce \in Nat
      BY <1>4, <1>5, <1>6
    <3> QED BY <1>3, <1>4, <1>9, <3>1 DEF UsefulSound, Tracked
  <2>2. PICK g \in Frames(n) : Same(f, g)
    BY <1>4, <1>5, <2>1
  <2>3. Retained(m, g.body) /\ f.body = g.body
    BY <1>1, <1>3, <1>6, <1>9, <2>2 DEF UsefulSound
  <2>4. PICK b : b = g.body
    OBVIOUS
  <2>5. Retained(m, b)'
    BY <2>3, <2>4 DEF Retained, TakesNone, receiver
  <2> QED BY <2>3, <2>4, <2>5
<1>10. w.max <= new
  BY <1>3, <1>4 DEF UsefulSound
<1>11. UsefulSound(n, w)'
  BY <1>1, <1>7, <1>8, <1>9, <1>10 DEF UsefulSound
<1> QED BY <1>1, <1>3, <1>11 DEF UsefulSound

LEMMA TakenUseful ==
    ASSUME IInv, InWindow, NoncesLeft, OrderInv, UsefulInv, FramesCome,
           NEW q \in Node, NEW p \in net, Takes(q, p)
    PROVE  UsefulInv'
<1> SUFFICES ASSUME NEW n \in Node PROVE UsefulSound(n, rx_replay[Peer[n]])'
  BY DEF UsefulInv
<1> DEFINE count == tx_nonce_counter[n]
<1>1. PICK m \in Node : m = Peer[n] /\ Peer[m] = n
  BY ConstantFacts
<1>2. PICK w : w = rx_replay[m]
  OBVIOUS
<1>3. UsefulSound(n, w)
  BY <1>1, <1>2 DEF UsefulInv
<1>4. /\ count \in Nat /\ NextNonce(n) = count + 1 /\ tx_nonce_counter'[n] = count
      /\ w \in Window /\ w.max \in Nat /\ \A f \in Frames(n) : f.nonce \in Nat
  BY <1>2, NonceRange DEF Takes
<1>5. ASSUME NEW f \in Frames(n)'
      PROVE  \E g \in Frames(n) : Same(f, g)
  BY <1>4, <1>5 DEF FramesCome, Fresh
<1>6. ASSUME NEW f \in Frames(n)', NEW g \in Frames(n), Same(f, g)
      PROVE  f.nonce = g.nonce /\ f.nonce \in Nat /\ f.nonce <= count
             /\ f.kind = g.kind /\ f.body = g.body
  BY <1>3, <1>4, <1>6 DEF UsefulSound, Same
<1>7. \A f \in Frames(n)' : f.nonce <= count
  BY <1>5, <1>6
<1>8. ASSUME NEW f \in Frames(n)', NEW h \in Frames(n)', f.nonce = h.nonce
      PROVE  f.kind = h.kind /\ f.body = h.body
  <2>1. PICK e \in Frames(n) : Same(f, e)
    BY <1>5
  <2>2. PICK g \in Frames(n) : Same(h, g)
    BY <1>5
  <2>3. e.nonce = g.nonce
    BY <1>6, <1>8, <2>1, <2>2
  <2>4. e.kind = g.kind /\ e.body = g.body
    BY <1>3, <2>3 DEF UsefulSound
  <2> QED BY <1>6, <2>1, <2>2, <2>4
<1>9. /\ p.nonce \in Nat /\ p.nonce # 0 /\ p.src = Peer[q] /\ Sound(p)
      /\ Accepts(rx_replay[q], p.nonce)
      /\ rx_replay'[q] = Track(rx_replay[q], p.nonce)
      /\ rx_replay'[Peer[q]] = rx_replay[Peer[q]]
  BY DEF Takes, IInv, NetInv, Sound, Packet
<1>10. ASSUME NEW b \in Nat, Retained(m, b) PROVE Retained(m, b)'
  <2>1. CASE p.kind = "data"
    <3>1. TakeData(q, p)
      BY <2>1 DEF Takes
    <3> QED BY <1>9, <1>10, <2>1, <3>1, TakeDataRetains
  <2>2. CASE p.kind # "data"
    BY <1>10, <2>2 DEF Takes, Retained, receiver
  <2> QED BY <2>1, <2>2
<1>11. PICK v : v = rx_replay'[m]
  OBVIOUS
<1>12. ASSUME NEW f \in Frames(n)', f.kind = "data",
              v.max = w.max \/ v.max <= count,
              Tracked(v, f.nonce) => Tracked(w, f.nonce)
       PROVE  Tracked(v, f.nonce) => Retained(m, f.body)'
  <2>1. PICK g \in Frames(n) : Same(f, g)
    BY <1>5
  <2>2. g.kind = "data" /\ g.nonce = f.nonce /\ g.body = f.body /\ g.body \in Nat
    BY <1>6, <1>12, <2>1, DataRange
  <2>3. PICK b \in Nat : b = f.body
    BY <2>2
  <2>4. Tracked(v, f.nonce) => Retained(m, b)
    BY <1>1, <1>3, <1>12, <2>2, <2>3 DEF UsefulSound
  <2>5. Tracked(v, f.nonce) => Retained(m, b)'
    BY <1>10, <2>4
  <2> QED BY <2>3, <2>5
<1>13. /\ v.max <= count
       /\ \A f \in Frames(n)' :
              f.kind = "data" /\ Tracked(v, f.nonce) => Retained(m, f.body)'
  <2>1. CASE q # m
    <3>1. v = w
      BY <1>1, <1>2, <1>9, <1>11, <2>1 DEF Node, Peer
    <3> QED BY <1>3, <1>12, <3>1 DEF UsefulSound
  <2>2. CASE q = m
    <3>1. p \in Frames(n) /\ p.nonce <= count
      BY <1>1, <1>3, <1>9, <2>2 DEF Frames, UsefulSound
    <3>2. v = Track(w, p.nonce) /\ Accepts(w, p.nonce)
      BY <1>2, <1>9, <1>11, <2>2
    <3>3. v.max <= count
      <4>1. v.max \in {w.max, p.nonce}
        BY <1>4, <1>9, <3>2, TrackSetsOne
      <4> QED BY <1>3, <3>1, <4>1 DEF UsefulSound
    <3>4. ASSUME NEW f \in Frames(n)', f.kind = "data", Tracked(v, f.nonce)
          PROVE  Retained(m, f.body)'
      <4>1. f.nonce \in Nat
        BY <1>5, <1>6
      <4>2. Tracked(w, f.nonce) \/ f.nonce = p.nonce
        BY <1>4, <1>9, <3>2, <3>4, <4>1, TrackSetsOne
      <4>3. CASE Tracked(w, f.nonce)
        BY <1>12, <3>3, <3>4, <4>3
      <4>4. CASE f.nonce = p.nonce
        <5>1. PICK g \in Frames(n) : Same(f, g)
          BY <1>5
        <5>2. p.kind = "data" /\ p.body = f.body
          BY <1>3, <1>6, <3>1, <3>4, <4>4, <5>1 DEF UsefulSound
        <5>3. Retained(m, p.body)'
          BY <2>2, <5>2, TakenIsKept
        <5>4. PICK b : b = p.body
          OBVIOUS
        <5>5. Retained(m, b)'
          BY <5>3, <5>4
        <5> QED BY <5>2, <5>4, <5>5
      <4> QED BY <4>2, <4>3, <4>4
    <3> QED BY <3>3, <3>4
  <2> QED BY <2>1, <2>2
<1>14. UsefulSound(n, v)'
  BY <1>1, <1>4, <1>7, <1>8, <1>13 DEF UsefulSound
<1> QED BY <1>1, <1>11, <1>14 DEF UsefulSound

LEMMA InitUseful == ASSUME Init PROVE UsefulInv
<1>1. ASSUME NEW n \in Node
      PROVE  Frames(n) = {} /\ rx_replay[n].max = 0 /\ tx_nonce_counter[n] \in Nat
  BY <1>1, TransferAssumption DEF Init, Frames, FreshWindow
<1> QED BY <1>1, ConstantFacts DEF UsefulInv, UsefulSound

LEMMA UsefulWithinReach ==
    ASSUME IInv, NoncesLeft, UsefulInv, InReach PROVE RetransmitUseful
<1> SUFFICES ASSUME NEW n \in Node, NEW i \in DOMAIN send_slots[n],
                    ~ Accepts(rx_replay[Peer[n]], send_slots[n][i].frame.nonce)
             PROVE  Retained(Peer[n], send_slots[n][i].frame.body)
  BY DEF RetransmitUseful
<1> DEFINE f == send_slots[n][i].frame
           w == rx_replay[Peer[n]]
<1>1. f \in Frames(n) /\ f.kind = "data" /\ f.nonce \in Nat
  BY NonceRange DEF Frames, IInv, WindowInv, SlotSound
<1>2. w \in Window /\ w.max \in Nat /\ w.max <= tx_nonce_counter[n]
  BY NonceRange, ConstantFacts DEF UsefulInv, UsefulSound
<1>3. tx_nonce_counter[n] \in Nat /\ tx_nonce_counter[n] - f.nonce < ReplayBits
  BY NonceRange DEF InReach
<1>4. w.max - f.nonce < ReplayBits
  BY <1>1, <1>2, <1>3, ConstantFacts
<1>5. Tracked(w, f.nonce)
  BY <1>1, <1>2, <1>4, RefusedTracked
<1> QED BY <1>1, <1>5 DEF UsefulInv, UsefulSound

\* A queued message is worth sending again as long as the peer's replay window
\* still reaches back to its nonce.  tx_nonce_counter_ moves on with every
\* acknowledgement sent, and nothing in the code keeps a queued frame in reach.
THEOREM ResendingHelps ==
    Spec /\ []InWindow /\ []NoncesLeft => [](InReach => RetransmitUseful)
<1>1. Init => OrderInv /\ UsefulInv
  BY InitOrder, InitUseful
<1>2. Inv /\ Inv' /\ InWindow /\ NoncesLeft /\ OrderInv /\ UsefulInv /\ [Next]_vars
        => OrderInv' /\ UsefulInv'
  <2> SUFFICES ASSUME Inv, Inv', InWindow, NoncesLeft, OrderInv, UsefulInv, [Next]_vars
               PROVE  OrderInv' /\ UsefulInv'
    OBVIOUS
  <2>1. OrderInv'
    BY WindowInCycle, OrderStep
  <2>2. FramesCome /\ (TakesNone \/ \E n \in Node : \E p \in net : Takes(n, p))
    BY StepShape DEF Inv
  <2>3. UsefulInv'
    BY <2>2, NoneTakenUseful, TakenUseful DEF Inv
  <2> QED BY <2>1, <2>3
<1>3. Inv /\ NoncesLeft /\ UsefulInv => (InReach => RetransmitUseful)
  BY UsefulWithinReach DEF Inv
<1> QED BY <1>1, <1>2, <1>3, Invariance, PTL DEF Spec

-----------------------------------------------------------------------------
(* Short transfers stay within the window by themselves *)

LEMMA AheadShort ==
    ASSUME Inv, NEW n \in Node
    PROVE  /\ MaxSend[n] \in Nat
           /\ attempts[n] - Len(delivered[Peer[n]]) \in Int
           /\ attempts[n] - Len(delivered[Peer[n]]) <= MaxSend[n]
<1>1. attempts[n] \in Nat /\ attempts[n] <= MaxSend[n] /\ Len(delivered[Peer[n]]) \in Nat
  BY ConstantFacts DEF Inv, IInv, SenderInv, ReceiverInv
<1>2. MaxSend[n] \in Nat
  BY ConstantFacts
<1> QED BY <1>1, <1>2

\* Sessions of up to SeqMod messages each way are ordered channels.
THEOREM FirstCycleInOrder ==
    ASSUME \A n \in Node : MaxSend[n] <= SeqMod
    PROVE  Spec => []InOrder /\ OrderedDelivery
<1>1. Inv => InCycle
  <2>1. SeqMod \in Nat
    BY ConstantFacts
  <2> QED BY <2>1, AheadShort DEF InCycle
<1> QED BY <1>1, Invariance, DeliveredInOrder, ImplementsChannel, PTL

\* Of up to RecvWindow messages each way, none is released before the peer has it.
THEOREM FirstWindowKept ==
    ASSUME \A n \in Node : MaxSend[n] <= RecvWindow
    PROVE  Spec => []AckedIsRetained
<1>1. RecvWindow \in Nat /\ SeqMod \in Nat /\ RecvWindow < SeqMod
  BY TransferAssumption, SeqModAssumption, ConstantFacts
<1>2. Inv => InWindow
  BY <1>1, AheadShort DEF InWindow
<1>3. NoReuse
  BY <1>1, ConstantFacts DEF NoReuse
<1>4. Spec /\ []InWindow => []AckedIsRetained
  BY <1>3, AcknowledgedKept
<1> QED BY <1>2, <1>4, Invariance, PTL
=============================================================================
