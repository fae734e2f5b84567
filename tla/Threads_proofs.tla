--------------------------- MODULE Threads_proofs ----------------------------
(***************************************************************************)
(* Proofs about Threads, for any number of threads, slots and messages:    *)
(* what a thread has in hand when it left the critical section does no     *)
(* harm to the queue, and each message the drain passes over is given to   *)
(* exactly one callback.                                                   *)
(***************************************************************************)
EXTENDS Threads, FiniteSetTheorems, SequenceTheorems, WellFoundedInduction, TLAPS

SlotType == [used : BOOLEAN, seq : Seqs \cup {0}, ever_sent : BOOLEAN,
             retries : 0 .. MaxRetransmits]

TxType == [slots : [Slot -> SlotType], pending : 0 .. SendWindow,
           next : 1 .. Sends + 1, budget : 0 .. MaxBudget]

ConnType == [state : {"connecting", "connected", "timedout"},
             retries : 0 .. MaxConnectRetries, rx_after_now : BOOLEAN]

RxType == [seen : SUBSET PeerSeqs, slots : SUBSET PeerSeqs,
           next : 1 .. PeerSends + 1, newest : 0 .. PeerSends, dirty : BOOLEAN]

InUse(txs) == {i \in Slot : txs.slots[i].used}

\* The queue, when send_raw has taken the messages taken: its count is exact
\* and what is marked has been sent.
TxOK(txs, taken) ==
    /\ txs \in TxType
    /\ txs.pending = Cardinality(InUse(txs))
    /\ \A i \in InUse(txs) :
           /\ txs.slots[i].seq \in Seqs
           /\ txs.slots[i].ever_sent => txs.slots[i].seq \in taken

\* A frame that send_raw will report sent has been sent; a thread that drains
\* came with a message.
PlaceOK(p, taken) ==
    /\ p \in Place
    /\ p.ok /\ p.frame.kind = "data" => p.frame.seq \in taken
    /\ p.pc \in {"drain", "callback"} => p.packet.kind = "data"

DrainOK ==
    /\ IsFiniteSet(InCallback)
    /\ DrainedOnce
    /\ \A r, q \in InCallback :
           at[r].packet.seq = at[q].packet.seq => r = q
    /\ \A r \in InCallback, k \in 1 .. Len(delivered) :
           delivered[k] # at[r].packet.seq

StateOK ==
    /\ lock \in Thread \cup {Nobody}
    /\ at \in [Thread -> Place]
    /\ \A t \in Thread : PlaceOK(at[t], sent)
    /\ conn \in ConnType
    /\ TxOK(tx, sent)
    /\ rx \in RxType
    /\ fails \in 0 .. MaxFails
    /\ sent \subseteq Seqs /\ acked \subseteq PeerSeqs
    /\ delivered \in Seq(PeerSeqs)

IInv == StateOK /\ DrainOK

-----------------------------------------------------------------------------
(* The constants, and sets of slots *)

LEMMA ConstantFacts ==
    /\ NumSlots \in Nat \ {0} /\ SendWindow \in Nat \ {0}
    /\ MaxRetransmits \in Nat /\ MaxConnectRetries \in Nat
    /\ Pacing \in Nat /\ MaxBudget \in Nat /\ Pacing <= MaxBudget
    /\ Sends \in Nat /\ PeerSends \in Nat /\ MaxFails \in Nat
BY ThreadsAssumption

LEMMA FiniteSlots ==
    ASSUME NEW s \in SUBSET Slot
    PROVE  IsFiniteSet(s) /\ Cardinality(s) \in Nat
<1>1. IsFiniteSet(Slot)
  BY FS_Interval, ConstantFacts DEF Slot
<1> QED BY <1>1, FS_Subset, FS_CardinalityType

LEMMA LeastOf ==
    ASSUME NEW s \in SUBSET Nat, s # {}
    PROVE  \E i \in s : \A j \in s : i <= j
<1>1. PICK i \in s : \A j \in s : <<j, i>> \notin OpToRel(<, Nat)
  BY WFMin, NatLessThanWellFounded, Zenon
<1>2. \A j \in s : <<j, i>> \notin OpToRel(<, Nat) => ~ j < i
  BY DEF OpToRel
<1>3. \A j \in s : ~ j < i
  BY <1>1, <1>2, Zenon
<1> QED BY <1>3

LEMMA FreeSlotFree ==
    ASSUME InFlight # Slot PROVE FreeSlot \in Slot \ InFlight
<1>1. Slot \ InFlight \in SUBSET Nat /\ Slot \ InFlight # {}
  BY ConstantFacts DEF Slot, InFlight
<1>2. \E i \in Slot \ InFlight : \A j \in Slot \ InFlight : i <= j
  BY <1>1, LeastOf
<1> QED BY <1>2 DEF FreeSlot

LEMMA OldestOf ==
    ASSUME TxOK(tx, sent), NEW s \in SUBSET InUse(tx), s # {}
    PROVE  Oldest(s) \in s
<1> DEFINE seqs == {tx.slots[i].seq : i \in s}
<1>1. seqs \in SUBSET Nat /\ seqs # {}
  BY DEF TxOK, Seqs
<1>2. PICK q \in seqs : \A j \in seqs : q <= j
  BY <1>1, LeastOf
<1>3. \E i \in s : \A j \in s : tx.slots[i].seq <= tx.slots[j].seq
  BY <1>2
<1> QED BY <1>3 DEF Oldest

-----------------------------------------------------------------------------
(* The operations of the queue *)

LEMMA TakenGrows ==
    ASSUME NEW taken, NEW more, taken \subseteq more
    PROVE  /\ \A txs : TxOK(txs, taken) => TxOK(txs, more)
           /\ \A p : PlaceOK(p, taken) => PlaceOK(p, more)
BY DEF TxOK, PlaceOK

LEMMA RefilledOK == ASSUME TxOK(tx, sent) PROVE TxOK(Refilled, sent)
<1>1. tx \in TxType /\ tx.budget \in 0 .. MaxBudget
  BY DEF TxOK, TxType
<1>2. (IF tx.budget + Pacing > MaxBudget THEN MaxBudget ELSE tx.budget + Pacing)
          \in 0 .. MaxBudget
  BY <1>1, ConstantFacts
<1>3. Refilled \in TxType /\ Refilled.slots = tx.slots /\ Refilled.pending = tx.pending
  BY <1>1, <1>2 DEF Refilled, TxType
<1> QED BY <1>3 DEF TxOK, InUse

LEMMA PaidOK ==
    ASSUME NEW taken, NEW txs, TxOK(txs, taken), Affordable(txs.budget)
    PROVE  TxOK([txs EXCEPT !.budget = Paid(@)], taken)
<1>1. txs \in TxType /\ txs.budget \in 0 .. MaxBudget
  BY DEF TxOK, TxType
<1>2. Paid(txs.budget) \in 0 .. MaxBudget
  BY <1>1, ConstantFacts DEF Paid, Affordable
<1> DEFINE new == [txs EXCEPT !.budget = Paid(@)]
<1>3. new \in TxType /\ new.slots = txs.slots /\ new.pending = txs.pending
  BY <1>1, <1>2 DEF TxType
<1> HIDE DEF new
<1>4. TxOK(new, taken)
  BY <1>3 DEF TxOK, InUse
<1> QED BY <1>4 DEF new

LEMMA QueuedOK ==
    ASSUME TxOK(tx, sent), HasRoom, tx.next \in Seqs
    PROVE  /\ TxOK(Queued, sent)
           /\ FreeSlot \in InUse(Queued)
<1> DEFINE i == FreeSlot
           s == [used |-> TRUE, seq |-> tx.next, ever_sent |-> FALSE, retries |-> 0]
<1>1. i \in Slot \ InFlight /\ InFlight = InUse(tx)
  BY FreeSlotFree DEF HasRoom, InFlight, InUse
<1>2. tx \in TxType /\ tx.pending + 1 \in 0 .. SendWindow /\ tx.next + 1 \in 1 .. Sends + 1
  BY ConstantFacts DEF TxOK, TxType, HasRoom, Seqs
<1>3. s \in SlotType /\ s.used /\ s.seq = tx.next /\ ~ s.ever_sent
  BY ConstantFacts DEF SlotType
<1> HIDE DEF i
<1>4. Queued = [tx EXCEPT !.slots[i] = s, !.pending = @ + 1, !.next = @ + 1]
  BY DEF Queued, i
<1> HIDE DEF s
<1>5. /\ Queued \in TxType /\ Queued.pending = tx.pending + 1
      /\ Queued.slots[i] = s /\ \A j \in Slot \ {i} : Queued.slots[j] = tx.slots[j]
  BY <1>1, <1>2, <1>3, <1>4 DEF TxType
<1>6. InUse(Queued) = InUse(tx) \cup {i}
  BY <1>1, <1>3, <1>5 DEF InUse
<1>7. Cardinality(InUse(tx) \cup {i}) = Cardinality(InUse(tx)) + 1
  <2>1. InUse(tx) \in SUBSET Slot
    BY DEF InUse
  <2> QED BY <1>1, <2>1, FiniteSlots, FS_AddElement
<1>8. ASSUME NEW j \in InUse(Queued)
      PROVE  /\ Queued.slots[j].seq \in Seqs
             /\ Queued.slots[j].ever_sent => Queued.slots[j].seq \in sent
  BY <1>1, <1>3, <1>5, <1>6, <1>8 DEF TxOK, InUse
<1> QED BY <1>5, <1>6, <1>7, <1>8 DEF TxOK, i

LEMMA FreedOK ==
    ASSUME NEW txs, TxOK(txs, sent), NEW gone \in SUBSET InUse(txs)
    PROVE  TxOK(Freed(txs, gone), sent)
<1> DEFINE new == Freed(txs, gone)
<1>1. InUse(txs) \in SUBSET Slot /\ txs \in TxType
  BY DEF InUse, TxOK
<1>2. IsFiniteSet(InUse(txs)) /\ Cardinality(InUse(txs)) \in Nat
  BY <1>1, FiniteSlots
<1>3. IsFiniteSet(gone) /\ Cardinality(gone) \in Nat
        /\ Cardinality(gone) <= Cardinality(InUse(txs))
  BY <1>2, FS_Subset, FS_CardinalityType
<1>4. Cardinality(InUse(txs) \ gone) = Cardinality(InUse(txs)) - Cardinality(gone)
  <2>1. InUse(txs) \cap gone = gone
    OBVIOUS
  <2> QED BY <1>2, <2>1, FS_Difference
<1>5. txs.pending - Cardinality(gone) \in 0 .. SendWindow
  <2>1. txs.pending \in 0 .. SendWindow /\ txs.pending = Cardinality(InUse(txs))
    BY <1>1 DEF TxOK, TxType
  <2> QED BY <1>2, <1>3, <2>1, ConstantFacts
<1>6. EmptySlot \in SlotType /\ ~ EmptySlot.used
  BY ConstantFacts DEF EmptySlot, SlotType
<1>7. /\ new \in TxType /\ new.pending = txs.pending - Cardinality(gone)
      /\ \A i \in gone : new.slots[i] = EmptySlot
      /\ \A i \in Slot \ gone : new.slots[i] = txs.slots[i]
  BY <1>1, <1>5, <1>6 DEF Freed, TxType
<1> HIDE DEF new
<1>8. InUse(new) = InUse(txs) \ gone
  BY <1>1, <1>6, <1>7 DEF InUse
<1>9. TxOK(new, sent)
  BY <1>1, <1>4, <1>7, <1>8 DEF TxOK
<1> QED BY <1>9 DEF new

LEMMA RetriedOK ==
    ASSUME TxOK(tx, sent), NEW i \in InUse(tx), tx.slots[i].retries < MaxRetransmits
    PROVE  /\ TxOK(Retried(tx, i), sent)
           /\ InUse(Retried(tx, i)) = InUse(tx)
<1> DEFINE new == Retried(tx, i)
<1>1. i \in Slot /\ tx \in TxType /\ tx.slots[i] \in SlotType
  BY DEF InUse, TxOK, TxType
<1>2. tx.slots[i].retries + 1 \in 0 .. MaxRetransmits
  BY <1>1, ConstantFacts DEF SlotType
<1>3. /\ new \in TxType /\ new.pending = tx.pending
      /\ new.slots[i] = [tx.slots[i] EXCEPT !.retries = @ + 1]
      /\ \A j \in Slot \ {i} : new.slots[j] = tx.slots[j]
  BY <1>1, <1>2 DEF Retried, TxType, SlotType
<1>4. \A j \in Slot : /\ new.slots[j].used = tx.slots[j].used
                      /\ new.slots[j].seq = tx.slots[j].seq
                      /\ new.slots[j].ever_sent = tx.slots[j].ever_sent
  BY <1>1, <1>3 DEF SlotType
<1> HIDE DEF new
<1>5. InUse(new) = InUse(tx)
  BY <1>4 DEF InUse
<1>6. TxOK(new, sent)
  BY <1>3, <1>4, <1>5 DEF TxOK, InUse
<1> QED BY <1>5, <1>6 DEF new

\* Marking by number: whatever the slot holds by now, only a message that was
\* sent is marked.
LEMMA MarkedOK ==
    ASSUME TxOK(tx, sent), NEW frame, frame.seq \in sent
    PROVE  TxOK([tx EXCEPT !.slots = Marked(@, frame)], sent)
<1> DEFINE new == [tx EXCEPT !.slots = Marked(@, frame)]
<1>1. tx \in TxType /\ \A i \in Slot : tx.slots[i] \in SlotType
  BY DEF TxOK, TxType
<1>2. ASSUME NEW i \in Slot
      PROVE  Marked(tx.slots, frame)[i] \in SlotType
  BY <1>1 DEF Marked, SlotType
<1>3. /\ new \in TxType /\ new.pending = tx.pending
      /\ \A i \in Slot : new.slots[i] =
             IF tx.slots[i].used /\ tx.slots[i].seq = frame.seq
             THEN [tx.slots[i] EXCEPT !.ever_sent = TRUE] ELSE tx.slots[i]
  BY <1>1, <1>2 DEF Marked, TxType
<1> HIDE DEF new
<1>4. \A i \in Slot : /\ new.slots[i].used = tx.slots[i].used
                      /\ new.slots[i].seq = tx.slots[i].seq
                      /\ new.slots[i].ever_sent =>
                             tx.slots[i].ever_sent \/ tx.slots[i].seq = frame.seq
  BY <1>1, <1>3 DEF SlotType
<1>5. InUse(new) = InUse(tx)
  BY <1>4 DEF InUse
<1>6. TxOK(new, sent)
  BY <1>3, <1>4, <1>5 DEF TxOK, InUse
<1> QED BY <1>6 DEF new
-----------------------------------------------------------------------------
(* The steps a thread takes *)

\* No callback begins or ends.
Steady ==
    \A r \in Receiver :
        /\ at'[r].pc = "callback" <=> at[r].pc = "callback"
        /\ at[r].pc = "callback" => at'[r].packet = at[r].packet

LEMMA DrainSteady ==
    ASSUME DrainOK, Steady, UNCHANGED delivered, rx'.next = rx.next
    PROVE  DrainOK'
<1>1. InCallback' = InCallback
  BY DEF InCallback, Steady
<1>2. \A r \in InCallback : at'[r].packet = at[r].packet
  BY DEF InCallback, Steady
<1>3. {at'[r].packet.seq : r \in InCallback} = {at[r].packet.seq : r \in InCallback}
  BY <1>2
<1> QED BY <1>1, <1>2, <1>3 DEF DrainOK, DrainedOnce

\* Thread t goes to place p, and no callback begins or ends.
LEMMA MoveOK ==
    ASSUME StateOK, NEW t \in Thread, NEW p, at' = [at EXCEPT ![t] = p],
           sent \subseteq sent', PlaceOK(p, sent'),
           at[t].pc # "callback", p.pc # "callback"
    PROVE  /\ at' \in [Thread -> Place]
           /\ \A u \in Thread : PlaceOK(at'[u], sent')
           /\ Steady
<1>1. p \in Place
  BY DEF PlaceOK
<1>2. /\ at' \in [Thread -> Place] /\ at'[t] = p
      /\ \A u \in Thread \ {t} : at'[u] = at[u]
  BY <1>1 DEF StateOK
<1>3. \A u \in Thread : PlaceOK(at[u], sent')
  BY TakenGrows DEF StateOK
<1>4. Receiver \subseteq Thread
  BY DEF Thread
<1> QED BY <1>2, <1>3, <1>4 DEF Steady

LEMMA IdleOK == ASSUME NEW taken PROVE PlaceOK(Idle, taken)
<1>1. Idle \in Place
  BY ConstantFacts DEF Idle, Place, NoFrame, NoPacket
<1> QED BY <1>1 DEF PlaceOK, Idle, NoFrame

LEMMA ReturnOK ==
    ASSUME StateOK, NEW t \in Thread, Return(t), UNCHANGED sent,
           at[t].pc # "callback"
    PROVE  /\ lock' \in Thread \cup {Nobody}
           /\ at' \in [Thread -> Place]
           /\ \A u \in Thread : PlaceOK(at'[u], sent')
           /\ Steady
<1>1. Idle.pc # "callback"
  BY DEF Idle
<1> QED BY <1>1, IdleOK, MoveOK DEF Return

LEMMA GoOnOK ==
    ASSUME StateOK, NEW t \in Thread, NEW pc, GoOn(t, pc), UNCHANGED sent,
           at[t].pc # "callback",
           \/ pc \in {"lifecycle", "slots", "flush"}
           \/ pc = "drain" /\ at[t].packet.kind = "data"
    PROVE  /\ lock' \in Thread \cup {Nobody}
           /\ at' \in [Thread -> Place]
           /\ \A u \in Thread : PlaceOK(at'[u], sent')
           /\ Steady
<1> DEFINE p == [at[t] EXCEPT !.pc = pc]
<1>1. at[t] \in Place /\ PlaceOK(at[t], sent) /\ at \in [Thread -> Place]
  BY DEF StateOK
<1>2. p \in Place
  BY <1>1 DEF Place
<1>3. PlaceOK(p, sent') /\ p.pc # "callback"
  BY <1>1, <1>2 DEF PlaceOK, Place
<1>4. at' = [at EXCEPT ![t] = p] /\ lock' = t
  BY <1>1 DEF GoOn
<1> HIDE DEF p
<1> QED BY <1>3, <1>4, MoveOK

FrameType == [kind : {"none", "control", "data"}, slot : Slot \cup {0},
              seq : Seqs \cup {0}]

\* send_raw is called, to go on with p.
LEMMA RawOK ==
    ASSUME StateOK, NEW t \in Thread, NEW p \in Place, NEW frame \in FrameType,
           frame.kind = "data" => frame.seq \in Seqs,
           Raw(t, p, frame),
           p.pc \notin {"drain", "callback"}, at[t].pc # "callback"
    PROVE  /\ lock' \in Thread \cup {Nobody}
           /\ at' \in [Thread -> Place]
           /\ \A u \in Thread : PlaceOK(at'[u], sent')
           /\ Steady
           /\ fails' \in 0 .. MaxFails
           /\ sent \subseteq sent' /\ sent' \subseteq Seqs
           /\ acked' \subseteq PeerSeqs
<1> PICK ok \in BOOLEAN :
        /\ ok \/ fails < MaxFails
        /\ at' = [at EXCEPT ![t] = [p EXCEPT !.in_raw = TRUE, !.ok = ok,
                                             !.frame = frame]]
        /\ fails' = IF ok THEN fails ELSE fails + 1
        /\ sent' = IF ok /\ frame.kind = "data" THEN sent \cup {frame.seq}
                   ELSE sent
        /\ acked' = IF ok /\ frame.kind = "control" /\ rx.newest # 0
                    THEN acked \cup {s \in rx.slots : s <= rx.newest}
                               \cup {rx.newest}
                    ELSE acked
  BY DEF Raw
<1> DEFINE q == [p EXCEPT !.in_raw = TRUE, !.ok = ok, !.frame = frame]
<1>1. q \in Place
  BY DEF Place, FrameType
<1>2. q.ok = ok /\ q.frame = frame /\ q.pc = p.pc
  BY DEF Place
<1>3. sent \subseteq sent' /\ sent' \subseteq Seqs
  BY DEF StateOK
<1> HIDE DEF q
<1>4. PlaceOK(q, sent')
  BY <1>1, <1>2 DEF PlaceOK
<1>5. /\ at' \in [Thread -> Place]
      /\ \A u \in Thread : PlaceOK(at'[u], sent')
      /\ Steady
  <2>1. at' = [at EXCEPT ![t] = q]
    BY DEF q
  <2> QED BY <1>2, <1>3, <1>4, <2>1, MoveOK
<1>6. fails' \in 0 .. MaxFails
  BY ConstantFacts DEF StateOK
<1>7. acked' \subseteq PeerSeqs
  <2>1. rx.slots \subseteq PeerSeqs /\ rx.newest \in 0 .. PeerSends
    BY DEF StateOK, RxType
  <2>2. rx.newest # 0 => rx.newest \in PeerSeqs
    BY <2>1, ConstantFacts DEF PeerSeqs
  <2> QED BY <2>1, <2>2 DEF StateOK
<1>8. lock' \in Thread \cup {Nobody}
  BY DEF Raw
<1> QED BY <1>3, <1>5, <1>6, <1>7, <1>8

\* SendControl, and SendFrame for a queued message.
LEMMA SendControlOK ==
    ASSUME StateOK, NEW t \in Thread, NEW p \in Place, NEW txs, TxOK(txs, sent),
           SendControl(t, p, txs),
           p.pc \notin {"drain", "callback"}, at[t].pc # "callback"
    PROVE  /\ lock' \in Thread \cup {Nobody}
           /\ at' \in [Thread -> Place]
           /\ \A u \in Thread : PlaceOK(at'[u], sent')
           /\ Steady
           /\ TxOK(tx', sent')
           /\ fails' \in 0 .. MaxFails
           /\ sent \subseteq sent' /\ sent' \subseteq Seqs
           /\ acked' \subseteq PeerSeqs
<1>1. Control \in FrameType /\ Control.kind # "data"
  BY DEF Control, FrameType
<1>2. Affordable(txs.budget) /\ Raw(t, p, Control) /\ tx' = [txs EXCEPT !.budget = Paid(@)]
  BY DEF SendControl
<1>3. TxOK(tx', sent)
  BY <1>2, PaidOK
<1> QED BY <1>1, <1>2, <1>3, RawOK, TakenGrows

LEMMA SendFrameOK ==
    ASSUME StateOK, NEW t \in Thread, NEW p \in Place, NEW txs, TxOK(txs, sent),
           NEW i \in InUse(txs), SendFrame(t, p, txs, i),
           p.pc \notin {"drain", "callback"}, at[t].pc # "callback"
    PROVE  /\ lock' \in Thread \cup {Nobody}
           /\ at' \in [Thread -> Place]
           /\ \A u \in Thread : PlaceOK(at'[u], sent')
           /\ Steady
           /\ TxOK(tx', sent')
           /\ fails' \in 0 .. MaxFails
           /\ sent \subseteq sent' /\ sent' \subseteq Seqs
           /\ acked' \subseteq PeerSeqs
<1>1. Data(txs.slots, i) \in FrameType /\ Data(txs.slots, i).seq \in Seqs
  BY DEF Data, FrameType, TxOK, InUse
<1>2. /\ Affordable(txs.budget) /\ Raw(t, p, Data(txs.slots, i))
      /\ tx' = [txs EXCEPT !.budget = Paid(@)]
  BY DEF SendFrame
<1>3. TxOK(tx', sent)
  BY <1>2, PaidOK
<1> QED BY <1>1, <1>2, <1>3, RawOK, TakenGrows
-----------------------------------------------------------------------------
(* Every action keeps the invariant *)

\* An action that ends no callback and begins none.
LEMMA SteadyStep ==
    ASSUME IInv,
           lock' \in Thread \cup {Nobody},
           at' \in [Thread -> Place],
           \A u \in Thread : PlaceOK(at'[u], sent'),
           Steady,
           conn' \in ConnType, TxOK(tx', sent'),
           rx' \in RxType, rx'.next = rx.next,
           fails' \in 0 .. MaxFails, sent' \subseteq Seqs, acked' \subseteq PeerSeqs,
           UNCHANGED delivered
    PROVE  IInv'
<1>1. DrainOK'
  BY DrainSteady DEF IInv
<1> QED BY <1>1 DEF IInv, StateOK

LEMMA InitOK == ASSUME Init PROVE IInv
<1>1. StateOK
  <2>1. tx.slots = [i \in Slot |-> EmptySlot] /\ InUse(tx) = {}
    BY DEF Init, InUse, EmptySlot
  <2>2. EmptySlot \in SlotType
    BY ConstantFacts DEF EmptySlot, SlotType
  <2>3. tx \in TxType
    BY <2>2, ConstantFacts DEF Init, TxType
  <2>4. TxOK(tx, sent)
    BY <2>1, <2>3, FS_EmptySet DEF TxOK, Init
  <2>5. conn \in ConnType /\ rx \in RxType
    BY ConstantFacts DEF Init, ConnType, RxType
  <2>6. \A t \in Thread : at[t] = Idle /\ PlaceOK(at[t], sent)
    BY IdleOK DEF Init
  <2>7. at \in [Thread -> Place]
    BY <2>6 DEF Init, PlaceOK
  <2> QED BY <2>4, <2>5, <2>6, <2>7, ConstantFacts DEF StateOK, Init
<1>2. DrainOK
  <2>1. InCallback = {}
    BY DEF Init, InCallback, Idle, Thread
  <2>2. rx.next = 1 /\ delivered = <<>> /\ Len(delivered) = 0
    BY DEF Init
  <2>3. DrainedOnce
    BY <2>1, <2>2, FS_EmptySet DEF DrainedOnce
  <2> QED BY <2>1, <2>2, <2>3, FS_EmptySet DEF DrainOK
<1> QED BY <1>1, <1>2 DEF IInv

LEMMA RawReturnsOK == ASSUME IInv, NEW t \in Thread, RawReturns(t) PROVE IInv'
<1>1. /\ StateOK /\ at[t] \in Place /\ PlaceOK(at[t], sent) /\ TxOK(tx, sent)
      /\ at \in [Thread -> Place]
  BY DEF IInv, StateOK
<1>2. TxOK(tx', sent)
  <2>1. CASE at[t].ok /\ at[t].frame.kind = "data"
    <3>1. at[t].frame.seq \in sent
      BY <1>1, <2>1 DEF PlaceOK
    <3> QED BY <1>1, <2>1, <3>1, MarkedOK DEF RawReturns
  <2>2. CASE ~ (at[t].ok /\ at[t].frame.kind = "data")
    BY <1>1, <2>2 DEF RawReturns
  <2> QED BY <2>1, <2>2
<1>3. /\ lock' \in Thread \cup {Nobody} /\ at' \in [Thread -> Place]
      /\ Steady /\ \A u \in Thread : PlaceOK(at'[u], sent')
  <2>1. CASE at[t].pc = "idle"
    BY <1>1, <2>1, ReturnOK DEF RawReturns
  <2>2. CASE at[t].pc # "idle"
    <3> DEFINE p == [at[t] EXCEPT !.in_raw = FALSE, !.ok = TRUE, !.frame = NoFrame]
    <3>1. p \in Place /\ p.pc = at[t].pc /\ p.packet = at[t].packet /\ p.frame = NoFrame
      BY <1>1 DEF Place, NoFrame
    <3>2. at' = [at EXCEPT ![t] = p] /\ lock' = t /\ sent' = sent
      BY <1>1, <2>2 DEF RawReturns
    <3> HIDE DEF p
    <3>3. PlaceOK(p, sent)
      BY <1>1, <3>1 DEF PlaceOK, NoFrame
    <3>4. /\ at' \in [Thread -> Place] /\ at'[t] = p
          /\ \A u \in Thread \ {t} : at'[u] = at[u]
      BY <1>1, <3>1, <3>2
    <3>5. \A u \in Thread : PlaceOK(at'[u], sent')
      BY <1>1, <3>2, <3>3, <3>4 DEF StateOK
    <3>6. Steady
      BY <3>1, <3>4 DEF Steady, Thread
    <3> QED BY <3>2, <3>4, <3>5, <3>6
  <2> QED BY <2>1, <2>2
<1>4. UNCHANGED <<conn, rx, fails, sent, acked, delivered>>
  BY DEF RawReturns
<1> QED BY <1>1, <1>2, <1>3, <1>4, SteadyStep DEF StateOK

LEMMA SendOK == ASSUME IInv, NEW t \in Thread, Send(t) PROVE IInv'
<1>1. StateOK /\ at[t] \in Place /\ TxOK(tx, sent) /\ at[t].pc = "idle"
  BY DEF IInv, StateOK, Send, Enter
<1>2. TxOK(Queued, sent) /\ FreeSlot \in InUse(Queued)
  BY <1>1, QueuedOK DEF Send
<1>3. UNCHANGED <<conn, rx, delivered>>
  BY DEF Send
<1>4. CASE SendFrame(t, at[t], Queued, FreeSlot)
  <2>1. /\ lock' \in Thread \cup {Nobody} /\ at' \in [Thread -> Place]
        /\ Steady /\ \A u \in Thread : PlaceOK(at'[u], sent')
        /\ TxOK(tx', sent') /\ fails' \in 0 .. MaxFails
        /\ sent' \subseteq Seqs /\ acked' \subseteq PeerSeqs
    BY <1>1, <1>2, <1>4, SendFrameOK
  <2> QED BY <1>1, <1>3, <2>1, SteadyStep DEF StateOK
<1>5. CASE tx' = Queued /\ UNCHANGED <<lock, at, fails, sent, acked>>
  BY <1>1, <1>2, <1>3, <1>5, SteadyStep DEF StateOK, Steady
<1> QED BY <1>4, <1>5 DEF Send

LEMMA TickerFacts ==
    ASSUME IInv
    PROVE  /\ StateOK /\ Ticker \in Thread /\ at[Ticker] \in Place
           /\ TxOK(tx, sent) /\ conn \in ConnType /\ rx \in RxType
BY DEF IInv, StateOK, Thread

LEMMA TickConnectsOK == ASSUME IInv, TickConnects PROVE IInv'
<1>1. at[Ticker].pc = "idle" /\ UNCHANGED <<rx, delivered>>
  BY DEF TickConnects, Enter
<1>2. TxOK(Refilled, sent)
  BY RefilledOK, TickerFacts
<1>3. TimeRead \in ConnType /\ TimeRead.retries = conn.retries
  BY TickerFacts DEF TimeRead, ConnType
<1>4. ASSUME conn' \in ConnType, tx' = Refilled, GoOn(Ticker, "lifecycle"),
             UNCHANGED <<fails, sent, acked>>
      PROVE  IInv'
  <2>1. /\ lock' \in Thread \cup {Nobody} /\ at' \in [Thread -> Place]
        /\ Steady /\ \A u \in Thread : PlaceOK(at'[u], sent')
    BY <1>1, <1>4, TickerFacts, GoOnOK
  <2> QED BY <1>1, <1>2, <1>4, <2>1, TickerFacts, SteadyStep DEF StateOK
<1>5. CASE conn' = TimeRead /\ tx' = Refilled /\ GoOn(Ticker, "lifecycle")
             /\ UNCHANGED <<fails, sent, acked>>
  BY <1>3, <1>4, <1>5
<1>6. CASE conn' = [TimeRead EXCEPT !.state = "timedout"] /\ tx' = Refilled
             /\ GoOn(Ticker, "lifecycle") /\ UNCHANGED <<fails, sent, acked>>
  <2>1. conn' \in ConnType
    BY <1>3, <1>6 DEF ConnType
  <2> QED BY <1>4, <1>6, <2>1
<1>7. ASSUME conn.retries < MaxConnectRetries,
             conn' = [TimeRead EXCEPT !.retries = @ + 1]
      PROVE  conn' \in ConnType
  <2>1. conn.retries + 1 \in 0 .. MaxConnectRetries
    BY <1>7, TickerFacts, ConstantFacts DEF ConnType
  <2> QED BY <1>3, <1>7, <2>1 DEF ConnType
<1>8. ASSUME conn.retries < MaxConnectRetries,
             conn' = [TimeRead EXCEPT !.retries = @ + 1],
             SendControl(Ticker, [at[Ticker] EXCEPT !.pc = "lifecycle"], Refilled)
      PROVE  IInv'
  <2>1. [at[Ticker] EXCEPT !.pc = "lifecycle"] \in Place
          /\ [at[Ticker] EXCEPT !.pc = "lifecycle"].pc = "lifecycle"
    BY TickerFacts DEF Place
  <2>2. /\ lock' \in Thread \cup {Nobody} /\ at' \in [Thread -> Place]
        /\ Steady /\ \A u \in Thread : PlaceOK(at'[u], sent')
        /\ TxOK(tx', sent') /\ fails' \in 0 .. MaxFails
        /\ sent' \subseteq Seqs /\ acked' \subseteq PeerSeqs
    BY <1>1, <1>2, <1>8, <2>1, TickerFacts, SendControlOK
  <2> QED BY <1>1, <1>7, <1>8, <2>2, TickerFacts, SteadyStep
<1>9. ASSUME conn.retries < MaxConnectRetries,
             conn' = [TimeRead EXCEPT !.retries = @ + 1],
             tx' = Refilled, GoOn(Ticker, "lifecycle"), UNCHANGED <<fails, sent, acked>>
      PROVE  IInv'
  BY <1>4, <1>7, <1>9
<1> QED BY <1>5, <1>6, <1>8, <1>9 DEF TickConnects

LEMMA TickLifecycleOK ==
    ASSUME IInv, TickTimesOut \/ TickPings \/ TickGoesOn PROVE IInv'
<1>1. at[Ticker].pc = "lifecycle" /\ UNCHANGED <<rx, delivered>>
  BY DEF TickTimesOut, TickPings, TickGoesOn, Holds
<1>2. CASE TickTimesOut
  <2>1. conn' \in ConnType /\ UNCHANGED <<tx, fails, sent, acked>>
    BY <1>2, TickerFacts DEF TickTimesOut, ConnType
  <2>2. /\ lock' \in Thread \cup {Nobody} /\ at' \in [Thread -> Place]
        /\ Steady /\ \A u \in Thread : PlaceOK(at'[u], sent')
    BY <1>1, <1>2, <2>1, TickerFacts, ReturnOK DEF TickTimesOut
  <2> QED BY <1>1, <2>1, <2>2, TickerFacts, SteadyStep DEF StateOK
<1>3. CASE TickPings
  <2>1. [at[Ticker] EXCEPT !.pc = "slots"] \in Place
          /\ [at[Ticker] EXCEPT !.pc = "slots"].pc = "slots"
    BY TickerFacts DEF Place
  <2>2. /\ lock' \in Thread \cup {Nobody} /\ at' \in [Thread -> Place]
        /\ Steady /\ \A u \in Thread : PlaceOK(at'[u], sent')
        /\ TxOK(tx', sent') /\ fails' \in 0 .. MaxFails
        /\ sent' \subseteq Seqs /\ acked' \subseteq PeerSeqs
    BY <1>1, <1>3, <2>1, TickerFacts, SendControlOK DEF TickPings
  <2> QED BY <1>1, <1>3, <2>2, TickerFacts, SteadyStep DEF TickPings
<1>4. CASE TickGoesOn
  <2>1. GoOn(Ticker, "slots") /\ UNCHANGED <<conn, tx, fails, sent, acked>>
    BY <1>4 DEF TickGoesOn
  <2>2. /\ lock' \in Thread \cup {Nobody} /\ at' \in [Thread -> Place]
        /\ Steady /\ \A u \in Thread : PlaceOK(at'[u], sent')
    BY <1>1, <2>1, TickerFacts, GoOnOK
  <2> QED BY <1>1, <2>1, <2>2, TickerFacts, SteadyStep DEF StateOK
<1> QED BY <1>2, <1>3, <1>4

LEMMA NextTurnOK ==
    ASSUME IInv, NEW i, AtSlot(i)
    PROVE  /\ NextTurn \in Place /\ NextTurn.pc = "slots"
           /\ PlaceOK(NextTurn, sent)
           /\ at[Ticker].pc = "slots"
<1>1. at[Ticker].turn + 1 \in 1 .. NumSlots + 1 /\ at[Ticker].pc = "slots"
  BY ConstantFacts DEF AtSlot, Slot, Holds
<1>2. at[Ticker] \in Place /\ PlaceOK(at[Ticker], sent)
  BY TickerFacts DEF StateOK
<1>3. NextTurn \in Place /\ NextTurn.pc = at[Ticker].pc /\ NextTurn.ok = at[Ticker].ok
        /\ NextTurn.frame = at[Ticker].frame
  BY <1>1, <1>2 DEF NextTurn, Place
<1> QED BY <1>1, <1>2, <1>3 DEF PlaceOK

LEMMA TickSlotOK ==
    ASSUME IInv, NEW i \in Slot, Skips(i) \/ SendsFirst(i) \/ Resends(i) PROVE IInv'
<1>1. /\ AtSlot(i) /\ UNCHANGED <<conn, rx, delivered>>
  BY DEF Skips, SendsFirst, Resends
<1>2. /\ NextTurn \in Place /\ NextTurn.pc = "slots" /\ PlaceOK(NextTurn, sent)
      /\ at[Ticker].pc = "slots"
  BY <1>1, NextTurnOK
<1>3. ASSUME at' = [at EXCEPT ![Ticker] = NextTurn], UNCHANGED <<lock, fails, sent, acked>>,
             TxOK(tx', sent)
      PROVE  IInv'
  <2>1. /\ at' \in [Thread -> Place]
        /\ Steady /\ \A u \in Thread : PlaceOK(at'[u], sent')
    BY <1>2, <1>3, TickerFacts, MoveOK
  <2> QED BY <1>1, <1>3, <2>1, TickerFacts, SteadyStep DEF StateOK
<1>4. ASSUME NEW txs, TxOK(txs, sent), i \in InUse(txs), SendFrame(Ticker, NextTurn, txs, i)
      PROVE  IInv'
  <2>1. /\ lock' \in Thread \cup {Nobody} /\ at' \in [Thread -> Place]
        /\ Steady /\ \A u \in Thread : PlaceOK(at'[u], sent')
        /\ TxOK(tx', sent') /\ fails' \in 0 .. MaxFails
        /\ sent' \subseteq Seqs /\ acked' \subseteq PeerSeqs
    BY <1>2, <1>4, TickerFacts, SendFrameOK
  <2> QED BY <1>1, <2>1, TickerFacts, SteadyStep
<1>5. CASE Skips(i)
  BY <1>3, <1>5, TickerFacts DEF Skips
<1>6. CASE SendsFirst(i)
  <2>1. i \in InUse(tx)
    BY <1>6 DEF SendsFirst, Unsent, InUse
  <2> QED BY <1>4, <1>6, <2>1, TickerFacts DEF SendsFirst
<1>7. CASE Resends(i)
  <2>1. i \in InUse(tx)
    BY <1>7 DEF Resends, Resendable, InUse
  <2>2. CASE tx.slots[i].retries >= MaxRetransmits
    <3>1. TxOK(Freed(tx, {i}), sent)
      BY <2>1, TickerFacts, FreedOK
    <3> QED BY <1>3, <1>7, <2>2, <3>1 DEF Resends
  <2>3. CASE ~ (tx.slots[i].retries >= MaxRetransmits)
    <3>1. tx.slots[i].retries < MaxRetransmits
      <4>1. tx.slots[i].retries \in Nat
        BY TickerFacts DEF TxOK, TxType, SlotType
      <4> QED BY <2>3, <4>1, ConstantFacts
    <3>2. TxOK(Retried(tx, i), sent) /\ i \in InUse(Retried(tx, i))
      BY <2>1, <3>1, TickerFacts, RetriedOK
    <3> QED BY <1>3, <1>4, <1>7, <2>3, <3>2 DEF Resends
  <2> QED BY <2>2, <2>3
<1> QED BY <1>5, <1>6, <1>7

LEMMA TickEndsOK ==
    ASSUME IInv, SlotsDone \/ Flushes \/ TickReturns \/ Flushed PROVE IInv'
<1>1. at[Ticker].pc # "callback" /\ UNCHANGED <<conn, delivered>>
  BY DEF SlotsDone, Flushes, TickReturns, Flushed, Holds
<1>2. CASE SlotsDone
  <2>1. GoOn(Ticker, "flush") /\ UNCHANGED <<tx, rx, fails, sent, acked>>
    BY <1>2 DEF SlotsDone
  <2>2. /\ lock' \in Thread \cup {Nobody} /\ at' \in [Thread -> Place]
        /\ Steady /\ \A u \in Thread : PlaceOK(at'[u], sent')
    BY <1>1, <2>1, TickerFacts, GoOnOK
  <2> QED BY <1>1, <2>1, <2>2, TickerFacts, SteadyStep DEF StateOK
<1>3. CASE Flushes
  <2>1. [at[Ticker] EXCEPT !.pc = "flushed"] \in Place
          /\ [at[Ticker] EXCEPT !.pc = "flushed"].pc = "flushed"
    BY TickerFacts DEF Place
  <2>2. /\ lock' \in Thread \cup {Nobody} /\ at' \in [Thread -> Place]
        /\ Steady /\ \A u \in Thread : PlaceOK(at'[u], sent')
        /\ TxOK(tx', sent') /\ fails' \in 0 .. MaxFails
        /\ sent' \subseteq Seqs /\ acked' \subseteq PeerSeqs
    BY <1>1, <1>3, <2>1, TickerFacts, SendControlOK DEF Flushes
  <2> QED BY <1>1, <1>3, <2>2, TickerFacts, SteadyStep DEF Flushes
<1>4. ASSUME Return(Ticker), rx' \in RxType, rx'.next = rx.next,
             UNCHANGED <<tx, fails, sent, acked>>
      PROVE  IInv'
  <2>1. /\ lock' \in Thread \cup {Nobody} /\ at' \in [Thread -> Place]
        /\ Steady /\ \A u \in Thread : PlaceOK(at'[u], sent')
    BY <1>1, <1>4, TickerFacts, ReturnOK
  <2> QED BY <1>1, <1>4, <2>1, TickerFacts, SteadyStep DEF StateOK
<1>5. CASE TickReturns
  BY <1>4, <1>5, TickerFacts DEF TickReturns
<1>6. CASE Flushed
  <2>1. rx' \in RxType /\ rx'.next = rx.next
    BY <1>6, TickerFacts DEF Flushed, RxType
  <2> QED BY <1>4, <1>6, <2>1 DEF Flushed
<1> QED BY <1>2, <1>3, <1>5, <1>6
LEMMA ReceiverFacts ==
    ASSUME IInv, NEW r \in Receiver
    PROVE  /\ StateOK /\ r \in Thread /\ at[r] \in Place /\ PlaceOK(at[r], sent)
           /\ TxOK(tx, sent) /\ conn \in ConnType /\ rx \in RxType
BY DEF IInv, StateOK, Thread

LEMMA HeardOK == ASSUME IInv, NEW late \in BOOLEAN PROVE Heard(late) \in ConnType
<1>1. conn.rx_after_now \/ (late /\ at[Ticker].pc # "idle") \in BOOLEAN
  OBVIOUS
<1> QED BY <1>1, TickerFacts DEF Heard, ConnType

LEMMA TrackedOK ==
    ASSUME IInv, NEW p \in Packet
    PROVE  Tracked(p) \in RxType /\ Tracked(p).next = rx.next
<1>1. p.kind = "data" => p.seq \in PeerSeqs
  BY DEF Packet
<1> QED BY <1>1, TickerFacts DEF Tracked, RxType

\* What a packet releases, and the retransmission it may ask for.
LEMMA HandsOverOK ==
    ASSUME IInv, NEW r \in Receiver, NEW p \in Packet, at[r].pc = "idle"
    PROVE  /\ [at[r] EXCEPT !.pc = "insert", !.packet = p] \in Place
           /\ [at[r] EXCEPT !.pc = "insert", !.packet = p].pc = "insert"
           /\ PlaceOK([at[r] EXCEPT !.pc = "insert", !.packet = p], sent)
<1> DEFINE q == [at[r] EXCEPT !.pc = "insert", !.packet = p]
<1>1. /\ q \in Place /\ q.pc = "insert"
      /\ q.ok = at[r].ok /\ q.frame = at[r].frame
  BY ReceiverFacts DEF Place
<1> HIDE DEF q
<1>2. PlaceOK(q, sent)
  BY <1>1, ReceiverFacts DEF PlaceOK
<1> QED BY <1>1, <1>2 DEF q

LEMMA OnUdpPacketOK ==
    ASSUME IInv, NEW r \in Receiver, NEW p \in Packet, OnUdpPacket(r, p)
    PROVE  IInv'
<1> DEFINE q == [at[r] EXCEPT !.pc = "insert", !.packet = p]
<1>1. at[r].pc = "idle" /\ UNCHANGED delivered
  BY DEF OnUdpPacket, DropRepeated, TakeAck, FastRetransmit, Enter
<1>2. conn' \in ConnType
  BY HeardOK DEF OnUdpPacket, DropRepeated, TakeAck, FastRetransmit
<1>3. q \in Place /\ q.pc = "insert" /\ PlaceOK(q, sent)
  BY <1>1, HandsOverOK
<1>4. CASE DropRepeated(r, p)
  <2>1. rx' \in RxType /\ rx'.next = rx.next
    BY <1>4, TickerFacts DEF DropRepeated, RxType
  <2>2. UNCHANGED <<lock, at, tx, fails, sent, acked>>
    BY <1>4 DEF DropRepeated
  <2>3. Steady
    BY <2>2 DEF Steady
  <2> QED BY <1>1, <1>2, <2>1, <2>2, <2>3, TickerFacts, SteadyStep DEF StateOK
<1>5. ASSUME lock' = r, at' = [at EXCEPT ![r] = q], TxOK(tx', sent),
             rx' = Tracked(p), UNCHANGED <<fails, sent, acked>>
      PROVE  IInv'
  <2>1. /\ at' \in [Thread -> Place]
        /\ Steady /\ \A u \in Thread : PlaceOK(at'[u], sent')
    <3> HIDE DEF q
    <3> QED BY <1>1, <1>3, <1>5, ReceiverFacts, MoveOK
  <2> QED BY <1>1, <1>2, <1>5, <2>1, ReceiverFacts, TrackedOK, SteadyStep DEF StateOK
<1>6. CASE TakeAck(r, p)
  <2>1. AckedSlots(p) \in SUBSET InUse(tx)
    BY DEF AckedSlots, InFlight, InUse
  <2>2. TxOK(Freed(tx, AckedSlots(p)), sent)
    BY <2>1, TickerFacts, FreedOK
  <2>3. at' = [at EXCEPT ![r] = q]
    BY <1>6, ReceiverFacts DEF TakeAck, StateOK
  <2> QED BY <1>5, <1>6, <2>2, <2>3 DEF TakeAck
<1>7. CASE FastRetransmit(r, p)
  <2> DEFINE victims == {i \in Slot : Resendable(i)}  i == Oldest(victims)
  <2>1. i \in InUse(tx)
    <3>1. victims \in SUBSET InUse(tx) /\ victims # {}
      BY <1>7 DEF FastRetransmit, Resendable, InUse
    <3>2. Oldest(victims) \in victims
      BY <3>1, TickerFacts, OldestOf
    <3> QED BY <3>1, <3>2
  <2>2. /\ rx' = Tracked(p)
        /\ \/ /\ tx.slots[i].retries < MaxRetransmits
              /\ SendFrame(r, q, Retried(tx, i), i)
           \/ /\ \/ tx.slots[i].retries >= MaxRetransmits
                 \/ ~ Affordable(tx.budget)
              /\ tx' = IF tx.slots[i].retries >= MaxRetransmits
                       THEN Freed(tx, {i}) ELSE Retried(tx, i)
              /\ lock' = r
              /\ at' = [at EXCEPT ![r] = q]
              /\ UNCHANGED <<fails, sent, acked>>
    BY <1>7 DEF FastRetransmit
  <2> HIDE DEF i, q
  <2>3. tx.slots[i].retries \in Nat
    BY <2>1, TickerFacts DEF TxOK, TxType, SlotType, InUse
  <2>4. tx.slots[i].retries < MaxRetransmits =>
            TxOK(Retried(tx, i), sent) /\ i \in InUse(Retried(tx, i))
    BY <2>1, TickerFacts, RetriedOK
  <2>5. TxOK(Freed(tx, {i}), sent)
    BY <2>1, TickerFacts, FreedOK
  <2>6. CASE tx.slots[i].retries < MaxRetransmits /\ SendFrame(r, q, Retried(tx, i), i)
    <3>1. /\ lock' \in Thread \cup {Nobody} /\ at' \in [Thread -> Place]
          /\ Steady /\ \A u \in Thread : PlaceOK(at'[u], sent')
          /\ TxOK(tx', sent') /\ fails' \in 0 .. MaxFails
          /\ sent' \subseteq Seqs /\ acked' \subseteq PeerSeqs
      BY <1>1, <1>3, <2>4, <2>6, ReceiverFacts, SendFrameOK
    <3>2. rx' \in RxType /\ rx'.next = rx.next
      BY <2>2, TrackedOK
    <3> QED BY <1>1, <1>2, <3>1, <3>2, SteadyStep
  <2>7. CASE /\ tx' = IF tx.slots[i].retries >= MaxRetransmits
                      THEN Freed(tx, {i}) ELSE Retried(tx, i)
             /\ lock' = r
             /\ at' = [at EXCEPT ![r] = q]
             /\ UNCHANGED <<fails, sent, acked>>
    <3>1. TxOK(tx', sent)
      BY <2>3, <2>4, <2>5, <2>7, ConstantFacts
    <3> QED BY <1>5, <2>2, <2>7, <3>1
  <2> QED BY <2>2, <2>6, <2>7
<1> QED BY <1>4, <1>6, <1>7 DEF OnUdpPacket

LEMMA InsertOK ==
    ASSUME IInv, NEW r \in Receiver, Connects(r) \/ Inserts(r) \/ PacketDone(r)
    PROVE  IInv'
<1>1. at[r].pc = "insert" /\ UNCHANGED delivered
  BY DEF Connects, Inserts, PacketDone, Holds
<1>2. CASE Connects(r)
  <2> DEFINE joined == [conn EXCEPT !.state = "connected", !.retries = 0]
             cleared == [rx EXCEPT !.seen = {}]
  <2>1. conn' \in ConnType /\ rx' \in RxType /\ rx'.next = rx.next
    <3>1. conn' = joined /\ rx' = cleared
      BY <1>2 DEF Connects
    <3>2. joined \in ConnType
      <4>1. 0 \in 0 .. MaxConnectRetries
        BY ConstantFacts
      <4> QED BY <4>1, ReceiverFacts DEF ConnType
    <3>3. cleared \in RxType /\ cleared.next = rx.next
      BY ReceiverFacts DEF RxType
    <3> QED BY <3>1, <3>2, <3>3
  <2>2. CASE SendControl(r, Idle, tx)
    <3>1. Idle \in Place /\ Idle.pc = "idle"
      BY IdleOK DEF PlaceOK, Idle
    <3>2. /\ lock' \in Thread \cup {Nobody} /\ at' \in [Thread -> Place]
          /\ Steady /\ \A u \in Thread : PlaceOK(at'[u], sent')
          /\ TxOK(tx', sent') /\ fails' \in 0 .. MaxFails
          /\ sent' \subseteq Seqs /\ acked' \subseteq PeerSeqs
      BY <1>1, <2>2, <3>1, ReceiverFacts, SendControlOK
    <3> QED BY <1>1, <2>1, <3>2, SteadyStep
  <2>3. CASE Return(r) /\ UNCHANGED <<tx, fails, sent, acked>>
    <3>1. /\ lock' \in Thread \cup {Nobody} /\ at' \in [Thread -> Place]
          /\ Steady /\ \A u \in Thread : PlaceOK(at'[u], sent')
      BY <1>1, <2>3, ReceiverFacts, ReturnOK
    <3> QED BY <1>1, <2>1, <2>3, <3>1, ReceiverFacts, SteadyStep DEF StateOK
  <2> QED BY <1>2, <2>2, <2>3 DEF Connects
<1>3. CASE Inserts(r)
  <2> DEFINE s == at[r].packet.seq
  <2>1. at[r].packet.kind = "data" /\ s \in PeerSeqs
    BY <1>3, ReceiverFacts DEF Inserts, Place, Packet, NoPacket
  <2>2. /\ rx' = [rx EXCEPT !.slots = IF s >= rx.next THEN @ \cup {s} ELSE @,
                            !.newest = IF @ < s THEN s ELSE @,
                            !.dirty = TRUE]
        /\ GoOn(r, "drain")
        /\ UNCHANGED <<conn, tx, fails, sent, acked>>
    BY <1>3 DEF Inserts
  <2> HIDE DEF s
  <2>3. s \in 0 .. PeerSends
    BY <2>1, ConstantFacts DEF PeerSeqs
  <2>4. rx' \in RxType /\ rx'.next = rx.next
    BY <2>1, <2>2, <2>3, ReceiverFacts DEF RxType
  <2>5. /\ lock' \in Thread \cup {Nobody} /\ at' \in [Thread -> Place]
        /\ Steady /\ \A u \in Thread : PlaceOK(at'[u], sent')
    BY <1>1, <2>1, <2>2, ReceiverFacts, GoOnOK
  <2> QED BY <1>1, <2>2, <2>4, <2>5, ReceiverFacts, SteadyStep DEF StateOK
<1>4. CASE PacketDone(r)
  <2>1. Return(r) /\ UNCHANGED <<conn, tx, rx, fails, sent, acked>>
    BY <1>4 DEF PacketDone
  <2>2. /\ lock' \in Thread \cup {Nobody} /\ at' \in [Thread -> Place]
        /\ Steady /\ \A u \in Thread : PlaceOK(at'[u], sent')
    BY <1>1, <2>1, ReceiverFacts, ReturnOK
  <2> QED BY <1>1, <2>1, <2>2, ReceiverFacts, SteadyStep DEF StateOK
<1> QED BY <1>2, <1>3, <1>4

\* A message leaves the buffer for the callback of one thread.
LEMMA DrainsOK == ASSUME IInv, NEW r \in Receiver, Drains(r) PROVE IInv'
<1>1. at[r].pc = "drain" /\ at[r].packet.kind = "data"
  BY ReceiverFacts DEF Drains, Holds, PlaceOK
<1>2. UNCHANGED <<conn, tx, fails, sent, acked, delivered>>
  BY DEF Drains
<1>3. CASE Return(r) /\ UNCHANGED rx
  <2>1. /\ lock' \in Thread \cup {Nobody} /\ at' \in [Thread -> Place]
        /\ Steady /\ \A u \in Thread : PlaceOK(at'[u], sent')
    BY <1>1, <1>2, <1>3, ReceiverFacts, ReturnOK
  <2> QED BY <1>2, <1>3, <2>1, ReceiverFacts, SteadyStep DEF StateOK
<1>4. ASSUME NEW s \in Due,
             at' = [at EXCEPT ![r].pc = "callback", ![r].packet.seq = s],
             lock' = Nobody, rx' = Taken(s)
      PROVE  IInv'
  <2> DEFINE q == [at[r] EXCEPT !.pc = "callback", !.packet.seq = s]
  <2>1. s = rx.next /\ s \in PeerSeqs /\ s + 1 \in 1 .. PeerSends + 1
    BY ReceiverFacts, ConstantFacts DEF Due, RxType, PeerSeqs
  <2>2. rx' \in RxType /\ rx'.next = s + 1
    BY <1>4, <2>1, ReceiverFacts DEF Taken, RxType
  <2>3. /\ q.pc = "callback" /\ q.packet.seq = s /\ q.packet.kind = "data"
        /\ q.ok = at[r].ok /\ q.frame = at[r].frame /\ q \in Place
    <3>1. at[r].packet \in [kind : {"data"}, seq : PeerSeqs]
      BY <1>1, ReceiverFacts DEF Place, Packet, NoPacket
    <3>2. [at[r].packet EXCEPT !.seq = s] \in Packet
      BY <2>1, <3>1 DEF Packet
    <3> QED BY ZenonT(60), <3>1, <3>2, <2>1, ReceiverFacts DEF Place
  <2>4. at' = [at EXCEPT ![r] = q]
    BY <1>4, ReceiverFacts DEF StateOK
  <2> HIDE DEF q
  <2>5. /\ at' \in [Thread -> Place] /\ at'[r] = q
        /\ \A u \in Thread \ {r} : at'[u] = at[u]
    BY <2>3, <2>4, ReceiverFacts DEF StateOK
  <2>6. PlaceOK(q, sent)
    BY <2>3, ReceiverFacts DEF PlaceOK
  <2>7. \A u \in Thread : PlaceOK(at'[u], sent')
    BY <1>2, <2>5, <2>6, ReceiverFacts DEF StateOK
  <2>8. StateOK'
    BY <1>2, <1>4, <2>2, <2>5, <2>7, ReceiverFacts DEF StateOK
  <2>9. InCallback' = InCallback \cup {r} /\ r \notin InCallback
    BY <1>1, <2>3, <2>5 DEF InCallback, Thread
  <2>10. /\ at'[r].packet.seq = s
         /\ \A t \in InCallback : at'[t] = at[t]
    BY <2>3, <2>5, <2>9 DEF InCallback, Thread
  <2>11. /\ IsFiniteSet(InCallback) /\ Cardinality(InCallback) \in Nat
         /\ IsFiniteSet(InCallback') /\ Cardinality(InCallback') = Cardinality(InCallback) + 1
    BY <2>9, FS_AddElement, FS_CardinalityType DEF IInv, DrainOK
  <2>12. /\ \A k \in 1 .. Len(delivered) : delivered[k] # s
         /\ \A t \in InCallback : at[t].packet.seq # s
    BY <2>1 DEF IInv, DrainOK, DrainedOnce, PeerSeqs
  <2>13. {at'[t].packet.seq : t \in InCallback'}
             = {at[t].packet.seq : t \in InCallback} \cup {s}
    BY <2>9, <2>10
  <2>14. 1 .. rx'.next - 1 = (1 .. rx.next - 1) \cup {s}
    BY <2>1, <2>2 DEF PeerSeqs
  <2>15. DrainedOnce'
    <3>1. delivered' = delivered /\ Len(delivered) \in Nat
      BY <1>2, ReceiverFacts DEF StateOK
    <3>2. Len(delivered) + Cardinality(InCallback') = rx'.next - 1
      BY <2>1, <2>2, <2>11, <3>1 DEF IInv, DrainOK, DrainedOnce, PeerSeqs
    <3>3. {delivered[k] : k \in 1 .. Len(delivered)}
              \cup {at'[t].packet.seq : t \in InCallback'} = 1 .. rx'.next - 1
      BY <2>13, <2>14 DEF IInv, DrainOK, DrainedOnce
    <3> QED BY <3>1, <3>2, <3>3 DEF IInv, DrainOK, DrainedOnce
  <2>16. \A t, u \in InCallback' :
             at'[t].packet.seq = at'[u].packet.seq => t = u
    BY <2>9, <2>10, <2>12 DEF IInv, DrainOK
  <2>17. \A t \in InCallback', k \in 1 .. Len(delivered') :
             delivered'[k] # at'[t].packet.seq
    BY <1>2, <2>9, <2>10, <2>12 DEF IInv, DrainOK
  <2> QED BY <2>8, <2>11, <2>15, <2>16, <2>17 DEF IInv, DrainOK
<1> QED BY <1>3, <1>4 DEF Drains

\* The callback has the message now.
LEMMA CallbackOK == ASSUME IInv, NEW r \in Receiver, Callback(r) PROVE IInv'
<1> DEFINE q == [at[r] EXCEPT !.pc = "drain"]  s == at[r].packet.seq
<1>1. /\ at[r].pc = "callback" /\ at[r].packet.kind = "data" /\ s \in PeerSeqs
      /\ r \in InCallback
  BY ReceiverFacts DEF Callback, PlaceOK, Place, Packet, NoPacket, InCallback
<1>2. /\ UNCHANGED <<lock, conn, tx, rx, fails, sent, acked>>
      /\ at' = [at EXCEPT ![r] = q]
      /\ delivered' = Append(delivered, s)
  BY ReceiverFacts DEF Callback, StateOK
<1>3. /\ q \in Place /\ q.pc = "drain" /\ q.packet = at[r].packet
      /\ q.ok = at[r].ok /\ q.frame = at[r].frame
  BY ReceiverFacts DEF Place
<1> HIDE DEF q, s
<1>4. /\ at' \in [Thread -> Place] /\ at'[r] = q
      /\ \A u \in Thread \ {r} : at'[u] = at[u]
  BY <1>2, <1>3, ReceiverFacts DEF StateOK
<1>5. PlaceOK(q, sent)
  BY <1>1, <1>3, ReceiverFacts DEF PlaceOK
<1>6. \A u \in Thread : PlaceOK(at'[u], sent')
  BY <1>2, <1>4, <1>5, ReceiverFacts DEF StateOK
<1>7. delivered' \in Seq(PeerSeqs) /\ delivered \in Seq(PeerSeqs)
  BY <1>1, <1>2, ReceiverFacts DEF StateOK
<1>8. StateOK'
  BY <1>2, <1>4, <1>6, <1>7, ReceiverFacts DEF StateOK
<1>9. /\ Len(delivered) \in Nat /\ Len(delivered') = Len(delivered) + 1
      /\ delivered'[Len(delivered')] = s
      /\ \A k \in 1 .. Len(delivered) : delivered'[k] = delivered[k]
  BY <1>1, <1>2, <1>7
<1>10. InCallback' = InCallback \ {r}
  BY <1>3, <1>4 DEF InCallback, Thread
<1>11. \A t \in InCallback' : at'[t] = at[t] /\ t \in InCallback /\ t # r
  BY <1>4, <1>10 DEF InCallback, Thread
<1>12. /\ IsFiniteSet(InCallback) /\ Cardinality(InCallback) \in Nat
       /\ IsFiniteSet(InCallback') /\ Cardinality(InCallback') = Cardinality(InCallback) - 1
  BY <1>1, <1>10, FS_RemoveElement, FS_CardinalityType DEF IInv, DrainOK
<1>13. /\ \A k \in 1 .. Len(delivered) : delivered[k] # s
       /\ \A t \in InCallback' : at[t].packet.seq # s
  BY <1>1, <1>11 DEF IInv, DrainOK, s
<1>14. {delivered'[k] : k \in 1 .. Len(delivered')}
           = {delivered[k] : k \in 1 .. Len(delivered)} \cup {s}
  <2>1. 1 .. Len(delivered') = (1 .. Len(delivered)) \cup {Len(delivered')}
    BY <1>9
  <2> QED BY <1>9, <2>1
<1>15. {at[t].packet.seq : t \in InCallback}
           = {at'[t].packet.seq : t \in InCallback'} \cup {s}
  BY <1>1, <1>10, <1>11 DEF s
<1>16. \A j, k \in 1 .. Len(delivered') : delivered'[j] = delivered'[k] => j = k
  <2>1. \A j, k \in 1 .. Len(delivered) : delivered[j] = delivered[k] => j = k
    BY DEF IInv, DrainOK, DrainedOnce
  <2>2. \A j \in 1 .. Len(delivered') : j \in 1 .. Len(delivered) \/ j = Len(delivered')
    BY <1>9
  <2> QED BY <1>9, <1>13, <2>1, <2>2
<1>17. Len(delivered') + Cardinality(InCallback') = rx.next - 1
  <2>1. Len(delivered) + Cardinality(InCallback) = rx.next - 1
    BY DEF IInv, DrainOK, DrainedOnce
  <2> QED BY <1>9, <1>12, <2>1
<1>18. {delivered'[k] : k \in 1 .. Len(delivered')}
           \cup {at'[t].packet.seq : t \in InCallback'} = 1 .. rx.next - 1
  BY <1>14, <1>15 DEF IInv, DrainOK, DrainedOnce
<1>19. \A t, u \in InCallback' : at'[t].packet.seq = at'[u].packet.seq => t = u
  BY <1>11 DEF IInv, DrainOK
<1>20. \A t \in InCallback', k \in 1 .. Len(delivered') :
           delivered'[k] # at'[t].packet.seq
  <2>1. \A t \in InCallback, k \in 1 .. Len(delivered) :
            delivered[k] # at[t].packet.seq
    BY DEF IInv, DrainOK
  <2>2. \A j \in 1 .. Len(delivered') : j \in 1 .. Len(delivered) \/ j = Len(delivered')
    BY <1>9
  <2> QED BY <1>9, <1>11, <1>13, <2>1, <2>2
<1>21. DrainOK'
  BY <1>2, <1>12, <1>16, <1>17, <1>18, <1>19, <1>20 DEF DrainOK, DrainedOnce
<1> QED BY <1>8, <1>21 DEF IInv

LEMMA CallbackReturnsOK ==
    ASSUME IInv, NEW r \in Receiver, CallbackReturns(r) PROVE IInv'
<1>1. lock' = r /\ UNCHANGED <<at, conn, tx, rx, fails, sent, acked, delivered>>
  BY DEF CallbackReturns
<1>2. Steady
  BY <1>1 DEF Steady
<1> QED BY <1>1, <1>2, ReceiverFacts, SteadyStep DEF StateOK

LEMMA StepOK == ASSUME IInv, [Next]_vars PROVE IInv'
<1>1. CASE \E t \in Thread : RawReturns(t)
  BY <1>1, RawReturnsOK
<1>2. CASE \E t \in Sender : Send(t)
  BY <1>2, SendOK DEF Thread
<1>3. CASE TickConnects
  BY <1>3, TickConnectsOK
<1>4. CASE TickTimesOut \/ TickPings \/ TickGoesOn
  BY <1>4, TickLifecycleOK
<1>5. CASE \E i \in Slot : Skips(i) \/ SendsFirst(i) \/ Resends(i)
  BY <1>5, TickSlotOK
<1>6. CASE SlotsDone \/ Flushes \/ TickReturns \/ Flushed
  BY <1>6, TickEndsOK
<1>7. CASE \E r \in Receiver : GoesOn(r)
  BY <1>7, InsertOK, DrainsOK, CallbackOK, CallbackReturnsOK DEF GoesOn
<1>8. CASE \E r \in Receiver, p \in Packet : OnUdpPacket(r, p)
  BY <1>8, OnUdpPacketOK
<1>9. CASE UNCHANGED vars
  <2>1. UNCHANGED <<lock, at, conn, tx, rx, fails, sent, acked, delivered>>
    BY <1>9 DEF vars
  <2>2. Steady
    BY <2>1 DEF Steady
  <2> QED BY <2>1, <2>2, TickerFacts, SteadyStep DEF StateOK
<1> QED BY <1>1, <1>2, <1>3, <1>4, <1>5, <1>6, <1>7, <1>8, <1>9 DEF Next

-----------------------------------------------------------------------------
(* The theorems *)

\* Whatever the threads do while another one is outside the critical section
\* in the middle of its call (src/rudp.cpp, Lock and Unlock), IInv holds.
THEOREM Invariance == Spec => []IInv
<1>1. IInv /\ [Next]_vars => IInv'
  BY StepOK
<1> QED BY <1>1, InitOK, PTL DEF Spec

\* The endpoint's state and what the threads have in hand keep their types.
THEOREM TypeCorrect == Spec => []TypeOK
<1>1. IInv => TypeOK
  BY DEF IInv, StateOK, TypeOK, ConnType, RxType, TxOK, TxType, SlotType
<1> QED BY <1>1, Invariance, PTL

\* SendFrame marks the message it has sent and no other, though its slot may
\* have been released and taken again while send_raw ran.
THEOREM OnlySentMarked == Spec => []MarkedIsSent
<1>1. IInv => MarkedIsSent
  BY DEF IInv, StateOK, TxOK, InUse, MarkedIsSent
<1> QED BY <1>1, Invariance, PTL

\* pending_send_count_ is exact with Send, Tick, HandleAck and FastRetransmit
\* interleaved.
THEOREM PendingCountExact == Spec => []PendingExact
<1>1. IInv => PendingExact
  BY DEF IInv, StateOK, TxOK, InUse, InFlight, PendingExact
<1> QED BY <1>1, Invariance, PTL

\* DrainInOrder gives each message it passes over to exactly one callback,
\* however many threads drain the same buffer.
THEOREM EachDrainedOnce == Spec => []DrainedOnce
<1>1. IInv => DrainedOnce
  BY DEF IInv, DrainOK
<1> QED BY <1>1, Invariance, PTL

-----------------------------------------------------------------------------
(* One receiving thread *)

OneReceiver == \A r, q \in Receiver : r = q

\* on_deliver is called from DrainInOrder alone.
LEMMA OnlyCallbackDelivers ==
    ASSUME [Next]_vars
    PROVE  UNCHANGED delivered \/ \E r \in Receiver : Callback(r)
<1>1. ASSUME NEW t \in Thread, RawReturns(t) \/ Send(t) PROVE UNCHANGED delivered
  BY <1>1 DEF RawReturns, Send
<1>2. CASE TickConnects \/ TickTimesOut \/ TickPings \/ TickGoesOn
  BY <1>2 DEF TickConnects, TickTimesOut, TickPings, TickGoesOn
<1>3. ASSUME NEW i \in Slot, Skips(i) \/ SendsFirst(i) \/ Resends(i)
      PROVE  UNCHANGED delivered
  BY <1>3 DEF Skips, SendsFirst, Resends
<1>4. CASE SlotsDone \/ Flushes \/ TickReturns \/ Flushed
  BY <1>4 DEF SlotsDone, Flushes, TickReturns, Flushed
<1>5. ASSUME NEW r \in Receiver, GoesOn(r), ~ Callback(r) PROVE UNCHANGED delivered
  BY <1>5 DEF GoesOn, Connects, Inserts, PacketDone, Drains, CallbackReturns
<1>6. ASSUME NEW r \in Receiver, NEW p \in Packet, OnUdpPacket(r, p)
      PROVE  UNCHANGED delivered
  BY <1>6 DEF OnUdpPacket, DropRepeated, TakeAck, FastRetransmit
<1>7. CASE UNCHANGED vars
  BY <1>7 DEF vars
<1> QED BY <1>1, <1>2, <1>3, <1>4, <1>5, <1>6, <1>7 DEF Next, Thread

\* While the only receiving thread is in a callback it has the next message.
LEMMA CallbackInOrder ==
    ASSUME IInv, OneReceiver, InOrder, NEW r \in Receiver, Callback(r)
    PROVE  InOrder'
<1> DEFINE s == at[r].packet.seq
<1>1. /\ at[r].packet.kind = "data" /\ s \in PeerSeqs /\ r \in InCallback
      /\ delivered' = Append(delivered, s) /\ delivered \in Seq(PeerSeqs)
  BY ReceiverFacts DEF Callback, StateOK, PlaceOK, Place, Packet, NoPacket, InCallback
<1>2. InCallback = {r}
  BY <1>1 DEF InCallback, OneReceiver
<1>3. Cardinality(InCallback) = 1
  BY <1>2, FS_Singleton
<1>4. Len(delivered) \in Nat /\ rx.next \in Nat
  BY <1>1, ReceiverFacts, ConstantFacts DEF StateOK, RxType
<1>5. rx.next - 1 = Len(delivered) + 1
  BY <1>3 DEF IInv, DrainOK, DrainedOnce
<1>6. {at[q].packet.seq : q \in InCallback} = {s}
  BY <1>2
<1>7. {delivered[k] : k \in 1 .. Len(delivered)} = 1 .. Len(delivered)
  BY DEF InOrder
<1> HIDE DEF s
<1>8. (1 .. Len(delivered)) \cup {s} = 1 .. Len(delivered) + 1
  BY <1>5, <1>6, <1>7 DEF IInv, DrainOK, DrainedOnce
<1>9. Len(delivered) + 1 \in (1 .. Len(delivered)) \cup {s}
  BY <1>4, <1>8
<1>10. s = Len(delivered) + 1
  BY <1>4, <1>9
<1>11. ASSUME NEW k \in 1 .. Len(delivered') PROVE delivered'[k] = k
  <2>1. k \in 1 .. Len(delivered) \/ k = Len(delivered) + 1
    BY <1>1, <1>4
  <2>2. CASE k \in 1 .. Len(delivered)
    BY <1>1, <2>2 DEF InOrder
  <2>3. CASE k = Len(delivered) + 1
    BY <1>1, <1>10, <2>3
  <2> QED BY <2>1, <2>2, <2>3
<1> QED BY <1>11 DEF InOrder

\* DrainInOrder delivers every message, in the order of its number, if
\* OnUdpPacket is called by one thread: Send and Tick may run in others.
THEOREM DeliveredInOrder == ASSUME OneReceiver PROVE Spec => []InOrder
<1>1. Init => InOrder
  BY DEF Init, InOrder
<1>2. IInv /\ InOrder /\ [Next]_vars => InOrder'
  <2> SUFFICES ASSUME IInv, InOrder, [Next]_vars PROVE InOrder'
    OBVIOUS
  <2>1. CASE UNCHANGED delivered
    BY <2>1 DEF InOrder
  <2>2. CASE \E r \in Receiver : Callback(r)
    BY <2>2, CallbackInOrder
  <2> QED BY <2>1, <2>2, OnlyCallbackDelivers
<1> QED BY <1>1, <1>2, Invariance, PTL DEF Spec
=============================================================================
