------------------------------ MODULE Threads -------------------------------
(***************************************************************************)
(* One Endpoint (src/rudp.cpp) driven by several threads: applications     *)
(* that call Send, one that calls Tick, and those that hand it packets     *)
(* with OnUdpPacket.  The critical section of its hooks is left for every  *)
(* send_raw and every on_deliver, in the middle of a call, so that calls   *)
(* interleave there: with a slot, a message or the time in hand.           *)
(*                                                                         *)
(* The peer is what it sends: it answers the SYN, repeats each message     *)
(* until it is acknowledged and acknowledges what it was sent.  Time is    *)
(* that a timer may have run out, and whether a packet came after a Tick   *)
(* read the clock.  All frames have the same length, one unit of the       *)
(* pacing budget.  Acknowledgements go out with control frames; those that *)
(* data frames carry as well are lost.  Numbers do not wrap.               *)
(* Slip... operators are mistaken variants, for the mutation checks.       *)
(***************************************************************************)
EXTENDS Naturals, Sequences, FiniteSets

CONSTANTS
    Sender,              \* threads that call Send
    Receiver,            \* threads that call OnUdpPacket
    Ticker,              \* the thread that calls Tick
    Nobody,              \* the holder of the critical section when it is free
    NumSlots,            \* kMaxQueue
    SendWindow,          \* cfg_.send_window
    MaxRetransmits,      \* cfg_.max_retransmits
    MaxConnectRetries,   \* cfg_.max_connect_retries
    Pacing,              \* cfg_.pacing_bytes_per_tick in frames, 0 for none
    MaxBudget,           \* cfg_.mtu * cfg_.send_window in frames
    IdleTimeout,         \* cfg_.idle_timeout_ms > 0
    Sends,               \* bound: messages of this endpoint
    PeerSends,           \* bound: messages of the peer, below recv_window
    MaxFails             \* bound: how often send_raw fails

Thread == Sender \cup Receiver \cup {Ticker}

ASSUME ThreadsAssumption ==
    /\ Nobody \notin Thread
    /\ Sender \cap Receiver = {} /\ Ticker \notin Sender \cup Receiver
    /\ {NumSlots, SendWindow} \subseteq Nat \ {0}
    /\ SendWindow <= NumSlots
    /\ {MaxRetransmits, MaxConnectRetries, Pacing, MaxBudget, Sends, PeerSends,
        MaxFails} \subseteq Nat
    /\ Pacing <= MaxBudget
    /\ IdleTimeout \in BOOLEAN

VARIABLES
    lock,      \* who is in the critical section
    at,        \* each thread: where it is and what it has in hand
    conn,      \* conn_state_, connect_retries_, and whether last_rx_ms_ is
               \* later than the time the running Tick has read
    tx,        \* send_slots_, pending_send_count_, next_send_seq_, budget
    rx,        \* replay filter, recv_slots_, recv_next_seq_, newest_recv_seq_
               \* (0 while has_recv_seq_ is false), ack_dirty_
    fails,     \* how much of MaxFails is spent
    sent,      \* history: messages send_raw has taken
    acked,     \* history: the peer's messages it has an acknowledgement of
    delivered  \* history: messages in the order of the on_deliver calls

vars == <<lock, at, conn, tx, rx, fails, sent, acked, delivered>>

Seqs == 1 .. Sends
PeerSeqs == 1 .. PeerSends
Slot == 1 .. NumSlots

Packet ==
    [kind : {"synack"}, seq : {0}] \cup [kind : {"ack"}, seq : Seqs]
        \cup [kind : {"data"}, seq : PeerSeqs]

NoPacket == [kind |-> "none", seq |-> 0]

\* pc: where the thread goes on, in_raw: after send_raw returns.  frame: what
\* send_raw has, ok: what it will return.  turn: Tick's loop counter.
Place ==
    [pc : {"idle", "lifecycle", "slots", "flush", "flushed", "insert", "drain",
           "callback"},
     in_raw : BOOLEAN, ok : BOOLEAN,
     frame : [kind : {"none", "control", "data"}, slot : Slot \cup {0},
              seq : Seqs \cup {0}],
     turn : 1 .. NumSlots + 1,
     packet : Packet \cup {NoPacket}]

NoFrame == [kind |-> "none", slot |-> 0, seq |-> 0]

Idle == [pc |-> "idle", in_raw |-> FALSE, ok |-> TRUE, frame |-> NoFrame,
         turn |-> 1, packet |-> NoPacket]

EmptySlot == [used |-> FALSE, seq |-> 0, ever_sent |-> FALSE, retries |-> 0]

\* Init and StartConnect are done and the first SYN is sent.
Init ==
    /\ lock = Nobody
    /\ at = [t \in Thread |-> Idle]
    /\ conn = [state |-> "connecting", retries |-> 0, rx_after_now |-> FALSE]
    /\ tx = [slots |-> [i \in Slot |-> EmptySlot], pending |-> 0, next |-> 1,
             budget |-> Pacing]
    /\ rx = [seen |-> {}, slots |-> {}, next |-> 1, newest |-> 0, dirty |-> FALSE]
    /\ fails = 0
    /\ sent = {}
    /\ acked = {}
    /\ delivered = <<>>

-----------------------------------------------------------------------------
(* The critical section *)

Enter(t) == lock = Nobody /\ at[t].pc = "idle" /\ ~ at[t].in_raw

Holds(t, pc) == lock = t /\ at[t].pc = pc

\* t goes on at pc without leaving, or returns from its call.
GoOn(t, pc) == at' = [at EXCEPT ![t].pc = pc] /\ lock' = t

Return(t) == at' = [at EXCEPT ![t] = Idle] /\ lock' = Nobody

-----------------------------------------------------------------------------
(* SendControl and SendFrame *)

\* ConsumePacingBudget
Affordable(b) == Pacing = 0 \/ b >= 1

Paid(b) == IF Pacing = 0 THEN b ELSE b - 1

\* The frame goes to send_raw, outside the critical section; there p.pc is
\* where t goes on afterwards.
Raw(t, p, frame) ==
    /\ lock' = Nobody
    /\ \E ok \in BOOLEAN :
           /\ ok \/ fails < MaxFails
           /\ at' = [at EXCEPT ![t] = [p EXCEPT !.in_raw = TRUE, !.ok = ok,
                                                !.frame = frame]]
           /\ fails' = IF ok THEN fails ELSE fails + 1
           /\ sent' = IF ok /\ frame.kind = "data" THEN sent \cup {frame.seq}
                      ELSE sent
           /\ acked' = IF ok /\ frame.kind = "control" /\ rx.newest # 0
                       THEN acked \cup {s \in rx.slots : s <= rx.newest}
                                  \cup {rx.newest}
                       ELSE acked

Control == [kind |-> "control", slot |-> 0, seq |-> 0]

\* t sends a control frame and goes on with p; txs is the state of tx so far.
SendControl(t, p, txs) ==
    /\ Affordable(txs.budget)
    /\ Raw(t, p, Control)
    /\ tx' = [txs EXCEPT !.budget = Paid(@)]

Data(slots, i) == [kind |-> "data", slot |-> i, seq |-> slots[i].seq]

SendFrame(t, p, txs, i) ==
    /\ Affordable(txs.budget)
    /\ Raw(t, p, Data(txs.slots, i))
    /\ tx' = [txs EXCEPT !.budget = Paid(@)]

\* The slot the frame came from is marked, whatever is in it by now.
SlipMarked(slots, frame) ==
    [slots EXCEPT ![frame.slot].ever_sent = TRUE]

\* The message is looked for again by its number, FindSendSlotBySeq.
Marked(slots, frame) ==
    [i \in Slot |-> IF slots[i].used /\ slots[i].seq = frame.seq
                    THEN [slots[i] EXCEPT !.ever_sent = TRUE] ELSE slots[i]]

\* send_raw returns and t is back in the critical section.
RawReturns(t) ==
    /\ lock = Nobody
    /\ at[t].in_raw /\ at[t].pc # "flushed"
    /\ tx' = IF at[t].ok /\ at[t].frame.kind = "data"
             THEN [tx EXCEPT !.slots = Marked(@, at[t].frame)] ELSE tx
    /\ IF at[t].pc = "idle" THEN Return(t)
       ELSE /\ at' = [at EXCEPT ![t].in_raw = FALSE, ![t].ok = TRUE,
                                ![t].frame = NoFrame]
            /\ lock' = t
    /\ UNCHANGED <<conn, rx, fails, sent, acked, delivered>>

-----------------------------------------------------------------------------
(* Send *)

InFlight == {i \in Slot : tx.slots[i].used}

FreeSlot == CHOOSE i \in Slot \ InFlight : \A j \in Slot \ InFlight : i <= j

\* AllocateSendSlot: the window is counted, not the slots.
HasRoom == tx.pending < SendWindow /\ InFlight # Slot

Queued ==
    [tx EXCEPT !.slots[FreeSlot] = [used |-> TRUE, seq |-> tx.next,
                                    ever_sent |-> FALSE, retries |-> 0],
               !.pending = @ + 1, !.next = @ + 1]

Send(t) ==
    /\ Enter(t)
    /\ conn.state = "connected"
    /\ HasRoom
    /\ tx.next \in Seqs
    /\ \/ SendFrame(t, at[t], Queued, FreeSlot)
       \/ /\ ~ Affordable(tx.budget)
          /\ tx' = Queued
          /\ UNCHANGED <<lock, at, fails, sent, acked>>
    /\ UNCHANGED <<conn, rx, delivered>>

\* The window is counted as if the message were still queued.
SlipFreed(txs, gone) ==
    [txs EXCEPT !.slots = [i \in Slot |-> IF i \in gone THEN EmptySlot ELSE @[i]]]

Freed(txs, gone) ==
    [txs EXCEPT !.slots = [i \in Slot |-> IF i \in gone THEN EmptySlot ELSE @[i]],
                !.pending = @ - Cardinality(gone)]

Retried(txs, i) == [txs EXCEPT !.slots[i].retries = @ + 1]

-----------------------------------------------------------------------------
(* Tick *)

\* The budget is not refilled ...
SlipRefilled == tx

\* ... or knows no limit.
SlipRefilledPast == [tx EXCEPT !.budget = @ + Pacing]

Refilled ==
    [tx EXCEPT !.budget = IF @ + Pacing > MaxBudget THEN MaxBudget ELSE @ + Pacing]

\* The time is read; it serves the whole call, whatever comes meanwhile.
TimeRead == [conn EXCEPT !.rx_after_now = FALSE]

\* Up to the SYN that is due, or may be, while the handshake goes on.
TickConnects ==
    /\ Enter(Ticker)
    /\ \/ /\ conn' = TimeRead
          /\ tx' = Refilled
          /\ GoOn(Ticker, "lifecycle")
          /\ UNCHANGED <<fails, sent, acked>>
       \/ /\ conn.state = "connecting" /\ conn.retries >= MaxConnectRetries
          /\ conn' = [TimeRead EXCEPT !.state = "timedout"]
          /\ tx' = Refilled
          /\ GoOn(Ticker, "lifecycle")
          /\ UNCHANGED <<fails, sent, acked>>
       \/ /\ conn.state = "connecting" /\ conn.retries < MaxConnectRetries
          /\ conn' = [TimeRead EXCEPT !.retries = @ + 1]
          /\ \/ SendControl(Ticker, [at[Ticker] EXCEPT !.pc = "lifecycle"], Refilled)
             \/ /\ ~ Affordable(Refilled.budget)
                /\ tx' = Refilled
                /\ GoOn(Ticker, "lifecycle")
                /\ UNCHANGED <<fails, sent, acked>>
    /\ UNCHANGED <<rx, delivered>>

\* now - last_rx_ms_ is unsigned: a packet that came after now was read makes
\* it larger than any timeout.  silent: nothing came for idle_timeout_ms.
IdleDue(silent) == IdleTimeout /\ (conn.rx_after_now \/ silent)

TickTimesOut ==
    /\ Holds(Ticker, "lifecycle")
    /\ conn.state = "connected"
    /\ \E silent \in BOOLEAN : IdleDue(silent)
    /\ conn' = [conn EXCEPT !.state = "timedout"]
    /\ Return(Ticker)
    /\ UNCHANGED <<tx, rx, fails, sent, acked, delivered>>

\* heartbeat_ms has passed since the last frame.
TickPings ==
    /\ Holds(Ticker, "lifecycle")
    /\ conn.state = "connected" /\ ~ IdleDue(FALSE)
    /\ SendControl(Ticker, [at[Ticker] EXCEPT !.pc = "slots"], tx)
    /\ UNCHANGED <<conn, rx, delivered>>

\* Not yet, or no budget for it, or there is no connection to keep alive.
TickGoesOn ==
    /\ Holds(Ticker, "lifecycle")
    /\ conn.state # "connected" \/ ~ IdleDue(FALSE)
    /\ GoOn(Ticker, "slots")
    /\ UNCHANGED <<conn, tx, rx, fails, sent, acked, delivered>>

AtSlot(i) == Holds(Ticker, "slots") /\ at[Ticker].turn = i /\ i \in Slot

NextTurn == [at[Ticker] EXCEPT !.turn = @ + 1]

Unsent(i) == tx.slots[i].used /\ ~ tx.slots[i].ever_sent

Resendable(i) == tx.slots[i].used /\ tx.slots[i].ever_sent

Skips(i) ==
    /\ AtSlot(i)
    /\ ~ Unsent(i) \/ ~ Affordable(tx.budget)
    /\ at' = [at EXCEPT ![Ticker] = NextTurn]
    /\ UNCHANGED <<lock, conn, tx, rx, fails, sent, acked, delivered>>

SendsFirst(i) ==
    /\ AtSlot(i)
    /\ Unsent(i)
    /\ SendFrame(Ticker, NextTurn, tx, i)
    /\ UNCHANGED <<conn, rx, delivered>>

\* rto_ms_ has passed.  A retry the pacing budget refuses counts as one.
Resends(i) ==
    /\ AtSlot(i)
    /\ Resendable(i)
    /\ IF tx.slots[i].retries >= MaxRetransmits
       THEN /\ tx' = Freed(tx, {i})
            /\ at' = [at EXCEPT ![Ticker] = NextTurn]
            /\ UNCHANGED <<lock, fails, sent, acked>>
       ELSE \/ SendFrame(Ticker, NextTurn, Retried(tx, i), i)
            \/ /\ ~ Affordable(tx.budget)
               /\ tx' = Retried(tx, i)
               /\ at' = [at EXCEPT ![Ticker] = NextTurn]
               /\ UNCHANGED <<lock, fails, sent, acked>>
    /\ UNCHANGED <<conn, rx, delivered>>

SlotsDone ==
    /\ Holds(Ticker, "slots")
    /\ at[Ticker].turn = NumSlots + 1
    /\ GoOn(Ticker, "flush")
    /\ UNCHANGED <<conn, tx, rx, fails, sent, acked, delivered>>

\* FlushAcks up to its SendControl.
Flushes ==
    /\ Holds(Ticker, "flush")
    /\ conn.state = "connected" /\ rx.dirty /\ rx.newest # 0
    /\ SendControl(Ticker, [at[Ticker] EXCEPT !.pc = "flushed"], tx)
    /\ UNCHANGED <<conn, rx, delivered>>

\* Nothing to acknowledge, not yet, or no budget for it.
TickReturns ==
    /\ Holds(Ticker, "flush")
    /\ Return(Ticker)
    /\ UNCHANGED <<conn, tx, rx, fails, sent, acked, delivered>>

\* And after it: what was asked for while send_raw ran is forgotten.
Flushed ==
    /\ lock = Nobody
    /\ at[Ticker].pc = "flushed"
    /\ rx' = IF at[Ticker].ok THEN [rx EXCEPT !.dirty = FALSE] ELSE rx
    /\ Return(Ticker)
    /\ UNCHANGED <<conn, tx, fails, sent, acked, delivered>>

-----------------------------------------------------------------------------
(* OnUdpPacket *)

\* last_rx_ms_ is set; late: the clock has moved on since Tick read it.
Heard(late) ==
    [conn EXCEPT !.rx_after_now = @ \/ (late /\ at[Ticker].pc # "idle")]

\* The peer acknowledges what has reached it, and answers the SYN.
Sendable(p) == p.kind = "ack" => p.seq \in sent

\* The filter has met its nonce.
Repeated(p) == p.kind = "data" /\ p.seq \in rx.seen

SlipDropRepeated(r, p) ==
    /\ Enter(r)
    /\ Repeated(p)
    /\ \E late \in BOOLEAN : conn' = Heard(late)
    /\ UNCHANGED <<lock, at, tx, rx, fails, sent, acked, delivered>>

DropRepeated(r, p) ==
    /\ Enter(r)
    /\ Repeated(p)
    /\ \E late \in BOOLEAN : conn' = Heard(late)
    /\ rx' = [rx EXCEPT !.dirty = TRUE]
    /\ UNCHANGED <<lock, at, tx, fails, sent, acked, delivered>>

Tracked(p) ==
    IF p.kind = "data" THEN [rx EXCEPT !.seen = @ \cup {p.seq}] ELSE rx

AckedSlots(p) == {i \in InFlight : p.kind = "ack" /\ tx.slots[i].seq = p.seq}

\* HandleAck of a packet that releases messages, or of one that tells nothing
\* new but not for the third time.
TakeAck(r, p) ==
    /\ Enter(r)
    /\ Sendable(p) /\ ~ Repeated(p)
    /\ rx' = Tracked(p)
    /\ \E late \in BOOLEAN : conn' = Heard(late)
    /\ tx' = Freed(tx, AckedSlots(p))
    /\ lock' = r
    /\ at' = [at EXCEPT ![r] = [@ EXCEPT !.pc = "insert", !.packet = p]]
    /\ UNCHANGED <<fails, sent, acked, delivered>>

Oldest(s) == CHOOSE i \in s : \A j \in s : tx.slots[i].seq <= tx.slots[j].seq

\* HandleAck for the third time the same: FastRetransmit of the oldest message
\* that was sent.
FastRetransmit(r, p) ==
    LET victims == {i \in Slot : Resendable(i)}
        i       == Oldest(victims)
        p2      == [at[r] EXCEPT !.pc = "insert", !.packet = p]
    IN  /\ Enter(r)
        /\ Sendable(p) /\ ~ Repeated(p)
        /\ AckedSlots(p) = {}
        /\ victims # {}
        /\ rx' = Tracked(p)
        /\ \E late \in BOOLEAN : conn' = Heard(late)
        /\ \/ /\ tx.slots[i].retries < MaxRetransmits
              /\ SendFrame(r, p2, Retried(tx, i), i)
           \/ /\ \/ tx.slots[i].retries >= MaxRetransmits
                 \/ ~ Affordable(tx.budget)
              /\ tx' = IF tx.slots[i].retries >= MaxRetransmits
                       THEN Freed(tx, {i}) ELSE Retried(tx, i)
              /\ lock' = r
              /\ at' = [at EXCEPT ![r] = p2]
              /\ UNCHANGED <<fails, sent, acked>>
        /\ UNCHANGED delivered

\* HandleControl of the SYN-ACK; the filter forgets what came before it.
Connects(r) ==
    /\ Holds(r, "insert")
    /\ at[r].packet.kind = "synack" /\ conn.state = "connecting"
    /\ conn' = [conn EXCEPT !.state = "connected", !.retries = 0]
    /\ rx' = [rx EXCEPT !.seen = {}]
    /\ \/ SendControl(r, Idle, tx)
       \/ ~ Affordable(tx.budget) /\ Return(r) /\ UNCHANGED <<tx, fails, sent, acked>>
    /\ UNCHANGED delivered

\* InsertRecv and the request for an acknowledgement.
Inserts(r) ==
    /\ Holds(r, "insert")
    /\ at[r].packet.kind = "data" /\ conn.state = "connected"
    /\ LET s == at[r].packet.seq
       IN  rx' = [rx EXCEPT !.slots = IF s >= rx.next THEN @ \cup {s} ELSE @,
                            !.newest = IF @ < s THEN s ELSE @,
                            !.dirty = TRUE]
    /\ GoOn(r, "drain")
    /\ UNCHANGED <<conn, tx, fails, sent, acked, delivered>>

\* An acknowledgement, a SYN-ACK that is late, data before the SYN-ACK.
PacketDone(r) ==
    /\ Holds(r, "insert")
    /\ at[r].packet.kind = "synack" => conn.state # "connecting"
    /\ at[r].packet.kind = "data" => conn.state # "connected"
    /\ Return(r)
    /\ UNCHANGED <<conn, tx, rx, fails, sent, acked, delivered>>

\* recv_next_seq_ is left for after the callback, and forgotten there.
SlipTaken(s) == [rx EXCEPT !.slots = @ \ {s}]

Taken(s) == [rx EXCEPT !.slots = @ \ {s}, !.next = @ + 1]

\* A gap does not stop the drain.
SlipDue == rx.slots

Due == rx.slots \cap {rx.next}

\* DrainInOrder: the message is taken inside the critical section ...
Drains(r) ==
    /\ Holds(r, "drain")
    /\ \/ \E s \in Due :
              /\ at' = [at EXCEPT ![r].pc = "callback", ![r].packet.seq = s]
              /\ lock' = Nobody
              /\ rx' = Taken(s)
       \/ Due = {} /\ Return(r) /\ UNCHANGED rx
    /\ UNCHANGED <<conn, tx, fails, sent, acked, delivered>>

\* ... and given to on_deliver outside it,
Callback(r) ==
    /\ at[r].pc = "callback"
    /\ at' = [at EXCEPT ![r].pc = "drain"]
    /\ delivered' = Append(delivered, at[r].packet.seq)
    /\ UNCHANGED <<lock, conn, tx, rx, fails, sent, acked>>

\* which returns.
CallbackReturns(r) ==
    /\ lock = Nobody
    /\ at[r].pc = "drain"
    /\ lock' = r
    /\ UNCHANGED <<at, conn, tx, rx, fails, sent, acked, delivered>>

OnUdpPacket(r, p) == DropRepeated(r, p) \/ TakeAck(r, p) \/ FastRetransmit(r, p)

GoesOn(r) ==
    Connects(r) \/ Inserts(r) \/ PacketDone(r) \/ Drains(r)
        \/ Callback(r) \/ CallbackReturns(r)

Next ==
    \/ \E t \in Thread : RawReturns(t)
    \/ \E t \in Sender : Send(t)
    \/ TickConnects \/ TickTimesOut \/ TickPings \/ TickGoesOn
    \/ \E i \in Slot : Skips(i) \/ SendsFirst(i) \/ Resends(i)
    \/ SlotsDone \/ Flushes \/ TickReturns \/ Flushed
    \/ \E r \in Receiver : GoesOn(r) \/ \E p \in Packet : OnUdpPacket(r, p)

Spec == Init /\ [][Next]_vars
-----------------------------------------------------------------------------
(* Properties *)

TypeOK ==
    /\ lock \in Thread \cup {Nobody}
    /\ at \in [Thread -> Place]
    /\ conn \in [state : {"connecting", "connected", "timedout"},
                 retries : 0 .. MaxConnectRetries, rx_after_now : BOOLEAN]
    /\ tx \in [slots : [Slot -> [used : BOOLEAN, seq : Seqs \cup {0},
                                 ever_sent : BOOLEAN,
                                 retries : 0 .. MaxRetransmits]],
               pending : 0 .. SendWindow, next : 1 .. Sends + 1,
               budget : 0 .. MaxBudget]
    /\ rx \in [seen : SUBSET PeerSeqs, slots : SUBSET PeerSeqs,
               next : 1 .. PeerSends + 1, newest : 0 .. PeerSends,
               dirty : BOOLEAN]
    /\ fails \in 0 .. MaxFails
    /\ sent \subseteq Seqs /\ acked \subseteq PeerSeqs
    /\ delivered \in Seq(PeerSeqs)

\* A message is marked ever_sent only if send_raw has taken it, although its
\* slot may be freed and filled again while a frame of the slot is in send_raw:
\* otherwise it would wait for a retransmission timer, or be given up, without
\* having been sent.
MarkedIsSent ==
    \A i \in Slot : tx.slots[i].used /\ tx.slots[i].ever_sent
                        => tx.slots[i].seq \in sent

\* pending_send_count_ is the number of queued messages, whichever of several
\* calls releases one.
PendingExact == tx.pending = Cardinality(InFlight)

InCallback == {r \in Receiver : at[r].pc = "callback"}

\* However many threads drain the buffer, recv_next_seq_ has passed exactly the
\* messages that were delivered once or are on their way into one callback.
DrainedOnce ==
    /\ \A j, k \in 1 .. Len(delivered) : delivered[j] = delivered[k] => j = k
    /\ Len(delivered) + Cardinality(InCallback) = rx.next - 1
    /\ {delivered[k] : k \in 1 .. Len(delivered)}
           \cup {at[r].packet.seq : r \in InCallback} = 1 .. rx.next - 1

\* The messages come in order and none is left out, if one thread at a time is
\* in OnUdpPacket.
InOrder == \A k \in 1 .. Len(delivered) : delivered[k] = k

\* An endpoint times out by silence only, not after a packet of its peer that
\* came during the very Tick.
IdleMeansSilent ==
    [][conn.state = "connected" /\ conn.rx_after_now => conn'.state # "timedout"]_vars

-----------------------------------------------------------------------------
(* Fairness: the threads run, Tick is called for ever, more often than        *)
(* heartbeat_ms, its timers run out, and the peer repeats a message until it  *)
(* has the acknowledgement.                                                   *)

Repeats(s) ==
    /\ s \notin acked
    /\ \E r \in Receiver, p \in Packet :
           p.kind = "data" /\ p.seq = s /\ OnUdpPacket(r, p)

Fairness ==
    /\ SF_vars(TickConnects \/ RawReturns(Ticker) \/ Flushed)
    /\ \A t \in Sender : SF_vars(RawReturns(t))
    /\ \A r \in Receiver : SF_vars(GoesOn(r) \/ RawReturns(r))
    /\ SF_vars(TickGoesOn)
    /\ WF_vars(SlotsDone \/ TickReturns
               \/ \E i \in Slot : Skips(i) \/ SendsFirst(i))
    /\ \A i \in Slot : SF_vars(Resends(i))
    /\ SF_vars(Flushes)
    /\ \A s \in PeerSeqs : SF_vars(Repeats(s))

FairSpec == Spec /\ Fairness

\* The newest message an endpoint has taken is acknowledged in the end, even if
\* FlushAcks erases the request that came while its own frame was in send_raw.
NewestAcked ==
    \A s \in PeerSeqs :
        rx.newest = s ~> s \in acked \/ rx.newest # s \/ conn.state = "timedout"

\* Every message Send took is handed to send_raw once at least, although the
\* pacing budget, spent on other frames first, or send_raw refuses it at times.
EveryAcceptedSent == \A s \in Seqs : tx.next > s ~> s \in sent
=============================================================================
