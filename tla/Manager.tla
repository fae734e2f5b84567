------------------------------- MODULE Manager -------------------------------
(***************************************************************************)
(* ConnectionManager (src/manager.cpp): a fixed table of slots, each with  *)
(* an Endpoint that is initialised anew whenever the slot gets a key.      *)
(*                                                                         *)
(* The manager's lock is held for the whole of every call, so calls do not *)
(* interleave, with one exception: on_deliver is called from inside        *)
(* OnUdpPacket, and an application without lock hooks, or with a lock that *)
(* may be taken again, calls the manager from there.  draining is the slot *)
(* whose DrainInOrder waits for such a callback to return.                 *)
(*                                                                         *)
(* The Endpoint is reduced to what its owner can disturb: connection state,*)
(* numbers, queued and buffered messages.  Its replay filter is left out:  *)
(* it only refuses packets, and here no packet need arrive.  Packets come  *)
(* for any key, of any session, in any order and any number of times.      *)
(* Slip... operators are mistaken variants, for the mutation checks.       *)
(***************************************************************************)
EXTENDS Integers, Sequences, FiniteSets

CONSTANTS
    Key,           \* the application's connection keys; 0 may be one of them
    NumSlots,      \* kMaxConnections, 8
    SendWindow,    \* endpoint_cfg_.send_window
    RecvWindow,    \* endpoint_cfg_.recv_window
    PeerSession,   \* the session ids the peers of this run use, none of them 0
    MaxMade,       \* bound: slots taken in all
    MaxSeq         \* bound: messages per connection and direction

ASSUME ManagerAssumption ==
    /\ Key \subseteq Nat
    /\ NumSlots \in Nat \ {0}
    /\ SendWindow \in Nat \ {0}
    /\ RecvWindow \in Nat \ {0}
    /\ PeerSession \subseteq Nat \ {0}
    /\ MaxMade \in Nat
    /\ MaxSeq \in Nat

Slot == 1 .. NumSlots
NoSlot == 0

VARIABLES
    cfg,        \* endpoint_cfg_ and initialized_: "none", "valid", "invalid"
    slots,      \* slots_
    draining,
    made,       \* history: slots taken so far
    log         \* history: per key, its connection's ordinal and deliveries

vars == <<cfg, slots, draining, made, log>>

Message == [key : Key, id : 1 .. MaxMade, seq : 1 .. MaxSeq]

EndpointState ==
    [conn_state : {"disconnected", "connecting", "connected", "timedout"},
     peer_session_id : PeerSession \cup {0},   \* 0: has_peer_session_id_ is false
     next_send_seq : 1 .. MaxSeq + 1,
     recv_next_seq : 1 .. MaxSeq + 1,
     send_slots : SUBSET (1 .. MaxSeq),        \* the numbers of queued messages
     pending_send_count : 0 .. SendWindow,
     recv_slots : SUBSET Message]

\* Endpoint(): pending_send_count_ is not among the members it initialises;
\* a manager of static storage duration starts with zeros.
NewEndpoint ==
    [conn_state |-> "disconnected", peer_session_id |-> 0,
     next_send_seq |-> 1, recv_next_seq |-> 1,
     send_slots |-> {}, pending_send_count |-> 0, recv_slots |-> {}]

NoConnection == [id |-> 0, got |-> <<>>]

Init ==
    /\ cfg = "none"
    /\ slots = [i \in Slot |-> [used |-> FALSE, key |-> 0, ep |-> NewEndpoint]]
    /\ draining = NoSlot
    /\ made = 0
    /\ log = [k \in Key |-> NoConnection]

-----------------------------------------------------------------------------
(* The Endpoint *)

\* The numbers of the connection before are kept.
SlipEndpointInit(e) ==
    [NewEndpoint EXCEPT !.pending_send_count = e.pending_send_count,
                        !.recv_next_seq = e.recv_next_seq]

\* Endpoint::Init and ResetState, which leave pending_send_count_ alone.
EndpointInit(e) ==
    [NewEndpoint EXCEPT !.pending_send_count = e.pending_send_count]

StartConnect(e) ==
    IF e.conn_state \in {"connected", "connecting"} THEN e
    ELSE [e EXCEPT !.conn_state = "connecting", !.peer_session_id = 0]

\* Queued messages go, their count stays.
SlipDisconnect(e) ==
    [e EXCEPT !.conn_state = "disconnected", !.peer_session_id = 0,
              !.send_slots = {}, !.recv_slots = {}]

\* The sequence numbers stay as they are.
Disconnect(e) ==
    [e EXCEPT !.conn_state = "disconnected", !.peer_session_id = 0,
              !.send_slots = {}, !.pending_send_count = 0, !.recv_slots = {}]

SlipCanSend(e) == e.conn_state = "connected"

CanSend(e) ==
    e.conn_state = "connected" /\ e.pending_send_count < SendWindow

EndpointSend(e) ==
    [e EXCEPT !.send_slots = @ \cup {e.next_send_seq},
              !.pending_send_count = @ + 1,
              !.next_send_seq = @ + 1]

Without(e, gone) ==
    [e EXCEPT !.send_slots = @ \ gone,
              !.pending_send_count = @ - Cardinality(gone)]

\* Endpoint::Tick: an attempt to connect or an idle connection may time out;
\* queued messages may have spent their retries, unless the call returned on
\* the idle timeout.
TickOutcomes(e) ==
    {Without(e, gone) : gone \in SUBSET e.send_slots}
    \cup (CASE e.conn_state = "connecting" ->
                 {[Without(e, gone) EXCEPT !.conn_state = "timedout"] :
                     gone \in SUBSET e.send_slots}
            [] e.conn_state = "connected" ->
                 {[e EXCEPT !.conn_state = "timedout"]}
            [] OTHER -> {})

Packet ==
    [key : Key, kind : {"syn", "synack"}, session : PeerSession, seq : {0}]
    \cup [key : Key, kind : {"ack", "data"}, session : PeerSession,
          seq : 1 .. MaxSeq]

InWindow(e, seq) == seq \in e.recv_next_seq .. e.recv_next_seq + RecvWindow - 1

\* Endpoint::OnUdpPacket up to DrainInOrder, for a message m made of packet p.
\* A packet of a session other than the peer's changes nothing.
Handled(e, p, m) ==
    CASE e.peer_session_id \notin {0, p.session} -> e
      [] p.kind = "syn" \/ (p.kind = "synack" /\ e.conn_state = "connecting") ->
             [e EXCEPT !.conn_state = "connected", !.peer_session_id = p.session]
      [] p.kind = "ack" -> Without(e, e.send_slots \cap {p.seq})
      [] /\ p.kind = "data"
         /\ e.conn_state = "connected"
         /\ InWindow(e, p.seq)
         /\ \A r \in e.recv_slots : r.seq # p.seq ->
             [e EXCEPT !.recv_slots = @ \cup {m}]
      [] OTHER -> e

NextDue(e) == {r \in e.recv_slots : r.seq = e.recv_next_seq}

-----------------------------------------------------------------------------
(* The slot table *)

\* The search ends at the first slot not in use.
SlipFindSlot(k) ==
    {i \in Slot : slots[i].key = k /\ \A j \in 1 .. i : slots[j].used}

FindSlot(k) == {i \in Slot : slots[i].used /\ slots[i].key = k}

FreeSlots == {i \in Slot : ~ slots[i].used}

First(s) == CHOOSE i \in s : \A j \in s : i <= j

\* EnsureSlot finds a slot or makes one; Init rejects an invalid configuration
\* and the slot is given back.  made is the bound of this model.
Ensurable(k) ==
    /\ cfg # "none"
    /\ \/ FindSlot(k) # {}
       \/ FreeSlots # {} /\ cfg = "valid" /\ made < MaxMade

EnsureSlot(k) ==
    IF FindSlot(k) # {} THEN First(FindSlot(k)) ELSE First(FreeSlots)

\* The table, and the history, once EnsureSlot has returned.
Ensured(k) ==
    IF FindSlot(k) # {} THEN slots
    ELSE [slots EXCEPT ![EnsureSlot(k)] =
             [used |-> TRUE, key |-> k, ep |-> EndpointInit(@.ep)]]

LogEnsured(k) ==
    IF FindSlot(k) # {} THEN log
    ELSE [log EXCEPT ![k] = [id |-> made + 1, got |-> <<>>]]

Made(k) == made' = IF FindSlot(k) # {} THEN made ELSE made + 1

\* Init of the manager: nothing of the table changes, whatever it holds.
InitManager ==
    /\ cfg' \in {"valid", "invalid"}
    /\ UNCHANGED <<slots, draining, made, log>>

Open(k, start_connect) ==
    /\ Ensurable(k)
    /\ slots' = [Ensured(k) EXCEPT ![EnsureSlot(k)].ep =
                     IF start_connect THEN StartConnect(@) ELSE @]
    /\ log' = LogEnsured(k)
    /\ Made(k)
    /\ UNCHANGED <<cfg, draining>>

Freed(slot) == [used |-> FALSE, key |-> 0, ep |-> Disconnect(slot.ep)]

Remove(k) ==
    /\ FindSlot(k) # {}
    /\ slots' = [slots EXCEPT ![First(FindSlot(k))] = Freed(@)]
    /\ log' = [log EXCEPT ![k] = NoConnection]
    /\ UNCHANGED <<cfg, draining, made>>

\* Send and SendZeroCopy: a key without a slot gets one, and the endpoint,
\* not connected or its window full, may still take no message.
Send(k) ==
    /\ Ensurable(k)
    /\ slots' = [Ensured(k) EXCEPT ![EnsureSlot(k)].ep =
                     IF CanSend(@) /\ @.next_send_seq <= MaxSeq
                     THEN EndpointSend(@) ELSE @]
    /\ log' = LogEnsured(k)
    /\ Made(k)
    /\ UNCHANGED <<cfg, draining>>

\* DeliverThunk: the message goes out under the key its slot has by now.
Delivered(slot, m, history) ==
    IF slot.used THEN [history EXCEPT ![slot.key].got = Append(@, m)] ELSE history

\* One turn of DrainInOrder for slot i of table, up to the callback; without
\* a message due the call returns.
DrainTurn(i, table, history) ==
    \/ /\ NextDue(table[i].ep) = {}
       /\ slots' = table
       /\ log' = history
       /\ draining' = NoSlot
    \/ \E m \in NextDue(table[i].ep) :
           /\ slots' = [table EXCEPT ![i].ep.recv_slots = @ \ {m},
                                     ![i].ep.recv_next_seq = @ + 1]
           /\ log' = Delivered(table[i], m, history)
           /\ draining' = i

OnUdpPacket(p) ==
    /\ draining = NoSlot
    /\ Ensurable(p.key)
    /\ LET i == EnsureSlot(p.key)
           m == [key |-> p.key, id |-> LogEnsured(p.key)[p.key].id, seq |-> p.seq]
       IN  DrainTurn(i, [Ensured(p.key) EXCEPT ![i].ep = Handled(@, p, m)],
                     LogEnsured(p.key))
    /\ Made(p.key)
    /\ UNCHANGED cfg

\* on_deliver returns and DrainInOrder looks for the next message, in the
\* endpoint of the slot it was called for, whoever has that slot now.
CallbackReturns ==
    /\ draining # NoSlot
    /\ DrainTurn(draining, slots, log)
    /\ UNCHANGED <<cfg, made>>

Tick ==
    /\ draining = NoSlot
    /\ cfg # "none"
    /\ \E after \in [Slot -> UNION {TickOutcomes(slots[i].ep) : i \in Slot}] :
           /\ \A i \in Slot :
                  after[i] \in (IF slots[i].used THEN TickOutcomes(slots[i].ep)
                                ELSE {slots[i].ep})
           /\ slots' = [i \in Slot |-> [slots[i] EXCEPT !.ep = after[i]]]
    /\ UNCHANGED <<cfg, draining, made, log>>

Next ==
    \/ InitManager
    \/ \E k \in Key : \/ \E start_connect \in BOOLEAN : Open(k, start_connect)
                      \/ Remove(k)
                      \/ Send(k)
    \/ \E p \in Packet : OnUdpPacket(p)
    \/ CallbackReturns
    \/ Tick

Spec == Init /\ [][Next]_vars
-----------------------------------------------------------------------------
(* Properties *)

TypeOK ==
    /\ cfg \in {"none", "valid", "invalid"}
    /\ slots \in [Slot -> [used : BOOLEAN, key : Key \cup {0}, ep : EndpointState]]
    /\ draining \in Slot \cup {NoSlot}
    /\ made \in 0 .. MaxMade
    /\ log \in [Key -> [id : 0 .. MaxMade, got : Seq(Message)]]

\* A slot's send window counts its queued messages and no others.  Init does
\* not reset the count, so this depends on every way a slot is given back.
PendingExact ==
    \A i \in Slot :
        slots[i].ep.pending_send_count = Cardinality(slots[i].ep.send_slots)

\* No key has two slots: whatever a callback opens, removes or sends, FindSlot
\* and Remove meet the one connection of the key.
OneSlotPerKey ==
    \A i, j \in Slot :
        slots[i].used /\ slots[j].used /\ slots[i].key = slots[j].key => i = j

UsedKeys == {slots[i].key : i \in {j \in Slot : slots[j].used}}

KC == INSTANCE KeyedConnections
          WITH Key <- Key, Capacity <- NumSlots,
               opened <- made, conns <- [k \in UsedKeys |-> log[k]]

\* The table is a map of at most NumSlots keyed connections: one lives until
\* its key is removed, and is given its own messages only, from the first one
\* on, also when a callback removes its key and the slot goes to another.
KeyedDelivery == KC!Spec
=============================================================================
