--------------------------- MODULE Manager_proofs ----------------------------
(***************************************************************************)
(* Proofs about Manager, for any keys, number of slots, windows and        *)
(* traffic: the counts and the table are sound, and the manager implements *)
(* KeyedConnections.                                                       *)
(***************************************************************************)
EXTENDS Manager, FiniteSetTheorems, SequenceTheorems, WellFoundedInduction, TLAPS

SlotState == [used : BOOLEAN, key : Key \cup {0}, ep : EndpointState]

LogType == [Key -> [id : 0 .. MaxMade, got : Seq(Message)]]

\* What an Endpoint's own operations rely on and keep.
EndpointOK(e) ==
    /\ e \in EndpointState
    /\ e.pending_send_count = Cardinality(e.send_slots)
    /\ \A s \in e.send_slots : s < e.next_send_seq

\* A used slot is its key's connection, and its reorder buffer holds messages
\* of that connection only; a free one has nothing queued or buffered.
LinkOK(s, history) ==
    IF s.used
    THEN /\ s.key \in Key
         /\ history[s.key].id >= 1
         /\ Len(history[s.key].got) + 1 = s.ep.recv_next_seq
         /\ \A m \in s.ep.recv_slots : m.key = s.key /\ m.id = history[s.key].id
    ELSE s.ep.send_slots = {} /\ s.ep.recv_slots = {}

Distinct(table) ==
    \A i, j \in Slot :
        table[i].used /\ table[j].used /\ table[i].key = table[j].key => i = j

TableOK(table, history) ==
    /\ table \in [Slot -> SlotState]
    /\ history \in LogType
    /\ \A i \in Slot : EndpointOK(table[i].ep) /\ LinkOK(table[i], history)
    /\ Distinct(table)

IInv ==
    /\ TableOK(slots, log)
    /\ cfg \in {"none", "valid", "invalid"}
    /\ draining \in Slot \cup {NoSlot}
    /\ made \in 0 .. MaxMade

-----------------------------------------------------------------------------
(* The first slot, and finite sets of numbers *)

LEMMA FirstOf == ASSUME NEW s \in SUBSET Slot, s # {} PROVE First(s) \in s
<1>1. s \in SUBSET Nat
  BY ManagerAssumption DEF Slot
<1>2. PICK i \in s : \A j \in s : <<j, i>> \notin OpToRel(<, Nat)
  BY <1>1, WFMin, NatLessThanWellFounded, Zenon
<1>3. \A j \in s : <<j, i>> \notin OpToRel(<, Nat) => ~ j < i
  BY <1>1 DEF OpToRel
<1>4. \A j \in s : ~ j < i
  BY <1>2, <1>3, Zenon
<1>5. \A j \in s : i <= j
  BY <1>1, <1>4
<1> QED BY <1>5 DEF First

LEMMA FiniteSends ==
    ASSUME NEW e \in EndpointState
    PROVE  IsFiniteSet(e.send_slots) /\ Cardinality(e.send_slots) \in Nat
<1>1. IsFiniteSet(1 .. MaxSeq)
  BY FS_Interval, ManagerAssumption
<1>2. e.send_slots \in SUBSET (1 .. MaxSeq)
  BY DEF EndpointState
<1> QED BY <1>1, <1>2, FS_Subset, FS_CardinalityType

-----------------------------------------------------------------------------
(* The operations of an Endpoint *)

LEMMA NewEndpointOK == EndpointOK(NewEndpoint)
<1>1. NewEndpoint \in EndpointState
  BY ManagerAssumption DEF NewEndpoint, EndpointState
<1> QED BY <1>1, FS_EmptySet DEF EndpointOK, NewEndpoint

LEMMA EndpointInitOK ==
    ASSUME NEW e, EndpointOK(e), e.send_slots = {}
    PROVE  EndpointInit(e) = NewEndpoint
<1>1. e.pending_send_count = 0
  BY FS_EmptySet DEF EndpointOK
<1> QED BY <1>1 DEF EndpointInit, NewEndpoint

LEMMA StartConnectOK ==
    ASSUME NEW e, EndpointOK(e)
    PROVE  /\ EndpointOK(StartConnect(e))
           /\ StartConnect(e).recv_slots = e.recv_slots
           /\ StartConnect(e).recv_next_seq = e.recv_next_seq
<1>1. StartConnect(e) \in EndpointState
  BY DEF EndpointOK, StartConnect, EndpointState
<1> QED BY <1>1 DEF EndpointOK, StartConnect, EndpointState

LEMMA DisconnectOK ==
    ASSUME NEW e, EndpointOK(e)
    PROVE  /\ EndpointOK(Disconnect(e))
           /\ Disconnect(e).send_slots = {} /\ Disconnect(e).recv_slots = {}
<1>1. Disconnect(e) \in EndpointState
  <2>1. 0 \in 0 .. SendWindow
    BY ManagerAssumption
  <2> QED BY <2>1 DEF EndpointOK, Disconnect, EndpointState
<1>2. /\ Disconnect(e).send_slots = {} /\ Disconnect(e).recv_slots = {}
      /\ Disconnect(e).pending_send_count = 0
  BY DEF EndpointOK, Disconnect, EndpointState
<1> QED BY <1>1, <1>2, FS_EmptySet DEF EndpointOK

LEMMA EndpointSendOK ==
    ASSUME NEW e, EndpointOK(e), CanSend(e), e.next_send_seq <= MaxSeq
    PROVE  /\ EndpointOK(EndpointSend(e))
           /\ EndpointSend(e).recv_slots = e.recv_slots
           /\ EndpointSend(e).recv_next_seq = e.recv_next_seq
<1>1. e \in EndpointState /\ e.next_send_seq \notin e.send_slots
  BY DEF EndpointOK, EndpointState
<1>2. Cardinality(e.send_slots \cup {e.next_send_seq}) = Cardinality(e.send_slots) + 1
  BY <1>1, FiniteSends, FS_AddElement
<1>3. EndpointSend(e) \in EndpointState
  <2>1. e.pending_send_count + 1 \in 0 .. SendWindow
    BY <1>1, ManagerAssumption DEF EndpointState, CanSend
  <2>2. e.next_send_seq + 1 \in 1 .. MaxSeq + 1 /\ e.next_send_seq \in 1 .. MaxSeq
    BY <1>1, ManagerAssumption DEF EndpointState
  <2> QED BY <1>1, <2>1, <2>2 DEF EndpointSend, EndpointState
<1> QED BY <1>1, <1>2, <1>3, ManagerAssumption DEF EndpointOK, EndpointSend, EndpointState

LEMMA WithoutOK ==
    ASSUME NEW e, EndpointOK(e), NEW gone \in SUBSET e.send_slots
    PROVE  /\ EndpointOK(Without(e, gone))
           /\ Without(e, gone).send_slots \subseteq e.send_slots
           /\ Without(e, gone).recv_slots = e.recv_slots
           /\ Without(e, gone).recv_next_seq = e.recv_next_seq
<1>1. e \in EndpointState
  BY DEF EndpointOK
<1>2. IsFiniteSet(e.send_slots) /\ Cardinality(e.send_slots) \in Nat
  BY <1>1, FiniteSends
<1>3. IsFiniteSet(gone) /\ Cardinality(gone) \in Nat
        /\ Cardinality(gone) <= Cardinality(e.send_slots)
  BY <1>2, FS_Subset, FS_CardinalityType
<1>4. e.send_slots \cap gone = gone
  OBVIOUS
<1>5. Cardinality(e.send_slots \ gone) = Cardinality(e.send_slots) - Cardinality(gone)
  BY <1>2, <1>4, FS_Difference
<1>6. Without(e, gone) \in EndpointState
  <2>1. e.pending_send_count - Cardinality(gone) \in 0 .. SendWindow
    BY <1>1, <1>2, <1>3, ManagerAssumption DEF EndpointState, EndpointOK
  <2> QED BY <1>1, <2>1 DEF Without, EndpointState
<1> QED BY <1>1, <1>5, <1>6 DEF Without, EndpointState, EndpointOK

LEMMA TickOutcomesOK ==
    ASSUME NEW e, EndpointOK(e), NEW f \in TickOutcomes(e)
    PROVE  /\ EndpointOK(f)
           /\ f.recv_slots = e.recv_slots
           /\ f.recv_next_seq = e.recv_next_seq
<1>1. CASE \E gone \in SUBSET e.send_slots : f = Without(e, gone)
  BY <1>1, WithoutOK
<1>2. ASSUME NEW g, EndpointOK(g)
      PROVE  /\ EndpointOK([g EXCEPT !.conn_state = "timedout"])
             /\ [g EXCEPT !.conn_state = "timedout"].recv_slots = g.recv_slots
             /\ [g EXCEPT !.conn_state = "timedout"].recv_next_seq = g.recv_next_seq
  BY <1>2 DEF EndpointOK, EndpointState
<1>3. CASE \E gone \in SUBSET e.send_slots :
               f = [Without(e, gone) EXCEPT !.conn_state = "timedout"]
  BY <1>2, <1>3, WithoutOK
<1>4. CASE f = [e EXCEPT !.conn_state = "timedout"]
  BY <1>2, <1>4
<1> QED BY <1>1, <1>3, <1>4 DEF TickOutcomes

LEMMA HandledOK ==
    ASSUME NEW e, EndpointOK(e), NEW p \in Packet,
           NEW m, p.kind = "data" => m \in Message
    PROVE  /\ EndpointOK(Handled(e, p, m))
           /\ Handled(e, p, m).recv_next_seq = e.recv_next_seq
           /\ Handled(e, p, m).recv_slots \subseteq e.recv_slots \cup {m}
           /\ e.conn_state = "disconnected"
                  => Handled(e, p, m).recv_slots = e.recv_slots
<1> DEFINE joined == [e EXCEPT !.conn_state = "connected", !.peer_session_id = p.session]
           more   == [e EXCEPT !.recv_slots = @ \cup {m}]
<1>1. EndpointOK(joined) /\ joined.recv_next_seq = e.recv_next_seq
        /\ joined.recv_slots = e.recv_slots
  <2>1. p.session \in PeerSession
    BY DEF Packet
  <2> QED BY <2>1 DEF EndpointOK, EndpointState
<1>2. ASSUME p.kind = "data"
      PROVE  EndpointOK(more) /\ more.recv_next_seq = e.recv_next_seq
               /\ more.recv_slots = e.recv_slots \cup {m}
  BY <1>2 DEF EndpointOK, EndpointState
<1>3. EndpointOK(Without(e, e.send_slots \cap {p.seq}))
        /\ Without(e, e.send_slots \cap {p.seq}).recv_next_seq = e.recv_next_seq
        /\ Without(e, e.send_slots \cap {p.seq}).recv_slots = e.recv_slots
  BY WithoutOK
<1>4. \/ Handled(e, p, m) = e
      \/ Handled(e, p, m) = joined
      \/ Handled(e, p, m) = Without(e, e.send_slots \cap {p.seq})
      \/ Handled(e, p, m) = more /\ p.kind = "data" /\ e.conn_state = "connected"
  BY DEF Handled
<1> HIDE DEF joined, more
<1> QED BY <1>1, <1>2, <1>3, <1>4
-----------------------------------------------------------------------------
(* The table *)

LEMMA InitOK == ASSUME Init PROVE IInv
<1>1. [used |-> FALSE, key |-> 0, ep |-> NewEndpoint] \in SlotState
  BY NewEndpointOK DEF EndpointOK, SlotState
<1>2. NoConnection \in [id : 0 .. MaxMade, got : Seq(Message)]
  BY ManagerAssumption DEF NoConnection
<1>3. \A i \in Slot : slots[i] = [used |-> FALSE, key |-> 0, ep |-> NewEndpoint]
  BY DEF Init
<1>4. slots \in [Slot -> SlotState] /\ log \in LogType
  BY <1>1, <1>2 DEF Init, LogType
<1>5. NewEndpoint.send_slots = {} /\ NewEndpoint.recv_slots = {}
  BY DEF NewEndpoint
<1>6. TableOK(slots, log)
  BY <1>3, <1>4, <1>5, NewEndpointOK DEF TableOK, LinkOK, Distinct
<1> QED BY <1>6, ManagerAssumption DEF IInv, Init

\* A slot's endpoint changes and its place in the table does not.
LEMMA UpdateOK ==
    ASSUME NEW table, NEW history, TableOK(table, history), NEW i \in Slot,
           NEW e, EndpointOK(e), e.recv_next_seq = table[i].ep.recv_next_seq,
           IF table[i].used
           THEN \A m \in e.recv_slots \ table[i].ep.recv_slots :
                    m.key = table[i].key /\ m.id = history[table[i].key].id
           ELSE e.send_slots = {} /\ e.recv_slots = {}
    PROVE  TableOK([table EXCEPT ![i].ep = e], history)
<1> DEFINE new == [table EXCEPT ![i].ep = e]
<1>1. table[i] \in SlotState /\ e \in EndpointState
  BY DEF TableOK, EndpointOK
<1>2. /\ new \in [Slot -> SlotState]
      /\ \A j \in Slot \ {i} : new[j] = table[j]
      /\ \A j \in Slot : new[j].used = table[j].used /\ new[j].key = table[j].key
      /\ new[i].ep = e
  BY <1>1 DEF TableOK, SlotState
<1> HIDE DEF new
<1>3. LinkOK(new[i], history)
  BY <1>2 DEF TableOK, LinkOK
<1>4. \A j \in Slot : EndpointOK(new[j].ep) /\ LinkOK(new[j], history)
  BY <1>2, <1>3 DEF TableOK
<1>5. Distinct(new)
  BY <1>2 DEF TableOK, Distinct
<1> QED BY <1>2, <1>4, <1>5 DEF TableOK, new

\* EnsureSlot finds the key's slot or gives it one, whose endpoint is as new.
LEMMA EnsuredOK ==
    ASSUME IInv, NEW k \in Key, Ensurable(k)
    PROVE  /\ EnsureSlot(k) \in Slot
           /\ TableOK(Ensured(k), LogEnsured(k))
           /\ Ensured(k)[EnsureSlot(k)].used
           /\ Ensured(k)[EnsureSlot(k)].key = k
           /\ FindSlot(k) = {} =>
                  /\ made + 1 \in 0 .. MaxMade
                  /\ ~ slots[EnsureSlot(k)].used
                  /\ Ensured(k)[EnsureSlot(k)].ep = NewEndpoint
                  /\ \A j \in Slot \ {EnsureSlot(k)} : Ensured(k)[j] = slots[j]
<1>1. CASE FindSlot(k) # {}
  <2>1. First(FindSlot(k)) \in FindSlot(k)
    BY <1>1, FirstOf DEF FindSlot
  <2> QED BY <1>1, <2>1 DEF EnsureSlot, Ensured, LogEnsured, FindSlot, IInv
<1>2. CASE FindSlot(k) = {}
  <2> DEFINE i == First(FreeSlots)
             table == [slots EXCEPT ![i] =
                          [used |-> TRUE, key |-> k, ep |-> EndpointInit(@.ep)]]
             history == [log EXCEPT ![k] = [id |-> made + 1, got |-> <<>>]]
  <2>1. /\ i \in Slot /\ ~ slots[i].used /\ made + 1 \in 1 .. MaxMade
        /\ EnsureSlot(k) = i /\ Ensured(k) = table /\ LogEnsured(k) = history
    <3>1. FreeSlots # {} /\ made < MaxMade
      BY <1>2 DEF Ensurable
    <3>2. i \in FreeSlots
      BY <3>1, FirstOf DEF FreeSlots
    <3>3. made + 1 \in 1 .. MaxMade
      BY <3>1, ManagerAssumption DEF IInv
    <3> QED BY <1>2, <3>2, <3>3 DEF FreeSlots, EnsureSlot, Ensured, LogEnsured
  <2> HIDE DEF i
  <2>2. EndpointInit(slots[i].ep) = NewEndpoint
    BY <2>1, EndpointInitOK DEF IInv, TableOK, LinkOK
  <2>3. [used |-> TRUE, key |-> k, ep |-> NewEndpoint] \in SlotState
    BY NewEndpointOK DEF EndpointOK, SlotState
  <2>4. /\ table \in [Slot -> SlotState]
        /\ table[i] = [used |-> TRUE, key |-> k, ep |-> NewEndpoint]
        /\ \A j \in Slot \ {i} : table[j] = slots[j]
    BY <2>1, <2>2, <2>3 DEF IInv, TableOK
  <2>5. /\ history \in LogType
        /\ history[k] = [id |-> made + 1, got |-> <<>>]
        /\ \A j \in Key \ {k} : history[j] = log[j]
    <3>1. [id |-> made + 1, got |-> <<>>] \in [id : 0 .. MaxMade, got : Seq(Message)]
      BY <2>1, ManagerAssumption DEF IInv
    <3> QED BY <3>1 DEF IInv, TableOK, LogType
  <2>6. \A j \in Slot : slots[j].used => slots[j].key # k
    BY <1>2 DEF FindSlot
  <2> HIDE DEF table, history
  <2>7. \A j \in Slot : EndpointOK(table[j].ep) /\ LinkOK(table[j], history)
    <3>1. EndpointOK(table[i].ep) /\ LinkOK(table[i], history)
      <4>1. Len(history[k].got) + 1 = NewEndpoint.recv_next_seq
        BY <2>5 DEF NewEndpoint
      <4>2. NewEndpoint.recv_slots = {} /\ history[k].id >= 1
        BY <2>1, <2>5 DEF NewEndpoint
      <4> QED BY <2>4, <4>1, <4>2, NewEndpointOK DEF LinkOK
    <3>2. ASSUME NEW j \in Slot \ {i}
          PROVE  EndpointOK(table[j].ep) /\ LinkOK(table[j], history)
      <4>1. EndpointOK(slots[j].ep) /\ LinkOK(slots[j], log) /\ table[j] = slots[j]
        BY <2>4 DEF IInv, TableOK
      <4> QED BY <4>1, <2>5, <2>6 DEF LinkOK
    <3> QED BY <3>1, <3>2
  <2>8. Distinct(table)
    BY <2>1, <2>4, <2>6 DEF IInv, TableOK, Distinct
  <2>9. TableOK(table, history)
    BY <2>4, <2>5, <2>7, <2>8 DEF TableOK
  <2>10. made + 1 \in 0 .. MaxMade
    BY <2>1, ManagerAssumption DEF IInv
  <2> QED BY <2>1, <2>4, <2>9, <2>10
<1> QED BY <1>1, <1>2

-----------------------------------------------------------------------------
(* The connections of a table *)

Keys(table) == {table[i].key : i \in {j \in Slot : table[j].used}}

Conns(table, history) == [k \in Keys(table) |-> history[k]]

\* The actions of KeyedConnections, in the terms of Conns.
Opens(k, before, after) ==
    /\ k \notin DOMAIN before
    /\ Cardinality(DOMAIN before) < NumSlots
    /\ after = [j \in DOMAIN before \cup {k} |->
                   IF j = k THEN [id |-> made + 1, got |-> <<>>] ELSE before[j]]

Closes(k, before, after) == after = [j \in DOMAIN before \ {k} |-> before[j]]

Delivers(k, before, after) ==
    after = [before EXCEPT ![k].got =
                Append(@, [key |-> k, id |-> before[k].id, seq |-> Len(@) + 1])]

LEMMA SameConns ==
    ASSUME NEW T1, NEW T2, NEW history,
           \A i \in Slot : T2[i].used = T1[i].used /\ T2[i].key = T1[i].key
    PROVE  Conns(T2, history) = Conns(T1, history)
<1>1. Keys(T2) = Keys(T1)
  BY DEF Keys
<1> QED BY <1>1 DEF Conns

\* While a slot is free there are fewer keys in use than slots.
LEMMA RoomForKey ==
    ASSUME IInv, NEW i \in Slot, ~ slots[i].used
    PROVE  Cardinality(Keys(slots)) < NumSlots
<1> DEFINE S == {j \in Slot : slots[j].used}
           f == [j \in S |-> slots[j].key]
<1>1. IsFiniteSet(Slot) /\ Cardinality(Slot) = NumSlots
  BY FS_Interval, ManagerAssumption DEF Slot
<1>2. IsFiniteSet(S) /\ Cardinality(S) <= NumSlots /\ Cardinality(S) # NumSlots
  <2>1. S \in SUBSET Slot /\ S # Slot
    OBVIOUS
  <2> HIDE DEF S
  <2> QED BY <1>1, <2>1, FS_Subset
<1>3. f \in Surjection(S, Keys(slots))
  BY DEF Surjection, Keys
<1> HIDE DEF f
<1>4. IsFiniteSet(Keys(slots)) /\ Cardinality(Keys(slots)) <= Cardinality(S)
  BY <1>2, <1>3, FS_Surjection
<1>5. Cardinality(Keys(slots)) \in Nat /\ Cardinality(S) \in Nat
  BY <1>2, <1>4, FS_CardinalityType
<1> QED BY <1>2, <1>4, <1>5, ManagerAssumption

\* EnsureSlot changes no connection, or opens one.
LEMMA EnsuredMaps ==
    ASSUME IInv, NEW k \in Key, Ensurable(k), Made(k)
    PROVE  /\ made' \in 0 .. MaxMade
           /\ IF FindSlot(k) # {}
              THEN /\ made' = made
                   /\ Ensured(k) = slots /\ LogEnsured(k) = log
              ELSE /\ made' = made + 1
                   /\ Opens(k, Conns(slots, log), Conns(Ensured(k), LogEnsured(k)))
<1>1. CASE FindSlot(k) # {}
  BY <1>1 DEF Made, Ensured, LogEnsured, IInv
<1>2. CASE FindSlot(k) = {}
  <2> DEFINE i == EnsureSlot(k)
  <2>1. /\ i \in Slot /\ made + 1 \in 0 .. MaxMade /\ ~ slots[i].used
        /\ Ensured(k)[i].used /\ Ensured(k)[i].key = k
        /\ \A j \in Slot \ {i} : Ensured(k)[j] = slots[j]
    BY <1>2, EnsuredOK
  <2>2. made' = made + 1
    BY <1>2 DEF Made
  <2>3. k \notin Keys(slots)
    BY <1>2 DEF FindSlot, Keys
  <2> HIDE DEF i
  <2>4. Keys(Ensured(k)) = Keys(slots) \cup {k}
    <3>1. ASSUME NEW j \in Keys(Ensured(k)) PROVE j \in Keys(slots) \cup {k}
      BY <2>1 DEF Keys
    <3>2. ASSUME NEW j \in Keys(slots) PROVE j \in Keys(Ensured(k))
      <4>1. PICK l \in Slot : slots[l].used /\ slots[l].key = j
        BY DEF Keys
      <4>2. l # i /\ Ensured(k)[l] = slots[l]
        BY <2>1, <4>1
      <4> QED BY <4>1, <4>2 DEF Keys
    <3>3. k \in Keys(Ensured(k))
      BY <2>1 DEF Keys
    <3> QED BY <3>1, <3>2, <3>3
  <2>5. /\ LogEnsured(k)[k] = [id |-> made + 1, got |-> <<>>]
        /\ \A j \in Keys(slots) : LogEnsured(k)[j] = log[j]
    <3>1. log \in LogType /\ Keys(slots) \subseteq Key
      BY DEF IInv, TableOK, Keys, LinkOK
    <3> QED BY <1>2, <2>3, <3>1 DEF LogEnsured, LogType
  <2>6. Cardinality(Keys(slots)) < NumSlots
    BY <2>1, RoomForKey
  <2>7. DOMAIN Conns(slots, log) = Keys(slots)
    BY DEF Conns
  <2>8. Conns(Ensured(k), LogEnsured(k))
          = [j \in Keys(slots) \cup {k} |->
                IF j = k THEN [id |-> made + 1, got |-> <<>>] ELSE Conns(slots, log)[j]]
    BY <2>3, <2>4, <2>5 DEF Conns
  <2> QED BY <1>2, <2>1, <2>2, <2>3, <2>6, <2>7, <2>8 DEF Opens
<1> QED BY <1>1, <1>2

\* A turn of DrainInOrder keeps the table sound and gives at most one message,
\* the next one of its slot's key.
LEMMA DrainTurnOK ==
    ASSUME NEW table, NEW history, TableOK(table, history), NEW i \in Slot,
           DrainTurn(i, table, history)
    PROVE  /\ TableOK(slots', log')
           /\ draining' \in Slot \cup {NoSlot}
           /\ \/ Conns(slots', log') = Conns(table, history)
              \/ /\ NextDue(table[i].ep) # {}
                 /\ table[i].key \in Keys(table)
                 /\ Delivers(table[i].key, Conns(table, history), Conns(slots', log'))
<1>1. CASE slots' = table /\ log' = history /\ draining' = NoSlot
  BY <1>1
<1>2. ASSUME NEW m \in NextDue(table[i].ep),
             slots' = [table EXCEPT ![i].ep.recv_slots = @ \ {m},
                                    ![i].ep.recv_next_seq = @ + 1],
             log' = Delivered(table[i], m, history),
             draining' = i
      PROVE  /\ TableOK(slots', log')
             /\ table[i].key \in Keys(table)
             /\ Delivers(table[i].key, Conns(table, history), Conns(slots', log'))
  <2> DEFINE k == table[i].key
             e == [table[i].ep EXCEPT !.recv_slots = @ \ {m},
                                      !.recv_next_seq = @ + 1]
  <2>1. /\ table[i] \in SlotState /\ EndpointOK(table[i].ep)
        /\ LinkOK(table[i], history) /\ table[i].ep \in EndpointState
    BY DEF TableOK, EndpointOK
  <2>2. m \in table[i].ep.recv_slots /\ m.seq = table[i].ep.recv_next_seq
    BY DEF NextDue
  <2>3. /\ table[i].used /\ k \in Key /\ history[k].id >= 1
        /\ m.key = k /\ m.id = history[k].id
        /\ Len(history[k].got) + 1 = m.seq
    BY <2>1, <2>2 DEF LinkOK
  <2>4. m \in Message /\ m.seq \in 1 .. MaxSeq
    BY <2>1, <2>2 DEF EndpointState, Message
  <2>5. /\ e \in EndpointState /\ EndpointOK(e)
        /\ e.recv_slots = table[i].ep.recv_slots \ {m}
        /\ e.recv_next_seq = m.seq + 1
    <3>1. table[i].ep.recv_next_seq + 1 \in 1 .. MaxSeq + 1
      BY <2>2, <2>4, ManagerAssumption
    <3>2. e \in EndpointState
      BY <2>1, <3>1 DEF EndpointState
    <3> QED BY <2>1, <2>2, <3>2 DEF EndpointOK, EndpointState
  <2>6. /\ slots' \in [Slot -> SlotState] /\ slots'[i].ep = e
        /\ \A j \in Slot : slots'[j].used = table[j].used /\ slots'[j].key = table[j].key
        /\ \A j \in Slot \ {i} : slots'[j] = table[j]
    <3>1. slots' = [table EXCEPT ![i].ep = e]
      BY <1>2, <2>1 DEF TableOK, SlotState, EndpointState
    <3> HIDE DEF e
    <3> QED BY <2>1, <2>5, <3>1 DEF TableOK, SlotState
  <2>7. log' = [history EXCEPT ![k].got = Append(@, m)]
    BY <1>2, <2>3 DEF Delivered
  <2>8. history[k] \in [id : 0 .. MaxMade, got : Seq(Message)]
    BY <2>3 DEF TableOK, LogType
  <2>9. /\ log' \in LogType
        /\ log'[k].id = history[k].id
        /\ log'[k].got = Append(history[k].got, m)
        /\ \A j \in Key \ {k} : log'[j] = history[j]
    <3>1. Append(history[k].got, m) \in Seq(Message)
      BY <2>4, <2>8
    <3> QED BY <2>3, <2>7, <2>8, <3>1 DEF TableOK, LogType
  <2>10. Len(log'[k].got) = m.seq
    BY <2>3, <2>4, <2>8, <2>9
  <2> HIDE DEF e
  <2>11. ASSUME NEW j \in Slot
         PROVE  EndpointOK(slots'[j].ep) /\ LinkOK(slots'[j], log')
    <3>1. CASE j = i
      BY ZenonT(60), <2>1, <2>3, <2>5, <2>6, <2>9, <2>10, <3>1 DEF LinkOK
    <3>2. CASE j # i
      <4>1. EndpointOK(table[j].ep) /\ LinkOK(table[j], history) /\ slots'[j] = table[j]
        BY <2>6, <3>2 DEF TableOK
      <4>2. table[j].used => table[j].key # k
        BY <2>3, <3>2 DEF TableOK, Distinct
      <4> QED BY ZenonT(60), <2>9, <4>1, <4>2 DEF LinkOK
    <3> QED BY <3>1, <3>2
  <2>12. Distinct(slots')
    BY <2>6 DEF TableOK, Distinct
  <2>13. k \in Keys(table) /\ Keys(table) \subseteq Key
    BY <2>3 DEF Keys, TableOK, LinkOK
  <2>14. m = [key |-> k, id |-> history[k].id, seq |-> Len(history[k].got) + 1]
    BY <2>3, <2>4 DEF Message
  <2>15. Keys(slots') = Keys(table)
    BY <2>6 DEF Keys
  <2>16. Conns(slots', log') = [j \in Keys(table) |-> log'[j]]
    BY <2>15 DEF Conns
  <2>17. log'[k] = [history[k] EXCEPT !.got =
                      Append(@, [key |-> k, id |-> history[k].id, seq |-> Len(@) + 1])]
    BY <2>3, <2>7, <2>14 DEF TableOK, LogType
  <2>18. Delivers(k, Conns(table, history), Conns(slots', log'))
    BY <2>9, <2>13, <2>16, <2>17 DEF Delivers, Conns
  <2> QED BY <2>6, <2>9, <2>11, <2>12, <2>13, <2>18 DEF TableOK
<1> QED BY <1>1, <1>2 DEF DrainTurn

-----------------------------------------------------------------------------
(* Every step keeps the invariant and is a step of KeyedConnections *)

\* What a step of the manager does to the connections and their count.
Maps ==
    \/ made' = made /\ Conns(slots', log') = Conns(slots, log)
    \/ /\ made' = made + 1
       /\ \E k \in Key : Opens(k, Conns(slots, log), Conns(slots', log'))
    \/ /\ made' = made
       /\ \E k \in Keys(slots) :
              \/ Closes(k, Conns(slots, log), Conns(slots', log'))
              \/ Delivers(k, Conns(slots, log), Conns(slots', log'))

LEMMA EnsuredStep ==
    ASSUME IInv, NEW k \in Key, Ensurable(k), Made(k),
           UNCHANGED <<cfg, draining>>, log' = LogEnsured(k),
           NEW e, EndpointOK(e),
           e.recv_slots = Ensured(k)[EnsureSlot(k)].ep.recv_slots,
           e.recv_next_seq = Ensured(k)[EnsureSlot(k)].ep.recv_next_seq,
           slots' = [Ensured(k) EXCEPT ![EnsureSlot(k)].ep = e]
    PROVE  IInv' /\ Maps
<1> DEFINE i == EnsureSlot(k)  table == Ensured(k)
<1>1. /\ i \in Slot /\ TableOK(table, log') /\ table[i].used
  BY EnsuredOK
<1>2. /\ made' \in 0 .. MaxMade
      /\ IF FindSlot(k) # {}
         THEN made' = made /\ table = slots /\ log' = log
         ELSE /\ made' = made + 1
              /\ Opens(k, Conns(slots, log), Conns(table, log'))
  BY EnsuredMaps
<1>3. slots' = [table EXCEPT ![i].ep = e] /\ e.recv_slots = table[i].ep.recv_slots
        /\ e.recv_next_seq = table[i].ep.recv_next_seq
  OBVIOUS
<1> HIDE DEF i, table
<1>4. TableOK([table EXCEPT ![i].ep = e], log')
  BY <1>1, <1>3, UpdateOK
<1>5. TableOK(slots', log')
  BY <1>3, <1>4
<1>6. Conns(slots', log') = Conns(table, log')
  <2>1. \A j \in Slot : slots'[j].used = table[j].used /\ slots'[j].key = table[j].key
    BY <1>1, <1>3 DEF TableOK, SlotState
  <2>2. Keys(slots') = Keys(table)
    BY <2>1 DEF Keys
  <2> QED BY <2>2 DEF Conns
<1>7. IInv'
  BY <1>2, <1>5 DEF IInv
<1>8. Maps
  BY <1>2, <1>6 DEF Maps
<1> QED BY <1>7, <1>8

LEMMA OpenOK ==
    ASSUME IInv, NEW k \in Key, NEW b \in BOOLEAN, Open(k, b)
    PROVE  IInv' /\ Maps
<1> DEFINE old == Ensured(k)[EnsureSlot(k)].ep
           e == IF b THEN StartConnect(old) ELSE old
<1>1. Ensurable(k) /\ Made(k) /\ UNCHANGED <<cfg, draining>> /\ log' = LogEnsured(k)
  BY DEF Open
<1>2. EndpointOK(old)
  BY <1>1, EnsuredOK DEF TableOK
<1>3. slots' = [Ensured(k) EXCEPT ![EnsureSlot(k)].ep = e]
  <2>1. Ensured(k) \in [Slot -> SlotState] /\ EnsureSlot(k) \in Slot
    BY <1>1, EnsuredOK DEF TableOK
  <2> QED BY <2>1 DEF Open, SlotState
<1>4. EndpointOK(e) /\ e.recv_slots = old.recv_slots /\ e.recv_next_seq = old.recv_next_seq
  BY <1>2, StartConnectOK
<1> HIDE DEF e
<1> QED BY <1>1, <1>3, <1>4, EnsuredStep

LEMMA SendOK == ASSUME IInv, NEW k \in Key, Send(k) PROVE IInv' /\ Maps
<1> DEFINE old == Ensured(k)[EnsureSlot(k)].ep
           e == IF CanSend(old) /\ old.next_send_seq <= MaxSeq
                THEN EndpointSend(old) ELSE old
<1>1. Ensurable(k) /\ Made(k) /\ UNCHANGED <<cfg, draining>> /\ log' = LogEnsured(k)
  BY DEF Send
<1>2. EndpointOK(old)
  BY <1>1, EnsuredOK DEF TableOK
<1>3. slots' = [Ensured(k) EXCEPT ![EnsureSlot(k)].ep = e]
  <2>1. Ensured(k) \in [Slot -> SlotState] /\ EnsureSlot(k) \in Slot
    BY <1>1, EnsuredOK DEF TableOK
  <2> QED BY <2>1 DEF Send, SlotState
<1>4. EndpointOK(e) /\ e.recv_slots = old.recv_slots /\ e.recv_next_seq = old.recv_next_seq
  BY <1>2, EndpointSendOK
<1> HIDE DEF e
<1> QED BY <1>1, <1>3, <1>4, EnsuredStep

LEMMA RemoveOK == ASSUME IInv, NEW k \in Key, Remove(k) PROVE IInv' /\ Maps
<1> DEFINE i == First(FindSlot(k))
<1>1. i \in Slot /\ slots[i].used /\ slots[i].key = k
  <2>1. i \in FindSlot(k)
    BY FirstOf DEF Remove, FindSlot
  <2> QED BY <2>1 DEF FindSlot
<1>2. slots' = [slots EXCEPT ![i] = Freed(@)] /\ log' = [log EXCEPT ![k] = NoConnection]
        /\ UNCHANGED <<cfg, draining, made>>
  BY DEF Remove
<1> HIDE DEF i
<1>3. EndpointOK(slots[i].ep)
  BY <1>1 DEF IInv, TableOK
<1>4. /\ EndpointOK(Freed(slots[i]).ep) /\ ~ Freed(slots[i]).used
      /\ Freed(slots[i]).ep.send_slots = {} /\ Freed(slots[i]).ep.recv_slots = {}
      /\ Freed(slots[i]) \in SlotState
  BY <1>3, DisconnectOK DEF Freed, SlotState, EndpointOK
<1>5. /\ slots' \in [Slot -> SlotState]
      /\ slots'[i] = Freed(slots[i])
      /\ \A j \in Slot \ {i} : slots'[j] = slots[j]
  BY <1>1, <1>2, <1>4 DEF IInv, TableOK
<1>6. log' \in LogType /\ \A j \in Key \ {k} : log'[j] = log[j]
  <2>1. NoConnection \in [id : 0 .. MaxMade, got : Seq(Message)]
    BY ManagerAssumption DEF NoConnection
  <2> QED BY <1>2, <2>1 DEF IInv, TableOK, LogType
<1>7. \A j \in Slot \ {i} : slots[j].used => slots[j].key # k
  BY <1>1 DEF IInv, TableOK, Distinct
<1>8. ASSUME NEW j \in Slot
      PROVE  EndpointOK(slots'[j].ep) /\ LinkOK(slots'[j], log')
  <2>1. CASE j = i
    BY <1>4, <1>5, <2>1 DEF LinkOK
  <2>2. CASE j # i
    <3>1. EndpointOK(slots[j].ep) /\ LinkOK(slots[j], log) /\ slots'[j] = slots[j]
      BY <1>5, <2>2 DEF IInv, TableOK
    <3> QED BY <1>6, <1>7, <2>2, <3>1 DEF LinkOK
  <2> QED BY <2>1, <2>2
<1>9. Distinct(slots')
  BY <1>4, <1>5 DEF IInv, TableOK, Distinct
<1>10. IInv'
  BY <1>2, <1>5, <1>6, <1>8, <1>9 DEF IInv, TableOK
<1>11. k \in Keys(slots)
  BY <1>1 DEF Keys
<1>12. Keys(slots') = Keys(slots) \ {k}
  BY <1>1, <1>4, <1>5, <1>7 DEF Keys
<1>13. Keys(slots) \subseteq Key
  BY DEF IInv, TableOK, LinkOK, Keys
<1>14. Closes(k, Conns(slots, log), Conns(slots', log'))
  BY <1>6, <1>12, <1>13 DEF Closes, Conns
<1> QED BY <1>2, <1>10, <1>11, <1>14 DEF Maps

LEMMA OnUdpPacketOK ==
    ASSUME IInv, NEW p \in Packet, OnUdpPacket(p)
    PROVE  IInv' /\ Maps
<1> DEFINE k == p.key
           i == EnsureSlot(k)
           history == LogEnsured(k)
           m == [key |-> k, id |-> history[k].id, seq |-> p.seq]
           e == Handled(Ensured(k)[i].ep, p, m)
           table == [Ensured(k) EXCEPT ![i].ep = e]
<1>1. Ensurable(k) /\ Made(k) /\ UNCHANGED cfg /\ k \in Key
  BY DEF OnUdpPacket, Packet
<1>2. /\ i \in Slot /\ TableOK(Ensured(k), history)
      /\ Ensured(k)[i].used /\ Ensured(k)[i].key = k
      /\ FindSlot(k) = {} => Ensured(k)[i].ep = NewEndpoint
  BY <1>1, EnsuredOK
<1>3. /\ EndpointOK(Ensured(k)[i].ep) /\ LinkOK(Ensured(k)[i], history)
      /\ history \in LogType /\ Ensured(k) \in [Slot -> SlotState]
  BY <1>2 DEF TableOK
<1>4. p.kind = "data" => m \in Message
  <2>1. history[k].id \in 1 .. MaxMade
    BY <1>1, <1>2, <1>3 DEF LinkOK, LogType
  <2>2. p.kind = "data" => p.seq \in 1 .. MaxSeq
    BY DEF Packet
  <2> QED BY <1>1, <2>1, <2>2 DEF Message
<1>5. DrainTurn(i, table, history)
  <2>1. table = [Ensured(k) EXCEPT ![i].ep = Handled(@, p, m)]
    BY <1>2, <1>3 DEF SlotState
  <2>2. DrainTurn(i, [Ensured(k) EXCEPT ![i].ep = Handled(@, p, m)], history)
    BY DEF OnUdpPacket
  <2> HIDE DEF table, m, history, i
  <2> QED BY <2>1, <2>2
<1>6. /\ EndpointOK(e) /\ e.recv_next_seq = Ensured(k)[i].ep.recv_next_seq
      /\ e.recv_slots \subseteq Ensured(k)[i].ep.recv_slots \cup {m}
      /\ Ensured(k)[i].ep.conn_state = "disconnected"
             => e.recv_slots = Ensured(k)[i].ep.recv_slots
  <2> HIDE DEF m
  <2> QED BY <1>3, <1>4, HandledOK
<1>7. m.key = k /\ m.id = history[k].id
  OBVIOUS
<1>8. /\ made' \in 0 .. MaxMade
      /\ IF FindSlot(k) # {}
         THEN made' = made /\ Ensured(k) = slots /\ history = log
         ELSE /\ made' = made + 1
              /\ Opens(k, Conns(slots, log), Conns(Ensured(k), history))
  BY <1>1, EnsuredMaps
<1> HIDE DEF i, history, m, e
<1>9. TableOK(table, history)
  <2>1. \A r \in e.recv_slots \ Ensured(k)[i].ep.recv_slots :
            r.key = Ensured(k)[i].key /\ r.id = history[Ensured(k)[i].key].id
    BY <1>2, <1>6, <1>7
  <2> QED BY <1>2, <1>6, <2>1, UpdateOK
<1>10. /\ table[i].ep = e /\ table[i].key = k
       /\ Conns(table, history) = Conns(Ensured(k), history)
  <2>1. /\ table[i].ep = e
        /\ \A j \in Slot : table[j].used = Ensured(k)[j].used
                           /\ table[j].key = Ensured(k)[j].key
    BY <1>2, <1>3 DEF SlotState
  <2> HIDE DEF table
  <2> QED BY <1>2, <2>1, SameConns
<1> HIDE DEF table
<1>11. /\ TableOK(slots', log') /\ draining' \in Slot \cup {NoSlot}
       /\ \/ Conns(slots', log') = Conns(Ensured(k), history)
          \/ /\ NextDue(e) # {}
             /\ k \in Keys(table)
             /\ Delivers(k, Conns(Ensured(k), history), Conns(slots', log'))
  BY <1>2, <1>5, <1>9, <1>10, DrainTurnOK
<1>12. IInv'
  BY <1>1, <1>8, <1>11 DEF IInv
<1>13. CASE FindSlot(k) = {}
  <2>1. NextDue(e) = {}
    BY <1>2, <1>6, <1>13 DEF NewEndpoint, NextDue
  <2> QED BY <1>1, <1>8, <1>11, <1>12, <1>13, <2>1 DEF Maps
<1>14. CASE FindSlot(k) # {}
  <2>1. k \in Keys(slots)
    BY <1>14 DEF FindSlot, Keys
  <2> QED BY <1>8, <1>11, <1>12, <1>14, <2>1 DEF Maps
<1> QED BY <1>13, <1>14

LEMMA CallbackReturnsOK == ASSUME IInv, CallbackReturns PROVE IInv' /\ Maps
<1>1. draining \in Slot /\ DrainTurn(draining, slots, log) /\ UNCHANGED <<cfg, made>>
  BY DEF CallbackReturns, IInv
<1>2. TableOK(slots, log)
  BY DEF IInv
<1>3. /\ TableOK(slots', log') /\ draining' \in Slot \cup {NoSlot}
      /\ \/ Conns(slots', log') = Conns(slots, log)
         \/ /\ slots[draining].key \in Keys(slots)
            /\ Delivers(slots[draining].key, Conns(slots, log), Conns(slots', log'))
  BY <1>1, <1>2, DrainTurnOK
<1> QED BY <1>1, <1>3 DEF IInv, Maps

LEMMA TickOK == ASSUME IInv, Tick PROVE IInv' /\ Maps
<1>1. PICK after \in [Slot -> UNION {TickOutcomes(slots[i].ep) : i \in Slot}] :
          /\ \A i \in Slot :
                 after[i] \in (IF slots[i].used THEN TickOutcomes(slots[i].ep)
                               ELSE {slots[i].ep})
          /\ slots' = [i \in Slot |-> [slots[i] EXCEPT !.ep = after[i]]]
  BY DEF Tick
<1>2. UNCHANGED <<cfg, draining, made, log>>
  BY DEF Tick
<1>3. ASSUME NEW i \in Slot
      PROVE  /\ slots[i] \in SlotState
             /\ EndpointOK(after[i]) /\ LinkOK(slots[i], log)
             /\ after[i].recv_slots = slots[i].ep.recv_slots
             /\ after[i].recv_next_seq = slots[i].ep.recv_next_seq
             /\ ~ slots[i].used => after[i] = slots[i].ep
  <2>1. EndpointOK(slots[i].ep) /\ LinkOK(slots[i], log) /\ slots[i] \in SlotState
    BY DEF IInv, TableOK
  <2>2. CASE slots[i].used
    <3>1. after[i] \in TickOutcomes(slots[i].ep)
      BY <1>1, <2>2
    <3> QED BY <2>1, <2>2, <3>1, TickOutcomesOK
  <2>3. CASE ~ slots[i].used
    BY <1>1, <2>1, <2>3
  <2> QED BY <2>2, <2>3
<1>4. ASSUME NEW i \in Slot
      PROVE  /\ slots'[i] \in SlotState
             /\ slots'[i].used = slots[i].used /\ slots'[i].key = slots[i].key
             /\ EndpointOK(slots'[i].ep) /\ LinkOK(slots'[i], log)
  <2>1. slots'[i] = [slots[i] EXCEPT !.ep = after[i]]
    BY <1>1
  <2>2. /\ slots'[i] \in SlotState /\ slots'[i].ep = after[i]
        /\ slots'[i].used = slots[i].used /\ slots'[i].key = slots[i].key
    BY <1>3, <2>1 DEF SlotState, EndpointOK
  <2> QED BY <1>3, <2>2 DEF LinkOK
<1>5. slots' \in [Slot -> SlotState]
  <2>1. slots' = [i \in Slot |-> slots'[i]]
    BY <1>1
  <2> QED BY <1>4, <2>1
<1>6. Distinct(slots')
  BY <1>4 DEF IInv, TableOK, Distinct
<1>7. Conns(slots', log) = Conns(slots, log)
  BY <1>4, SameConns
<1>8. TableOK(slots', log)
  BY <1>4, <1>5, <1>6 DEF IInv, TableOK
<1> QED BY <1>2, <1>7, <1>8 DEF IInv, Maps

LEMMA StepOK == ASSUME IInv, [Next]_vars PROVE IInv' /\ Maps
<1>1. CASE InitManager
  BY <1>1 DEF InitManager, IInv, Maps
<1>2. CASE \E k \in Key, b \in BOOLEAN : Open(k, b)
  BY <1>2, OpenOK
<1>3. CASE \E k \in Key : Remove(k)
  BY <1>3, RemoveOK
<1>4. CASE \E k \in Key : Send(k)
  BY <1>4, SendOK
<1>5. CASE \E p \in Packet : OnUdpPacket(p)
  BY <1>5, OnUdpPacketOK
<1>6. CASE CallbackReturns
  BY <1>6, CallbackReturnsOK
<1>7. CASE Tick
  BY <1>7, TickOK
<1>8. CASE UNCHANGED vars
  BY <1>8 DEF vars, IInv, Maps
<1> QED BY <1>1, <1>2, <1>3, <1>4, <1>5, <1>6, <1>7, <1>8 DEF Next

-----------------------------------------------------------------------------
(* The theorems *)

\* Whatever the calls, the packets and the callbacks, the table and the log
\* stay sound: EnsureSlot, Remove and DrainInOrder (src/manager.cpp) keep IInv.
THEOREM Invariance == Spec => []IInv
<1>1. IInv /\ [Next]_vars => IInv'
  BY StepOK
<1> QED BY <1>1, InitOK, PTL DEF Spec

\* The table, the history and the manager's flags keep their types.
THEOREM TypeCorrect == Spec => []TypeOK
<1>1. IInv => TypeOK
  BY DEF IInv, TableOK, TypeOK, SlotState, LogType
<1> QED BY <1>1, Invariance, PTL

\* pending_send_count_ is the number of queued messages in every slot, used or
\* free, although Init leaves it alone: each way to give a slot back, and each
\* message that goes, accounts for it.
THEOREM PendingCountExact == Spec => []PendingExact
<1>1. IInv => PendingExact
  BY DEF IInv, TableOK, EndpointOK, PendingExact
<1> QED BY <1>1, Invariance, PTL

\* FindSlot and EnsureSlot never give a key a second slot.
THEOREM OneSlot == Spec => []OneSlotPerKey
<1>1. IInv => OneSlotPerKey
  BY DEF IInv, TableOK, Distinct, OneSlotPerKey
<1> QED BY <1>1, Invariance, PTL

\* The manager implements the map of keyed connections: however calls and
\* re-entrant callbacks follow each other, a connection is given the messages
\* of its own key and lifetime, in order, each of them once.
THEOREM ImplementsKeyedConnections == Spec => KeyedDelivery
<1>1. Init => KC!Init
  BY DEF Init, KC!Init, UsedKeys
<1>2. ASSUME IInv, [Next]_vars PROVE [KC!Next]_(KC!vars)
  <2>1. Maps
    BY <1>2, StepOK
  <2>2. Conns(slots, log) = [k \in UsedKeys |-> log[k]]
    BY DEF Conns, Keys, UsedKeys
  <2>3. Conns(slots', log') = [k \in UsedKeys' |-> log'[k]]
    BY DEF Conns, Keys, UsedKeys
  <2>4. Keys(slots) = UsedKeys
    BY DEF Keys, UsedKeys
  <2>5. CASE made' = made /\ Conns(slots', log') = Conns(slots, log)
    BY <2>2, <2>3, <2>5 DEF KC!vars
  <2>6. ASSUME made' = made + 1, NEW k \in Key,
               Opens(k, Conns(slots, log), Conns(slots', log'))
        PROVE  KC!Next
    <3>1. \A S : KC!Cardinality(S) = Cardinality(S)
      BY DEF Cardinality, KC!Cardinality
    <3>2. KC!Open(k)
      BY <2>2, <2>3, <2>6, <3>1 DEF Opens, KC!Open
    <3> QED BY <3>2 DEF KC!Next
  <2>7. ASSUME made' = made, NEW k \in Keys(slots),
               Closes(k, Conns(slots, log), Conns(slots', log'))
        PROVE  KC!Next
    <3>1. KC!Close(k)
      BY <2>2, <2>3, <2>7 DEF Closes, KC!Close
    <3> QED BY <2>4, <3>1 DEF KC!Next
  <2>8. ASSUME made' = made, NEW k \in Keys(slots),
               Delivers(k, Conns(slots, log), Conns(slots', log'))
        PROVE  KC!Next
    <3>1. KC!Deliver(k)
      BY <2>2, <2>3, <2>8 DEF Delivers, KC!Deliver
    <3> QED BY <2>4, <3>1 DEF KC!Next
  <2> QED BY <2>1, <2>5, <2>6, <2>7, <2>8 DEF Maps
<1> QED BY <1>1, <1>2, Invariance, PTL DEF Spec, KeyedDelivery, KC!Spec
=============================================================================
