----------------------------- MODULE KeyRotation -----------------------------
(***************************************************************************)
(* Authentication keys of two connected Endpoints and their rotation while *)
(* traffic flows (class Endpoint, src/rudp.cpp): a ring of two keys, the   *)
(* key id in every frame, KeyUpdate and KeyUpdateAck control frames and    *)
(* the nonce at which the sender switches.                                 *)
(*                                                                         *)
(* A key is named by its id: both applications give an id the same key     *)
(* material.  enable_auth is on, the session never changes, heartbeat and  *)
(* idle timeout are off.  What a frame carries besides its nonce, key and  *)
(* KeyUpdate payload does not matter here.                                 *)
(* Nonces stay below the 64 of the replay window, which then refuses       *)
(* exactly the frames taken before; `net` loses a control frame when it is *)
(* taken, and a frame that never arrives is one that is lost.  Slip...     *)
(* operators are mistaken variants of the definitions after them, for the  *)
(* mutation checks.                                                        *)
(***************************************************************************)
EXTENDS Integers, Sequences

CONSTANTS
    A, B,          \* the two endpoints
    KeyId,         \* key ids the applications use; 1 is the one Init installs
    Target,        \* keys that the applications schedule a rotation to
    Lead,          \* lead_packets the applications ask for
    MinLead,       \* least lead_packets, 4
    Postpone,      \* nonces by which a missed activation is put off, 8
    MaxRetries,    \* cfg_.key_update_max_retries, 0 for no limit
    Manual,        \* endpoints whose applications switch keys at once
    MaxNonce,      \* bound: nonces each endpoint uses before it falls silent
    MaxRotations   \* bound: calls of each endpoint that switch its key or schedule it

Node == {A, B}

ASSUME KeyRotationAssumption ==
    /\ A # B
    /\ KeyId \subseteq Nat \ {0}
    /\ 1 \in KeyId
    /\ Target \subseteq KeyId
    /\ Lead \in Nat
    /\ MinLead \in Nat \ {0}
    /\ Postpone \in Nat \ {0}
    /\ MaxRetries \in Nat
    /\ Manual \subseteq Node
    /\ MaxNonce \in [Node -> Nat]
    /\ MaxRotations \in [Node -> Nat]

Peer == [n \in Node |-> IF n = A THEN B ELSE A]

Place == {0, 1}
None  == 0          \* no key: a free place, or a frame without a valid tag

VARIABLES
    auth_keys,   \* auth_keys_: the key in each place of the ring
    tx,          \* what an endpoint signs with, and its pending rotation
    rule,        \* peer_key_...: what an endpoint expects its peer to sign with
    net,         \* KeyUpdate and KeyUpdateAck frames sent and not taken
    rotations    \* bookkeeping of MaxRotations

vars == <<auth_keys, tx, rule, net, rotations>>

\* The fields of tx are tx_key_id_, pending_tx_key_rotation_, pending_tx_key_id_,
\* pending_tx_activate_nonce_, pending_tx_key_acknowledged_,
\* pending_tx_old_key_id_, pending_tx_key_retry_count_, whether
\* last_key_update_announce_ms_ is set, and the key that signed each nonce so
\* far (the last of them is tx_nonce_counter_).
Sender == [key : KeyId, pending : BOOLEAN, next : KeyId \cup {None},
           activate : Nat, acked : BOOLEAN, old : KeyId \cup {None},
           retries : Nat, announced : BOOLEAN, signed : Seq(KeyId \cup {None})]

Rule == [known : BOOLEAN, next : KeyId \cup {None}, activate : Nat]

Frame == [src : Node, kind : {"update", "updateAck"}, nonce : Nat,
          key : KeyId \cup {None}, id : KeyId, activate : Nat]

Init ==
    /\ auth_keys = [n \in Node |-> [i \in Place |-> IF i = 0 THEN 1 ELSE None]]
    /\ tx = [n \in Node |->
               [key |-> 1, pending |-> FALSE, next |-> None, activate |-> 0,
                acked |-> FALSE, old |-> None, retries |-> 0,
                announced |-> FALSE, signed |-> << >>]]
    /\ rule = [n \in Node |-> [known |-> FALSE, next |-> None, activate |-> 0]]
    /\ net = {}
    /\ rotations = [n \in Node |-> 0]

-----------------------------------------------------------------------------
(* The key ring *)

\* ResolveAuthKey.
Resolves(keys, k) == k # None /\ \E i \in Place : keys[i] = k

\* The place SetAuthKey gives to key k: the one that has it, else a free one,
\* else the one that does not hold the key in use.
PlaceFor(keys, k, key) ==
    LET has(j) == \E i \in Place : keys[i] = j
        first(j) == IF keys[0] = j THEN 0 ELSE 1
    IN  IF has(k) THEN first(k)
        ELSE IF has(None) THEN first(None)
        ELSE IF keys[0] = key THEN 1 ELSE 0

-----------------------------------------------------------------------------
(* Signing *)

NextNonce(t) == Len(t.signed) + 1

\* The activation check that BuildDataFrame, SendControl and Tick begin with.
SlipForgetsPending(t) ==
    IF NextNonce(t) >= t.activate
    THEN [t EXCEPT !.key = t.next, !.pending = FALSE]
    ELSE t
SlipUnacknowledged(t) ==
    IF t.pending /\ NextNonce(t) >= t.activate
    THEN [t EXCEPT !.key = t.next, !.pending = FALSE]
    ELSE t
Activated(t) ==
    IF t.pending /\ t.acked /\ NextNonce(t) >= t.activate
    THEN [t EXCEPT !.key = t.next, !.pending = FALSE]
    ELSE t

\* A new frame is signed: its nonce is spent even if the frame is not sent.
\* Without the key in the ring the tag is 0, which no receiver takes.
Signed(t, keys) ==
    LET u == Activated(t)
    IN  [u EXCEPT !.signed =
            Append(@, IF Resolves(keys, u.key) THEN u.key ELSE None)]

\* The control frame that the latest nonce of t stands for.
Control(n, t, kind, k, activate) ==
    [src |-> n, kind |-> kind, nonce |-> Len(t.signed),
     key |-> t.signed[Len(t.signed)], id |-> k, activate |-> activate]

-----------------------------------------------------------------------------
(* Receiving *)

\* The part of OnUdpPacket that compares a frame with the announced rotation.
SlipAdmits(r, nonce, k) ==
    r.known => /\ nonce <= r.activate => k # r.next
               /\ nonce > r.activate => k = r.next
Admits(r, nonce, k) ==
    r.known => /\ nonce < r.activate => k # r.next
               /\ nonce >= r.activate => k = r.next

\* OnUdpPacket takes the frame: the tag is right under a key of the ring.
Acceptable(n, nonce, k) ==
    Resolves(auth_keys[n], k) /\ Admits(rule[n], nonce, k)

-----------------------------------------------------------------------------
(* Calls of the application *)

SetAuthKey(n, k, setAsTx) ==
    /\ setAsTx => n \in Manual /\ rotations[n] < MaxRotations[n]
    /\ auth_keys' = [auth_keys EXCEPT ![n] =
                        [@ EXCEPT ![PlaceFor(auth_keys[n], k, tx[n].key)] = k]]
    /\ tx' = [tx EXCEPT ![n].key = IF setAsTx THEN k ELSE @]
    /\ rotations' = [rotations EXCEPT ![n] = IF setAsTx THEN @ + 1 ELSE @]
    /\ UNCHANGED <<rule, net>>

RotateTxKey(n, k) ==
    /\ n \in Manual
    /\ rotations[n] < MaxRotations[n]
    /\ Resolves(auth_keys[n], k)
    /\ tx' = [tx EXCEPT ![n].key = k]
    /\ rotations' = [rotations EXCEPT ![n] = @ + 1]
    /\ UNCHANGED <<auth_keys, rule, net>>

ScheduleTxKeyRotation(n, k) ==
    /\ rotations[n] < MaxRotations[n]
    /\ Resolves(auth_keys[n], k)
    /\ LET t == tx[n]
           lead == IF Lead < MinLead THEN MinLead ELSE Lead
       IN  tx' = [tx EXCEPT ![n] =
                    [t EXCEPT !.pending = TRUE, !.next = k,
                              !.activate = Len(t.signed) + lead,
                              !.acked = FALSE, !.old = t.key,
                              !.retries = 0, !.announced = FALSE]]
    /\ rotations' = [rotations EXCEPT ![n] = @ + 1]
    /\ UNCHANGED <<auth_keys, rule, net>>

\* Send builds a data frame (BuildDataFrame): its receiver changes no key for
\* it, so only its signature is kept.
Transmit(n) ==
    /\ Len(tx[n].signed) < MaxNonce[n]
    /\ tx' = [tx EXCEPT ![n] = Signed(@, auth_keys[n])]
    /\ UNCHANGED <<auth_keys, rule, net, rotations>>

-----------------------------------------------------------------------------
(* Tick *)

RetireDue(t) == ~t.pending /\ t.acked /\ t.old # None

\* The ring without the key that the finished rotation replaced.
SlipRetired(keys, t) ==
    IF RetireDue(t)
    THEN [i \in Place |-> IF keys[i] = t.old THEN None ELSE keys[i]]
    ELSE keys
Retired(keys, t) ==
    IF RetireDue(t)
    THEN [i \in Place |-> IF keys[i] = t.old /\ t.old # t.key
                          THEN None ELSE keys[i]]
    ELSE keys

Finished(t) ==
    IF RetireDue(t) THEN [t EXCEPT !.old = None, !.acked = FALSE] ELSE t

\* The activation nonce comes up and the peer has not answered.
Postponed(t) ==
    IF t.pending /\ ~t.acked /\ NextNonce(t) >= t.activate
    THEN [t EXCEPT !.activate = NextNonce(t) + Postpone, !.announced = FALSE]
    ELSE t

\* An announcement went out; after too many the rotation is given up.
Announced(t) ==
    LET r == IF t.retries < 255 THEN t.retries + 1 ELSE t.retries
    IN  IF MaxRetries > 0 /\ r > MaxRetries
        THEN [t EXCEPT !.pending = FALSE, !.next = None, !.activate = 0,
                       !.acked = FALSE, !.old = None, !.retries = 0,
                       !.announced = TRUE]
        ELSE [t EXCEPT !.retries = r, !.announced = TRUE]

\* late: key_update_retry_ms has passed since the last announcement; refused:
\* send_raw (or pacing) refuses the announcement, whose nonce is spent; flush:
\* FlushAcks, which runs last, has an acknowledgement to send.
Tick(n, late, refused, flush) ==
    LET t0       == Activated(tx[n])
        keys     == Retired(auth_keys[n], t0)
        t1       == Postponed(Finished(t0))
        announce == t1.pending /\ ~t1.acked /\ (t1.announced => late)
        t2       == Signed(t1, keys)
        t3       == IF ~announce THEN t1
                    ELSE IF refused THEN t2 ELSE Announced(t2)
    IN  /\ ~announce => ~late /\ ~refused
        /\ announce => Len(t1.signed) < MaxNonce[n]
        /\ flush => Len(t3.signed) < MaxNonce[n]
        /\ auth_keys' = [auth_keys EXCEPT ![n] = keys]
        /\ tx' = [tx EXCEPT ![n] = IF flush THEN Signed(t3, keys) ELSE t3]
        /\ net' = IF announce /\ ~refused
                  THEN net \cup {Control(n, t2, "update", t2.next, t2.activate)}
                  ELSE net
        /\ UNCHANGED <<rule, rotations>>

-----------------------------------------------------------------------------
(* OnUdpPacket and HandleControl *)

\* The receiver can follow the announced rotation: it has the key.
SlipUnderstood(n, f) == f.activate > 0
Understood(n, f) == Resolves(auth_keys[n], f.id) /\ f.activate > 0

\* What the receiver expects from then on.
SlipExpected(f) == [known |-> TRUE, next |-> f.id, activate |-> f.activate + 1]
Expected(f) == [known |-> TRUE, next |-> f.id, activate |-> f.activate]

ReceiveUpdate(n, f, refused) ==
    /\ f.src = Peer[n]
    /\ f.kind = "update"
    /\ Acceptable(n, f.nonce, f.key)
    /\ IF Understood(n, f)
       THEN LET t == Signed(tx[n], auth_keys[n])
            IN  /\ Len(tx[n].signed) < MaxNonce[n]
                /\ rule' = [rule EXCEPT ![n] = Expected(f)]
                /\ tx' = [tx EXCEPT ![n] = t]
                /\ net' = (net \ {f}) \cup
                            IF refused THEN {}
                            ELSE {Control(n, t, "updateAck", f.id, f.activate)}
       ELSE /\ net' = net \ {f}
            /\ UNCHANGED <<rule, tx>>
    /\ UNCHANGED <<auth_keys, rotations>>

\* The acknowledgement confirms the pending rotation.
Confirms(t, f) == t.pending /\ f.id = t.next /\ f.activate = t.activate

ReceiveUpdateAck(n, f) ==
    /\ f.src = Peer[n]
    /\ f.kind = "updateAck"
    /\ Acceptable(n, f.nonce, f.key)
    /\ tx' = IF Confirms(tx[n], f)
             THEN [tx EXCEPT ![n].acked = TRUE, ![n].retries = 0]
             ELSE tx
    /\ net' = net \ {f}
    /\ UNCHANGED <<auth_keys, rule, rotations>>

Next ==
    \E n \in Node :
        \/ \E k \in KeyId, setAsTx \in BOOLEAN : SetAuthKey(n, k, setAsTx)
        \/ \E k \in KeyId : RotateTxKey(n, k)
        \/ \E k \in Target : ScheduleTxKeyRotation(n, k)
        \/ Transmit(n)
        \/ \E late, refused, flush \in BOOLEAN :
               Tick(n, late, refused, flush)
        \/ \E f \in net, refused \in BOOLEAN : ReceiveUpdate(n, f, refused)
        \/ \E f \in net : ReceiveUpdateAck(n, f)

Spec == Init /\ [][Next]_vars

-----------------------------------------------------------------------------
(* Properties *)

\* Every variable keeps its type.
TypeOK ==
    /\ auth_keys \in [Node -> [Place -> KeyId \cup {None}]]
    /\ tx \in [Node -> Sender]
    /\ rule \in [Node -> Rule]
    /\ net \subseteq Frame
    /\ rotations \in [Node -> Nat]
    /\ \A n \in Node : rotations[n] <= MaxRotations[n]

\* A rotation the sender holds for acknowledged is one the receiver expects:
\* from the activation nonce on, and perhaps before it when an older KeyUpdate
\* came in late, the receiver asks for the new key.  (HandleControl matches the
\* id and the nonce of the acknowledgement; Tick moves the nonce of a rotation
\* that is not acknowledged, with old updates and answers still in flight.)
SwitchAgreed ==
    \A n \in Node :
        tx[n].pending /\ tx[n].acked =>
            /\ rule[Peer[n]].known
            /\ rule[Peer[n]].next = tx[n].next
            /\ rule[Peer[n]].activate <= tx[n].activate

\* An endpoint that switches keys by schedule only, and has no rotation under
\* way, signs its next frame with a key that its peer's rule lets through: the
\* end of a rotation, whether by the switch or by giving up, leaves the two
\* with the same expectation.
NextFrameAdmitted ==
    \A n \in Node \ Manual :
        ~tx[n].pending =>
            Admits(rule[Peer[n]], NextNonce(tx[n]), tx[n].key)

\* When such an endpoint has switched to another key than the installed one, its
\* peer takes the next frame: it has that key and expects it.  (The switch waits
\* for an acknowledgement, which the peer sends only if it has the key.)
SwitchedFrameTaken ==
    \A n \in Node \ Manual :
        ~tx[n].pending /\ tx[n].key # 1 =>
            Acceptable(Peer[n], NextNonce(tx[n]), tx[n].key)

\* The key an endpoint signs with is in its ring: neither SetAuthKey, which
\* replaces a key when the ring is full, nor the retirement in Tick takes it.
TxKeyHeld == \A n \in Node : Resolves(auth_keys[n], tx[n].key)

\* The key an endpoint's peer signs with stays in its ring.
PeerKeyHeld == \A n \in Node : Resolves(auth_keys[n], tx[Peer[n]].key)
=============================================================================
