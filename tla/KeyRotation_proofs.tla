------------------------- MODULE KeyRotation_proofs -------------------------
(***************************************************************************)
(* What the two endpoints agree on during a key rotation, for every set of *)
(* keys, lead, postponement and number of frames.                          *)
(*                                                                         *)
(* The argument follows one rotation of one endpoint through the places    *)
(* where its id and its activation nonce are written: the sender, the      *)
(* announcements in flight, the receiver's rule and the answers in flight. *)
(* The id is the same everywhere and the sender's nonce is the greatest.   *)
(* Rotations follow one another, but not on the heels (Spaced).            *)
(***************************************************************************)
EXTENDS KeyRotation, TLAPS

\* A sender without a key to switch to has no rotation under way.
Sane(t) ==
    /\ t \in Sender
    /\ t.next = None => ~t.pending /\ ~t.acked

TypeInv == TypeOK /\ \A n \in Node : Sane(tx[n])

\* The control frames that belong to n's rotation.
Concerns(f, n) ==
    \/ f.src = n /\ f.kind = "update"
    \/ f.src = Peer[n] /\ f.kind = "updateAck"

\* From t to u the sender kept its key or made the switch that was agreed.
Proceeds(u, t) ==
    /\ u.next = t.next
    /\ \/ /\ u.pending = t.pending /\ u.key = t.key
          /\ ~t.pending => u.activate = t.activate
       \/ /\ t.pending /\ t.acked /\ ~u.pending
          /\ u.key = t.next /\ NextNonce(u) >= u.activate

\* From t to u frames were signed, the activation nonce of the rotation may
\* have grown, or the rotation was given up.
Follows(u, t) ==
    /\ Sane(u)
    /\ Len(u.signed) >= Len(t.signed)
    /\ \/ u.next = None
       \/ u.next = t.next /\ u.activate >= t.activate /\ (u.acked => t.acked)
    /\ MaxRetries = 0 => Proceeds(u, t)

LEMMA PeerFacts ==
    \A n \in Node : Peer[n] \in Node /\ Peer[n] # n /\ Peer[Peer[n]] = n
  BY KeyRotationAssumption DEF Peer, Node

-----------------------------------------------------------------------------
(* What the operators on a sender do. *)

LEMMA ActivatedSane ==
    ASSUME NEW t, Sane(t)
    PROVE  LET u == Activated(t)
           IN  /\ Follows(u, t)
               /\ u.next = t.next /\ u.activate = t.activate
               /\ u.acked = t.acked /\ u.signed = t.signed
<1>1. Len(t.signed) \in Nat /\ t.activate \in Nat
  BY DEF Sane, Sender
<1>2. CASE t.pending /\ t.acked /\ NextNonce(t) >= t.activate
  <2> DEFINE u == [t EXCEPT !.key = t.next, !.pending = FALSE]
  <2>1. u \in Sender
    BY <1>2 DEF Sane, Sender
  <2>2. /\ u.next = t.next /\ u.activate = t.activate /\ u.signed = t.signed
        /\ u.acked = t.acked /\ u.pending = FALSE /\ u.key = t.next
    BY DEF Sane, Sender
  <2>3. Activated(t) = u
    BY <1>2 DEF Activated
  <2> HIDE DEF u
  <2> QED
    <3>1. Sane(u)
      BY <1>2, <2>1, <2>2 DEF Sane
    <3>2. Proceeds(u, t)
      BY <1>2, <2>2 DEF Proceeds, NextNonce
    <3> QED
      BY <1>1, <2>2, <2>3, <3>1, <3>2 DEF Follows
<1>3. CASE ~(t.pending /\ t.acked /\ NextNonce(t) >= t.activate)
  <2>1. Activated(t) = t
    BY <1>3 DEF Activated
  <2> QED
    BY <1>1, <2>1 DEF Follows, Proceeds
<1> QED
  BY <1>2, <1>3

LEMMA FollowsTransitive ==
    ASSUME NEW t, NEW u, NEW v, Sane(t), Follows(u, t), Follows(v, u)
    PROVE  Follows(v, t)
<1>1. /\ Len(t.signed) \in Nat /\ t.activate \in Nat
      /\ Len(u.signed) \in Nat /\ u.activate \in Nat
      /\ Len(v.signed) \in Nat /\ v.activate \in Nat
  BY DEF Follows, Sane, Sender
<1>2. \/ v.next = None
      \/ v.next = t.next /\ v.activate >= t.activate /\ (v.acked => t.acked)
  BY <1>1 DEF Follows
<1>3. ASSUME MaxRetries = 0 PROVE Proceeds(v, t)
  <2>1. Proceeds(u, t) /\ Proceeds(v, u)
    BY <1>3 DEF Follows
  <2>2. u.pending => (u.acked => t.acked)
    BY DEF Follows, Sane
  <2> QED
    BY <1>1, <2>1, <2>2 DEF Proceeds, NextNonce, Follows
<1> QED
  BY <1>1, <1>2, <1>3 DEF Follows

LEMMA SignedSane ==
    ASSUME NEW t, Sane(t), NEW keys
    PROVE  LET u == Signed(t, keys)
           IN  /\ Follows(u, t)
               /\ u.next = t.next /\ u.activate = t.activate
               /\ u.acked = t.acked /\ Len(u.signed) = Len(t.signed) + 1
               /\ u.signed[Len(u.signed)] \in KeyId \cup {None}
<1> DEFINE v == Activated(t)
           k == IF Resolves(keys, v.key) THEN v.key ELSE None
<1>1. /\ Follows(v, t)
      /\ v.next = t.next /\ v.activate = t.activate
      /\ v.acked = t.acked /\ v.signed = t.signed
  BY ActivatedSane
<1>2. Signed(t, keys) = [v EXCEPT !.signed = Append(v.signed, k)]
  BY DEF Signed
<1>3. /\ k \in KeyId \cup {None} /\ v.signed \in Seq(KeyId \cup {None})
      /\ Sane(v) /\ v.activate \in Nat
  BY <1>1 DEF Follows, Sane, Sender
<1>4. /\ Append(v.signed, k) \in Seq(KeyId \cup {None})
      /\ Len(Append(v.signed, k)) = Len(v.signed) + 1
      /\ Append(v.signed, k)[Len(v.signed) + 1] = k
      /\ Len(v.signed) \in Nat
  BY <1>3
<1> DEFINE u == [v EXCEPT !.signed = Append(v.signed, k)]
<1>5. u \in Sender
  BY <1>3, <1>4 DEF Sane, Sender
<1>6. /\ u.next = v.next /\ u.activate = v.activate /\ u.acked = v.acked
      /\ u.pending = v.pending /\ u.key = v.key
      /\ u.signed = Append(v.signed, k)
  BY <1>3 DEF Sane, Sender
<1> HIDE DEF u, v, k
<1>7. Follows(u, v)
  BY <1>3, <1>4, <1>5, <1>6 DEF Follows, Proceeds, Sane
<1>8. Follows(u, t)
  BY <1>1, <1>7, FollowsTransitive
<1> QED
  BY <1>1, <1>2, <1>3, <1>4, <1>6, <1>8 DEF u

LEMMA FinishedSane ==
    ASSUME NEW t, Sane(t)
    PROVE  Follows(Finished(t), t) /\ Finished(t).next = t.next
<1>1. Len(t.signed) \in Nat /\ t.activate \in Nat
  BY DEF Sane, Sender
<1>2. CASE RetireDue(t)
  <2> DEFINE u == [t EXCEPT !.old = None, !.acked = FALSE]
  <2>1. u \in Sender
    BY DEF Sane, Sender
  <2>2. /\ u.next = t.next /\ u.activate = t.activate /\ u.signed = t.signed
        /\ u.acked = FALSE /\ u.pending = t.pending /\ u.key = t.key
    BY DEF Sane, Sender
  <2>3. Finished(t) = u
    BY <1>2 DEF Finished
  <2> HIDE DEF u
  <2> QED
    <3>1. Sane(u)
      BY <2>1, <2>2 DEF Sane
    <3>2. Proceeds(u, t)
      BY <2>2 DEF Proceeds
    <3> QED
      BY <1>1, <2>2, <2>3, <3>1, <3>2 DEF Follows
<1>3. CASE ~RetireDue(t)
  <2>1. Finished(t) = t
    BY <1>3 DEF Finished
  <2> QED
    BY <1>1, <2>1 DEF Follows, Proceeds, Sane, Sender
<1> QED
  BY <1>2, <1>3

LEMMA PostponedSane ==
    ASSUME NEW t, Sane(t)
    PROVE  Follows(Postponed(t), t) /\ Postponed(t).next = t.next
<1>1. Len(t.signed) \in Nat /\ t.activate \in Nat
  BY DEF Sane, Sender
<1>2. CASE t.pending /\ ~t.acked /\ NextNonce(t) >= t.activate
  <2> DEFINE a == NextNonce(t) + Postpone
             u == [t EXCEPT !.activate = a, !.announced = FALSE]
  <2>1. a \in Nat /\ a >= t.activate
    BY <1>1, <1>2, KeyRotationAssumption DEF NextNonce
  <2>2. u \in Sender
    BY <2>1 DEF Sane, Sender
  <2>3. /\ u.next = t.next /\ u.activate = a /\ u.signed = t.signed
        /\ u.acked = t.acked /\ u.pending = t.pending /\ u.key = t.key
    BY DEF Sane, Sender
  <2>4. Postponed(t) = u
    BY <1>2 DEF Postponed
  <2> HIDE DEF u, a
  <2> QED
    <3>1. Sane(u)
      BY <2>2, <2>3 DEF Sane
    <3>2. Proceeds(u, t)
      BY <1>2, <2>3 DEF Proceeds, Sane, Sender
    <3> QED
      BY <1>1, <2>1, <2>3, <2>4, <3>1, <3>2 DEF Follows
<1>3. CASE ~(t.pending /\ ~t.acked /\ NextNonce(t) >= t.activate)
  <2>1. Postponed(t) = t
    BY <1>3 DEF Postponed
  <2> QED
    BY <1>1, <2>1 DEF Follows, Proceeds, Sane, Sender
<1> QED
  BY <1>2, <1>3

LEMMA AnnouncedSane ==
    ASSUME NEW t, Sane(t)
    PROVE  /\ Follows(Announced(t), t)
           /\ Announced(t).signed = t.signed
           /\ \/ MaxRetries > 0 /\ Announced(t).next = None
              \/ /\ Announced(t).next = t.next
                 /\ Announced(t).activate = t.activate
<1> DEFINE r == IF t.retries < 255 THEN t.retries + 1 ELSE t.retries
           u == [t EXCEPT !.pending = FALSE, !.next = None, !.activate = 0,
                          !.acked = FALSE, !.old = None, !.retries = 0,
                          !.announced = TRUE]
           w == [t EXCEPT !.retries = r, !.announced = TRUE]
<1>1. r \in Nat /\ Len(t.signed) \in Nat /\ t.activate \in Nat
  BY DEF Sane, Sender
<1>2. CASE MaxRetries > 0 /\ r > MaxRetries
  <2>1. u \in Sender
    BY DEF Sane, Sender
  <2>2. u.signed = t.signed /\ u.next = None /\ ~u.pending /\ ~u.acked
    BY DEF Sane, Sender
  <2>3. Announced(t) = u
    BY <1>2 DEF Announced
  <2> HIDE DEF u
  <2> QED
    BY <1>1, <1>2, <2>1, <2>2, <2>3 DEF Follows, Sane
<1>3. CASE ~(MaxRetries > 0 /\ r > MaxRetries)
  <2>1. w \in Sender
    BY <1>1 DEF Sane, Sender
  <2>2. /\ w.signed = t.signed /\ w.next = t.next /\ w.activate = t.activate
        /\ w.acked = t.acked /\ w.pending = t.pending /\ w.key = t.key
    BY DEF Sane, Sender
  <2>3. Announced(t) = w
    BY <1>3 DEF Announced
  <2> HIDE DEF w
  <2> QED
    BY <1>1, <2>1, <2>2, <2>3 DEF Follows, Proceeds, Sane
<1> QED
  BY <1>2, <1>3

LEMMA RetiredType ==
    ASSUME NEW t, NEW keys \in [Place -> KeyId \cup {None}]
    PROVE  Retired(keys, t) \in [Place -> KeyId \cup {None}]
  BY DEF Retired

LEMMA ControlType ==
    ASSUME NEW n \in Node, NEW t, NEW s, NEW keys, Sane(s), t = Signed(s, keys),
           NEW kind \in {"update", "updateAck"}, NEW k \in KeyId,
           NEW a \in Nat
    PROVE  Control(n, t, kind, k, a) \in Frame
<1>1. t.signed[Len(t.signed)] \in KeyId \cup {None} /\ Sane(t)
  BY SignedSane DEF Follows
<1>2. Len(t.signed) \in Nat
  BY <1>1 DEF Sane, Sender
<1> QED
  BY <1>1, <1>2 DEF Control, Frame

-----------------------------------------------------------------------------
(* What a step does to the sender that takes it. *)

LEMMA TickEffect ==
    ASSUME NEW n \in Node, NEW late \in BOOLEAN, NEW refused \in BOOLEAN,
           NEW flush \in BOOLEAN, TypeInv, Tick(n, late, refused, flush)
    PROVE  /\ \E s, keys :
                 /\ tx' = [tx EXCEPT ![n] = s]
                 /\ Follows(s, tx[n])
                 /\ auth_keys' = [auth_keys EXCEPT ![n] = keys]
                 /\ keys \in [Place -> KeyId \cup {None}]
                 /\ \/ net' = net
                    \/ \E f \in Frame :
                          /\ f.src = n /\ f.kind = "update"
                          /\ f.id = tx[n].next
                          /\ s.next # None => f.activate <= s.activate
                          /\ net' = net \cup {f}
           /\ UNCHANGED <<rule, rotations>>
<1> DEFINE t0       == Activated(tx[n])
           keys     == Retired(auth_keys[n], t0)
           t1       == Postponed(Finished(t0))
           announce == t1.pending /\ ~t1.acked /\ (t1.announced => late)
           t2       == Signed(t1, keys)
           t3       == IF ~announce THEN t1
                       ELSE IF refused THEN t2 ELSE Announced(t2)
           s        == IF flush THEN Signed(t3, keys) ELSE t3
           f        == Control(n, t2, "update", t2.next, t2.activate)
<1>1. /\ tx' = [tx EXCEPT ![n] = s]
      /\ auth_keys' = [auth_keys EXCEPT ![n] = keys]
      /\ net' = IF announce /\ ~refused THEN net \cup {f} ELSE net
      /\ UNCHANGED <<rule, rotations>>
  BY DEF Tick
<1>2. Sane(tx[n]) /\ auth_keys[n] \in [Place -> KeyId \cup {None}]
  BY DEF TypeInv, TypeOK
<1>3. keys \in [Place -> KeyId \cup {None}]
  BY <1>2, RetiredType
<1>4. Follows(t1, tx[n]) /\ t1.next = tx[n].next
  <2>1. Follows(t0, tx[n]) /\ t0.next = tx[n].next
    BY <1>2, ActivatedSane
  <2>2. Follows(Finished(t0), t0) /\ Finished(t0).next = t0.next
    BY <2>1, FinishedSane DEF Follows
  <2>3. Follows(t1, Finished(t0)) /\ t1.next = Finished(t0).next
    BY <2>2, PostponedSane DEF Follows
  <2> QED
    <3> HIDE DEF t0, t1
    <3> QED
      BY <1>2, <2>1, <2>2, <2>3, FollowsTransitive
<1> HIDE DEF t1, keys
<1>5. /\ Follows(t2, t1) /\ t2.next = t1.next /\ t2.activate = t1.activate
      /\ Sane(t1) /\ Sane(t2)
  BY <1>4, SignedSane DEF Follows
<1>6. Follows(t2, tx[n])
  BY <1>2, <1>4, <1>5, FollowsTransitive
<1>7. /\ Follows(Announced(t2), tx[n])
      /\ Announced(t2).next # None => Announced(t2).activate = t2.activate
  BY <1>2, <1>5, <1>6, AnnouncedSane, FollowsTransitive
<1>8. /\ Follows(t3, tx[n]) /\ Sane(t3)
      /\ t3.next # None => t3.activate = t1.activate
  <2>1. CASE ~announce
    BY <2>1, <1>4, <1>5
  <2>2. CASE announce /\ refused
    BY <2>2, <1>5, <1>6
  <2>3. CASE announce /\ ~refused
    BY <2>3, <1>5, <1>7 DEF Follows
  <2> QED
    BY <2>1, <2>2, <2>3
<1> HIDE DEF t3
<1>9. /\ Follows(s, tx[n])
      /\ s.next # None => s.activate = t1.activate
  <2>1. CASE flush
    <3>1. /\ Follows(Signed(t3, keys), t3)
          /\ Signed(t3, keys).next = t3.next
          /\ Signed(t3, keys).activate = t3.activate
      BY <1>8, SignedSane
    <3>2. Follows(Signed(t3, keys), tx[n])
      BY <1>2, <1>8, <3>1, FollowsTransitive
    <3> QED
      BY <2>1, <1>8, <3>1, <3>2
  <2>2. CASE ~flush
    BY <2>2, <1>8
  <2> QED
    BY <2>1, <2>2
<1>10. ASSUME announce
       PROVE  /\ f \in Frame /\ f.src = n /\ f.kind = "update"
              /\ f.id = tx[n].next /\ f.activate = t1.activate
              /\ t1.activate \in Nat
  <2>1. t2.next \in KeyId /\ t2.activate \in Nat /\ t1.activate \in Nat
    BY <1>10, <1>5 DEF Sane, Sender
  <2>2. f \in Frame
    BY <2>1, <1>5, ControlType
  <2> QED
    BY <2>1, <2>2, <1>4, <1>5 DEF Control
<1> HIDE DEF s, f, announce, t2
<1>11. CASE announce /\ ~refused
  <2>1. net' = net \cup {f}
    BY <1>1, <1>11
  <2>2. s.next # None => f.activate <= s.activate
    BY <1>9, <1>10, <1>11
  <2> QED
    BY <1>1, <1>3, <1>9, <1>10, <1>11, <2>1, <2>2
<1>12. CASE ~(announce /\ ~refused)
  <2>1. net' = net
    BY <1>1, <1>12
  <2> QED
    BY <1>1, <1>3, <1>9, <2>1
<1> QED
  BY <1>11, <1>12

LEMMA ReceiveUpdateEffect ==
    ASSUME NEW n \in Node, NEW f \in net, NEW refused \in BOOLEAN, TypeInv,
           ReceiveUpdate(n, f, refused)
    PROVE  /\ f \in Frame /\ f.src = Peer[n] /\ f.kind = "update"
           /\ UNCHANGED <<auth_keys, rotations>>
           /\ \E s : /\ Follows(s, tx[n])
                     /\ tx' = [tx EXCEPT ![n] = s]
           /\ \/ /\ net' = net \ {f}
                 /\ UNCHANGED rule
              \/ /\ rule' = [rule EXCEPT ![n] = Expected(f)]
                 /\ \/ net' = net \ {f}
                    \/ \E g \in Frame :
                          /\ g.src = n /\ g.kind = "updateAck"
                          /\ g.id = f.id /\ g.activate = f.activate
                          /\ net' = (net \ {f}) \cup {g}
<1> DEFINE s == Signed(tx[n], auth_keys[n])
           g == Control(n, s, "updateAck", f.id, f.activate)
<1>1. /\ f \in Frame /\ f.src = Peer[n] /\ f.kind = "update"
      /\ UNCHANGED <<auth_keys, rotations>>
  BY DEF ReceiveUpdate, TypeInv, TypeOK
<1>2. Sane(tx[n]) /\ tx \in [Node -> Sender]
  BY DEF TypeInv, TypeOK
<1>3. Follows(s, tx[n])
  BY <1>2, SignedSane
<1>4. /\ g \in Frame /\ g.src = n /\ g.kind = "updateAck"
      /\ g.id = f.id /\ g.activate = f.activate
  <2>1. f.id \in KeyId /\ f.activate \in Nat
    BY <1>1 DEF Frame
  <2>2. g \in Frame
    BY <1>2, <2>1, ControlType
  <2> QED
    BY <2>2 DEF Control
<1>5. CASE Understood(n, f)
  <2>1. /\ rule' = [rule EXCEPT ![n] = Expected(f)]
        /\ tx' = [tx EXCEPT ![n] = s]
        /\ net' = (net \ {f}) \cup IF refused THEN {} ELSE {g}
    BY <1>5 DEF ReceiveUpdate
  <2> HIDE DEF s, g
  <2>2. net' = net \ {f} \/ net' = (net \ {f}) \cup {g}
    BY <2>1
  <2> QED
    BY <1>1, <1>3, <1>4, <2>1, <2>2
<1>6. CASE ~Understood(n, f)
  <2>1. net' = net \ {f} /\ UNCHANGED <<rule, tx>>
    BY <1>6 DEF ReceiveUpdate
  <2>2. tx' = [tx EXCEPT ![n] = tx[n]]
    BY <1>2, <2>1
  <2>3. Len(tx[n].signed) \in Nat /\ tx[n].activate \in Nat
    BY <1>2 DEF Sane, Sender
  <2>4. Follows(tx[n], tx[n])
    BY <1>2, <2>3 DEF Follows, Proceeds
  <2> QED
    BY <1>1, <2>1, <2>2, <2>4
<1> QED
  BY <1>5, <1>6

LEMMA TransmitEffect ==
    ASSUME NEW n \in Node, TypeInv, Transmit(n)
    PROVE  /\ \E s : Follows(s, tx[n]) /\ tx' = [tx EXCEPT ![n] = s]
           /\ UNCHANGED <<auth_keys, rule, net, rotations>>
<1>1. Follows(Signed(tx[n], auth_keys[n]), tx[n])
  BY SignedSane DEF TypeInv
<1> QED
  BY <1>1 DEF Transmit

-----------------------------------------------------------------------------
(* Type correctness. *)

LEMMA TypeInit == Init => TypeInv
<1> SUFFICES ASSUME Init PROVE TypeInv
  OBVIOUS
<1> DEFINE t == [key |-> 1, pending |-> FALSE, next |-> None, activate |-> 0,
                 acked |-> FALSE, old |-> None, retries |-> 0,
                 announced |-> FALSE, signed |-> << >>]
<1>1. t \in Sender /\ Sane(t)
  BY KeyRotationAssumption DEF Sender, Sane, None
<1>2. tx = [n \in Node |-> t]
  BY DEF Init
<1> HIDE DEF t
<1>3. auth_keys \in [Node -> [Place -> KeyId \cup {None}]]
  BY KeyRotationAssumption DEF Init, None
<1>4. rule \in [Node -> Rule]
  BY DEF Init, Rule, None
<1>5. net \subseteq Frame
  BY DEF Init
<1>6. /\ rotations \in [Node -> Nat]
      /\ \A n \in Node : rotations[n] <= MaxRotations[n]
  BY KeyRotationAssumption DEF Init
<1> QED
  BY <1>1, <1>2, <1>3, <1>4, <1>5, <1>6 DEF TypeInv, TypeOK

\* The sender of one endpoint is replaced by a sane one.
LEMMA SenderReplaced ==
    ASSUME TypeInv, NEW n \in Node, NEW s, Sane(s), tx' = [tx EXCEPT ![n] = s]
    PROVE  tx' \in [Node -> Sender] /\ \A m \in Node : Sane(tx'[m])
  BY DEF TypeInv, TypeOK, Sane

\* A call that counts against MaxRotations.
LEMMA RotationCounted ==
    ASSUME rotations \in [Node -> Nat],
           \A m \in Node : rotations[m] <= MaxRotations[m],
           NEW n \in Node, rotations[n] < MaxRotations[n],
           rotations' = [rotations EXCEPT ![n] = rotations[n] + 1]
    PROVE  /\ rotations' \in [Node -> Nat]
           /\ \A m \in Node : rotations'[m] <= MaxRotations[m]
<1>1. MaxRotations \in [Node -> Nat]
  BY KeyRotationAssumption
<1>2. rotations' \in [Node -> Nat]
  OBVIOUS
<1>3. ASSUME NEW m \in Node PROVE rotations'[m] <= MaxRotations[m]
  <2>1. CASE m = n
    <3>1. rotations'[m] = rotations[n] + 1
      BY <2>1
    <3>2. rotations[n] \in Nat /\ MaxRotations[n] \in Nat
      BY <1>1
    <3>3. rotations[n] + 1 <= MaxRotations[n]
      BY <3>2
    <3> QED
      BY <2>1, <3>1, <3>3
  <2>2. CASE m # n
    BY <2>2
  <2> QED
    BY <2>1, <2>2
<1> QED
  BY <1>2, <1>3

LEMMA TypeStep == TypeInv /\ [Next]_vars => TypeInv'
<1> SUFFICES ASSUME TypeInv, [Next]_vars PROVE TypeInv'
  OBVIOUS
<1> USE DEF TypeInv, TypeOK
<1>1. ASSUME NEW n \in Node, NEW k \in KeyId, NEW setAsTx \in BOOLEAN,
             SetAuthKey(n, k, setAsTx)
      PROVE  TypeInv'
  <2> DEFINE s == [tx[n] EXCEPT !.key = IF setAsTx THEN k ELSE @]
             keys == [auth_keys[n] EXCEPT
                        ![PlaceFor(auth_keys[n], k, tx[n].key)] = k]
  <2>1. tx' = [tx EXCEPT ![n] = s] /\ auth_keys' = [auth_keys EXCEPT ![n] = keys]
    BY <1>1 DEF SetAuthKey
  <2>2. Sane(s)
    BY DEF Sane, Sender
  <2>3. keys \in [Place -> KeyId \cup {None}]
    OBVIOUS
  <2>4. tx' \in [Node -> Sender] /\ \A m \in Node : Sane(tx'[m])
    BY <2>1, <2>2, SenderReplaced
  <2>5. auth_keys' \in [Node -> [Place -> KeyId \cup {None}]]
    BY <2>1, <2>3
  <2>6. /\ rule' \in [Node -> Rule] /\ net' \subseteq Frame
        /\ rotations' \in [Node -> Nat]
        /\ \A m \in Node : rotations'[m] <= MaxRotations[m]
    <3>1. UNCHANGED <<rule, net>>
      BY <1>1 DEF SetAuthKey
    <3>2. /\ rotations' \in [Node -> Nat]
          /\ \A m \in Node : rotations'[m] <= MaxRotations[m]
      <4>1. CASE setAsTx
        <5>1. /\ rotations[n] < MaxRotations[n]
              /\ rotations' = [rotations EXCEPT ![n] = rotations[n] + 1]
          BY <1>1, <4>1 DEF SetAuthKey
        <5> QED
          BY <5>1, RotationCounted
      <4>2. CASE ~setAsTx
        <5>1. rotations' = [rotations EXCEPT ![n] = rotations[n]]
          BY <1>1, <4>2 DEF SetAuthKey
        <5> QED
          BY <5>1
      <4> QED
        BY <4>1, <4>2
    <3> QED
      BY <3>1, <3>2
  <2> QED
    BY <2>4, <2>5, <2>6
<1>2. ASSUME NEW n \in Node, NEW k \in KeyId, RotateTxKey(n, k)
      PROVE  TypeInv'
  <2> DEFINE s == [tx[n] EXCEPT !.key = k]
  <2>1. tx' = [tx EXCEPT ![n] = s] /\ UNCHANGED <<auth_keys, rule, net>>
    BY <1>2 DEF RotateTxKey
  <2>2. Sane(s)
    BY DEF Sane, Sender
  <2>3. tx' \in [Node -> Sender] /\ \A m \in Node : Sane(tx'[m])
    BY <2>1, <2>2, SenderReplaced
  <2>4. /\ rotations' \in [Node -> Nat]
        /\ \A m \in Node : rotations'[m] <= MaxRotations[m]
    <3>1. /\ rotations[n] < MaxRotations[n]
          /\ rotations' = [rotations EXCEPT ![n] = rotations[n] + 1]
      BY <1>2 DEF RotateTxKey
    <3> QED
      BY <3>1, RotationCounted
  <2> QED
    BY <2>1, <2>3, <2>4
<1>3. ASSUME NEW n \in Node, NEW k \in Target, ScheduleTxKeyRotation(n, k)
      PROVE  TypeInv'
  <2> DEFINE t == tx[n]
             lead == IF Lead < MinLead THEN MinLead ELSE Lead
             a == Len(t.signed) + lead
             s == [t EXCEPT !.pending = TRUE, !.next = k, !.activate = a,
                            !.acked = FALSE, !.old = t.key,
                            !.retries = 0, !.announced = FALSE]
  <2>1. tx' = [tx EXCEPT ![n] = s] /\ UNCHANGED <<auth_keys, rule, net>>
    BY <1>3 DEF ScheduleTxKeyRotation
  <2>2. k \in KeyId /\ k # None
    BY KeyRotationAssumption DEF None
  <2>3. Sane(t) /\ a \in Nat
    <3>1. Sane(t) /\ Len(t.signed) \in Nat
      BY DEF Sane, Sender
    <3>2. lead \in Nat
      BY KeyRotationAssumption
    <3> HIDE DEF t, lead
    <3> QED
      BY <3>1, <3>2
  <2> HIDE DEF a, t
  <2>4. Sane(s)
    BY <2>2, <2>3 DEF Sane, Sender
  <2>5. tx' \in [Node -> Sender] /\ \A m \in Node : Sane(tx'[m])
    BY <2>1, <2>4, SenderReplaced
  <2>6. /\ rotations' \in [Node -> Nat]
        /\ \A m \in Node : rotations'[m] <= MaxRotations[m]
    <3>1. /\ rotations[n] < MaxRotations[n]
          /\ rotations' = [rotations EXCEPT ![n] = rotations[n] + 1]
      BY <1>3 DEF ScheduleTxKeyRotation
    <3> QED
      BY <3>1, RotationCounted
  <2> QED
    BY <2>1, <2>5, <2>6
<1>4. ASSUME NEW n \in Node, Transmit(n)
      PROVE  TypeInv'
  <2>1. PICK s : Follows(s, tx[n]) /\ tx' = [tx EXCEPT ![n] = s]
    BY <1>4, TransmitEffect
  <2>2. tx' \in [Node -> Sender] /\ \A m \in Node : Sane(tx'[m])
    BY <2>1, SenderReplaced DEF Follows
  <2> QED
    BY <1>4, <2>2, TransmitEffect
<1>5. ASSUME NEW n \in Node, NEW late \in BOOLEAN, NEW refused \in BOOLEAN,
             NEW flush \in BOOLEAN, Tick(n, late, refused, flush)
      PROVE  TypeInv'
  <2>1. UNCHANGED <<rule, rotations>>
    BY <1>5, TickEffect
  <2>2. PICK s, keys :
          /\ tx' = [tx EXCEPT ![n] = s]
          /\ Follows(s, tx[n])
          /\ auth_keys' = [auth_keys EXCEPT ![n] = keys]
          /\ keys \in [Place -> KeyId \cup {None}]
          /\ net' = net \/ \E f \in Frame : net' = net \cup {f}
    BY <1>5, TickEffect
  <2>3. tx' \in [Node -> Sender] /\ \A m \in Node : Sane(tx'[m])
    BY <2>2, SenderReplaced DEF Follows
  <2>4. auth_keys' \in [Node -> [Place -> KeyId \cup {None}]]
    BY <2>2
  <2>5. net' \subseteq Frame
    BY <2>2
  <2> QED
    BY <2>1, <2>3, <2>4, <2>5
<1>6. ASSUME NEW n \in Node, NEW f \in net, NEW refused \in BOOLEAN,
             ReceiveUpdate(n, f, refused)
      PROVE  TypeInv'
  <2>1. PICK s : Follows(s, tx[n]) /\ tx' = [tx EXCEPT ![n] = s]
    BY <1>6, ReceiveUpdateEffect
  <2>2. tx' \in [Node -> Sender] /\ \A m \in Node : Sane(tx'[m])
    BY <2>1, SenderReplaced DEF Follows
  <2>3. Expected(f) \in Rule
    BY DEF Expected, Rule, Frame
  <2>4. rule' \in [Node -> Rule] /\ net' \subseteq Frame
    <3>1. rule' = rule \/ rule' = [rule EXCEPT ![n] = Expected(f)]
      BY <1>6, ReceiveUpdateEffect
    <3>2. net' = net \ {f} \/ \E g \in Frame : net' = (net \ {f}) \cup {g}
      BY <1>6, ReceiveUpdateEffect
    <3> QED
      BY <2>3, <3>1, <3>2
  <2>5. UNCHANGED <<auth_keys, rotations>>
    BY <1>6, ReceiveUpdateEffect
  <2> QED
    BY <2>2, <2>4, <2>5
<1>7. ASSUME NEW n \in Node, NEW f \in net, ReceiveUpdateAck(n, f)
      PROVE  TypeInv'
  <2> DEFINE s == IF Confirms(tx[n], f)
                  THEN [tx[n] EXCEPT !.acked = TRUE, !.retries = 0]
                  ELSE tx[n]
  <2>1. tx' = [tx EXCEPT ![n] = s]
    BY <1>7 DEF ReceiveUpdateAck
  <2>2. Sane(s)
    BY DEF Sane, Sender, Confirms
  <2>3. tx' \in [Node -> Sender] /\ \A m \in Node : Sane(tx'[m])
    BY <2>1, <2>2, SenderReplaced
  <2> QED
    BY <1>7, <2>3 DEF ReceiveUpdateAck
<1>8. CASE UNCHANGED vars
  BY <1>8 DEF vars
<1> QED
  BY <1>1, <1>2, <1>3, <1>4, <1>5, <1>6, <1>7, <1>8 DEF Next

\* Every variable keeps its type in every reachable state: in particular the key
\* an endpoint switches to is a real one and its activation nonce a number,
\* through postponement, giving up and acknowledgements of any age.
THEOREM TypeCorrect == Spec => []TypeOK
<1>1. Spec => []TypeInv
  BY TypeInit, TypeStep, PTL DEF Spec
<1>2. TypeInv => TypeOK
  BY DEF TypeInv
<1> QED
  BY <1>1, <1>2, PTL

-----------------------------------------------------------------------------
(* Agreement, while rotations keep apart. *)

Quiet(n) == \A f \in net : ~Concerns(f, n)

\* An endpoint schedules a rotation when nothing of the one before is on its way.
Spaced ==
    \A n \in Node : \A k \in Target : ScheduleTxKeyRotation(n, k) => Quiet(n)

OneRotation == \A n \in Node : MaxRotations[n] <= 1

\* n's peer expects the switch to the key that n will switch to.
Expects(n) ==
    /\ rule[Peer[n]].known
    /\ rule[Peer[n]].next = tx[n].next
    /\ rule[Peer[n]].activate <= tx[n].activate

\* n's rotation is written alike everywhere.  Until the peer has answered, its
\* rule may be of an earlier rotation.
Agree(n) ==
    /\ rotations[n] = 0 =>
           /\ tx[n].next = None
           /\ ~rule[Peer[n]].known
           /\ Quiet(n)
    /\ tx[n].next # None =>
           /\ \A f \in net : Concerns(f, n) =>
                  /\ f.id = tx[n].next
                  /\ f.activate <= tx[n].activate
                  /\ f.kind = "updateAck" => Expects(n)
           /\ tx[n].acked => Expects(n)

AgreeInv == \A n \in Node : Agree(n)

\* A step that adds no frame to n's rotation and leaves its receiver alone.
LEMMA AgreeKept ==
    ASSUME TypeInv, TypeInv', NEW n \in Node, Agree(n),
           \/ tx'[n].next = None
           \/ /\ tx'[n].next = tx[n].next
              /\ tx'[n].activate >= tx[n].activate
              /\ tx'[n].acked => tx[n].acked,
           rotations'[n] = 0 => rotations[n] = 0,
           \A f \in net' : Concerns(f, n) => f \in net,
           rule'[Peer[n]] = rule[Peer[n]]
    PROVE  Agree(n)'
<1>1. CASE tx'[n].next = None
  <2>1. ASSUME rotations'[n] = 0
        PROVE  ~rule'[Peer[n]].known /\ \A f \in net' : ~Concerns(f, n)
    BY <2>1 DEF Agree, Quiet
  <2> QED
    BY <1>1, <2>1 DEF Agree, Quiet, Concerns
<1>2. CASE /\ tx'[n].next # None /\ tx'[n].next = tx[n].next
           /\ tx'[n].activate >= tx[n].activate
           /\ tx'[n].acked => tx[n].acked
  <2>1. /\ tx[n].activate \in Nat /\ tx'[n].activate \in Nat
        /\ rule[Peer[n]].activate \in Nat
    BY PeerFacts DEF TypeInv, TypeOK, Sane, Sender, Rule
  <2>2. \A f \in net' : f.activate \in Nat
    BY DEF TypeInv, TypeOK, Frame
  <2>3. rotations'[n] # 0
    BY <1>2 DEF Agree
  <2>4. Expects(n) => Expects(n)'
    BY <1>2, <2>1 DEF Expects
  <2>5. ASSUME NEW f \in net', Concerns(f, n)
        PROVE  /\ f.id = tx'[n].next
               /\ f.activate <= tx'[n].activate
               /\ f.kind = "updateAck" => Expects(n)'
    <3>1. /\ f.id = tx[n].next
          /\ f.activate <= tx[n].activate
          /\ f.kind = "updateAck" => Expects(n)
      BY <1>2, <2>5 DEF Agree
    <3> QED
      BY <1>2, <2>1, <2>2, <2>4, <3>1
  <2>6. tx'[n].acked => Expects(n)'
    BY <1>2, <2>4 DEF Agree
  <2> QED
    BY <2>3, <2>5, <2>6 DEF Agree, Concerns
<1> QED
  BY <1>1, <1>2

LEMMA AgreeInit == Init => AgreeInv
  BY PeerFacts DEF Init, AgreeInv, Agree, Quiet, None

\* With one rotation there is none before.
LEMMA OneIsSpaced ==
    ASSUME OneRotation, TypeInv, AgreeInv PROVE Spaced
<1> SUFFICES ASSUME NEW n \in Node, NEW k \in Target, ScheduleTxKeyRotation(n, k)
             PROVE  Quiet(n)
  BY DEF Spaced
<1>1. /\ rotations[n] \in Nat /\ MaxRotations[n] \in Nat
      /\ rotations[n] < MaxRotations[n] /\ MaxRotations[n] <= 1
  BY KeyRotationAssumption DEF TypeInv, TypeOK, ScheduleTxKeyRotation, OneRotation
<1> QED
  BY <1>1 DEF AgreeInv, Agree

LEMMA AgreeStep ==
    ASSUME TypeInv, TypeInv', AgreeInv, [Next]_vars, [Spaced]_vars
    PROVE  AgreeInv'
<1> SUFFICES ASSUME NEW m \in Node PROVE Agree(m)'
  BY DEF AgreeInv
<1> USE PeerFacts
<1>a. /\ Agree(m) /\ Sane(tx[m]) /\ tx \in [Node -> Sender]
      /\ tx[m].activate \in Nat /\ rule \in [Node -> Rule]
      /\ rotations \in [Node -> Nat]
  BY DEF AgreeInv, TypeInv, TypeOK, Sane, Sender
<1>1. ASSUME NEW n \in Node, NEW k \in KeyId, NEW setAsTx \in BOOLEAN,
             SetAuthKey(n, k, setAsTx)
      PROVE  Agree(m)'
  <2>1. /\ tx'[m].next = tx[m].next /\ tx'[m].activate = tx[m].activate
        /\ tx'[m].acked = tx[m].acked
    BY <1>1, <1>a DEF SetAuthKey, Sender
  <2>2. rotations'[m] = 0 => rotations[m] = 0
    BY <1>1, <1>a DEF SetAuthKey
  <2>3. UNCHANGED <<rule, net>>
    BY <1>1 DEF SetAuthKey
  <2> QED
    BY <1>a, <2>1, <2>2, <2>3, AgreeKept
<1>2. ASSUME NEW n \in Node, NEW k \in KeyId, RotateTxKey(n, k)
      PROVE  Agree(m)'
  <2>1. /\ tx'[m].next = tx[m].next /\ tx'[m].activate = tx[m].activate
        /\ tx'[m].acked = tx[m].acked
    BY <1>2, <1>a DEF RotateTxKey, Sender
  <2>2. rotations'[m] = 0 => rotations[m] = 0
    BY <1>2, <1>a DEF RotateTxKey
  <2>3. UNCHANGED <<rule, net>>
    BY <1>2 DEF RotateTxKey
  <2> QED
    BY <1>a, <2>1, <2>2, <2>3, AgreeKept
<1>3. ASSUME NEW n \in Node, NEW k \in Target, ScheduleTxKeyRotation(n, k)
      PROVE  Agree(m)'
  <2>1. UNCHANGED <<rule, net>>
    BY <1>3 DEF ScheduleTxKeyRotation
  <2>2. CASE m = n
    <3>1. Quiet(m)
      <4>1. CASE UNCHANGED vars
        BY <1>3, <1>a, <2>2, <4>1 DEF ScheduleTxKeyRotation, vars
      <4> QED
        BY <1>3, <2>2, <4>1 DEF Spaced
    <3>2. rotations'[m] # 0 /\ tx'[m].acked = FALSE
      BY <1>3, <1>a, <2>2 DEF ScheduleTxKeyRotation, Sender
    <3> QED
      BY <2>1, <3>1, <3>2 DEF Agree, Quiet, Concerns
  <2>3. CASE m # n
    <3>1. tx'[m] = tx[m] /\ rotations'[m] = rotations[m]
      BY <1>3, <1>a, <2>3 DEF ScheduleTxKeyRotation
    <3> QED
      BY <1>a, <2>1, <3>1, AgreeKept
  <2> QED
    BY <2>2, <2>3
<1>4. ASSUME NEW n \in Node, Transmit(n)
      PROVE  Agree(m)'
  <2>1. PICK s : Follows(s, tx[n]) /\ tx' = [tx EXCEPT ![n] = s]
    BY <1>4, TransmitEffect
  <2>2. UNCHANGED <<rule, net, rotations>>
    BY <1>4, TransmitEffect
  <2>3. \/ tx'[m].next = None
        \/ /\ tx'[m].next = tx[m].next
           /\ tx'[m].activate >= tx[m].activate
           /\ tx'[m].acked => tx[m].acked
    BY <1>a, <2>1 DEF Follows
  <2> QED
    BY <1>a, <2>2, <2>3, AgreeKept
<1>5. ASSUME NEW n \in Node, NEW late \in BOOLEAN, NEW refused \in BOOLEAN,
             NEW flush \in BOOLEAN, Tick(n, late, refused, flush)
      PROVE  Agree(m)'
  <2>1. UNCHANGED <<rule, rotations>>
    BY <1>5, TickEffect
  <2>2. PICK s :
          /\ tx' = [tx EXCEPT ![n] = s]
          /\ Follows(s, tx[n])
          /\ \/ net' = net
             \/ \E f \in Frame :
                   /\ f.src = n /\ f.kind = "update"
                   /\ f.id = tx[n].next
                   /\ s.next # None => f.activate <= s.activate
                   /\ net' = net \cup {f}
    BY <1>5, TickEffect
  <2>3. \/ tx'[m].next = None
        \/ /\ tx'[m].next = tx[m].next
           /\ tx'[m].activate >= tx[m].activate
           /\ tx'[m].acked => tx[m].acked
    BY <1>a, <2>2 DEF Follows
  <2>4. CASE \A f \in net' : Concerns(f, m) => f \in net
    BY <1>a, <2>1, <2>3, <2>4, AgreeKept
  <2>5. ASSUME NEW g \in net', Concerns(g, m), g \notin net
        PROVE  Agree(m)'
    <3>1. PICK f \in Frame :
              /\ f.src = n /\ f.kind = "update"
              /\ f.id = tx[n].next
              /\ s.next # None => f.activate <= s.activate
              /\ net' = net \cup {f}
      BY <2>2, <2>5
    <3>2. m = n
      BY <2>5, <3>1 DEF Concerns
    <3>3. tx'[m] = s /\ Sane(s)
      BY <1>a, <2>2, <3>2 DEF Follows
    <3>4. CASE s.next = None
      <4>1. rotations'[m] # 0
        <5>1. f.id # None
          BY KeyRotationAssumption DEF Frame, None
        <5> QED
          BY <1>a, <2>1, <3>1, <3>2, <5>1 DEF Agree
      <4> QED
        BY <3>3, <3>4, <4>1 DEF Agree
    <3>5. CASE s.next # None
      <4>1. s.next = tx[m].next /\ s.activate >= tx[m].activate
            /\ (s.acked => tx[m].acked)
        BY <2>3, <3>3, <3>5
      <4>2. rotations'[m] # 0
        BY <1>a, <2>1, <3>5, <4>1 DEF Agree
      <4>3. s.activate \in Nat /\ rule[Peer[m]].activate \in Nat
        BY <1>a, <3>3 DEF Sane, Sender, Rule
      <4>4. Expects(m) => Expects(m)'
        BY <1>a, <2>1, <3>3, <4>1, <4>3 DEF Expects
      <4>5. ASSUME NEW h \in net', Concerns(h, m)
            PROVE  /\ h.id = s.next /\ h.activate <= s.activate
                   /\ h.kind = "updateAck" => Expects(m)'
        <5>1. CASE h = f
          BY <3>1, <3>2, <3>5, <4>1, <5>1
        <5>2. CASE h \in net
          <6>1. /\ h.id = tx[m].next /\ h.activate <= tx[m].activate
                /\ h.kind = "updateAck" => Expects(m)
            BY <1>a, <3>5, <4>1, <4>5, <5>2 DEF Agree
          <6>2. h.activate \in Nat
            BY <5>2 DEF TypeInv, TypeOK, Frame
          <6> QED
            BY <1>a, <4>1, <4>3, <4>4, <6>1, <6>2
        <5> QED
          BY <3>1, <5>1, <5>2
      <4>6. s.acked => Expects(m)'
        BY <1>a, <3>5, <4>1, <4>4 DEF Agree
      <4> QED
        BY <3>3, <4>2, <4>5, <4>6 DEF Agree, Concerns
    <3> QED
      BY <3>4, <3>5
  <2> QED
    BY <2>4, <2>5
<1>6. ASSUME NEW n \in Node, NEW f \in net, NEW refused \in BOOLEAN,
             ReceiveUpdate(n, f, refused)
      PROVE  Agree(m)'
  <2>1. PICK s : Follows(s, tx[n]) /\ tx' = [tx EXCEPT ![n] = s]
    BY <1>6, ReceiveUpdateEffect
  <2>2. f \in Frame /\ f.src = Peer[n] /\ f.kind = "update" /\ UNCHANGED rotations
    BY <1>6, ReceiveUpdateEffect
  <2>3. \/ /\ net' = net \ {f}
           /\ UNCHANGED rule
        \/ /\ rule' = [rule EXCEPT ![n] = Expected(f)]
           /\ \/ net' = net \ {f}
              \/ \E g \in Frame : /\ g.src = n /\ g.kind = "updateAck"
                                  /\ g.id = f.id /\ g.activate = f.activate
                                  /\ net' = (net \ {f}) \cup {g}
    BY <1>6, ReceiveUpdateEffect
  <2>4. \/ tx'[m].next = None
        \/ /\ tx'[m].next = tx[m].next
           /\ tx'[m].activate >= tx[m].activate
           /\ tx'[m].acked => tx[m].acked
    BY <1>a, <2>1 DEF Follows
  <2>5. CASE m = n \/ (net' = net \ {f} /\ UNCHANGED rule)
    <3>1. \A h \in net' : Concerns(h, m) => h \in net
      BY <2>3, <2>5 DEF Concerns
    <3>2. rule'[Peer[m]] = rule[Peer[m]]
      BY <1>a, <2>3, <2>5
    <3> QED
      BY <1>a, <2>2, <2>4, <3>1, <3>2, AgreeKept
  <2>6. CASE m # n /\ rule' = [rule EXCEPT ![n] = Expected(f)]
    <3>1. m = Peer[n] /\ Peer[m] = n /\ Concerns(f, m)
      BY <2>2, <2>6 DEF Node, Peer, Concerns
    <3>2. rotations'[m] # 0
      BY <1>a, <2>2, <3>1 DEF Agree, Quiet
    <3>3. tx'[m] = tx[m]
      BY <1>a, <2>1, <2>6
    <3>4. CASE tx[m].next = None
      BY <3>2, <3>3, <3>4 DEF Agree
    <3>5. CASE tx[m].next # None
      <4>1. f.id = tx[m].next /\ f.activate <= tx[m].activate
        BY <1>a, <3>1, <3>5 DEF Agree
      <4>2. rule'[Peer[m]] = Expected(f)
        BY <1>a, <2>6, <3>1
      <4>3. Expects(m)'
        BY <3>3, <4>1, <4>2 DEF Expects, Expected
      <4>4. ASSUME NEW h \in net', Concerns(h, m)
            PROVE  h.id = tx[m].next /\ h.activate <= tx[m].activate
        <5>1. CASE h \in net
          BY <1>a, <3>5, <4>4, <5>1 DEF Agree
        <5>2. CASE h \notin net
          <6>1. h.id = f.id /\ h.activate = f.activate
            BY <2>3, <5>2
          <6> QED
            BY <4>1, <6>1
        <5> QED
          BY <5>1, <5>2
      <4> QED
        BY <3>2, <3>3, <4>3, <4>4 DEF Agree, Concerns
    <3> QED
      BY <3>4, <3>5
  <2> QED
    BY <2>3, <2>5, <2>6
<1>7. ASSUME NEW n \in Node, NEW f \in net, ReceiveUpdateAck(n, f)
      PROVE  Agree(m)'
  <2>1. /\ f.src = Peer[n] /\ f.kind = "updateAck" /\ net' = net \ {f}
        /\ UNCHANGED <<auth_keys, rule, rotations>>
    BY <1>7 DEF ReceiveUpdateAck
  <2>2. tx'[m].next = tx[m].next /\ tx'[m].activate = tx[m].activate
    BY <1>7, <1>a DEF ReceiveUpdateAck, Sender
  <2>3. CASE tx'[m].acked => tx[m].acked
    BY <1>a, <2>1, <2>2, <2>3, AgreeKept
  <2>4. CASE tx'[m].acked /\ ~tx[m].acked
    <3>1. m = n /\ Confirms(tx[n], f)
      BY <1>7, <1>a, <2>4 DEF ReceiveUpdateAck, Sender
    <3>2. tx[m].next # None /\ Concerns(f, m)
      BY <1>a, <2>1, <3>1 DEF Confirms, Sane, Concerns
    <3>3. Expects(m) /\ Expects(m)'
      BY <1>a, <2>1, <2>2, <3>2 DEF Agree, Expects
    <3>4. rotations[m] # 0
      BY <1>a, <3>2 DEF Agree
    <3> QED
      BY <1>a, <2>1, <2>2, <3>2, <3>3, <3>4 DEF Agree, Concerns
  <2> QED
    BY <2>3, <2>4
<1>8. CASE UNCHANGED vars
  BY <1>8, <1>a DEF vars, Agree, Quiet, Expects, Concerns
<1> QED
  BY <1>1, <1>2, <1>3, <1>4, <1>5, <1>6, <1>7, <1>8, KeyRotationAssumption DEF Next

\* When a sender holds its rotation for acknowledged, the receiver expects the
\* new key from the activation nonce on at the latest, whatever was lost,
\* delayed, postponed or given up on the way.  Rotations that overlap break this:
\* an announcement of the earlier one overturns the rule that was answered.
THEOREM RotationAgreed == Spec /\ [][Spaced]_vars => []SwitchAgreed
<1>1. Init => TypeInv /\ AgreeInv
  BY TypeInit, AgreeInit
<1>2. TypeInv /\ TypeInv' /\ AgreeInv /\ [Next]_vars /\ [Spaced]_vars => AgreeInv'
  BY AgreeStep
<1>3. TypeInv /\ [Next]_vars => TypeInv'
  BY TypeStep
<1>4. TypeInv /\ AgreeInv => SwitchAgreed
  BY DEF AgreeInv, Agree, Expects, SwitchAgreed, TypeInv, Sane
<1> QED
  BY <1>1, <1>2, <1>3, <1>4, PTL DEF Spec

\* One rotation of each endpoint has nothing to overlap with.
LEMMA OneRotationSpaced ==
    ASSUME OneRotation PROVE Spec => [](TypeInv /\ AgreeInv) /\ [][Spaced]_vars
<1>1. Init => TypeInv /\ AgreeInv
  BY TypeInit, AgreeInit
<1>2. TypeInv /\ AgreeInv /\ [Next]_vars => (TypeInv /\ AgreeInv)' /\ [Spaced]_vars
  <2> SUFFICES ASSUME TypeInv, AgreeInv, [Next]_vars
               PROVE  TypeInv' /\ AgreeInv' /\ [Spaced]_vars
    OBVIOUS
  <2>1. TypeInv'
    BY TypeStep
  <2>2. [Spaced]_vars
    BY OneIsSpaced, OneRotation
  <2>3. AgreeInv'
    BY <2>1, <2>2, AgreeStep
  <2> QED
    BY <2>1, <2>2, <2>3
<1> QED
  BY <1>1, <1>2, PTL DEF Spec

-----------------------------------------------------------------------------
(* The end of a rotation that is never given up. *)

\* A rotation that is over ended with the switch to the key that was announced.
Ended(n) ==
    /\ tx[n].next = None => rotations[n] = 0
    /\ ~tx[n].pending /\ tx[n].next # None =>
           /\ tx[n].key = tx[n].next
           /\ Expects(n)
           /\ NextNonce(tx[n]) >= tx[n].activate

EndedInv == \A n \in Node \ Manual : Ended(n)

LEMMA EndedKept ==
    ASSUME TypeInv, TypeInv', NEW n \in Node, Agree(n), Ended(n),
           Proceeds(tx'[n], tx[n]), Len(tx'[n].signed) >= Len(tx[n].signed),
           rotations'[n] = rotations[n],
           tx'[n].next # None => tx'[n].activate >= tx[n].activate,
           \/ rule'[Peer[n]] = rule[Peer[n]]
           \/ \E f \in net : Concerns(f, n) /\ rule'[Peer[n]] = Expected(f)
    PROVE  Ended(n)'
<1>1. /\ Len(tx[n].signed) \in Nat /\ Len(tx'[n].signed) \in Nat
      /\ tx[n].activate \in Nat /\ tx'[n].activate \in Nat
  BY SMTT(40) DEF TypeInv, TypeOK, Sane, Sender
<1>2. tx'[n].next = tx[n].next
  BY DEF Proceeds
<1>5. ASSUME Expects(n), tx[n].next # None PROVE Expects(n)'
  <2>1. tx'[n].activate >= tx[n].activate
    BY <1>2, <1>5
  <2>2. CASE rule'[Peer[n]] = rule[Peer[n]]
    <3>1. rule[Peer[n]].activate \in Nat
      BY PeerFacts DEF TypeInv, TypeOK, Rule
    <3> QED
      BY <1>1, <1>2, <1>5, <2>1, <2>2, <3>1 DEF Expects
  <2>3. ASSUME NEW f \in net, Concerns(f, n), rule'[Peer[n]] = Expected(f)
        PROVE  Expects(n)'
    <3>1. f.id = tx[n].next /\ f.activate <= tx[n].activate /\ f.activate \in Nat
      BY <1>5, <2>3 DEF Agree, TypeInv, TypeOK, Frame
    <3>2. /\ rule'[Peer[n]].known /\ rule'[Peer[n]].next = f.id
          /\ rule'[Peer[n]].activate = f.activate
      BY <2>3 DEF Expected
    <3> QED
      BY <1>1, <1>2, <2>1, <3>1, <3>2 DEF Expects
  <2> QED
    BY <2>2, <2>3
<1>3. ASSUME ~tx'[n].pending, tx'[n].next # None
      PROVE  /\ tx'[n].key = tx'[n].next
             /\ Expects(n)'
             /\ NextNonce(tx'[n]) >= tx'[n].activate
  <2>1. CASE /\ tx'[n].pending = tx[n].pending /\ tx'[n].key = tx[n].key
             /\ ~tx[n].pending => tx'[n].activate = tx[n].activate
    <3>1. ~tx[n].pending /\ tx'[n].activate = tx[n].activate
      BY <1>3, <2>1
    <3>2. tx[n].key = tx[n].next /\ Expects(n) /\ NextNonce(tx[n]) >= tx[n].activate
      BY <1>2, <1>3, <3>1 DEF Ended
    <3>3. NextNonce(tx'[n]) >= tx'[n].activate
      BY <1>1, <3>1, <3>2 DEF NextNonce
    <3> QED
      BY <1>2, <1>3, <1>5, <2>1, <3>2, <3>3
  <2>2. CASE /\ tx[n].pending /\ tx[n].acked /\ ~tx'[n].pending
             /\ tx'[n].key = tx[n].next
             /\ NextNonce(tx'[n]) >= tx'[n].activate
    BY <1>2, <1>3, <1>5, <2>2 DEF Agree
  <2> QED
    BY <2>1, <2>2 DEF Proceeds
<1>4. tx'[n].next = None => rotations'[n] = 0
  BY <1>2 DEF Ended
<1> QED
  BY <1>3, <1>4 DEF Ended, NextNonce

LEMMA EndedStep ==
    ASSUME MaxRetries = 0, TypeInv, TypeInv', AgreeInv, EndedInv, [Next]_vars
    PROVE  EndedInv'
<1> SUFFICES ASSUME NEW m \in Node \ Manual PROVE Ended(m)'
  BY DEF EndedInv
<1> USE PeerFacts
<1>a. /\ Agree(m) /\ Ended(m) /\ Sane(tx[m]) /\ tx \in [Node -> Sender]
      /\ Len(tx[m].signed) \in Nat /\ tx[m].activate \in Nat
      /\ rule \in [Node -> Rule] /\ rotations \in [Node -> Nat]
  BY SMTT(40) DEF AgreeInv, EndedInv, TypeInv, TypeOK, Sane, Sender
<1>b. Proceeds(tx[m], tx[m]) /\ Len(tx[m].signed) >= Len(tx[m].signed)
  BY <1>a DEF Proceeds
\* A sender that follows from the old one has proceeded.
<1>c. ASSUME NEW n \in Node, NEW s, Follows(s, tx[n]), tx' = [tx EXCEPT ![n] = s]
      PROVE  /\ Proceeds(tx'[m], tx[m])
             /\ Len(tx'[m].signed) >= Len(tx[m].signed)
             /\ tx'[m].next # None => tx'[m].activate >= tx[m].activate
  <2>1. CASE m = n
    BY <1>a, <1>c, <2>1 DEF Follows
  <2>2. CASE m # n
    BY <1>a, <1>b, <1>c, <2>2
  <2> QED
    BY <2>1, <2>2
<1>1. ASSUME NEW n \in Node, NEW k \in KeyId, NEW setAsTx \in BOOLEAN,
             SetAuthKey(n, k, setAsTx)
      PROVE  Ended(m)'
  <2>1. tx'[m] = tx[m] /\ rotations'[m] = rotations[m]
    <3>1. CASE m = n
      <4>1. ~setAsTx
        BY <1>1, <3>1 DEF SetAuthKey
      <4>2. tx' = [tx EXCEPT ![n].key = tx[n].key]
        BY <1>1, <4>1 DEF SetAuthKey
      <4>3. [tx[n] EXCEPT !.key = tx[n].key] = tx[n]
        BY <1>a, <3>1 DEF Sender
      <4>4. rotations'[m] = rotations[m]
        BY <1>1, <1>a, <4>1 DEF SetAuthKey
      <4> QED
        BY <1>a, <3>1, <4>2, <4>3, <4>4
    <3>2. CASE m # n
      BY <1>1, <1>a, <3>2 DEF SetAuthKey
    <3> QED
      BY <3>1, <3>2
  <2>2. UNCHANGED rule
    BY <1>1 DEF SetAuthKey
  <2> QED
    BY <1>a, <1>b, <2>1, <2>2, EndedKept
<1>2. ASSUME NEW n \in Node, NEW k \in KeyId, RotateTxKey(n, k)
      PROVE  Ended(m)'
  <2>1. m # n
    BY <1>2 DEF RotateTxKey
  <2>2. tx'[m] = tx[m] /\ rotations'[m] = rotations[m] /\ UNCHANGED rule
    BY <1>2, <1>a, <2>1 DEF RotateTxKey
  <2> QED
    BY <1>a, <1>b, <2>2, EndedKept
<1>3. ASSUME NEW n \in Node, NEW k \in Target, ScheduleTxKeyRotation(n, k)
      PROVE  Ended(m)'
  <2>1. CASE m = n
    <3>1. tx'[m].pending = TRUE /\ tx'[m].next = k
      BY <1>3, <1>a, <2>1 DEF ScheduleTxKeyRotation, Sender
    <3>2. k # None
      BY KeyRotationAssumption DEF None
    <3> QED
      BY <3>1, <3>2 DEF Ended
  <2>2. CASE m # n
    <3>1. tx'[m] = tx[m] /\ rotations'[m] = rotations[m] /\ UNCHANGED rule
      BY <1>3, <1>a, <2>2 DEF ScheduleTxKeyRotation
    <3> QED
      BY <1>a, <1>b, <3>1, EndedKept
  <2> QED
    BY <2>1, <2>2
<1>4. ASSUME NEW n \in Node, Transmit(n)
      PROVE  Ended(m)'
  <2>1. PICK s : Follows(s, tx[n]) /\ tx' = [tx EXCEPT ![n] = s]
    BY <1>4, TransmitEffect
  <2>2. UNCHANGED <<rule, rotations>>
    BY <1>4, TransmitEffect
  <2> QED
    BY <1>a, <1>c, <2>1, <2>2, EndedKept
<1>5. ASSUME NEW n \in Node, NEW late \in BOOLEAN, NEW refused \in BOOLEAN,
             NEW flush \in BOOLEAN, Tick(n, late, refused, flush)
      PROVE  Ended(m)'
  <2>1. PICK s : Follows(s, tx[n]) /\ tx' = [tx EXCEPT ![n] = s]
    BY <1>5, TickEffect
  <2>2. UNCHANGED <<rule, rotations>>
    BY <1>5, TickEffect
  <2> QED
    BY <1>a, <1>c, <2>1, <2>2, EndedKept
<1>6. ASSUME NEW n \in Node, NEW f \in net, NEW refused \in BOOLEAN,
             ReceiveUpdate(n, f, refused)
      PROVE  Ended(m)'
  <2>1. PICK s : Follows(s, tx[n]) /\ tx' = [tx EXCEPT ![n] = s]
    BY <1>6, ReceiveUpdateEffect
  <2>2. UNCHANGED rotations
    BY <1>6, ReceiveUpdateEffect
  <2>3. rule' = rule \/ rule' = [rule EXCEPT ![n] = Expected(f)]
    BY <1>6, ReceiveUpdateEffect
  <2>4. \/ rule'[Peer[m]] = rule[Peer[m]]
        \/ Concerns(f, m) /\ rule'[Peer[m]] = Expected(f)
    <3>1. CASE Peer[m] = n /\ rule' = [rule EXCEPT ![n] = Expected(f)]
      <4>1. m = Peer[n]
        BY <3>1
      <4>2. Concerns(f, m)
        BY <1>6, <4>1 DEF ReceiveUpdate, Concerns
      <4> QED
        BY <1>a, <3>1, <4>2
    <3>2. CASE Peer[m] # n \/ rule' = rule
      BY <1>a, <2>3, <3>2
    <3> QED
      BY <2>3, <3>1, <3>2
  <2> QED
    BY <1>a, <1>c, <2>1, <2>2, <2>4, EndedKept
<1>7. ASSUME NEW n \in Node, NEW f \in net, ReceiveUpdateAck(n, f)
      PROVE  Ended(m)'
  <2>1. UNCHANGED <<rule, rotations>>
    BY <1>7 DEF ReceiveUpdateAck
  <2>2. /\ tx'[m].next = tx[m].next /\ tx'[m].pending = tx[m].pending
        /\ tx'[m].key = tx[m].key /\ tx'[m].activate = tx[m].activate
        /\ tx'[m].signed = tx[m].signed
    BY <1>7, <1>a DEF ReceiveUpdateAck, Sender
  <2>3. Proceeds(tx'[m], tx[m]) /\ Len(tx'[m].signed) >= Len(tx[m].signed)
    BY <1>a, <2>2 DEF Proceeds
  <2>4. tx'[m].activate >= tx[m].activate
    BY <1>a, <2>2
  <2> QED
    BY <1>a, <2>1, <2>3, <2>4, EndedKept
<1>8. CASE UNCHANGED vars
  BY <1>8, <1>a, <1>b, EndedKept DEF vars
<1> QED
  BY <1>1, <1>2, <1>3, <1>4, <1>5, <1>6, <1>7, <1>8, KeyRotationAssumption DEF Next

\* An endpoint that rotates by schedule and does not give up signs, whenever no
\* rotation is under way, with a key that its peer's rule lets through.  It is
\* false for one that gives up, and for rotations that overlap.
THEOREM RotationEndsAdmitted ==
    ASSUME MaxRetries = 0
    PROVE  Spec /\ [][Spaced]_vars => []NextFrameAdmitted
<1>1. Init => EndedInv
  BY DEF Init, EndedInv, Ended
<1>2. TypeInv /\ AgreeInv /\ TypeInv' /\ EndedInv /\ [Next]_vars => EndedInv'
  BY EndedStep, MaxRetries = 0
<1>3. TypeInv /\ AgreeInv /\ EndedInv => NextFrameAdmitted
  <2> SUFFICES ASSUME TypeInv, AgreeInv, EndedInv,
                      NEW n \in Node \ Manual, ~tx[n].pending
               PROVE  Admits(rule[Peer[n]], NextNonce(tx[n]), tx[n].key)
    BY DEF NextFrameAdmitted
  <2>1. Agree(n) /\ Ended(n)
    BY DEF AgreeInv, EndedInv
  <2>2. CASE tx[n].next = None
    BY <2>1, <2>2 DEF Agree, Ended, Admits
  <2>3. CASE tx[n].next # None
    <3>1. /\ tx[n].activate \in Nat /\ rule[Peer[n]].activate \in Nat
          /\ NextNonce(tx[n]) \in Nat
      BY PeerFacts DEF TypeInv, TypeOK, Sane, Sender, Rule, NextNonce
    <3>2. /\ rule[Peer[n]].next = tx[n].key
          /\ rule[Peer[n]].activate <= tx[n].activate
          /\ NextNonce(tx[n]) >= tx[n].activate
      BY <2>1, <2>3 DEF Expects, Ended
    <3> QED
      BY <3>1, <3>2 DEF Admits
  <2> QED
    BY <2>2, <2>3
<1>4. Init => TypeInv /\ AgreeInv
  BY TypeInit, AgreeInit
<1>5. TypeInv /\ TypeInv' /\ AgreeInv /\ [Next]_vars /\ [Spaced]_vars => AgreeInv'
  BY AgreeStep
<1>6. TypeInv /\ [Next]_vars => TypeInv'
  BY TypeStep
<1> QED
  BY <1>1, <1>2, <1>3, <1>4, <1>5, <1>6, PTL DEF Spec

-----------------------------------------------------------------------------
(* The ring keeps the keys in use, when it has a place for every key. *)

TwoKeys == \E j : KeyId \subseteq {1, j}

\* The ring has the key to sign with and the one to switch to.
Ready(keys, t) ==
    /\ Resolves(keys, t.key)
    /\ t.pending => Resolves(keys, t.next)

ReadyInv == \A n \in Node : Ready(auth_keys[n], tx[n])

LEMMA SetKeepsKeys ==
    ASSUME TwoKeys, NEW keys \in [Place -> KeyId \cup {None}],
           NEW k \in KeyId, NEW key, NEW h \in KeyId, Resolves(keys, h)
    PROVE  Resolves([keys EXCEPT ![PlaceFor(keys, k, key)] = k], h)
<1>1. PICK j : KeyId \subseteq {1, j}
  BY DEF TwoKeys
<1>2. keys[0] \in KeyId \cup {None} /\ keys[1] \in KeyId \cup {None}
  BY DEF Place
<1>3. h # None /\ k # None
  BY KeyRotationAssumption DEF None
<1> DEFINE p == PlaceFor(keys, k, key)
<1>4. p \in Place
  BY DEF PlaceFor, Place
<1>5. keys[p] = k \/ keys[p] = None \/ (keys[0] \notin {None, k} /\ keys[1] \notin {None, k})
  <2>1. CASE \E i \in Place : keys[i] = k
    BY <2>1 DEF PlaceFor, Place
  <2>2. CASE ~(\E i \in Place : keys[i] = k) /\ \E i \in Place : keys[i] = None
    BY <2>2 DEF PlaceFor, Place
  <2>3. CASE \A i \in Place : keys[i] # k /\ keys[i] # None
    BY <2>3 DEF Place
  <2> QED
    BY <2>1, <2>2, <2>3
<1>6. PICK i \in Place : keys[i] = h
  BY DEF Resolves
<1> DEFINE ring == [keys EXCEPT ![p] = k]
<1> SUFFICES Resolves(ring, h)
  OBVIOUS
<1> HIDE DEF p
<1>7. ring[p] = k /\ \A q \in Place : q # p => ring[q] = keys[q]
  BY <1>4
<1> HIDE DEF ring
<1>8. CASE k = h
  BY <1>3, <1>4, <1>7, <1>8 DEF Resolves
<1>9. CASE k # h /\ i # p
  BY <1>3, <1>6, <1>7, <1>9 DEF Resolves
<1>10. CASE k # h /\ i = p
  <2>1. keys[0] \notin {None, k} /\ keys[1] \notin {None, k}
    BY <1>3, <1>5, <1>6, <1>10
  <2>2. keys[0] = h /\ keys[1] = h
    BY <1>1, <1>2, <1>10, <2>1
  <2>3. PICK q \in Place : q # p
    BY <1>4 DEF Place
  <2>4. ring[q] = h
    BY <1>7, <2>2, <2>3 DEF Place
  <2> QED
    BY <1>3, <2>4 DEF Resolves
<1> QED
  BY <1>8, <1>9, <1>10

LEMMA ActivatedReady ==
    ASSUME NEW t, Sane(t), NEW keys, Ready(keys, t)
    PROVE  Ready(keys, Activated(t))
<1>1. CASE t.pending /\ t.acked /\ NextNonce(t) >= t.activate
  <2> DEFINE u == [t EXCEPT !.key = t.next, !.pending = FALSE]
  <2>1. u.key = t.next /\ u.pending = FALSE
    BY DEF Sane, Sender
  <2>2. Activated(t) = u
    BY <1>1 DEF Activated
  <2> HIDE DEF u
  <2> QED
    BY <1>1, <2>1, <2>2 DEF Ready
<1>2. CASE ~(t.pending /\ t.acked /\ NextNonce(t) >= t.activate)
  BY <1>2 DEF Activated
<1> QED
  BY <1>1, <1>2

LEMMA SignedReady ==
    ASSUME NEW t, Sane(t), NEW keys, NEW ring, Ready(ring, t)
    PROVE  Ready(ring, Signed(t, keys))
<1> DEFINE v == Activated(t)
           k == IF Resolves(keys, v.key) THEN v.key ELSE None
           u == [v EXCEPT !.signed = Append(v.signed, k)]
<1>1. Sane(v) /\ Ready(ring, v)
  BY ActivatedSane, ActivatedReady DEF Follows
<1>2. Signed(t, keys) = u
  BY DEF Signed
<1> HIDE DEF v, k
<1>3. u.key = v.key /\ u.pending = v.pending /\ u.next = v.next
  BY <1>1 DEF Sane, Sender
<1> HIDE DEF u
<1> QED
  BY <1>1, <1>2, <1>3 DEF Ready

\* Finished, Postponed and Announced leave the key alone and start no rotation.
LEMMA SameKeyReady ==
    ASSUME NEW t, NEW u, NEW keys, Ready(keys, t), u.key = t.key,
           u.pending => t.pending /\ u.next = t.next
    PROVE  Ready(keys, u)
  BY DEF Ready

LEMMA RetiredReady ==
    ASSUME NEW t, NEW keys, Ready(keys, t)
    PROVE  Ready(Retired(keys, t), t)
<1>1. CASE RetireDue(t)
  <2>1. PICK i \in Place : keys[i] = t.key
    BY DEF Ready, Resolves
  <2>2. Retired(keys, t)[i] = t.key
    BY <1>1, <2>1 DEF Retired
  <2>3. Resolves(Retired(keys, t), t.key)
    BY <2>1, <2>2 DEF Ready, Resolves
  <2> QED
    BY <1>1, <2>3 DEF Ready, RetireDue
<1>2. CASE ~RetireDue(t)
  BY <1>2 DEF Retired
<1> QED
  BY <1>1, <1>2

LEMMA TickReady ==
    ASSUME NEW n \in Node, NEW late \in BOOLEAN, NEW refused \in BOOLEAN,
           NEW flush \in BOOLEAN, TypeInv, ReadyInv,
           Tick(n, late, refused, flush)
    PROVE  ReadyInv'
<1> DEFINE t0       == Activated(tx[n])
           keys     == Retired(auth_keys[n], t0)
           t1       == Postponed(Finished(t0))
           announce == t1.pending /\ ~t1.acked /\ (t1.announced => late)
           t2       == Signed(t1, keys)
           t3       == IF ~announce THEN t1
                       ELSE IF refused THEN t2 ELSE Announced(t2)
           s        == IF flush THEN Signed(t3, keys) ELSE t3
<1>1. tx' = [tx EXCEPT ![n] = s] /\ auth_keys' = [auth_keys EXCEPT ![n] = keys]
  BY DEF Tick
<1>2. /\ Sane(tx[n]) /\ Ready(auth_keys[n], tx[n])
      /\ tx \in [Node -> Sender]
      /\ auth_keys \in [Node -> [Place -> KeyId \cup {None}]]
  BY DEF TypeInv, TypeOK, ReadyInv
<1>3. Sane(t0) /\ Ready(keys, t0)
  BY <1>2, ActivatedSane, ActivatedReady, RetiredReady DEF Follows
<1> HIDE DEF t0, keys
<1>4. Sane(Finished(t0)) /\ Ready(keys, Finished(t0))
  <2>1. /\ Finished(t0).key = t0.key
        /\ Finished(t0).pending = t0.pending /\ Finished(t0).next = t0.next
    BY <1>3 DEF Finished, Sane, Sender
  <2> QED
    BY <1>3, <2>1, FinishedSane, SameKeyReady DEF Follows
<1>5. Sane(t1) /\ Ready(keys, t1)
  <2> DEFINE t == Finished(t0)
  <2> HIDE DEF t
  <2>1. Sane(t) /\ Ready(keys, t)
    BY <1>4 DEF t
  <2>2. /\ Postponed(t).key = t.key
        /\ Postponed(t).pending = t.pending /\ Postponed(t).next = t.next
    BY <2>1 DEF Postponed, Sane, Sender
  <2>3. Sane(Postponed(t)) /\ Ready(keys, Postponed(t))
    BY <2>1, <2>2, PostponedSane, SameKeyReady DEF Follows
  <2> QED
    BY <2>3 DEF t
<1> HIDE DEF t1
<1>6. Sane(t2) /\ Ready(keys, t2)
  BY <1>5, SignedSane, SignedReady DEF Follows
<1> HIDE DEF t2, announce
<1>7. Sane(Announced(t2)) /\ Ready(keys, Announced(t2))
  <2>1. /\ Announced(t2).key = t2.key
        /\ Announced(t2).pending =>
               t2.pending /\ Announced(t2).next = t2.next
    BY <1>6 DEF Announced, Sane, Sender
  <2> QED
    BY <1>6, <2>1, AnnouncedSane, SameKeyReady DEF Follows
<1>8. Sane(t3) /\ Ready(keys, t3)
  BY <1>5, <1>6, <1>7
<1> HIDE DEF t3
<1>9. Ready(keys, s)
  BY <1>8, SignedReady
<1> HIDE DEF s
<1>10. ASSUME NEW m \in Node PROVE Ready(auth_keys'[m], tx'[m])
  <2>1. CASE m = n
    BY <1>1, <1>2, <1>9, <2>1
  <2>2. CASE m # n
    BY <1>1, <1>2, <2>2 DEF ReadyInv
  <2> QED
    BY <2>1, <2>2
<1> QED
  BY <1>10 DEF ReadyInv

LEMMA ReadyStep ==
    ASSUME TwoKeys, TypeInv, ReadyInv, [Next]_vars
    PROVE  ReadyInv'
<1>a. /\ tx \in [Node -> Sender]
      /\ auth_keys \in [Node -> [Place -> KeyId \cup {None}]]
      /\ \A n \in Node : Sane(tx[n]) /\ Ready(auth_keys[n], tx[n])
  BY DEF TypeInv, TypeOK, ReadyInv
\* It is enough to look at the endpoint that takes the step.
<1>b. ASSUME NEW n \in Node, NEW s, NEW keys, tx' = [tx EXCEPT ![n] = s],
             auth_keys' = [auth_keys EXCEPT ![n] = keys], Ready(keys, s)
      PROVE  ReadyInv'
  <2>1. ASSUME NEW m \in Node PROVE Ready(auth_keys'[m], tx'[m])
    <3>1. CASE m = n
      BY <1>a, <1>b, <3>1
    <3>2. CASE m # n
      BY <1>a, <1>b, <3>2
    <3> QED
      BY <3>1, <3>2
  <2> QED
    BY <2>1 DEF ReadyInv
<1>1. ASSUME NEW n \in Node, NEW k \in KeyId, NEW setAsTx \in BOOLEAN,
             SetAuthKey(n, k, setAsTx)
      PROVE  ReadyInv'
  <2> DEFINE t == tx[n]
             s == [t EXCEPT !.key = IF setAsTx THEN k ELSE t.key]
             keys == [auth_keys[n] EXCEPT
                        ![PlaceFor(auth_keys[n], k, t.key)] = k]
  <2>1. tx' = [tx EXCEPT ![n] = s] /\ auth_keys' = [auth_keys EXCEPT ![n] = keys]
    BY <1>1 DEF SetAuthKey
  <2>2. \A h \in KeyId : Resolves(auth_keys[n], h) => Resolves(keys, h)
    BY <1>a, SetKeepsKeys, TwoKeys
  <2>3. Resolves(keys, k)
    <3>1. PlaceFor(auth_keys[n], k, t.key) \in Place
      BY DEF PlaceFor, Place
    <3>2. keys[PlaceFor(auth_keys[n], k, t.key)] = k
      BY <1>a, <3>1
    <3> QED
      BY <3>1, <3>2, KeyRotationAssumption DEF Resolves, None
  <2>4. t \in Sender /\ (t.pending => t.next \in KeyId) /\ t.key \in KeyId
    BY <1>a DEF Sane, Sender
  <2>5. /\ s.key = IF setAsTx THEN k ELSE t.key
        /\ s.pending = t.pending /\ s.next = t.next
    BY <2>4 DEF Sender
  <2>6. Ready(auth_keys[n], t)
    BY <1>a
  <2> HIDE DEF keys, s, t
  <2>7. Ready(keys, s)
    BY <2>2, <2>3, <2>4, <2>5, <2>6 DEF Ready
  <2> QED
    BY <1>b, <2>1, <2>7
<1>2. ASSUME NEW n \in Node, NEW k \in KeyId, RotateTxKey(n, k)
      PROVE  ReadyInv'
  <2> DEFINE t == tx[n]
             s == [t EXCEPT !.key = k]
  <2>1. /\ tx' = [tx EXCEPT ![n] = s] /\ Resolves(auth_keys[n], k)
        /\ auth_keys' = [auth_keys EXCEPT ![n] = auth_keys[n]]
    BY <1>2, <1>a DEF RotateTxKey
  <2>2. s.key = k /\ s.pending = t.pending /\ s.next = t.next
    BY <1>a DEF Sender
  <2>3. Ready(auth_keys[n], t)
    BY <1>a
  <2> HIDE DEF s, t
  <2>4. Ready(auth_keys[n], s)
    BY <2>1, <2>2, <2>3 DEF Ready
  <2> QED
    BY <1>b, <2>1, <2>4
<1>3. ASSUME NEW n \in Node, NEW k \in Target, ScheduleTxKeyRotation(n, k)
      PROVE  ReadyInv'
  <2> DEFINE t == tx[n]
             lead == IF Lead < MinLead THEN MinLead ELSE Lead
             s == [t EXCEPT !.pending = TRUE, !.next = k,
                            !.activate = Len(t.signed) + lead,
                            !.acked = FALSE, !.old = t.key,
                            !.retries = 0, !.announced = FALSE]
  <2>1. /\ tx' = [tx EXCEPT ![n] = s] /\ Resolves(auth_keys[n], k)
        /\ auth_keys' = [auth_keys EXCEPT ![n] = auth_keys[n]]
    BY <1>3, <1>a DEF ScheduleTxKeyRotation
  <2>2. s.key = t.key /\ s.next = k
    BY <1>a DEF Sender
  <2>3. Ready(auth_keys[n], t)
    BY <1>a
  <2> HIDE DEF s, t
  <2>4. Ready(auth_keys[n], s)
    BY <2>1, <2>2, <2>3 DEF Ready
  <2> QED
    BY <1>b, <2>1, <2>4
<1>4. ASSUME NEW n \in Node, Transmit(n)
      PROVE  ReadyInv'
  <2>1. /\ tx' = [tx EXCEPT ![n] = Signed(tx[n], auth_keys[n])]
        /\ auth_keys' = [auth_keys EXCEPT ![n] = auth_keys[n]]
    BY <1>4, <1>a DEF Transmit
  <2>2. Ready(auth_keys[n], Signed(tx[n], auth_keys[n]))
    BY <1>a, SignedReady
  <2> QED
    BY <1>b, <2>1, <2>2
<1>5. ASSUME NEW n \in Node, NEW late \in BOOLEAN, NEW refused \in BOOLEAN,
             NEW flush \in BOOLEAN, Tick(n, late, refused, flush)
      PROVE  ReadyInv'
  BY <1>5, TickReady
<1>6. ASSUME NEW n \in Node, NEW f \in net, NEW refused \in BOOLEAN,
             ReceiveUpdate(n, f, refused)
      PROVE  ReadyInv'
  <2>1. CASE Understood(n, f)
    <3>1. /\ tx' = [tx EXCEPT ![n] = Signed(tx[n], auth_keys[n])]
          /\ auth_keys' = [auth_keys EXCEPT ![n] = auth_keys[n]]
      BY <1>6, <1>a, <2>1 DEF ReceiveUpdate
    <3>2. Ready(auth_keys[n], Signed(tx[n], auth_keys[n]))
      BY <1>a, SignedReady
    <3> QED
      BY <1>b, <3>1, <3>2
  <2>2. CASE ~Understood(n, f)
    <3>1. UNCHANGED <<tx, auth_keys>>
      BY <1>6, <2>2 DEF ReceiveUpdate
    <3> QED
      BY <3>1 DEF ReadyInv
  <2> QED
    BY <2>1, <2>2
<1>7. ASSUME NEW n \in Node, NEW f \in net, ReceiveUpdateAck(n, f)
      PROVE  ReadyInv'
  <2> DEFINE t == tx[n]
             s == IF Confirms(t, f)
                  THEN [t EXCEPT !.acked = TRUE, !.retries = 0] ELSE t
  <2>1. /\ tx' = [tx EXCEPT ![n] = s]
        /\ auth_keys' = [auth_keys EXCEPT ![n] = auth_keys[n]]
    BY <1>7, <1>a DEF ReceiveUpdateAck
  <2>2. s.key = t.key /\ s.pending = t.pending /\ s.next = t.next
    BY <1>a DEF Sender
  <2>3. Ready(auth_keys[n], t)
    BY <1>a
  <2> HIDE DEF s, t
  <2>4. Ready(auth_keys[n], s)
    BY <2>2, <2>3 DEF Ready
  <2> QED
    BY <1>b, <2>1, <2>4
<1>8. CASE UNCHANGED vars
  BY <1>8 DEF vars, ReadyInv
<1> QED
  BY <1>1, <1>2, <1>3, <1>4, <1>5, <1>6, <1>7, <1>8, KeyRotationAssumption DEF Next

\* With no more keys than the ring has places an endpoint never signs with a key
\* that it does not hold: neither SetAuthKey nor the retirement of an old key
\* takes it, nor the one a pending rotation will switch to.
THEOREM SigningKeyHeld ==
    ASSUME TwoKeys PROVE Spec => []TxKeyHeld
<1>1. Init => ReadyInv
  BY DEF Init, ReadyInv, Ready, Resolves, Place, None
<1>2. TypeInv /\ ReadyInv /\ [Next]_vars => ReadyInv'
  BY ReadyStep, TwoKeys
<1>3. ReadyInv => TxKeyHeld
  BY DEF ReadyInv, Ready, TxKeyHeld
<1> QED
  BY TypeInit, TypeStep, <1>1, <1>2, <1>3, PTL DEF Spec

-----------------------------------------------------------------------------
(* The peer of an endpoint that has switched still has the key. *)

\* From t to u no rotation was started: a sender without one keeps its key, and
\* the key to retire is the one that was to be retired or none.
Settles(u, t) ==
    /\ u.old \in {t.old, None}
    /\ ~t.pending => ~u.pending /\ u.key = t.key

LEMMA SettlesTransitive ==
    ASSUME NEW t, NEW u, NEW v, Settles(u, t), Settles(v, u)
    PROVE  Settles(v, t)
  BY DEF Settles

LEMMA SignedSettles ==
    ASSUME NEW t, Sane(t), NEW keys
    PROVE  Settles(Activated(t), t) /\ Settles(Signed(t, keys), t)
<1> DEFINE v == Activated(t)
           k == IF Resolves(keys, v.key) THEN v.key ELSE None
           u == [v EXCEPT !.signed = Append(v.signed, k)]
<1>1. Sane(v)
  BY ActivatedSane DEF Follows
<1>2. Settles(v, t)
  BY DEF Settles, Activated, Sane, Sender
<1>3. Signed(t, keys) = u
  BY DEF Signed
<1> HIDE DEF v, k
<1>4. u.old = v.old /\ u.pending = v.pending /\ u.key = v.key
  BY <1>1 DEF Sane, Sender
<1> HIDE DEF u
<1>5. Settles(u, v)
  BY <1>4 DEF Settles
<1>6. Settles(u, t)
  BY <1>2, <1>5, SettlesTransitive
<1> QED
  BY <1>2, <1>3, <1>6 DEF v

LEMMA TickSettles ==
    ASSUME NEW t, Sane(t)
    PROVE  /\ Settles(Finished(t), t)
           /\ Settles(Postponed(t), t)
           /\ Settles(Announced(t), t)
<1>1. Settles(Finished(t), t)
  BY DEF Settles, Finished, Sane, Sender
<1>2. Settles(Postponed(t), t)
  BY DEF Settles, Postponed, Sane, Sender
<1>3. Settles(Announced(t), t)
  BY DEF Settles, Announced, Sane, Sender
<1> QED
  BY <1>1, <1>2, <1>3

\* Tick removes no key from the ring but the one that is to be retired.
LEMMA TickKeepsKeys ==
    ASSUME NEW n \in Node, NEW late \in BOOLEAN, NEW refused \in BOOLEAN,
           NEW flush \in BOOLEAN, TypeInv, Tick(n, late, refused, flush)
    PROVE  \E s, keys :
              /\ tx' = [tx EXCEPT ![n] = s]
              /\ Settles(s, tx[n])
              /\ auth_keys' = [auth_keys EXCEPT ![n] = keys]
              /\ \A h : h # tx[n].old /\ Resolves(auth_keys[n], h)
                            => Resolves(keys, h)
<1> DEFINE t0       == Activated(tx[n])
           keys     == Retired(auth_keys[n], t0)
           t1       == Postponed(Finished(t0))
           announce == t1.pending /\ ~t1.acked /\ (t1.announced => late)
           t2       == Signed(t1, keys)
           t3       == IF ~announce THEN t1
                       ELSE IF refused THEN t2 ELSE Announced(t2)
           s        == IF flush THEN Signed(t3, keys) ELSE t3
<1>1. tx' = [tx EXCEPT ![n] = s] /\ auth_keys' = [auth_keys EXCEPT ![n] = keys]
  BY DEF Tick
<1>2. Sane(tx[n])
  BY DEF TypeInv
<1>3. /\ Sane(t0) /\ Settles(t0, tx[n])
      /\ t0.old = tx[n].old
  <2>1. t0.old = tx[n].old
    BY <1>2 DEF Activated, Sane, Sender
  <2> QED
    BY <1>2, <2>1, ActivatedSane, SignedSettles DEF Follows
<1> HIDE DEF t0
<1>4. ASSUME NEW h, h # tx[n].old, Resolves(auth_keys[n], h)
      PROVE  Resolves(keys, h)
  <2>1. PICK i \in Place : auth_keys[n][i] = h
    BY <1>4 DEF Resolves
  <2>2. keys[i] = h
    BY <1>3, <1>4, <2>1 DEF Retired
  <2> QED
    BY <1>4, <2>1, <2>2 DEF Resolves
<1> HIDE DEF keys
<1>5. Sane(t1) /\ Settles(t1, tx[n])
  <2> DEFINE t == Finished(t0)
  <2>1. Sane(t) /\ Settles(t, tx[n])
    BY <1>3, FinishedSane, TickSettles, SettlesTransitive DEF Follows
  <2> HIDE DEF t
  <2>2. Sane(Postponed(t)) /\ Settles(Postponed(t), tx[n])
    BY <2>1, PostponedSane, TickSettles, SettlesTransitive DEF Follows
  <2> QED
    BY <2>2 DEF t
<1> HIDE DEF t1
<1>6. Sane(t2) /\ Settles(t2, tx[n])
  BY <1>5, SignedSane, SignedSettles, SettlesTransitive DEF Follows
<1> HIDE DEF t2, announce
<1>7. Sane(Announced(t2)) /\ Settles(Announced(t2), tx[n])
  BY <1>6, AnnouncedSane, TickSettles, SettlesTransitive DEF Follows
<1>8. Sane(t3) /\ Settles(t3, tx[n])
  BY <1>5, <1>6, <1>7
<1> HIDE DEF t3
<1>9. Settles(s, tx[n])
  BY <1>8, SignedSettles, SettlesTransitive
<1> HIDE DEF s
<1> QED
  BY <1>1, <1>4, <1>9

\* The installed key is the only one that n ever retires, and the key of the
\* rotation that n was told of, if another, is in n's ring.
Keeps(n) ==
    /\ rotations[n] = 0 => tx[n].key = 1
    /\ tx[n].old \in {None, 1}
    /\ rule[n].known /\ rule[n].next # 1 =>
           Resolves(auth_keys[n], rule[n].next)

KeepsInv == \A n \in Node : Keeps(n)

\* A step that starts no rotation, takes no key but the installed one from the
\* ring and notes no rotation whose key is not there.
LEMMA KeepsStays ==
    ASSUME TypeInv, NEW n \in Node, Agree(n), Keeps(n),
           NEW s, Settles(s, tx[n]), tx'[n] = s, rotations'[n] = rotations[n],
           \A h : h # tx[n].old /\ Resolves(auth_keys[n], h)
                      => Resolves(auth_keys'[n], h),
           \/ rule'[n] = rule[n]
           \/ Resolves(auth_keys[n], rule'[n].next) /\ rule'[n].next # None
    PROVE  Keeps(n)'
<1>1. rotations'[n] = 0 => tx'[n].key = 1
  BY DEF Agree, Keeps, Settles, TypeInv, Sane
<1>2. tx'[n].old \in {None, 1}
  BY DEF Keeps, Settles
<1>3. ASSUME rule'[n].known, rule'[n].next # 1
      PROVE  Resolves(auth_keys'[n], rule'[n].next)
  <2>1. Resolves(auth_keys[n], rule'[n].next)
    BY <1>3 DEF Keeps
  <2>2. rule'[n].next # None
    BY <2>1 DEF Resolves
  <2> QED
    BY <1>3, <2>1, <2>2 DEF Keeps
<1> QED
  BY <1>1, <1>2, <1>3 DEF Keeps

LEMMA KeepsStep ==
    ASSUME OneRotation, TwoKeys, TypeInv, AgreeInv, KeepsInv, [Next]_vars
    PROVE  KeepsInv'
<1> SUFFICES ASSUME NEW m \in Node PROVE Keeps(m)'
  BY DEF KeepsInv
<1>a. /\ Agree(m) /\ Keeps(m) /\ Sane(tx[m]) /\ tx \in [Node -> Sender]
      /\ auth_keys \in [Node -> [Place -> KeyId \cup {None}]]
      /\ rule \in [Node -> Rule] /\ rotations \in [Node -> Nat]
      /\ rotations[m] <= MaxRotations[m] /\ MaxRotations[m] \in Nat
  BY KeyRotationAssumption DEF AgreeInv, KeepsInv, TypeInv, TypeOK
<1>b. Settles(tx[m], tx[m])
  BY DEF Settles
<1>c. 1 # None /\ \A k \in KeyId : k # None
  BY KeyRotationAssumption DEF None
\* An endpoint that takes no step.
<1>d. ASSUME tx'[m] = tx[m], rotations'[m] = rotations[m],
             auth_keys'[m] = auth_keys[m], rule'[m] = rule[m]
      PROVE  Keeps(m)'
  BY <1>a, <1>d DEF Keeps
\* Calls that switch the key or schedule a switch are counted.
<1>e. ASSUME rotations[m] < MaxRotations[m] PROVE rotations[m] = 0
  <2>1. rotations[m] \in Nat /\ MaxRotations[m] \in Nat
    BY <1>a
  <2>2. MaxRotations[m] <= 1
    BY DEF OneRotation
  <2> QED
    BY <1>e, <2>1, <2>2
<1>1. ASSUME NEW n \in Node, NEW k \in KeyId, NEW setAsTx \in BOOLEAN,
             SetAuthKey(n, k, setAsTx)
      PROVE  Keeps(m)'
  <2>1. CASE m # n
    BY <1>1, <1>a, <1>d, <2>1 DEF SetAuthKey
  <2>2. CASE m = n
    <3> DEFINE keys == [auth_keys[m] EXCEPT
                          ![PlaceFor(auth_keys[m], k, tx[m].key)] = k]
    <3>1. /\ auth_keys' = [auth_keys EXCEPT ![m] = keys]
          /\ tx' = [tx EXCEPT ![m].key = IF setAsTx THEN k ELSE tx[m].key]
          /\ rotations' = [rotations EXCEPT
                             ![m] = IF setAsTx THEN rotations[m] + 1
                                    ELSE rotations[m]]
          /\ UNCHANGED rule
      BY <1>1, <2>2 DEF SetAuthKey
    <3>2. \A h \in KeyId : Resolves(auth_keys[m], h) => Resolves(keys, h)
      BY <1>a, SetKeepsKeys, TwoKeys
    <3> HIDE DEF keys
    <3>3. auth_keys'[m] = keys /\ rule'[m] = rule[m]
      BY <1>a, <3>1
    <3>4. /\ tx'[m].old = tx[m].old
          /\ ~setAsTx => tx'[m].key = tx[m].key /\ rotations'[m] = rotations[m]
          /\ setAsTx => rotations'[m] = rotations[m] + 1
      BY <1>a, <3>1 DEF Sender
    <3>5. rotations'[m] = 0 => tx'[m].key = 1
      BY <1>a, <3>4 DEF Keeps
    <3>6. rule[m].next \in KeyId \cup {None}
      BY <1>a DEF Rule
    <3>7. Resolves(auth_keys[m], rule[m].next) =>
              Resolves(keys, rule[m].next)
      BY <3>2, <3>6 DEF Resolves
    <3> QED
      BY <1>a, <3>3, <3>4, <3>5, <3>7 DEF Keeps
  <2> QED
    BY <2>1, <2>2
<1>2. ASSUME NEW n \in Node, NEW k \in KeyId, RotateTxKey(n, k)
      PROVE  Keeps(m)'
  <2>1. CASE m # n
    BY <1>2, <1>a, <1>d, <2>1 DEF RotateTxKey
  <2>2. CASE m = n
    <3>1. /\ rotations'[m] = rotations[m] + 1 /\ tx'[m].old = tx[m].old
          /\ auth_keys'[m] = auth_keys[m] /\ rule'[m] = rule[m]
      BY <1>2, <1>a, <2>2 DEF RotateTxKey, Sender
    <3>2. rotations'[m] # 0
      BY <1>a, <3>1
    <3> QED
      BY <1>a, <3>1, <3>2 DEF Keeps
  <2> QED
    BY <2>1, <2>2
<1>3. ASSUME NEW n \in Node, NEW k \in Target, ScheduleTxKeyRotation(n, k)
      PROVE  Keeps(m)'
  <2>1. CASE m # n
    BY <1>3, <1>a, <1>d, <2>1 DEF ScheduleTxKeyRotation
  <2>2. CASE m = n
    <3>1. /\ rotations'[m] = rotations[m] + 1 /\ tx'[m].old = tx[m].key
          /\ auth_keys'[m] = auth_keys[m] /\ rule'[m] = rule[m]
          /\ rotations[m] < MaxRotations[m]
      BY <1>3, <1>a, <2>2 DEF ScheduleTxKeyRotation, Sender
    <3>2. rotations'[m] # 0
      BY <1>a, <3>1
    <3>3. tx'[m].old = 1
      BY <1>a, <1>e, <3>1 DEF Keeps
    <3> QED
      BY <1>a, <3>1, <3>2, <3>3 DEF Keeps
  <2> QED
    BY <2>1, <2>2
<1>4. ASSUME NEW n \in Node, Transmit(n)
      PROVE  Keeps(m)'
  <2>1. CASE m # n
    BY <1>4, <1>a, <1>d, <2>1 DEF Transmit
  <2>2. CASE m = n
    <3> DEFINE s == Signed(tx[m], auth_keys[m])
    <3>1. /\ tx'[m] = s /\ rotations'[m] = rotations[m]
          /\ auth_keys'[m] = auth_keys[m] /\ rule'[m] = rule[m]
      BY <1>4, <1>a, <2>2 DEF Transmit
    <3>2. Settles(s, tx[m])
      BY <1>a, SignedSettles
    <3> HIDE DEF s
    <3> QED
      BY <1>a, <3>1, <3>2, KeepsStays
  <2> QED
    BY <2>1, <2>2
<1>5. ASSUME NEW n \in Node, NEW late \in BOOLEAN, NEW refused \in BOOLEAN,
             NEW flush \in BOOLEAN, Tick(n, late, refused, flush)
      PROVE  Keeps(m)'
  <2>1. PICK s, keys :
              /\ tx' = [tx EXCEPT ![n] = s]
              /\ Settles(s, tx[n])
              /\ auth_keys' = [auth_keys EXCEPT ![n] = keys]
              /\ \A h : h # tx[n].old /\ Resolves(auth_keys[n], h)
                            => Resolves(keys, h)
    BY <1>5, TickKeepsKeys
  <2>2. UNCHANGED <<rule, rotations>>
    BY <1>5, TickEffect
  <2>3. CASE m # n
    BY <1>a, <1>d, <2>1, <2>2, <2>3
  <2>4. CASE m = n
    <3>1. tx'[m] = s /\ auth_keys'[m] = keys
      BY <1>a, <2>1, <2>4
    <3> QED
      BY <1>a, <2>1, <2>2, <2>4, <3>1, KeepsStays
  <2> QED
    BY <2>3, <2>4
<1>6. ASSUME NEW n \in Node, NEW f \in net, NEW refused \in BOOLEAN,
             ReceiveUpdate(n, f, refused)
      PROVE  Keeps(m)'
  <2>1. CASE m # n \/ ~Understood(n, f)
    <3>1. tx'[m] = tx[m] /\ rule'[m] = rule[m]
      BY <1>6, <1>a, <2>1 DEF ReceiveUpdate
    <3>2. UNCHANGED <<auth_keys, rotations>>
      BY <1>6 DEF ReceiveUpdate
    <3> QED
      BY <1>d, <3>1, <3>2
  <2>2. CASE m = n /\ Understood(n, f)
    <3> DEFINE s == Signed(tx[m], auth_keys[m])
    <3>1. /\ tx'[m] = s /\ rotations'[m] = rotations[m]
          /\ auth_keys'[m] = auth_keys[m] /\ rule'[m] = Expected(f)
      BY <1>6, <1>a, <2>2 DEF ReceiveUpdate
    <3>2. Settles(s, tx[m])
      BY <1>a, SignedSettles
    <3>3. rule'[m].next = f.id /\ Resolves(auth_keys[m], f.id) /\ f.id # None
      BY <2>2, <3>1 DEF Expected, Understood, Resolves
    <3> HIDE DEF s
    <3> QED
      BY <1>a, <3>1, <3>2, <3>3, KeepsStays
  <2> QED
    BY <2>1, <2>2
<1>7. ASSUME NEW n \in Node, NEW f \in net, ReceiveUpdateAck(n, f)
      PROVE  Keeps(m)'
  <2>1. UNCHANGED <<auth_keys, rule, rotations>>
    BY <1>7 DEF ReceiveUpdateAck
  <2>2. tx'[m].key = tx[m].key /\ tx'[m].old = tx[m].old
    BY <1>7, <1>a DEF ReceiveUpdateAck, Sender
  <2> QED
    BY <1>a, <2>1, <2>2 DEF Keeps
<1>8. CASE UNCHANGED vars
  BY <1>8, <1>d DEF vars
<1> QED
  BY <1>1, <1>2, <1>3, <1>4, <1>5, <1>6, <1>7, <1>8, KeyRotationAssumption DEF Next

\* An endpoint that rotates by schedule, does not give up and has switched signs
\* its next frame with a key that its peer holds and lets through.  The peer had
\* the key when it answered the announcement; what keeps it there is that
\* SetAuthKey finds a place without evicting it and that the peer's own rotation
\* retires only the key it was installed with.
THEOREM SwitchedKeyTaken ==
    ASSUME OneRotation, TwoKeys, MaxRetries = 0
    PROVE  Spec => []SwitchedFrameTaken
<1>1. Init => EndedInv /\ KeepsInv
  BY DEF Init, EndedInv, Ended, KeepsInv, Keeps, None
<1>2. TypeInv /\ AgreeInv /\ TypeInv' /\ EndedInv /\ [Next]_vars => EndedInv'
  BY EndedStep, MaxRetries = 0
<1>3. TypeInv /\ AgreeInv /\ KeepsInv /\ [Next]_vars => KeepsInv'
  BY KeepsStep, OneRotation, TwoKeys
<1>4. TypeInv /\ AgreeInv /\ EndedInv /\ KeepsInv /\ NextFrameAdmitted
          => SwitchedFrameTaken
  <2> SUFFICES ASSUME TypeInv, AgreeInv, EndedInv, KeepsInv, NextFrameAdmitted,
                      NEW n \in Node \ Manual, ~tx[n].pending, tx[n].key # 1
               PROVE  Acceptable(Peer[n], NextNonce(tx[n]), tx[n].key)
    BY DEF SwitchedFrameTaken
  <2>1. Agree(n) /\ Ended(n) /\ Keeps(n) /\ Keeps(Peer[n])
    BY PeerFacts DEF AgreeInv, EndedInv, KeepsInv
  <2>2. tx[n].next # None /\ tx[n].key = tx[n].next
    BY <2>1 DEF Ended, Keeps
  <2>3. rule[Peer[n]].known /\ rule[Peer[n]].next = tx[n].key
    BY <2>1, <2>2 DEF Expects, Ended
  <2>4. Resolves(auth_keys[Peer[n]], tx[n].key)
    BY <2>1, <2>3 DEF Keeps
  <2>5. Admits(rule[Peer[n]], NextNonce(tx[n]), tx[n].key)
    BY DEF NextFrameAdmitted
  <2> QED
    BY <2>4, <2>5 DEF Acceptable
<1>5. Spec => [](TypeInv /\ AgreeInv) /\ [][Spaced]_vars
  BY OneRotationSpaced, OneRotation
<1>6. Spec /\ [][Spaced]_vars => []NextFrameAdmitted
  BY RotationEndsAdmitted, MaxRetries = 0
<1> QED
  BY <1>1, <1>2, <1>3, <1>4, <1>5, <1>6, PTL DEF Spec
=============================================================================
