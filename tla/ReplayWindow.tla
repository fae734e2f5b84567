---------------------------- MODULE ReplayWindow ----------------------------
(***************************************************************************)
(* The replay filter of one Endpoint against an arbitrary stream of        *)
(* nonces: the network may repeat, reorder and drop, so the next packet    *)
(* carries any nonce at all.  times and last are history: how often the    *)
(* filter let each nonce through in this session, and its latest answer.   *)
(***************************************************************************)
EXTENDS ReplayOps, FiniteSets

CONSTANT Nonce   \* the uint32_t nonces a packet may carry; 0 is dropped earlier

ASSUME NonceAssumption == Nonce \subseteq Nat \ {0}

VARIABLES rx_replay,   \* rx_replay_max_nonce_ and rx_replay_bitmap_
          times,
          last

vars == <<rx_replay, times, last>>

taken == {x \in Nonce : times[x] > 0}

Verdict == {"taken", "duplicate", "old"}

NoCall == [nonce |-> 0, verdict |-> "old"]

TypeOK ==
    /\ rx_replay \in Window
    /\ times \in [Nonce -> Nat]
    /\ last \in [nonce : Nonce \cup {0}, verdict : Verdict]

Init ==
    /\ rx_replay = FreshWindow
    /\ times = [x \in Nonce |-> 0]
    /\ last = NoCall

Take(nonce) ==
    /\ Accepts(rx_replay, nonce)
    /\ rx_replay' = Track(rx_replay, nonce)
    /\ times' = [times EXCEPT ![nonce] = @ + 1]
    /\ last' = [nonce |-> nonce, verdict |-> "taken"]

Refuse(nonce) ==
    /\ ~ Accepts(rx_replay, nonce)
    /\ last' = [nonce   |-> nonce,
                verdict |-> IF IsDuplicate(rx_replay, nonce)
                            THEN "duplicate" ELSE "old"]
    /\ UNCHANGED <<rx_replay, times>>

\* StartConnect, Disconnect, and a SYN or SYN-ACK of another session.
NewSession ==
    /\ rx_replay' = FreshWindow
    /\ times' = [x \in Nonce |-> 0]
    /\ last' = NoCall

Next == NewSession \/ \E nonce \in Nonce : Take(nonce) \/ Refuse(nonce)

Spec == Init /\ [][Next]_vars

-----------------------------------------------------------------------------

\* The bitmap is exactly the history, seen through the newest ReplayBits
\* nonces: no shift of ValidateAndTrackReplay loses or invents a bit.
BitmapMatchesHistory ==
    /\ (rx_replay.max = 0) <=> (taken = {})
    /\ rx_replay.max # 0 => rx_replay.max \in taken
    /\ \A nonce \in taken : nonce <= rx_replay.max
    /\ rx_replay.bits = {rx_replay.max - nonce : nonce \in
                            {x \in taken : rx_replay.max - x < ReplayBits}}

\* A packet called a duplicate was taken before in this session, and one
\* called too old lies a whole window behind one that was: the filter never
\* refuses a recent packet it has not seen, however the network reorders.
RefusedForCause ==
    last.nonce # 0 =>
        /\ last.verdict = "duplicate" => last.nonce \in taken
        /\ last.verdict = "old" =>
               \E newer \in taken : newer - last.nonce >= ReplayBits

Once == INSTANCE AcceptOnce

\* No nonce is let through twice in a session, whatever order packets come
\* in and however often: a replayed data frame is never inserted again.
AtMostOnce == Once!Spec
=============================================================================
