----------------------------- MODULE AudioPlayout -----------------------------
(***************************************************************************)
(* What the audio receive path owes the decoder: packet after packet, in   *)
(* the order of their wrapping sequence numbers, each once.  A packet that *)
(* has arrived, or was recovered when a shard for later use made its block *)
(* complete, is never concealed and never skipped.                         *)
(***************************************************************************)
EXTENDS Integers, FiniteSets

CONSTANTS W,                 \* sequence numbers are 0 .. W - 1
          RTPA_DATA_SHARDS,  \* packets in a block
          Concealed          \* what is handed over for a lost packet

VARIABLES pos,       \* the next sequence number to be played
          arrived,   \* <<base of its block, index>> of every shard that came in time
          out,       \* what was handed over last
          direct     \* the host is too old: packets go through as they come

Seq16 == 0 .. W - 1
BaseOf(n) == n - (n % RTPA_DATA_SHARDS)
Blocks == {BaseOf(n) : n \in Seq16}

\* The block at b is not before the block of n.
From(n, b) == (b - BaseOf(n)) % W <= (W - 1) \div 2

\* Shard s arrives; with enough shards of its block come all its packets.
With(s, shards) ==
  IF s \in shards THEN shards
  ELSE IF Cardinality({t \in shards : t[1] = s[1]}) + 1 >= RTPA_DATA_SHARDS
       THEN shards \cup {s} \cup {<<s[1], i>> : i \in 0 .. RTPA_DATA_SHARDS - 1}
       ELSE shards \cup {s}

Shard(n) == <<BaseOf(n), n % RTPA_DATA_SHARDS>>

Init == /\ pos \in Seq16
        /\ arrived = {}
        /\ out = Concealed
        /\ direct \in BOOLEAN

\* Nothing has come yet: the stream is joined at a block of its choice.
Join == /\ arrived = {} /\ ~direct
        /\ pos' \in Blocks
        /\ UNCHANGED <<arrived, out, direct>>

\* At most one shard arrives in a step, for a block that is not over at n.
Arrives(n) == \/ arrived' = arrived
              \/ \E s \in arrived' : arrived' = With(s, arrived) /\ From(n, s[1])

\* The shards of the blocks before n are forgotten.
Since(n, shards) == {s \in shards : From(n, s[1])}

Arrive == /\ ~direct
          /\ Arrives(pos)
          /\ UNCHANGED <<pos, out, direct>>

Advance == pos' = (pos + 1) % W

\* Out of what has arrived, or straight off the network; then no block is
\* recovered.
Play == /\ ~direct
        /\ out' = pos
        /\ Advance
        /\ \/ Shard(pos) \in arrived /\ arrived' = Since(pos', arrived)
           \/ arrived' = Since(pos', arrived \cup {Shard(pos)})
        /\ UNCHANGED direct

Conceal == /\ ~direct
           /\ Shard(pos) \notin arrived
           /\ out' = Concealed
           /\ Advance
           /\ arrived' = Since(pos', arrived)
           /\ UNCHANGED direct

\* Whole blocks of which nothing has come are passed over.
Skip == /\ ~direct
        /\ pos' \in Blocks /\ From(pos, pos')
        /\ Arrives(pos')
        /\ \A s \in arrived' : From(pos', s[1])
        /\ UNCHANGED <<out, direct>>

\* A host whose blocks cannot be told apart is played as it comes, for good.
GoDirect == /\ direct'
            /\ arrived' = {}
            /\ UNCHANGED <<pos, out>>

Next == Join \/ Arrive \/ Play \/ Conceal \/ Skip \/ GoDirect

Spec == Init /\ [][Next]_<<pos, arrived, out, direct>>
===============================================================================
