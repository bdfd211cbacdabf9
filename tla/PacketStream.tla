---------------------------- MODULE PacketStream ----------------------------
(***************************************************************************)
(* What a lossy packet path promises: it may lose packets, but those it    *)
(* accepts come out once each, whole, and in the order they went in.       *)
(* Packets are numbered in the order they are offered.                     *)
(***************************************************************************)
EXTENDS Naturals

VARIABLES
    accepted,   \* packets taken and not yet delivered
    last,       \* the newest packet taken so far, 0 at first
    delivered   \* the packet delivered last, 0 at first

streamVars == <<accepted, last, delivered>>

StreamInit == accepted = {} /\ last = 0 /\ delivered = 0

\* What an arrival does to the packets held: nothing (lost), or one newer than
\* all before it joins them.
Arrive(held) ==
    \/ accepted' = held /\ last' = last
    \/ last' > last /\ accepted' = held \cup {last'}

Deliver ==
    \E p \in accepted :
        /\ \A q \in accepted : p <= q
        /\ delivered' = p
        /\ Arrive(accepted \ {p})

StreamNext == Deliver \/ (Arrive(accepted) /\ UNCHANGED delivered)

StreamSpec == StreamInit /\ [][StreamNext]_streamVars

=============================================================================
