------------------------------ MODULE Barrier ------------------------------
(***************************************************************************)
(* What a barrier promises to the harts that meet at it once: nobody       *)
(* leaves before everybody has arrived.                                    *)
(***************************************************************************)
CONSTANT Harts

VARIABLES arrived, left

TypeOK == arrived \subseteq Harts /\ left \subseteq arrived

Init == arrived = {} /\ left = {}

Arrive(h) ==
  /\ h \notin arrived
  /\ arrived' = arrived \cup {h}
  /\ left' = left

Leave(h) ==
  /\ h \notin left
  /\ arrived = Harts
  /\ left' = left \cup {h}
  /\ arrived' = arrived

\* The last one to arrive need not stop.
ArriveLast(h) ==
  /\ h \notin arrived
  /\ arrived' = arrived \cup {h}
  /\ arrived' = Harts
  /\ left' = left \cup {h}

Next == \E h \in Harts : Arrive(h) \/ Leave(h) \/ ArriveLast(h)

Spec == Init /\ [][Next]_<<arrived, left>>
=============================================================================
