---------------------------- MODULE BlockDelivery ----------------------------
(***************************************************************************)
(* What a receiver of FEC blocks promises its application: every block is   *)
(* handed over at most once, in any order, and never after the application  *)
(* has given it up.                                                         *)
(***************************************************************************)
EXTENDS Naturals

CONSTANT MaxBlocks   \* bound: blocks 1..MaxBlocks are offered

VARIABLES
  offered,   \* blocks 1..offered have been sent
  handed,    \* how often each block has been handed over
  abandoned  \* the blocks given up

Offer == \E n \in offered+1..MaxBlocks : offered' = n /\ UNCHANGED <<handed, abandoned>>

HandOver(n) ==
  /\ handed[n] = 0 /\ n \notin abandoned
  /\ handed' = [handed EXCEPT ![n] = 1]
  /\ UNCHANGED <<offered, abandoned>>

Abandon(n) == abandoned' = abandoned \cup {n} /\ UNCHANGED <<offered, handed>>

Init == offered = 0 /\ handed = [n \in 1..MaxBlocks |-> 0] /\ abandoned = {}

Next == Offer \/ \E n \in 1..offered : HandOver(n) \/ Abandon(n)

Spec == Init /\ [][Next]_<<offered, handed, abandoned>>

=============================================================================
