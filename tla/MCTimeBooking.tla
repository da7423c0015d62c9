----------------------------- MODULE MCTimeBooking -----------------------------
(***************************************************************************)
(* Instances of TimeBooking: the orders are delivered on the first day.    *)
(***************************************************************************)
EXTENDS TimeBooking, TLC

CONSTANT FirstDay

AllOnFirstDay == [o \in Orders |-> FirstDay]
SlotSymmetry == Permutations(Slots)
=============================================================================
