---------------------------- MODULE MCMessageInbox ----------------------------
(***************************************************************************)
(* Instances of MessageInbox.                                              *)
(***************************************************************************)
EXTENDS MessageInbox, TLC

OneMessage == {1}
TwoMessages == {1, 2}

\* The places of requests are alike.
SlotsSymmetry == Permutations(Slots)
=============================================================================
