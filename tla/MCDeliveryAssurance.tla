-------------------------- MODULE MCDeliveryAssurance --------------------------
(***************************************************************************)
(* Instances of DeliveryAssurance.                                         *)
(***************************************************************************)
EXTENDS DeliveryAssurance, TLC

CONSTANTS a, b, n

\* Two assurances, lines of one order.
MCNumber == a :> n @@ b :> n

\* The tabs, the terms and the lines of one order are interchangeable.
WizardSymmetry == Permutations(Tabs) \union Permutations(Lines) \union Permutations(Terms)
=============================================================================
