-------------------------- MODULE MCDeliveryAddresses --------------------------
(***************************************************************************)
(* Instances of DeliveryAddresses.                                         *)
(***************************************************************************)
EXTENDS DeliveryAddresses, TLC

AddressSymmetry == Permutations(Pages) \union Permutations(Users)
=============================================================================
