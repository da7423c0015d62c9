--------------------------- MODULE MCRepositoryCache ---------------------------
(***************************************************************************)
(* Instances of RepositoryCache.  The key sets follow the attributes of    *)
(* the repositories: BookingContactRepository's SetGarageStarAsync changes *)
(* what both GetStarredGarage and GetGarages answer and invalidates the    *)
(* first only; a write that invalidates nothing stands for a change made   *)
(* by another system.                                                      *)
(***************************************************************************)
EXTENDS RepositoryCache, TLC

CONSTANTS starred, garages, setStar, foreign

MCKeys == {starred, garages}
MCWrites == {setStar, foreign}
MCRemoves == setStar :> {starred} @@ foreign :> {}
MCChanges == setStar :> {starred, garages} @@ foreign :> {garages}
=============================================================================
