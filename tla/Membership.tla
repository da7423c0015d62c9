------------------------------- MODULE Membership -------------------------------
(***************************************************************************)
(* What the pages that change memberships promise, without requests,       *)
(* snapshots and polls: a user joins and leaves customers and is given     *)
(* roles there, one customer at a time, and has no role where it does not  *)
(* belong, until changes interfere.  From then on the whole record may be  *)
(* replaced, but customers that are kept are never lost.                   *)
(***************************************************************************)
CONSTANTS
  Orgs, RoleIds,
  Kept             \* customers the user cannot lose

VARIABLES
  members,         \* the customers the user belongs to
  grants,          \* grants[o]: the roles at customer o
  interfered       \* changes have overlapped, or outlived the request that made them

vars == <<members, grants, interfered>>

Init ==
  /\ members \in SUBSET Orgs
  /\ grants \in [Orgs -> SUBSET RoleIds]
  /\ \A o \in Orgs : grants[o] # {} => o \in members
  /\ interfered = FALSE

Join(o) ==
  /\ members' = members \union {o}
  /\ UNCHANGED <<grants, interfered>>

SetRoles(o, roles) ==
  /\ o \in members \/ roles = {}
  /\ grants' = [grants EXCEPT ![o] = roles]
  /\ UNCHANGED <<members, interfered>>

Leave(o) ==
  /\ grants[o] = {} /\ o \notin Kept
  /\ members' = members \ {o}
  /\ UNCHANGED <<grants, interfered>>

Interfere ==
  /\ interfered' = TRUE
  /\ UNCHANGED <<members, grants>>

\* After an interference: the lists a change had read are written over the others'.
Replace ==
  /\ interfered
  /\ members' \in SUBSET Orgs /\ members \intersect Kept \subseteq members'
  /\ grants' \in [Orgs -> SUBSET RoleIds]
  /\ UNCHANGED interfered

Next ==
  \/ \E o \in Orgs : \/ Join(o) \/ Leave(o)
                     \/ \E roles \in SUBSET RoleIds : SetRoles(o, roles)
  \/ Interfere \/ Replace

Spec == Init /\ [][Next]_vars
=============================================================================
