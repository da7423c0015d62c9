---------------------------- MODULE MCOrgMembership ----------------------------
(***************************************************************************)
(* Instances of OrgMembership: the portal alone, the customer card alone.  *)
(***************************************************************************)
EXTENDS OrgMembership

PortalOnly == {"portal"}
CardOnly == {"card"}
=============================================================================
