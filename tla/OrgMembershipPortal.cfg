\* Two people change the memberships of one user through the portal.
SPECIFICATION FairSpec
CONSTANTS
  Admins = {a1, a2}
  Orgs = {o1, o2}
  RoleIds = {r1}
  Owned = {o1}
  Pages <- PortalOnly
  MaxPolls = 1
  MaxOps = 2
  NoEntry = NoEntry
INVARIANTS TypeOK NoOrphanRoles
PROPERTIES CompletedChangeTookEffect ImplementsMembership OwnerStays ChangeEnds
