\* The customer card removes a user, the owner included.
SPECIFICATION Spec
CONSTANTS
  Admins = {a1}
  Orgs = {o1, o2}
  RoleIds = {r1}
  Owned = {o1}
  Pages <- CardOnly
  MaxPolls = 1
  MaxOps = 2
  NoEntry = NoEntry
PROPERTY OwnerStays
