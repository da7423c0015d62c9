\* Two pages with the form of one address, two users.
SPECIFICATION Spec
CONSTANTS
  Pages = {p1, p2}
  Addresses = {a}
  Users = {u, v}
  None = None
SYMMETRY AddressSymmetry
INVARIANT TypeOK
PROPERTIES SaveTakesEffect DroppedByChoice
