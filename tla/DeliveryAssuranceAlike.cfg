\* One tab, and assurances about different things.
SPECIFICATION Spec
CONSTANTS
  a = a
  b = b
  n = n
  Tabs = {t1}
  Lines = {a, b}
  Numbers = {n}
  Number <- MCNumber
  Terms = {x, y}
  MaxSubmits = 1
  MaxMoves = 1
  None = None
SYMMETRY WizardSymmetry
PROPERTY ApprovedAreAlike
