\* One tab, and assurances that are changed, planned and deleted elsewhere.
SPECIFICATION Spec
CONSTANTS
  a = a
  b = b
  n = n
  Tabs = {t1}
  Lines = {a, b}
  Numbers = {n}
  Number <- MCNumber
  Terms = {x, y}
  MaxSubmits = 2
  MaxMoves = 1
  None = None
SYMMETRY WizardSymmetry
PROPERTY ImplementsSubmissions
