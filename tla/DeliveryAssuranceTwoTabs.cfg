\* Two tabs of one session, two lines of one order, two submits.
SPECIFICATION Spec
CONSTANTS
  a = a
  b = b
  n = n
  Tabs = {t1, t2}
  Lines = {a, b}
  Numbers = {n}
  Number <- MCNumber
  Terms = {x}
  MaxSubmits = 2
  MaxMoves = 0
  None = None
SYMMETRY WizardSymmetry
INVARIANTS TypeOK SentOnce
PROPERTIES SavesWhatItShows ApprovesWhatWasChosen EditsComeBack ImplementsSubmissions
