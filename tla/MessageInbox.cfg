\* One message; two requests at once, two that change messages, one that fails.
SPECIFICATION Spec
CONSTANTS
  Messages <- OneMessage
  PageSize = 1
  Slots = {i, j}
  MaxActs = 2
  MaxFails = 1
  None = None
SYMMETRY SlotsSymmetry
INVARIANTS TypeOK SelectionRemembered ShowsItsTab ShowsTheHub SpinnerWaits
PROPERTIES ActsFitStatus ImplementsMailbox
