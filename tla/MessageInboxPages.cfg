\* Two messages, one on a page; one request at a time, none fails.
SPECIFICATION Spec
CONSTANTS
  Messages <- TwoMessages
  PageSize = 1
  Slots = {i}
  MaxActs = 1
  MaxFails = 0
  None = None
INVARIANT EmptyInboxIsEmpty
