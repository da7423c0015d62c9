\* Two requests, two writes, every kind of failure.
SPECIFICATION FairSpec
CONSTANTS
  starred = starred
  garages = garages
  setStar = setStar
  foreign = foreign
  NoEntry = NoEntry
  Zero = Zero
  Null = Null
  Keys <- MCKeys
  Writes <- MCWrites
  Removes <- MCRemoves
  Changes <- MCChanges
  ValueKeys = {garages}
  RefreshKeys = {starred}
  Calls = {c1, c2}
  Faults = {"masked", "thrown", "cancelled"}
  EmptyVersions = {1}
  MaxWrites = 2
INVARIANTS TypeOK StaleOnlyByRace NoBlankEntry
PROPERTIES EntriesNeverGoBack ImplementsReadThrough EveryCallReturns StaleEntriesDieOut
CHECK_DEADLOCK FALSE
