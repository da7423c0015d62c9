\* A read that overlaps a write, and what the write leaves behind.
SPECIFICATION Spec
CONSTANTS
  starred = starred
  garages = garages
  setStar = setStar
  foreign = foreign
  NoEntry = NoEntry
  Zero = Zero
  Null = Null
  Keys <- MCKeys
  Writes <- MCWrites
  Removes <- MCRemoves
  Changes <- MCChanges
  ValueKeys = {garages}
  RefreshKeys = {starred}
  Calls = {c1, c2}
  Faults = {"masked"}
  EmptyVersions = {1}
  MaxWrites = 2
INVARIANT WriteLeavesNoStaleKey
