CONSTANTS
  Key = {1, 2}
  Value = {v, w}
  NoValue = NoValue
  MaxRevision = 5
  v = v
  w = w
SPECIFICATION Spec
INVARIANTS TypeOK HistoryKept ChangesCounted
PROPERTY ImplementsMap
