CONSTANTS
  Tabs = {search}
  SearchTab = search
  QuotaTab = accounts
  ActionTabs = {}
  Queries = {qa, qb}
  NoQuery = NoQuery
  Searches = {r1, r2}
  MaxWorld = 1
  MaxEpoch = 1
SPECIFICATION FairSpec
INVARIANTS
  RowsMatchQuery
  SpinnerOwned
PROPERTIES
  SpinnerEnds
CHECK_DEADLOCK FALSE
