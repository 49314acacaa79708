CONSTANTS
  Tabs = {accounts, search}
  SearchTab = search
  QuotaTab = accounts
  ActionTabs = {accounts}
  Queries = {}
  NoQuery = NoQuery
  Searches = {}
  MaxWorld = 2
  MaxEpoch = 1
SPECIFICATION FairSpec
INVARIANTS
  ReportsFresh
  AutoRefreshArmed
PROPERTIES
  ManualServed
  ActiveCatchesUp
CHECK_DEADLOCK FALSE
