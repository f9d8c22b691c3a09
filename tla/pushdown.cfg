SPECIFICATION Spec
CONSTANTS
  Records <- MCRecords
  Bulk <- MCBulk
  Filters <- MCFilters
  Pages <- MCPages
  Selections <- MCSelections
  Patches <- MCPatches
  Plans <- MCPlans
  Windows <- MCWindows
  Pipelines <- MCPipelines
  Finders <- MCFinders
  Writes <- MCWrites
  Walks <- MCWalks
  Keyed <- MCKeyed
  Columns <- MCColumns
  Indexes <- MCIndexes
  MaxRows <- MCMaxRows
INVARIANTS
  PushDownExact
  DefiniteIsRight
  MongoFindsExact
  PagesAndProjections
  PatchesAgree
  ReductionsAgree
  FacadeAgrees
  KeysetVisitsAll
