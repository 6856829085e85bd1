SPECIFICATION Spec
CONSTANTS
  k1 = k1
  k2 = k2
  k3 = k3
  v1 = v1
  v2 = v2
  Keys <- ThreeKeys
  Values <- TwoValues
  Adapters = {"redis", "memory"}
  MaxCacheSize = 2
  Second = 2
  Ttls <- Lives
INVARIANT TypeOK
PROPERTIES RefinesCacheContract ReadsWhatWasAsked ConditionIsOnLiveEntries EvictsLeastRecent
SYMMETRY KeySymmetry
