CONSTANTS
  gpt = gpt
  opus = opus
  mini = mini
  Model = {gpt, opus, mini}
  Preferred = gpt
  Fallbacks <- MCFallbacks
  Windows = {1, 3}
  Listing <- MCListing
  MaxTime = 4
  MaxFetches = 2
  NoModel = NoModel
  NoCatalog = NoCatalog
SPECIFICATION CatalogSpec
INVARIANTS ResolutionIsFirstWanted
PROPERTIES CacheServesOnlyUsable
