SPECIFICATION Spec
CONSTANTS
  PageSize = 12
  Span = 1
  HS = 2
  PageHS = 4
  ShortMax = 15
  Sizes <- MCSizes
INVARIANTS TypeOK Tiled PrevCoherent NoAdjacentFree
PROPERTIES ImplementsAllocator RefusesOnlyWhatFitsNowhere
