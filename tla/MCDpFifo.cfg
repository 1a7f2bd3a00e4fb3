SPECIFICATION FairSpec
CONSTANTS
  Depth <- MCDepth
  Data = {d1, d2}
  NoData = NoData
  Gray <- MCGray
  Binary <- MCBinary
INVARIANTS PointersFollow
PROPERTIES FlagsCatchUp ImplementsBoundedFifo
