SPECIFICATION FairSpec
CONSTANTS
  s1 = s1
  s2 = s2
  s3 = s3
  q1 = q1
  q2 = q2
  q3 = q3
  Sc <- MCSc
  Sv <- MCSv
  Strings <- MCStrings
  NoLookup = none
  Designs <- MCDesigns
  Callers = {k1}
INVARIANTS PairsAreDeclared BoundSidesAgree
PROPERTIES ConnectionsStay CallersGetThrough
CHECK_DEADLOCK FALSE
