CONSTANTS
  k1 = k1
  k2 = k2
  NoKey = NoKey
  BUCKETS = 2
  DEPTH = 2
  Keys = {k1, k2}
  ReadKeys = {k1}
  Bucket <- MCBucket
  Tag <- MCTag
  IsHead <- MCHead
  Offsets = {o1, o2, o3, o4}
SYMMETRY OffsetSymmetry
SPECIFICATION Spec
CHECK_DEADLOCK FALSE
    
PROPERTIES  ChangesMark
