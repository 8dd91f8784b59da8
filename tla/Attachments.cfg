SPECIFICATION FairSpec
CONSTANTS
  k1 = k1
  k2 = k2
  w1 = w1
  Keys = {k1, k2}
  Workers = {w1}
  MinAge = 3
  ScanTime = 1
  UploadTime = 1
INVARIANTS TypeOK FileBehindRow NoLeak
PROPERTY OrphansReclaimed
