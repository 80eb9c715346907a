CONSTANTS
  f1 = f1
  f2 = f2
  Files = {f1, f2}
  Tags = {t1, t2}
  c1 = c1
  Chunks = {c1}
  Uploads <- MCUploads
  TagRequests <- MCTagRequests
  MaxAssets = 4
  MaxBuffer = 2
  None = None
SPECIFICATION CarefulSpec
INVARIANTS TypeOK ServedUnlessPurged
PROPERTY StoreSpec
