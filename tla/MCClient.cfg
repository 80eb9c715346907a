CONSTANTS
  c1 = c1
  c2 = c2
  Files <- MCFiles
  Tags <- MCTags
  Chunks = {c1, c2}
  Uploads <- MCUploads
  TagRequests <- MCTagRequests
  MaxAssets = 9
  MaxBuffer = 1
  Supply = 2
  Metadata <- MCMetadata
  MaxLosses = 1
  HalfWidth = 11
  HalfHeight = 19
  Corner = 1
  Lid = 3
  Wall = 6
  Undefined = Undefined
  MaxSlow = 2
  MaxTouches = 3
  Provisioned <- MCProvisioned
  Replacements <- MCReplacements
  Deletable <- MCDeletable
  Purgeable <- MCPurgeable
  MaxEdits = 2
  None = None
SPECIFICATION MCSpec
CHECK_DEADLOCK FALSE
INVARIANTS CrashIsExplained ShownIsTheLegend ListenersComeAndGo
  NoToastOnceGranted GroupsAreTheFaces ArtFillsTheCard
PROPERTIES PageEnds SharpAgain CardSettles
