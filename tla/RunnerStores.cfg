\* Each store in turn; the bounds of one do not constrain another.
SPECIFICATION StoresSpec
CONSTANTS
  \* JobGC: requests are short, the clock right.
  Ids = {i1}
  MaxAge = 2
  Skew = 1
  PendingTTL = 4
  MaxUpload = 0
  MaxBack = 0
  GCMaxTime = 7
  GCMaxCrashes = 1
  GCFaults = TRUE
  \* NamedCache
  t1 = t1
  t2 = t2
  d1 = d1
  k1 = k1
  Keys = {k1}
  TreeJobs = {t1, t2}
  DirJobs = {d1}
  NoJob = NoJob
  KeyOf <- MCKeyOf
  SizeOf <- MCSizeOf
  NCMaxBytes = 2
  TTL = 2
  MaxTime = 4
  MaxCrashes = 1
  \* BlobCache
  b1 = b1
  b2 = b2
  b3 = b3
  j1 = j1
  j2 = j2
  p1 = p1
  Blobs = {b1, b2, b3}
  BlobSize <- MCBlobSize
  BlobJobs = {j1, j2}
  BlobPushes = {p1}
  Bodies <- MCBodies
  BlobInodes = {1, 2, 3, 4, 5, 6}
  MaxBytes = 10
  MaxCorrupt = 1
  MaxRestart = 1
  NoBlob = NoBlob
  \* Workspaces
  WsIds = {1, 2}
  WsJobs = {j1, j2}
  Creators = {1, 2}
  Pushers = {1, 2}
  DataInodes = {1, 2}
  MaxCreate = 2
  MaxWsCrash = 1
  None = None
  \* LogStream
  NL = NL
  x = x
  FrameData <- MCFrameData
  MaxFrames = 3
  MaxLogBytes = 4
  MaxTail = 2
  MaxBreaks = 1
INVARIANTS
  
  CachesSafe
  BodiesSafe
  LeasesSafe
  LogsFaithful
CHECK_DEADLOCK FALSE
