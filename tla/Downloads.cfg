SPECIFICATION DownloadsSpec
CONSTANTS
  f1 = f1
  f2 = f2
  v1 = v1
  v2 = v2
  u1 = u1
  u2 = u2
  FileMsgs <- MCFiles
  Voices <- MCVoices
  Urls <- MCUrls
  Sources <- MCSources
  Local = local
  Bad = bad
  Paths = {p1}
  Reqs = {r1, r2}
  None = none
INVARIANTS RegistryExact OneWriter NeverPlaysUnasked
PROPERTIES EveryDownloadEnds
