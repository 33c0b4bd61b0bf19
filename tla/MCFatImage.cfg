SPECIFICATION Spec
CONSTANTS
  RuntimeFileLists <- MCRuntimeFileLists
  LoaderSizes <- MCLoaderSizes
  NormalizeName <- MCNormalizeName
  NormalizeFile <- MCNormalizeFile
  TotalSectors = 33
  FirstDataSector = 4
  SectorsPerCluster = 2
  ClusterSizeBytes = 4
  EntryBytes = 2
  RootEntryCount = 2
  FatBytes = 25
INVARIANTS
  RunsSound
  RunsLinked
  TableHasRoom
  PackedEntriesKept
  ImageReadsBack
CHECK_DEADLOCK FALSE
