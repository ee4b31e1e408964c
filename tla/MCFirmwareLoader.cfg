SPECIFICATION LoaderSpec
CONSTANTS
  Files <- MCFiles
  Elf <- MCElf
  Regions <- MCRegions
  WordSize = 16
  MaxTables = 1
INVARIANTS
  LoadedIsInMemory
  OnlyUnwritableAborts
  RetryWorks
PROPERTIES
  RefusedChangesNothing
