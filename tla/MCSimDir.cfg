SPECIFICATION Spec
CONSTANTS
  Lib <- MCLib
  FileLists <- MCFileLists
  Occurs <- SeparateNames
  Background <- One
INVARIANTS RemakeIsCurrent LiborderIsWhole OptIsCurrent RemakeCoversLibraries
