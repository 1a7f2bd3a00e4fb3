SPECIFICATION Spec
CONSTANTS
  Lib <- MCLib
  Args <- MCArgs
  FltLists <- MCLists
  StaleOrders <- MCStaleOrders
  DefaultLib = "work"
INVARIANTS CompiledInOrder CommandsFitFiles LiborderTxtMatches
