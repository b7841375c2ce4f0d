SPECIFICATION Spec
CONSTANTS
  File <- MCFile
  hals_conf <- MCConf
  Library <- MCLibrary
  Name <- MCName
  Static <- MCStatic
  Dynamic <- MCDynamic
  MayFail = {"a", "c"}
  QuietAtInit = TRUE
  BadHandles <- MCBadHandles
  MaxInits = 2
INVARIANTS
  TypeOK
  CallReachesSensor
  
  ModesAgree
  NothingLeftEnabled
  
