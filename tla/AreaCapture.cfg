SPECIFICATION FairSpec
CONSTANTS
  Configs <- MCConfigs
  Uninit <- MCUninit
  Declared = TRUE
  Frame <- MCFrame
  Byte <- MCByte
  Word <- MCWord
  MaxDeaths = 2
INVARIANTS
  TypeOK
  SumsExact
  AverageOfArea
  
PROPERTIES
  HalComesUp
  
