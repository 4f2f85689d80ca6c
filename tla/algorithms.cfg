CONSTANTS
  ExtOf <- MCExt
  TextOrder <- MCOrder
  Items <- MCItems
  FirstItems <- MCFirst
  MaxItems = 4
  FileExt <- MCFileExt
  ObjName <- MCObjName
  MakeLines <- MCMakeLines
  CompileCommands <- MCCompileCommands
  MaxLines = 5
  FileSettings <- MCFileSettings
  FlagSets <- MCFlagSets
  StartFiles <- MCStartFiles
  MaxEdits = 2
  MobileOrders <- MCMobileOrders
  Products <- MCProducts
  Machines <- MCMachines
  MaxArchived = 14
  Beginning <- MCBeginning
  Ending <- MCEnding
SPECIFICATION Spec
INVARIANTS CommandsFaithful PreprocessFaithful KeyTellsFlags GraphComplete ConfigAccepted MobileFaithful
CHECK_DEADLOCK FALSE
