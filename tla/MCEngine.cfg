\* Arbitrary bytes, well-formed or not; programs against their meaning; text.
CONSTANTS
  ByteBase <- MCByteBase
  MaxKeys = 2
  Scripts <- MCScripts
  keycode_of <- MCKeycode
  Programs <- MCPrograms
SPECIFICATION ProgramSpec
INVARIANTS
  TypeOK
  HostMatchesEngine
  FinishedIsClean
  PlaysTheProgram
  TypesTheText
PROPERTY EveryScriptStops
CHECK_DEADLOCK FALSE
