\* Documented: which reports KEY_DOWN, KEY_UP, STRING and REPEAT generate.
CONSTANTS
  ByteBase <- MCByteBase
  MaxKeys = 2
  Scripts <- DocumentedScripts
  keycode_of <- MCKeycode
  Programs = {}
SPECIFICATION ProgramSpec
INVARIANT PlaysAsDocumented
CHECK_DEADLOCK FALSE
