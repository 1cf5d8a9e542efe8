\* Documented: reading past LENGTH releases all keys.
CONSTANTS
  ByteBase <- MCByteBase
  MaxKeys = 2
  Scripts <- MCScripts
  keycode_of <- MCKeycode
  Programs <- MCPrograms
SPECIFICATION ProgramSpec
INVARIANT ErrorReleasesKeys
CHECK_DEADLOCK FALSE
