SPECIFICATION JoypadSpec
CONSTANTS
  Keys <- MCKeys
  JoypadWrites <- MCJoypadWrites
  IrrBits = {"JOYPAD"}
INVARIANTS
  KeysReported
PROPERTIES
  ChangesAnnounced
