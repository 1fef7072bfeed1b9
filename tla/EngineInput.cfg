SPECIFICATION Spec
CONSTANTS
  Bytes = {32, 34, 44, 45, 48, 58, 92, 93, 97, 101, 125}
  MaxDamage = 2
  PayloadBytes = {9, 31, 34, 43, 45, 46, 48, 49, 92, 101, 195}
  MaxLength = 3
  NumberBytes = {43, 45, 46, 48, 49, 101}
  MaxNumberLength = 4
  IntegerFields <- McIntegerFields
  Numbers <- McNumbers
  MaxChanges = 2
  Max32 = 7
  Max64 = 127
  Refused = Refused
  NoText = NoText
  Hash <- McHash
CHECK_DEADLOCK FALSE
INVARIANTS
  ReadsJson
  OutputReadsBack
  CommandSaysWhatWasSent
