\* Two parameters of two types, one bit per field (1 of a float is a NaN), settable
\* or read-only.
SPECIFICATION Spec
CONSTANTS
  Names = {exposure, gain}
  Kinds = {"float", "enum"}
  NoKind = NoKind
  OtherType = OtherType
  Data = {0, 1}
  Default = 0
  Unwritable <- MCUnwritable
  Flags <- MCFlags
  Absent = Absent
  Malformed = Malformed
INVARIANT TypeOK
PROPERTY RestartKeepsParameters
