CONSTANTS
  Documents <- const_Documents
  Selections <- const_Selections
  Names <- const_Names
  Values <- const_Values
  Other <- const_Other
  Absent = Absent
  Null = Null

SPECIFICATION Spec

INVARIANTS
  TypeOK
  NoNullPointer
  BuiltIsMeant

PROPERTIES
  LeftAlone
