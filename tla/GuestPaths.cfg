CONSTANTS
  Names <- MCNames
  NameLen <- MCNameLen
  Clis <- MCClis
  MaxParts = 5
SPECIFICATION PathSpec
INVARIANT NormalizeIsLexical
INVARIANT InnermostPreopenServes
INVARIANT ParentIsGuestParent
CHECK_DEADLOCK FALSE
