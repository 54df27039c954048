\* Two credential names; up to three calls from fresh or partly configured builders.
SPECIFICATION Spec
CONSTANTS
  NONE = NONE
  Names = {"n1", "n2"}
  MaxCalls = 3
INVARIANTS ValidatedProofsStay
PROPERTIES BuiltListsNotEmptied NothingWithdrawn
CHECK_DEADLOCK FALSE
