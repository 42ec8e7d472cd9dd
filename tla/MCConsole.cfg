SPECIFICATION Spec
CONSTANTS
  MaxChanges = 1
  Switches = 1
INVARIANTS
  ShownIsFresh
  OfferedIsAllowed
  LinksLead
  OwnUnlessSet
CHECK_DEADLOCK FALSE
