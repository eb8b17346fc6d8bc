\* Every node of up to six keys out of seven and every place for the key.
\* A call that returned is the end of a behaviour.
SPECIFICATION Spec
CONSTANTS
  Loads <- EvenLoads
  Key <- SevenKeys
  New = New
  Junk = Junk
INVARIANTS
  NodeArraysTypeOK
  ComputesReference
  SearchFinds
PROPERTY Returns
CHECK_DEADLOCK FALSE
