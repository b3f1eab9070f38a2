\* Three Java objects, each for several in turn, over four addresses, which
\* are used again: room for an instance, content that its finalizer abandons
\* and two results.  A release build, which looks nothing up.
CONSTANTS
  o1 = o1
  o2 = o2
  o3 = o3
  Objects = {o1, o2, o3}
  a1 = a1
  a2 = a2
  a3 = a3
  a4 = a4
  Addresses = {a1, a2, a3, a4}
  Null = Null
  Build = "release"
  MaxArgs = 2
SPECIFICATION Spec
SYMMETRY Symmetry
CHECK_DEADLOCK FALSE
INVARIANTS TypeOK Owned NoBadPointer
PROPERTY OnlyTheseLeak
