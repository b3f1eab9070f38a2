\* Two records, delete() alone decides.
CONSTANTS
  Ids = {1, 2}
  a = a
  Contents = {a}
  MaxContents = 1
  Kinds = {"NotAllowed"}
  MaxCauses = 1
  None = None
  c1 = c1
  Consumers = {c1}
  Nobody = Nobody
  MaxTakes = 1
SPECIFICATION Spec
INVARIANT DeleteIsDone
