\* Two records, two contents, calls with up to two contents, two consumers.
CONSTANTS
  Ids = {1, 2}
  a = a
  b = b
  Contents = {a, b}
  MaxContents = 2
  Kinds = {"NotAllowed", "Future"}
  MaxCauses = 1
  None = None
  c1 = c1
  c2 = c2
  Consumers = {c1, c2}
  Nobody = Nobody
  MaxTakes = 2
SPECIFICATION Spec
INVARIANTS TypeOK AnswerIsWhatWasDone SelectsWhatWasThere ThrowsUnchanged FirstFailureThrown
  KindsKept OwnerMeetsNoEnd TakenOnce
PROPERTIES CursorSpec Drained
