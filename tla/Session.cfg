\* An object and one more, two threads, two namespaces and a database.
CONSTANTS
  s1 = s1
  s2 = s2
  Sessions = {s1, s2}
  t1 = t1
  t2 = t2
  Threads = {t1, t2}
  n1 = n1
  n2 = n2
  Namespaces = {n1, n2}
  d1 = d1
  Databases = {d1}
  None = None
SPECIFICATION DisciplinedSpec
SYMMETRY Symmetry
INVARIANTS TypeOK FieldsAreCurrent SignsInHere
PROPERTIES Independent ViewSpec
