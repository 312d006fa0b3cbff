CONSTANTS
  t1 = t1
  t2 = t2
  v1 = v1
  v2 = v2
  v3 = v3
  None = None
  Threads = {t1, t2}
  Objects = {o1, o2}
  Slots = {s1, s2}
  Handles = {h1, h2, h3}
  Vars = {v1, v2, v3}
  UserOf <- MCUserOf
SPECIFICATION Spec
SYMMETRY Symmetry
INVARIANTS TypeOK CountExact AliveWhileOwned HandleLifetime CallBalanced
