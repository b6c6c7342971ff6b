SPECIFICATION Spec
CONSTANTS
  s1 = s1
  s2 = s2
  a1 = a1
  a2 = a2
  q1 = q1
  q2 = q2
  t1 = t1
  t2 = t2
  Strategies = {s1, s2}
  Accounts = {a1}
  Requests = {q1, q2}
  Threads = {t1}
  Ancestors <- NoAncestors
  Compatible <- SameSegment
  Members <- Everybody
  Ai = {}
  Entryless = {s1}
  Operations = {"edit", "reject", "deactivate"}
  MaxRuns = 1
  MaxFaults = 1
SYMMETRY RequestSymmetry
INVARIANTS
  TypeOK
  RivalsSettled
