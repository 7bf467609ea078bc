CONSTANTS
  Proc = {p1, p2, p3}
  Secrets = {s1, s2, s3}
  NoFile = NoFile
  Empty = Empty
  Overlap = TRUE
  Interrupted = TRUE
SPECIFICATION Spec
SYMMETRY Symmetry
INVARIANTS ServedIsWhole

