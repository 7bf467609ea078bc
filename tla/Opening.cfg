CONSTANTS
  Proc = {p1, p2, p3}
  Secrets = {s1, s2, s3}
  NoFile = NoFile
  Empty = Empty
  Overlap = FALSE
  Interrupted = TRUE
SPECIFICATION OSpec
SYMMETRY Symmetry
INVARIANTS OTypeOK TokensStayValid ServedIsPersisted ServedIsMigrated RetrySucceeds
