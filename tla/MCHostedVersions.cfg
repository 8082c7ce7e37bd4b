\* Uploads, deletions and collections of two contents, retried and racing.
SPECIFICATION Spec
CONSTANTS
  Versions = {v1, v2}
  NoVersion = NoVersion
  Operations = {o1, o2, o3}
  Requests = {q1, q2}
  Kinds = {"upload", "delete", "gc"}
  Capacity = 2
  MaxRequests = 5
SYMMETRY HostedSymmetry
INVARIANTS PointerBacked HistoryWithinBound UploadedOnceAndKept
PROPERTIES NoLostUpdate
CHECK_DEADLOCK FALSE
