\* A collection races with an upload of the same content.
SPECIFICATION Spec
CONSTANTS
  Versions = {v1, v2}
  NoVersion = NoVersion
  Operations = {o1, o2, o3}
  Requests = {q1, q2}
  Kinds = {"upload", "delete", "gc"}
  Capacity = 2
  MaxRequests = 5
SYMMETRY HostedSymmetry
INVARIANT ActiveObjectStored
CHECK_DEADLOCK FALSE
