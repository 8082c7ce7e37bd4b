\* Two callbacks and two logins; four proofs with three nonces.
SPECIFICATION AccessSpec
CONSTANTS
  Logins = {l1, l2}
  Callbacks = {c1, c2}
  AuthWindow = 1
  Idle = 1
  Absolute = 2
  MaxIndex = 3
  MaxClock = 3
  MaxReads = 1
  p1 = p1  p2 = p2  p3 = p3  p4 = p4
  n1 = n1  n2 = n2  n3 = n3
  Unused = Unused
  Proofs <- MCProofs
  Nonces <- MCNonces
  Nonce <- MCNonce
  Lifetime = 1
  Skew = 1
  IndexMax = 2
  MaxCalls = 2
SYMMETRY Interchangeable
INVARIANTS OnceInWindow OneSessionPerLogin SecretsEnd
PROPERTIES FullOnlyOfLive
CHECK_DEADLOCK FALSE
