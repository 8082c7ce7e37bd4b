\* Three setups and five plans; four nodes beyond the book.
SPECIFICATION AuthoringSpec
CONSTANTS
  Layers = 3
  Setups = {s1, s2, s3}
  Bodies = {plan}
  BodyOf <- MCBodyOf
  Keys = {k1, k2, k3}
  Authors = {a1, a2}
  MaxActivations = 5
  MaxCrashes = 1
  Titles = {t1, t2}
  MaxCreations = 4
SYMMETRY Symmetry
INVARIANTS OneBook KeysActivateOnce ApprovalIsWhole
INVARIANTS CreationsAreValid RetriesNameOneNode
CHECK_DEADLOCK FALSE
