SPECIFICATION Spec
CONSTANTS
  Commands = {c1, c2}
  Senders = {s1, s2}
INVARIANTS PendingIsStashed
