SPECIFICATION Spec

CONSTANTS
  Workers = {w1, w2, w3, w4}
  NoWorker = NoWorker
  Events = {"stale"}

SYMMETRY Tasks

INVARIANTS
  AtMostOneWorker
