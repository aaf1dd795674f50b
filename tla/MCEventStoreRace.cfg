SPECIFICATION Spec
CONSTANTS
  Writers = {w1, w2}
  Replayers = {}
  Streams = {s1}
  Expectations <- ExpectAll
  MaxBatch = 2
  MaxCalls = 2
  NoCall = NoCall
  NoSnapshot = NoSnapshot
INVARIANT RaceIsConflict
