---------------------------- MODULE MCEventStore ----------------------------
(* EventStore for TLC, and what its comments say that the code does not do. *)
EXTENDS EventStore

\* ExpectedVersionNew, ExpectedVersionAny, and the first exact versions.
ExpectAll == {-2, -1, 0, 1}

\* "ErrVersionConflict is returned when expectedVersion does not match the
\* current stream version (concurrent write detected)": the loser of a race
\* gets the driver's unique violation instead.
RaceIsConflict == \A w \in Writers : ret[w] # "duplicate"
=============================================================================
