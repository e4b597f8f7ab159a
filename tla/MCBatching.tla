----------------------------- MODULE MCBatching -----------------------------
EXTENDS Batching
Opt(mode, dist, tbf) == [mode |-> mode, dist |-> dist, tbf |-> tbf]
BatchOpts == {Opt("routine", 0, 0), Opt("manual", 0, 0), Opt("trip", 2, 2), Opt("trip", 3, 1),
              Opt("undefined", 0, 0), Opt("empty", 0, 0)}
TripOpts == {Opt("trip", 2, 2), Opt("trip", 3, 1)}
ThreeOpts == {Opt("trip", 1, 1), Opt("trip", 2, 1), Opt("trip", 3, 1)}

\* No definition tells the clients apart.
ClientSymmetry == Permutations(Clients)
=============================================================================
