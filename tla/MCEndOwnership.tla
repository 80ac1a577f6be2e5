--------------------------- MODULE MCEndOwnership ---------------------------
(* A small instance of EndOwnership: one agent that runs and the next one, *)
(* a watcher of the first and a look at its quiet transcript, a mode       *)
(* switch, a hand-over and two Stops, three or four of them at a time.     *)
EXTENDS EndOwnership, TLC

CONSTANTS p1, p2, watcher, quiet, switch, handOver, s1, s2

OfBoth == watcher :> p1 @@ quiet :> p1

Parties == {{watcher, quiet, switch, s1}, {watcher, quiet, handOver, s1},
            {watcher, switch, handOver}, {watcher, handOver, s1, s2}}
==============================================================================
