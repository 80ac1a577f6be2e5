---------------------------- MODULE MCReviewPasses ----------------------------
(* A small instance of ReviewPasses: one session, one job, and one who asks     *)
(* for the pass besides review prep.                                            *)
EXTENDS ReviewPasses

MCText == [n \in 0..MaxDiff |-> n]

\* The process of the API does not end.
Steady == Init /\ [][Next /\ ~Restart]_vars
===============================================================================
