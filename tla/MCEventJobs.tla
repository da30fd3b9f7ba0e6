---------------------------- MODULE MCEventJobs ----------------------------
(* Updates that disable, that redefine, and that do both ways at once. *)
EXTENDS EventJobs

CONSTANTS k1, k2

TwoKeys == {k1, k2}

Updates == {[enabled |-> FALSE, key |-> Same], [enabled |-> Same, key |-> k2],
            [enabled |-> TRUE, key |-> k2]}
=============================================================================
