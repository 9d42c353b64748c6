------------------------------ MODULE JobPool ------------------------------
(***************************************************************************)
(* What the Perl drivers promise of a set of jobs: each runs once, at most *)
(* limit of them at a time, results are read between jobs and never of a   *)
(* job that still runs, and the report is written when every job was read. *)
(* A failure may abort the whole at any time.                              *)
(***************************************************************************)
EXTENDS Naturals, FiniteSets

CONSTANT Jobs

VARIABLES limit, waiting, running, read, phase

poolVars == <<limit, waiting, running, read, phase>>

PoolInit ==
    /\ limit \in Nat \ {0}
    /\ waiting = Jobs /\ running = {} /\ read = {}
    /\ phase = "working"

Start ==
    /\ phase = "working" /\ Cardinality(running) < limit
    /\ \E j \in waiting : waiting' = waiting \ {j} /\ running' = running \cup {j}
    /\ UNCHANGED <<limit, read, phase>>

Finish ==
    /\ phase = "working"
    /\ \E j \in running : running' = running \ {j}
    /\ UNCHANGED <<limit, waiting, read, phase>>

Read ==
    /\ phase = "working" /\ running = {}
    /\ \E j \in Jobs \ (waiting \cup read) : read' = read \cup {j}
    /\ UNCHANGED <<limit, waiting, running, phase>>

Report ==
    /\ phase = "working" /\ read = Jobs
    /\ phase' = "over"
    /\ UNCHANGED <<limit, waiting, running, read>>

Abort ==
    /\ phase = "working"
    /\ phase' = "aborted"
    /\ UNCHANGED <<limit, waiting, running, read>>

PoolNext == Start \/ Finish \/ Read \/ Report \/ Abort

PoolSafe == PoolInit /\ [][PoolNext]_poolVars

PoolSpec == PoolSafe /\ <>(phase # "working")
=============================================================================
