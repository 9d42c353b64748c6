---------------------------- MODULE MCSpiceTasks ----------------------------
(* Three simulations: one after the other, in two threads, or in a thread  *)
(* each; with a number of threads that is not used.                        *)
EXTENDS SpiceTasks

MCOptions == {[multi_thread |-> FALSE, multi_thread_val |-> 2],
              [multi_thread |-> TRUE,  multi_thread_val |-> 1],
              [multi_thread |-> TRUE,  multi_thread_val |-> 2],
              [multi_thread |-> TRUE,  multi_thread_val |-> 3]}
=============================================================================
