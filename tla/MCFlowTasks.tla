---------------------------- MODULE MCFlowTasks ----------------------------
(* Two flows, one of two tools and one of a single tool that is listed     *)
(* twice, on two benchmarks in each of the modes.                          *)
EXTENDS FlowTasks

MCTools == [vtr |-> <<"abc", "vpr">>, vtr_standard |-> <<"abc">>]
MCOneTool == [vtr |-> <<"abc">>, vtr_standard |-> <<"abc">>]

(* run_std_vpr does not look for its output.                               *)
MCChecked == [vtr |-> {1}, vtr_standard |-> {1}]

MCFlowSeq == <<"vtr_standard", "vtr", "vtr_standard">>

MCOptions == {[multi_task |-> t, multi_thread |-> h, multi_thread_val |-> n] :
                  t \in BOOLEAN, h \in BOOLEAN, n \in {2}}
MCThreads == {o \in MCOptions : ~o.multi_task /\ o.multi_thread}
=============================================================================
