----------------------------- MODULE FlowTasks -----------------------------
(***************************************************************************)
(* fpga_flow.pl: every selected flow on every benchmark, one job after the *)
(* other (run_flows), after a fork each (multitask_run_flows), or in Perl  *)
(* threads (multithread_run_flows).  A flow enters the directory of each   *)
(* tool, runs it there and leaves it again; the working directory belongs  *)
(* to the process, so the threads share it.  Perl variables are not        *)
(* shared: the main program sees the files and the state of a thread only. *)
(* Left out: parse_results_only, which runs nothing, and the options that  *)
(* reroute in a loop with ever wider channels.                             *)
(***************************************************************************)
EXTENDS Integers, FiniteSets, Sequences

CONSTANTS NumBenchmarks,
          FlowSeq,      \* flow_conf->{flow_type}: the selected flows, in order
          Tools,        \* [flow -> sequence of the directories of its tools]
          Checked,      \* [flow -> numbers of the tools whose output is looked for]
          Options,      \* [multi_task, multi_thread : BOOLEAN, multi_thread_val : Int]
          Stale,        \* BOOLEAN: output files may be left from an earlier run
          Base          \* the directory the program was started in

(* A flow may be listed more than once; each runs one tool or more.        *)
ASSUME SizesAssumption == NumBenchmarks \in Nat \ {0} /\ Len(FlowSeq) \in Nat \ {0}
                          /\ DOMAIN FlowSeq = 1 .. Len(FlowSeq)
ASSUME ToolsAssumption == \A k \in DOMAIN FlowSeq : Len(Tools[FlowSeq[k]]) \in Nat \ {0}
                              /\ DOMAIN Tools[FlowSeq[k]] = 1 .. Len(Tools[FlowSeq[k]])

Benchmarks == 1 .. NumBenchmarks
Flows == {FlowSeq[k] : k \in DOMAIN FlowSeq}
Jobs == Benchmarks \X Flows
NumJobs == NumBenchmarks * Len(FlowSeq)
JobAt(k) == <<1 + ((k - 1) \div Len(FlowSeq)), FlowSeq[1 + ((k - 1) % Len(FlowSeq))]>>

VARIABLES
    opt,
    pc,                   \* where the main program is
    at,                   \* position in the two foreach loops
    status,               \* $selected_flows{flow}->{benchmarks}->{bm}->{status}
    thread_id,            \* the jobs whose thread_id is set
    num_thread_running,
    worker,               \* what became of a job's thread, or call
    cwd,                  \* the working directory of the process
    made,                 \* output files present: <<job, number of the tool>>
    parsed, reported      \* jobs parsed into $rpt_ptr, flows in the CSV report

threads == <<status, thread_id, num_thread_running>>
results == <<parsed, reported>>
vars == <<opt, pc, at, threads, worker, cwd, made, results>>

(* plan_run_flows.                                                         *)
Mode == IF opt.multi_task THEN "task"
        ELSE IF opt.multi_thread /\ opt.multi_thread_val > 1 /\ NumBenchmarks > 1
        THEN "threads" ELSE "one"
Limit == IF opt.multi_thread_val < 2 THEN 2 ELSE opt.multi_thread_val

Alive == pc \notin {"over", "aborted"}
Job == JobAt(at)
Done(j) == status[j] = "done"
AllDone == \A j \in Jobs : Done(j)

(* init_selected_flows and mark_selected_flows.                            *)
Init ==
    /\ opt \in Options
    /\ pc = "plan" /\ at = 1
    /\ status = [j \in Jobs |-> "off"] /\ thread_id = {} /\ num_thread_running = 0
    /\ worker = [j \in Jobs |-> [stage |-> "none", tool |-> 1]]
    /\ cwd = Base
    /\ made \in {{}, IF Stale THEN UNION {{<<j, k>> : k \in DOMAIN Tools[j[2]]} : j \in Jobs}
                              ELSE {}}
    /\ parsed = {} /\ reported = {}

PlanRunFlows ==
    /\ pc = "plan"
    /\ pc' = CASE Mode = "task" -> "task" [] Mode = "threads" -> "scan" [] OTHER -> "one"
    /\ UNCHANGED <<opt, at, threads, worker, cwd, made, results>>

-----------------------------------------------------------------------------
(* run_benchmark_selected_flow in a thread or in a call.                   *)
Started(j) == [worker EXCEPT ![j] = [stage |-> "enter", tool |-> 1]]
At(j, stage) == Alive /\ worker[j].stage = stage
Dir(j) == Tools[j[2]][worker[j].tool]

(* chdir $dir                                                              *)
EnterDir(j) ==
    /\ At(j, "enter")
    /\ cwd' = Dir(j)
    /\ worker' = [worker EXCEPT ![j].stage = "run"]
    /\ UNCHANGED <<opt, pc, at, threads, made, results>>

(* system("./tool ... > $log"): found in its own directory only; it writes *)
(* its output or fails, and the exit code is not looked at.                *)
RunTool(j) ==
    /\ At(j, "run")
    /\ made' \in IF cwd = Dir(j) THEN {made, made \cup {<<j, worker[j].tool>>}} ELSE {made}
    /\ worker' = [worker EXCEPT ![j].stage = "check"]
    /\ UNCHANGED <<opt, pc, at, threads, cwd, results>>

(* die unless -e $output, else chdir $cwd and on to the next tool.         *)
(* run_odin2, run_std_vpr and the first tools of run_abc_mccl_fpgamap have *)
(* no such check.                                                          *)
CheckOutput(j) ==
    /\ At(j, "check")
    /\ IF worker[j].tool \in Checked[j[2]] => <<j, worker[j].tool>> \in made
       THEN /\ cwd' = Base
            /\ worker' = [worker EXCEPT ![j] =
                  IF @.tool = Len(Tools[j[2]]) THEN [@ EXCEPT !.stage = "ok"]
                  ELSE [stage |-> "enter", tool |-> @.tool + 1]]
            /\ UNCHANGED pc
       ELSE /\ worker' = [worker EXCEPT ![j].stage = "died"]
            /\ pc' = IF Mode = "threads" THEN pc ELSE "aborted"
            /\ UNCHANGED cwd
    /\ UNCHANGED <<opt, at, threads, made, results>>

Flow(j) == EnterDir(j) \/ RunTool(j) \/ CheckOutput(j)

-----------------------------------------------------------------------------
(* run_flows and multitask_run_flows: the main program runs the flow,      *)
(* unless it has been run where it was listed before; the forked child     *)
(* leaves at once.                                                         *)
Calling == pc \in {"one", "task"} /\ at <= NumJobs

HasRun == IF pc = "one" THEN Done(Job) ELSE status[Job] \in {"running", "done"}

CallFlow ==
    /\ Calling /\ ~HasRun
    /\ worker' = Started(Job)
    /\ status' = IF pc = "task" THEN [status EXCEPT ![Job] = "running"] ELSE status
    /\ pc' = "call"
    /\ UNCHANGED <<opt, at, thread_id, num_thread_running, cwd, made, results>>

(* fork gave no process.                                                   *)
ForkFails ==
    /\ pc = "task" /\ at <= NumJobs /\ ~HasRun
    /\ at' = at + 1
    /\ UNCHANGED <<opt, pc, threads, worker, cwd, made, results>>

(* multitask_run_flows has the results parsed along with the flow.         *)
FlowReturns ==
    /\ pc = "call" /\ worker[Job].stage = "ok"
    /\ status' = [status EXCEPT ![Job] = "done"]
    /\ parsed' = IF Mode = "task" THEN parsed \cup {Job} ELSE parsed
    /\ at' = at + 1 /\ pc' = Mode
    /\ UNCHANGED <<opt, thread_id, num_thread_running, worker, cwd, made, reported>>

LastFlowReturned ==
    /\ pc \in {"one", "task"} /\ at > NumJobs
    /\ pc' = IF pc = "one" THEN "parse" ELSE "report"
    /\ UNCHANGED <<opt, at, threads, worker, cwd, made, results>>

-----------------------------------------------------------------------------
(* multithread_run_flows: passes over the jobs until all are done.         *)
NextPass ==
    /\ pc = "scan" /\ at > NumJobs
    /\ at' = 1
    /\ pc' = IF AllDone THEN "parse" ELSE "scan"
    /\ UNCHANGED <<opt, threads, worker, cwd, made, results>>

Scanning == pc = "scan" /\ at <= NumJobs

Bypass ==
    /\ (Scanning /\ Done(Job)) \/ (Calling /\ HasRun)
    /\ at' = at + 1
    /\ UNCHANGED <<opt, pc, threads, worker, cwd, made, results>>

(* $thr_id->error(): a thread that died ends the program.                  *)
CheckError ==
    /\ Scanning /\ ~Done(Job) /\ Job \in thread_id
    /\ pc' = IF worker[Job].stage = "died" THEN "aborted" ELSE "join"
    /\ UNCHANGED <<opt, at, threads, worker, cwd, made, results>>

Ended(j) == worker[j].stage \in {"ok", "died"}

(* is_joinable, asked after error or after is_running.                     *)
JoinKeepsCount ==
    /\ pc = "join"
    /\ status' = IF Ended(Job) THEN [status EXCEPT ![Job] = "done"] ELSE status
    /\ pc' = "scan" /\ at' = at + 1
    /\ UNCHANGED <<opt, thread_id, num_thread_running, worker, cwd, made, results>>

Join ==
    /\ pc = "join"
    /\ IF Ended(Job)
       THEN /\ num_thread_running' = num_thread_running - 1
            /\ status' = [status EXCEPT ![Job] = "done"]
       ELSE UNCHANGED <<num_thread_running, status>>
    /\ pc' = "scan" /\ at' = at + 1
    /\ UNCHANGED <<opt, thread_id, worker, cwd, made, results>>

AtLimit ==
    /\ Scanning /\ ~Done(Job) /\ Job \notin thread_id /\ num_thread_running >= Limit
    /\ at' = at + 1
    /\ UNCHANGED <<opt, pc, threads, worker, cwd, made, results>>

CanLaunch == Scanning /\ ~Done(Job) /\ Job \notin thread_id /\ num_thread_running < Limit

Launch ==
    /\ CanLaunch
    /\ worker' = Started(Job)
    /\ pc' = "created"
    /\ UNCHANGED <<opt, at, threads, cwd, made, results>>

(* threads->create gave no thread: the job waits for the next pass.        *)
LaunchFails ==
    /\ CanLaunch
    /\ at' = at + 1
    /\ UNCHANGED <<opt, pc, threads, worker, cwd, made, results>>

(* $thr_new->is_running(): the thread is recorded and counted only when it *)
(* has not ended yet.  Mutations: it is not counted; it is not recorded.   *)
CheckRunningNoCount ==
    /\ pc = "created"
    /\ IF Ended(Job) THEN UNCHANGED threads
       ELSE /\ status' = [status EXCEPT ![Job] = "running"]
            /\ thread_id' = thread_id \cup {Job}
            /\ UNCHANGED num_thread_running
    /\ pc' = "join"
    /\ UNCHANGED <<opt, at, worker, cwd, made, results>>

CheckRunningNoId ==
    /\ pc = "created"
    /\ IF Ended(Job) THEN UNCHANGED threads
       ELSE /\ status' = [status EXCEPT ![Job] = "running"]
            /\ num_thread_running' = num_thread_running + 1
            /\ UNCHANGED thread_id
    /\ pc' = "join"
    /\ UNCHANGED <<opt, at, worker, cwd, made, results>>

CheckRunning ==
    /\ pc = "created"
    /\ IF Ended(Job) THEN UNCHANGED threads
       ELSE /\ status' = [status EXCEPT ![Job] = "running"]
            /\ thread_id' = thread_id \cup {Job}
            /\ num_thread_running' = num_thread_running + 1
    /\ pc' = "join"
    /\ UNCHANGED <<opt, at, worker, cwd, made, results>>

-----------------------------------------------------------------------------
(* parse_flows_benchmarks_results, of the jobs that are done.              *)
ParseResults ==
    /\ pc = "parse"
    /\ parsed' = {j \in Jobs : Done(j)}
    /\ pc' = "report"
    /\ UNCHANGED <<opt, at, threads, worker, cwd, made, reported>>

(* Any of the parsers, and the report, die on a file they cannot use.      *)
ParseDies ==
    /\ \/ pc \in {"parse", "report"}
       \/ pc = "call" /\ Mode = "task" /\ worker[Job].stage = "ok"
    /\ pc' = "aborted"
    /\ UNCHANGED <<opt, at, threads, worker, cwd, made, results>>

(* gen_csv_rpt: the flow that is asked whether its benchmarks are done.    *)
Asked(flow) == IF flow = "vtr_standard" THEN "vtr" ELSE flow

GenCsvRpt ==
    /\ pc = "report"
    /\ reported' = {f \in Flows : Asked(f) \in Flows /\ \A b \in Benchmarks : Done(<<b, Asked(f)>>)}
    /\ pc' = "over"
    /\ UNCHANGED <<opt, at, threads, worker, cwd, made, parsed>>

Stopped == ~Alive /\ UNCHANGED vars

Main ==
    \/ PlanRunFlows
    \/ CallFlow \/ ForkFails \/ FlowReturns \/ LastFlowReturned
    \/ NextPass \/ Bypass \/ CheckError \/ Join \/ AtLimit \/ Launch \/ LaunchFails
    \/ CheckRunning
    \/ ParseResults \/ ParseDies \/ GenCsvRpt

Next == Main \/ (\E j \in Jobs : Flow(j)) \/ Stopped

Spec == Init /\ [][Next]_vars

(* The program and its threads keep running, every tool ends, and a thread *)
(* can be created sooner or later.                                         *)
FairSpec ==
    /\ Spec
    /\ WF_vars(Main) /\ SF_vars(Launch)
    /\ \A j \in Jobs : WF_vars(Flow(j))

-----------------------------------------------------------------------------
Stages == {"none", "enter", "run", "check", "ok", "died"}
Dirs == {Base} \cup UNION {{Tools[f][k] : k \in DOMAIN Tools[f]} : f \in Flows}

TypeOK ==
    /\ opt \in Options /\ at \in 1 .. NumJobs + 1
    /\ pc \in {"plan", "one", "task", "call", "scan", "created", "join", "parse", "report",
               "over", "aborted"}
    /\ status \in [Jobs -> {"off", "running", "done"}]
    /\ thread_id \subseteq Jobs /\ num_thread_running \in Int
    /\ \A j \in Jobs : worker[j].stage \in Stages /\ worker[j].tool \in DOMAIN Tools[j[2]]
    /\ cwd \in Dirs
    /\ parsed \subseteq Jobs /\ reported \subseteq Flows

Unjoined == {j \in thread_id : ~Done(j)}

(* The counter of running threads: those recorded and not joined, less     *)
(* those joined without having been recorded, which were never counted on. *)
CountIsRight ==
    /\ TypeOK
    /\ Mode = "threads" =>
           LET uncounted == {j \in Jobs : Done(j) /\ j \notin thread_id}
           IN  num_thread_running = Cardinality(Unjoined) - Cardinality(uncounted)

(* A flow is run on a benchmark once: no thread is made for a job that has *)
(* had one, however its first thread was recorded, and no flow is called a *)
(* second time where it is listed twice.                                   *)
RunOnce == [][(CallFlow \/ Launch) => worker[Job].stage = "none"]_vars

(* The program ends.                                                       *)
FlowsEnd == <>(~Alive)

-----------------------------------------------------------------------------
(* "Repeat chdir for multi-thread supporting!": a tool is started in its   *)
(* own directory.                                                          *)
ToolsRunInTheirDirectory == [][\A j \in Jobs : RunTool(j) => cwd = Dir(j)]_vars
=============================================================================
