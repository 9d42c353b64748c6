----------------------------- MODULE SpiceTasks -----------------------------
(***************************************************************************)
(* run_fpga_spice.pl: the SPICE simulations of a list of benchmarks, one   *)
(* after the other in the main program or in up to num_threads Perl        *)
(* threads that the main program starts, polls and joins.  A thread has    *)
(* its own copy of every Perl variable, so only the files in its spice_dir *)
(* and the state of the thread itself are seen by the main program.  The   *)
(* paths are absolute, so the shared working directory plays no part here; *)
(* parse_results_only, which runs no task, is left out.                    *)
(***************************************************************************)
EXTENDS Integers, FiniteSets

CONSTANTS NumTasks,     \* number of benchmarks
          Options       \* [multi_thread : BOOLEAN, multi_thread_val : Int]

ASSUME TasksAssumption == NumTasks \in Nat \ {0}
ASSUME OptionsAssumption ==
    Options \subseteq [multi_thread : BOOLEAN, multi_thread_val : Int]

Tasks == 1 .. NumTasks

VARIABLES
    opt,                  \* the options given
    pc,                   \* where the main program is
    bm,                   \* position in the foreach over the benchmarks
    status,               \* $task_status_ptr->{bm}->{status}
    num_thread_running,
    thread,               \* what became of the thread, or the call, of a task
    lis,                  \* the simulator's output files of a task
    report                \* what was parsed into $rpt_ptr

files == <<lis, report>>
vars == <<opt, pc, bm, status, num_thread_running, thread, files>>

(* plan_run_tasks and the least number of threads.                         *)
Multi == opt.multi_thread /\ opt.multi_thread_val > 1 /\ NumTasks > 1
Limit == IF ~Multi THEN 1
         ELSE IF opt.multi_thread_val < 2 THEN 2 ELSE opt.multi_thread_val

Alive == pc \notin {"over", "aborted"}
AllDone == \A t \in Tasks : status[t] = "done"

(* init_tasks_status; result files may be left from an earlier run.        *)
Init ==
    /\ opt \in Options
    /\ pc = "plan" /\ bm = 1
    /\ status = [t \in Tasks |-> "wait"]
    /\ num_thread_running = 0
    /\ thread = [t \in Tasks |-> "none"]
    /\ lis \in [Tasks -> {"missing", "clean", "errors"}]
    /\ report = [t \in Tasks |-> "none"]

PlanRunTasks ==
    /\ pc = "plan"
    /\ pc' = IF Multi THEN "scan" ELSE "single"
    /\ UNCHANGED <<opt, bm, status, num_thread_running, thread, files>>

-----------------------------------------------------------------------------
(* run_one_fpga_spice_task.  A die ends a thread only, and the whole       *)
(* program when the task is a plain call.                                  *)
Dies(t) ==
    /\ thread' = [thread EXCEPT ![t] = "died"]
    /\ pc' = IF Multi THEN pc ELSE "aborted"

(* The netlists and the shell script must be there.                        *)
FindNetlists(t) ==
    /\ Alive /\ thread[t] = "netlists"
    /\ \/ thread' = [thread EXCEPT ![t] = "script"] /\ UNCHANGED pc
       \/ Dies(t)
    /\ UNCHANGED <<opt, bm, status, num_thread_running, files>>

(* The script's exit code is not looked at, only whether it printed.       *)
RunScript(t) ==
    /\ Alive /\ thread[t] = "script"
    /\ \E result \in {lis[t], "clean", "errors"} : lis' = [lis EXCEPT ![t] = result]
    /\ \/ thread' = [thread EXCEPT ![t] = "lis"] /\ UNCHANGED pc
       \/ Dies(t)
    /\ UNCHANGED <<opt, bm, status, num_thread_running, report>>

CheckLis(t) ==
    /\ Alive /\ thread[t] = "lis"
    /\ IF lis[t] = "clean" THEN thread' = [thread EXCEPT ![t] = "ok"] /\ UNCHANGED pc
                           ELSE Dies(t)
    /\ UNCHANGED <<opt, bm, status, num_thread_running, files>>

Task(t) == FindNetlists(t) \/ RunScript(t) \/ CheckLis(t)

-----------------------------------------------------------------------------
(* multi_thread_run_fpga_spice_tasks: passes over the benchmarks.          *)
NextPass ==
    /\ pc = "scan" /\ bm > NumTasks
    /\ bm' = 1
    /\ pc' = IF AllDone THEN "parse" ELSE "scan"
    /\ UNCHANGED <<opt, status, num_thread_running, thread, files>>

Scanning == pc = "scan" /\ bm \in Tasks

Bypass ==
    /\ Scanning /\ status[bm] = "done"
    /\ bm' = bm + 1
    /\ UNCHANGED <<opt, pc, status, num_thread_running, thread, files>>

(* $thr_id->error(): a thread that died ends the program.                  *)
CheckError ==
    /\ Scanning /\ status[bm] = "running"
    /\ pc' = IF thread[bm] = "died" THEN "aborted" ELSE "join"
    /\ UNCHANGED <<opt, bm, status, num_thread_running, thread, files>>

(* $thr_id->is_joinable(), asked later: the thread may have ended since.   *)
Joinable(t) == thread[t] \in {"ok", "died"}

(* Mutation: a joined thread is not counted off.                           *)
JoinKeepsCount ==
    /\ pc = "join"
    /\ status' = IF Joinable(bm) THEN [status EXCEPT ![bm] = "done"] ELSE status
    /\ pc' = "scan" /\ bm' = bm + 1
    /\ UNCHANGED <<opt, num_thread_running, thread, files>>

Join ==
    /\ pc = "join"
    /\ IF Joinable(bm)
       THEN /\ num_thread_running' = num_thread_running - 1
            /\ status' = [status EXCEPT ![bm] = "done"]
       ELSE UNCHANGED <<num_thread_running, status>>
    /\ pc' = "scan" /\ bm' = bm + 1
    /\ UNCHANGED <<opt, thread, files>>

AtLimit ==
    /\ Scanning /\ status[bm] = "wait" /\ num_thread_running >= Limit
    /\ bm' = bm + 1
    /\ UNCHANGED <<opt, pc, status, num_thread_running, thread, files>>

(* Mutation: one thread too many is allowed.                               *)
CanLaunchOneMore == Scanning /\ status[bm] = "wait" /\ num_thread_running <= Limit

CanLaunch == Scanning /\ status[bm] = "wait" /\ num_thread_running < Limit

Launch ==
    /\ CanLaunch
    /\ thread' = [thread EXCEPT ![bm] = "netlists"]
    /\ status' = [status EXCEPT ![bm] = "running"]
    /\ num_thread_running' = num_thread_running + 1
    /\ bm' = bm + 1
    /\ UNCHANGED <<opt, pc, files>>

(* threads->create gave no thread: the task waits for the next pass.       *)
LaunchFails ==
    /\ CanLaunch
    /\ bm' = bm + 1
    /\ UNCHANGED <<opt, pc, status, num_thread_running, thread, files>>

-----------------------------------------------------------------------------
(* parse_all_tasks_results, after the last join.  Parsing dies on a file   *)
(* that is missing or that it cannot read; errors in it are not looked at. *)
Parse(t) ==
    /\ status[t] = "done" /\ lis[t] # "missing"
    /\ report' = [report EXCEPT ![t] = lis[t]]

ParseTask ==
    /\ pc = "parse"
    /\ Parse(bm)
    /\ bm' = bm + 1
    /\ pc' = IF bm = NumTasks THEN "report" ELSE "parse"
    /\ UNCHANGED <<opt, status, num_thread_running, thread, lis>>

(* single_thread_run_fpga_spice_tasks: run, parse and remove, one by one.  *)
CallTask ==
    /\ pc = "single" /\ status[bm] = "wait"
    /\ thread' = [thread EXCEPT ![bm] = "netlists"]
    /\ pc' = "call"
    /\ UNCHANGED <<opt, bm, status, num_thread_running, files>>

TaskReturns ==
    /\ pc = "call" /\ thread[bm] = "ok" /\ lis[bm] # "missing"
    /\ report' = [report EXCEPT ![bm] = lis[bm]]
    /\ status' = [status EXCEPT ![bm] = "done"]
    /\ lis' = [lis EXCEPT ![bm] = "missing"]
    /\ pc' = IF bm = NumTasks THEN "report" ELSE "single"
    /\ bm' = bm + 1
    /\ UNCHANGED <<opt, num_thread_running, thread>>

ParseDies ==
    /\ \/ pc = "parse"
       \/ pc = "call" /\ thread[bm] = "ok"
    /\ pc' = "aborted"
    /\ UNCHANGED <<opt, bm, status, num_thread_running, thread, files>>

(* gen_csv_rpt creates the report or dies.                                 *)
GenCsvRpt ==
    /\ pc = "report"
    /\ pc' \in {"over", "aborted"}
    /\ UNCHANGED <<opt, bm, status, num_thread_running, thread, files>>

Ended == ~Alive /\ UNCHANGED vars

Main ==
    \/ PlanRunTasks
    \/ NextPass \/ Bypass \/ CheckError \/ Join \/ AtLimit \/ Launch \/ LaunchFails
    \/ ParseTask \/ CallTask \/ TaskReturns \/ ParseDies \/ GenCsvRpt

Next == Main \/ (\E t \in Tasks : Task(t)) \/ Ended

Spec == Init /\ [][Next]_vars

(* The program and its threads keep running, a simulation ends, and a      *)
(* thread can be created sooner or later.                                  *)
FairSpec ==
    /\ Spec
    /\ WF_vars(Main) /\ SF_vars(Launch)
    /\ \A t \in Tasks : WF_vars(Task(t))

-----------------------------------------------------------------------------
Places == {"plan", "scan", "join", "parse", "single", "call", "report", "over", "aborted"}

TypeOK ==
    /\ opt \in Options /\ pc \in Places /\ bm \in 1 .. NumTasks + 1
    /\ status \in [Tasks -> {"wait", "running", "done"}]
    /\ num_thread_running \in 0 .. NumTasks
    /\ thread \in [Tasks -> {"none", "netlists", "script", "lis", "ok", "died"}]
    /\ lis \in [Tasks -> {"missing", "clean", "errors"}]
    /\ report \in [Tasks -> {"none", "clean", "errors"}]

(* The threads created and not yet joined.                                 *)
Unjoined == {t \in Tasks : status[t] = "running"}

(* The counter is the number of threads created and not joined, and never  *)
(* above the limit: a task is running from its creation to its join.       *)
CountIsRight ==
    /\ TypeOK
    /\ num_thread_running = Cardinality(Unjoined)
    /\ num_thread_running <= Limit
    /\ Multi => \A t \in Tasks : status[t] = "wait" <=> thread[t] = "none"

(* The inductive invariant: what each place of the main program knows.     *)
Started(t) == thread[t] # "none"
Parsed(t) == report[t] # "none"

PlanInv ==
    pc = "plan" =>
        /\ bm = 1
        /\ \A t \in Tasks : status[t] = "wait" /\ ~Started(t) /\ ~Parsed(t)

MultiInv ==
    /\ pc \in {"scan", "join", "parse"} => Multi
    /\ Multi => \A t \in Tasks : status[t] = "wait" <=> ~Started(t)
    /\ pc \in {"scan", "join"} => \A t \in Tasks : ~Parsed(t)
    /\ pc = "join" => bm \in Tasks /\ status[bm] = "running"
    /\ pc = "parse" => /\ bm \in Tasks /\ AllDone
                       /\ \A t \in Tasks : Parsed(t) <=> t < bm

SingleInv ==
    /\ ~Multi => \A t \in Tasks : /\ status[t] # "running"
                                  /\ status[t] = "done" => thread[t] = "ok"
    /\ pc \in {"single", "call"} =>
           /\ ~Multi /\ bm \in Tasks
           /\ \A t \in Tasks : /\ Parsed(t) <=> t < bm
                               /\ status[t] = "done" <=> t < bm
                               /\ Started(t) <=> t < bm \/ (pc = "call" /\ t = bm)

ReportInv == pc = "report" => AllDone /\ \A t \in Tasks : Parsed(t) /\ Started(t)

(* The tasks started and not over: joined, or returned from when called.   *)
Running ==
    {t \in Tasks : /\ thread[t] # "none" /\ status[t] # "done"
                   /\ Multi \/ thread[t] # "ok"}

IInv == CountIsRight /\ PlanInv /\ MultiInv /\ SingleInv /\ ReportInv

(* The driver is a job pool, and it ends: with a report or aborted.        *)
Pool == INSTANCE JobPool WITH
    Jobs    <- Tasks,
    limit   <- Limit,
    waiting <- {t \in Tasks : thread[t] = "none"},
    running <- Running,
    read    <- {t \in Tasks : report[t] # "none"},
    phase   <- IF Alive THEN "working" ELSE pc

ImplementsPool == Pool!PoolSpec
=============================================================================
