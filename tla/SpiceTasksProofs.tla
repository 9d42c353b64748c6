-------------------------- MODULE SpiceTasksProofs --------------------------
(***************************************************************************)
(* For any number of simulations and any options: the counter of threads   *)
(* is right and stays within the limit, and the driver is a job pool.      *)
(***************************************************************************)
EXTENDS SpiceTasks, FiniteSetTheorems, TLAPS

LEMMA LimitIsPositive == ASSUME opt \in Options PROVE Limit \in Nat \ {0}
<1>1. opt.multi_thread \in BOOLEAN /\ opt.multi_thread_val \in Int
  BY OptionsAssumption
<1> QED BY <1>1 DEF Limit, Multi

LEMMA UnjoinedIsFinite ==
    ASSUME TypeOK
    PROVE  /\ IsFiniteSet(Unjoined)
           /\ Cardinality(Unjoined) \in 0 .. NumTasks
<1>1. NumTasks \in Nat BY TasksAssumption
<1>2. IsFiniteSet(1 .. NumTasks) /\ Cardinality(1 .. NumTasks) = NumTasks
  BY <1>1, FS_Interval
<1>3. Unjoined \subseteq 1 .. NumTasks BY DEF Unjoined, Tasks
<1>4. IsFiniteSet(Unjoined) /\ Cardinality(Unjoined) <= NumTasks
  BY <1>2, <1>3, FS_Subset
<1>5. Cardinality(Unjoined) \in Nat BY <1>4, FS_CardinalityType
<1> QED BY <1>1, <1>4, <1>5

LEMMA InitIInv == Init => IInv
<1> SUFFICES ASSUME Init PROVE IInv OBVIOUS
<1>1. TypeOK BY TasksAssumption DEF Init, TypeOK, Places
<1>2. Unjoined = {} BY DEF Init, Unjoined
<1>3. CountIsRight
  BY <1>1, <1>2, FS_EmptySet, LimitIsPositive DEF Init, CountIsRight
<1>4. PlanInv /\ MultiInv /\ SingleInv /\ ReportInv
  BY DEF Init, PlanInv, MultiInv, SingleInv, ReportInv, Started, Parsed
<1> QED BY <1>3, <1>4 DEF IInv

(* A step that leaves the status of every task and the counter alone.      *)
LEMMA CountUnchanged ==
    ASSUME IInv, TypeOK', UNCHANGED <<opt, status, num_thread_running>>,
           Multi => \A t \in Tasks : Started(t)' <=> Started(t)
    PROVE  CountIsRight'
BY DEF IInv, CountIsRight, Unjoined, Limit, Multi, Started

-----------------------------------------------------------------------------
LEMMA PlanKeepsIInv == ASSUME IInv, PlanRunTasks PROVE IInv'
<1> USE DEF PlanRunTasks
<1>1. TypeOK' BY DEF IInv, CountIsRight, TypeOK, Places, files
<1>2. CountIsRight' BY <1>1, CountUnchanged DEF Started, files
<1>3. PlanInv' BY DEF PlanInv
<1>4. MultiInv' BY DEF IInv, PlanInv, MultiInv, Multi, Started, Parsed, files
<1>5. SingleInv'
  BY TasksAssumption DEF IInv, PlanInv, SingleInv, Multi, Started, Parsed, files, Tasks
<1>6. ReportInv' BY DEF ReportInv
<1> QED BY <1>2, <1>3, <1>4, <1>5, <1>6 DEF IInv

(* A step of a task changes its thread, its files and, when a call dies,   *)
(* where the program is.                                                   *)
LEMMA TaskKeepsIInv == ASSUME IInv, NEW t \in Tasks, Task(t) PROVE IInv'
<1> USE DEF Task, FindNetlists, RunScript, CheckLis, Dies
<1>1. UNCHANGED <<opt, bm, status, num_thread_running, report>> BY DEF files
<1>2. /\ thread[t] \in {"netlists", "script", "lis"}
      /\ \E s \in {"script", "lis", "ok", "died"} : thread' = [thread EXCEPT ![t] = s]
  OBVIOUS
<1>3. pc' = pc \/ (~Multi /\ pc' = "aborted") OBVIOUS
<1>4. lis' \in [Tasks -> {"missing", "clean", "errors"}]
  BY DEF IInv, CountIsRight, TypeOK, files
<1>5. TypeOK' BY <1>1, <1>2, <1>3, <1>4 DEF IInv, CountIsRight, TypeOK, Places
<1>6. \A s \in Tasks : Started(s)' <=> Started(s)
  BY <1>2 DEF Started, IInv, CountIsRight, TypeOK
<1>7. CountIsRight' BY <1>1, <1>5, <1>6, CountUnchanged
<1>8. PlanInv' BY <1>1, <1>3, <1>6 DEF IInv, PlanInv, Parsed
<1>9. MultiInv' BY <1>1, <1>3, <1>6 DEF IInv, MultiInv, Multi, Parsed, AllDone
<1>10. SingleInv'
  <2>1. \A s \in Tasks : thread[s] = "ok" => thread'[s] = "ok"
    BY <1>2 DEF IInv, CountIsRight, TypeOK
  <2> QED BY <1>1, <1>3, <1>6, <2>1 DEF IInv, SingleInv, Multi, Parsed
<1>11. ReportInv' BY <1>1, <1>3, <1>6 DEF IInv, ReportInv, Parsed, AllDone
<1> QED BY <1>7, <1>8, <1>9, <1>10, <1>11 DEF IInv

(* The steps of a pass that start and join nothing.                        *)
LEMMA PassKeepsIInv ==
    ASSUME IInv, NextPass \/ Bypass \/ CheckError \/ AtLimit \/ LaunchFails
    PROVE  IInv'
<1> USE DEF NextPass, Bypass, CheckError, AtLimit, LaunchFails, Scanning, CanLaunch
<1>1. /\ UNCHANGED <<opt, status, num_thread_running, thread, lis, report>>
      /\ pc = "scan" /\ Multi
  BY DEF files, IInv, MultiInv
<1>2. /\ pc' \in {"scan", "parse", "aborted", "join"}
      /\ bm' \in 1 .. NumTasks + 1
  BY TasksAssumption DEF IInv, CountIsRight, TypeOK, Tasks
<1>3. TypeOK' BY <1>1, <1>2 DEF IInv, CountIsRight, TypeOK, Places
<1>4. CountIsRight' BY <1>1, <1>3, CountUnchanged DEF Started
<1>5. PlanInv' BY <1>2 DEF PlanInv
<1>6. pc' = "parse" => bm' \in Tasks /\ bm' = 1 /\ AllDone
  BY <1>1, TasksAssumption DEF Tasks
<1>7. pc' = "join" => bm' \in Tasks /\ status'[bm'] = "running" BY <1>1
<1>8. MultiInv'
  <2>1. \A t \in Tasks : ~Parsed(t) BY <1>1 DEF IInv, MultiInv
  <2>2. \A t \in Tasks : ~(t < 1) BY DEF Tasks
  <2> QED BY <1>1, <1>2, <1>6, <1>7, <2>1, <2>2
       DEF IInv, MultiInv, Multi, Started, Parsed, AllDone
<1>9. SingleInv' BY <1>1, <1>2 DEF IInv, SingleInv, Multi
<1>10. ReportInv' BY <1>2 DEF ReportInv
<1> QED BY <1>4, <1>5, <1>8, <1>9, <1>10 DEF IInv

LEMMA LaunchKeepsIInv == ASSUME IInv, Launch PROVE IInv'
<1> USE DEF Launch, CanLaunch, Scanning
<1>1. Multi /\ ~Started(bm) /\ bm \in Tasks /\ status[bm] = "wait"
  BY DEF IInv, MultiInv
<1>2. Unjoined' = Unjoined \cup {bm} /\ bm \notin Unjoined
  BY <1>1 DEF Unjoined, IInv, CountIsRight, TypeOK
<1>3. IsFiniteSet(Unjoined) BY UnjoinedIsFinite DEF IInv, CountIsRight
<1>4. Cardinality(Unjoined') = Cardinality(Unjoined) + 1 BY <1>2, <1>3, FS_AddElement
<1>5. num_thread_running' = Cardinality(Unjoined')
  BY <1>4 DEF IInv, CountIsRight
<1>6. Unjoined' \subseteq 1 .. NumTasks BY DEF Unjoined, Tasks
<1>7. num_thread_running' \in 0 .. NumTasks
  <2>1. NumTasks \in Nat BY TasksAssumption
  <2>2. IsFiniteSet(1 .. NumTasks) /\ Cardinality(1 .. NumTasks) = NumTasks
    BY <2>1, FS_Interval
  <2>3. Cardinality(Unjoined') <= NumTasks BY <1>6, <2>2, FS_Subset
  <2> QED BY <1>5, <2>1, <2>3 DEF IInv, CountIsRight, TypeOK
<1>8. TypeOK'
  BY <1>1, <1>7, TasksAssumption DEF IInv, CountIsRight, TypeOK, Places, files, Tasks
<1>9. num_thread_running' <= Limit' /\ Limit' = Limit
  BY LimitIsPositive DEF IInv, CountIsRight, TypeOK, Limit, Multi
<1>10. \A t \in Tasks : status'[t] = "wait" <=> thread'[t] = "none"
  BY <1>1 DEF IInv, CountIsRight, TypeOK, MultiInv, Started
<1>11. CountIsRight' BY <1>5, <1>8, <1>9, <1>10 DEF CountIsRight
<1>12. PlanInv' /\ ReportInv' BY DEF PlanInv, ReportInv
<1>13. MultiInv' BY <1>1, <1>10 DEF IInv, MultiInv, Multi, Started, Parsed, files
<1>14. SingleInv' BY <1>1 DEF SingleInv, Multi
<1> QED BY <1>11, <1>12, <1>13, <1>14 DEF IInv

LEMMA JoinKeepsIInv == ASSUME IInv, Join PROVE IInv'
<1> USE DEF Join
<1>1. Multi /\ bm \in Tasks /\ status[bm] = "running" BY DEF IInv, MultiInv
<1>2. CASE ~Joinable(bm)
  <2>1. TypeOK'
    BY <1>1, <1>2, TasksAssumption DEF IInv, CountIsRight, TypeOK, Places, files, Tasks
  <2>2. CountIsRight' BY <1>2, <2>1, CountUnchanged DEF Started
  <2>3. PlanInv' /\ ReportInv' BY DEF PlanInv, ReportInv
  <2>4. MultiInv' BY <1>2 DEF IInv, MultiInv, Multi, Started, Parsed, files
  <2>5. SingleInv' BY <1>1 DEF SingleInv, Multi
  <2> QED BY <2>2, <2>3, <2>4, <2>5 DEF IInv
<1>3. CASE Joinable(bm)
  <2>1. Unjoined' = Unjoined \ {bm} /\ bm \in Unjoined
    BY <1>1, <1>3 DEF Unjoined, IInv, CountIsRight, TypeOK
  <2>2. IsFiniteSet(Unjoined) BY UnjoinedIsFinite DEF IInv, CountIsRight
  <2>3. Cardinality(Unjoined') = Cardinality(Unjoined) - 1
    BY <2>1, <2>2, FS_RemoveElement
  <2>4. IsFiniteSet(Unjoined') BY <2>1, <2>2, FS_RemoveElement
  <2>5. Cardinality(Unjoined') \in Nat BY <2>4, FS_CardinalityType
  <2>6. /\ num_thread_running' = Cardinality(Unjoined')
        /\ num_thread_running' \in 0 .. NumTasks /\ num_thread_running' <= Limit
    BY <1>3, <2>3, <2>5, LimitIsPositive, TasksAssumption DEF IInv, CountIsRight, TypeOK
  <2>7. TypeOK'
    BY <1>1, <1>3, <2>6, TasksAssumption
    DEF IInv, CountIsRight, TypeOK, Places, files, Tasks
  <2>8. \A t \in Tasks : status'[t] = "wait" <=> thread'[t] = "none"
    BY <1>1, <1>3 DEF IInv, CountIsRight, TypeOK, MultiInv, Started
  <2>9. CountIsRight' BY <2>6, <2>7, <2>8 DEF CountIsRight, Limit, Multi
  <2>10. PlanInv' /\ ReportInv' BY DEF PlanInv, ReportInv
  <2>11. MultiInv' BY <1>1, <2>8 DEF IInv, MultiInv, Multi, Started, Parsed, files
  <2>12. SingleInv' BY <1>1 DEF SingleInv, Multi
  <2> QED BY <2>9, <2>10, <2>11, <2>12 DEF IInv
<1> QED BY <1>2, <1>3

LEMMA ParseKeepsIInv == ASSUME IInv, ParseTask PROVE IInv'
<1> USE DEF ParseTask, Parse
<1>1. /\ Multi /\ bm \in Tasks /\ AllDone
      /\ \A t \in Tasks : Parsed(t) <=> t < bm
  BY DEF IInv, MultiInv
<1>2. TypeOK'
  BY <1>1, TasksAssumption DEF IInv, CountIsRight, TypeOK, Places, Tasks
<1>3. CountIsRight' BY <1>2, CountUnchanged DEF Started
<1>4. \A t \in Tasks : Parsed(t)' <=> t < bm + 1
  BY <1>1 DEF Parsed, Tasks, IInv, CountIsRight, TypeOK
<1>5. \A t \in Tasks : Started(t) BY <1>1 DEF AllDone, IInv, MultiInv
<1>6. ReportInv'
  BY <1>1, <1>4, <1>5, TasksAssumption DEF ReportInv, AllDone, Started, Tasks
<1>7. MultiInv'
  <2>1. pc' = "parse" => bm' \in Tasks BY <1>1, TasksAssumption DEF Tasks
  <2> QED BY <1>1, <1>4, <2>1 DEF IInv, MultiInv, Multi, Started, AllDone
<1>8. PlanInv' BY DEF PlanInv
<1>9. SingleInv' BY <1>1 DEF SingleInv, Multi
<1> QED BY <1>3, <1>6, <1>7, <1>8, <1>9 DEF IInv

LEMMA CallKeepsIInv == ASSUME IInv, CallTask PROVE IInv'
<1> USE DEF CallTask
<1>1. ~Multi /\ bm \in Tasks BY DEF IInv, SingleInv
<1>2. TypeOK' BY <1>1 DEF IInv, CountIsRight, TypeOK, Places, files
<1>3. CountIsRight' BY <1>1, <1>2, CountUnchanged
<1>4. PlanInv' /\ ReportInv' BY DEF PlanInv, ReportInv
<1>5. MultiInv' BY <1>1 DEF MultiInv, Multi
<1>6. \A t \in Tasks : Started(t)' <=> (t < bm \/ t = bm)
  BY <1>1 DEF Started, IInv, SingleInv, CountIsRight, TypeOK
<1>7. SingleInv' BY <1>1, <1>6 DEF IInv, SingleInv, Multi, Parsed, files
<1> QED BY <1>3, <1>4, <1>5, <1>7 DEF IInv

LEMMA ReturnKeepsIInv == ASSUME IInv, TaskReturns PROVE IInv'
<1> USE DEF TaskReturns
<1>1. /\ ~Multi /\ bm \in Tasks
      /\ \A t \in Tasks : /\ Parsed(t) <=> t < bm
                          /\ status[t] = "done" <=> t < bm
                          /\ Started(t) <=> t < bm \/ t = bm
  BY DEF IInv, SingleInv
<1>2. \A t \in Tasks : /\ status[t] # "running" /\ status'[t] # "running"
                       /\ status'[t] = "done" => thread'[t] = "ok"
  <2>1. \A t \in Tasks : /\ status[t] # "running"
                         /\ status[t] = "done" => thread[t] = "ok"
    BY <1>1 DEF IInv, SingleInv, Multi
  <2>2. status' = [status EXCEPT ![bm] = "done"] /\ thread' = thread /\ thread[bm] = "ok"
    OBVIOUS
  <2>3. status \in [Tasks -> {"wait", "running", "done"}]
    BY DEF IInv, CountIsRight, TypeOK
  <2> HIDE DEF TaskReturns
  <2> QED BY <2>1, <2>2, <2>3
<1>3. TypeOK'
  BY <1>1, TasksAssumption DEF IInv, CountIsRight, TypeOK, Places, Tasks
<1>4. CountIsRight'
  <2>1. Unjoined = {} /\ Unjoined' = {} BY <1>2 DEF Unjoined
  <2> QED BY <1>1, <1>3, <2>1 DEF IInv, CountIsRight, Limit, Multi
<1>5. \A t \in Tasks : /\ Parsed(t)' <=> t < bm + 1
                       /\ status'[t] = "done" <=> t < bm + 1
                       /\ Started(t)' <=> t < bm + 1
  <2>1. \A t \in Tasks : t < bm + 1 <=> t < bm \/ t = bm
    BY <1>1, TasksAssumption DEF Tasks
  <2>2. \A t \in Tasks : report'[t] # "none" <=> report[t] # "none" \/ t = bm
    BY <1>1 DEF IInv, CountIsRight, TypeOK
  <2>3. \A t \in Tasks : status'[t] = "done" <=> status[t] = "done" \/ t = bm
    BY <1>1 DEF IInv, CountIsRight, TypeOK
  <2> QED BY <1>1, <2>1, <2>2, <2>3 DEF Parsed, Started
<1>7. pc' = "single" => bm' \in Tasks BY <1>1, TasksAssumption DEF Tasks
<1>8. SingleInv' BY <1>1, <1>2, <1>5, <1>7 DEF SingleInv, Multi
<1>9. ReportInv' BY <1>1, <1>5, TasksAssumption DEF ReportInv, AllDone, Tasks
<1>10. PlanInv' BY DEF PlanInv
<1>11. MultiInv' BY <1>1 DEF MultiInv, Multi
<1> QED BY <1>4, <1>8, <1>9, <1>10, <1>11 DEF IInv

LEMMA EndKeepsIInv == ASSUME IInv, ParseDies \/ GenCsvRpt PROVE IInv'
<1>1. /\ UNCHANGED <<opt, bm, status, num_thread_running, thread, lis, report>>
      /\ pc' \in {"over", "aborted"}
  BY DEF ParseDies, GenCsvRpt, files
<1>2. TypeOK' BY <1>1 DEF IInv, CountIsRight, TypeOK, Places
<1>3. CountIsRight' BY <1>1, <1>2, CountUnchanged DEF Started
<1>4. PlanInv' /\ ReportInv' BY <1>1 DEF PlanInv, ReportInv
<1>5. MultiInv' BY <1>1 DEF IInv, MultiInv, Multi, Started
<1>6. SingleInv' BY <1>1 DEF IInv, SingleInv, Multi
<1> QED BY <1>3, <1>4, <1>5, <1>6 DEF IInv

LEMMA StutterKeepsIInv == ASSUME IInv, UNCHANGED vars PROVE IInv'
<1>1. UNCHANGED <<opt, pc, bm, status, num_thread_running, thread, lis, report>>
  BY DEF vars, files
<1>2. TypeOK' BY <1>1 DEF IInv, CountIsRight, TypeOK
<1>3. CountIsRight' BY <1>1, <1>2, CountUnchanged DEF Started
<1>4. PlanInv' /\ ReportInv'
  BY <1>1 DEF IInv, PlanInv, ReportInv, Started, Parsed, AllDone
<1>5. MultiInv' BY <1>1 DEF IInv, MultiInv, Multi, Started, Parsed, AllDone
<1>6. SingleInv' BY <1>1 DEF IInv, SingleInv, Multi, Started, Parsed
<1> QED BY <1>3, <1>4, <1>5, <1>6 DEF IInv

LEMMA NextKeepsIInv == ASSUME IInv, [Next]_vars PROVE IInv'
<1>1. CASE UNCHANGED vars BY <1>1, StutterKeepsIInv
<1>2. ASSUME NEW t \in Tasks, Task(t) PROVE IInv' BY <1>2, TaskKeepsIInv
<1>3. CASE Main
  BY <1>3, PlanKeepsIInv, PassKeepsIInv, LaunchKeepsIInv, JoinKeepsIInv, ParseKeepsIInv,
     CallKeepsIInv, ReturnKeepsIInv, EndKeepsIInv DEF Main
<1> QED BY <1>1, <1>2, <1>3 DEF Next, Ended

(* The inductive invariant holds throughout.                               *)
THEOREM Invariance == Spec => []IInv
<1> QED BY InitIInv, NextKeepsIInv, PTL DEF Spec

(* multi_thread_run_fpga_spice_tasks: num_thread_running is the number of  *)
(* threads created and not joined and never above the limit, for any       *)
(* number of benchmarks and any options.                                   *)
THEOREM CounterCorrect == Spec => []CountIsRight
<1>1. IInv => CountIsRight BY DEF IInv
<1> QED BY <1>1, Invariance, PTL

-----------------------------------------------------------------------------
(* The pool's module counts with its own copy of Cardinality.              *)
LEMMA SameCardinality == \A S : Pool!Cardinality(S) = Cardinality(S)
BY DEF Pool!Cardinality, Cardinality

LEMMA PoolStarts == Init => Pool!PoolInit
<1> SUFFICES ASSUME Init PROVE Pool!PoolInit OBVIOUS
<1>1. Limit \in Nat \ {0} BY LimitIsPositive DEF Init
<1> QED BY <1>1 DEF Init, Pool!PoolInit, Running, Alive

(* What the pool sees of the state.                                        *)
Waiting == {t \in Tasks : thread[t] = "none"}
Read == {t \in Tasks : report[t] # "none"}

LEMMA PoolStutters ==
    ASSUME UNCHANGED <<opt, Waiting, Running, Read>>, Alive' <=> Alive, ~Alive => pc' = pc
    PROVE  UNCHANGED Pool!poolVars
BY DEF Pool!poolVars, Limit, Multi, Waiting, Read

(* Any step that only ends the program is the pool's abort.                *)
LEMMA PoolAborts ==
    ASSUME UNCHANGED <<opt, Waiting, Running, Read>>, Alive, pc' = "aborted"
    PROVE  Pool!PoolNext
BY DEF Pool!PoolNext, Pool!Abort, Limit, Multi, Waiting, Read, Alive

LEMMA PoolTaskStep ==
    ASSUME IInv, NEW t \in Tasks, Task(t)
    PROVE  [Pool!PoolNext]_Pool!poolVars
<1> USE DEF Task, FindNetlists, RunScript, CheckLis, Dies, IInv, CountIsRight, TypeOK
<1>1. UNCHANGED <<opt, status, Waiting, Read>> BY DEF files, Waiting, Read
<1>2. CASE Multi \/ thread'[t] \in {"script", "lis"}
  <2>1. UNCHANGED Running BY <1>1, <1>2 DEF Running, Multi
  <2>2. pc' = pc BY <1>2
  <2> QED BY <1>1, <2>1, <2>2, PoolStutters DEF Alive
<1>3. CASE ~Multi /\ thread'[t] = "died"
  <2>1. UNCHANGED Running BY <1>1, <1>3 DEF Running, Multi
  <2>2. Alive /\ pc' = "aborted" BY <1>3
  <2> QED BY <1>1, <2>1, <2>2, PoolAborts
<1>4. CASE ~Multi /\ thread'[t] = "ok"
  <2>1. Alive /\ pc' = pc /\ thread[t] = "lis" BY <1>4
  <2>2. status[t] # "done" BY <1>4, <2>1 DEF SingleInv
  <2>3. t \in Running /\ Running' = Running \ {t}
    BY <1>1, <1>4, <2>1, <2>2 DEF Running, Multi
  <2>4. Pool!Finish BY <1>1, <2>1, <2>3 DEF Pool!Finish, Waiting, Read, Limit, Multi, Alive
  <2> QED BY <2>4 DEF Pool!PoolNext
<1> QED BY <1>2, <1>3, <1>4

LEMMA PoolMainStep ==
    ASSUME IInv, Main
    PROVE  [Pool!PoolNext]_Pool!poolVars
<1> USE DEF IInv, CountIsRight, TypeOK
<1>1. CASE PlanRunTasks \/ NextPass \/ Bypass \/ AtLimit \/ LaunchFails
  <2>1. /\ UNCHANGED <<opt, status, thread, report>> /\ Alive
        /\ pc' \in {"scan", "single", "parse"}
    BY <1>1 DEF PlanRunTasks, NextPass, Bypass, AtLimit, LaunchFails, CanLaunch, Scanning,
             Alive, files
  <2> QED BY <2>1, PoolStutters DEF Alive, Waiting, Running, Read, Multi
<1>2. CASE CheckError
  <2>1. /\ UNCHANGED <<opt, status, thread, report>> /\ Alive
        /\ pc' \in {"aborted", "join"}
    BY <1>2 DEF CheckError, Scanning, Alive, files
  <2>2. UNCHANGED <<Waiting, Running, Read>> BY <2>1 DEF Waiting, Running, Read, Multi
  <2> QED BY <2>1, <2>2, PoolStutters, PoolAborts DEF Alive
<1>3. CASE Join
  <2>1. /\ Multi /\ bm \in Tasks /\ status[bm] = "running" /\ thread[bm] # "none"
        /\ Alive /\ Alive'
        /\ UNCHANGED <<opt, thread, report, Waiting, Read>>
    BY <1>3 DEF Join, MultiInv, Started, Alive, files, Waiting, Read
  <2>2. CASE Joinable(bm)
    <3>1. status' = [status EXCEPT ![bm] = "done"] BY <1>3, <2>2 DEF Join
    <3>2. \A t \in Tasks : status'[t] # "done" <=> status[t] # "done" /\ t # bm
      BY <2>1, <3>1
    <3>3. bm \in Running /\ Running' = Running \ {bm}
      BY <2>1, <3>2 DEF Running, Multi
    <3>4. Pool!Finish BY <2>1, <3>3 DEF Pool!Finish, Waiting, Read, Limit, Multi
    <3> QED BY <3>4 DEF Pool!PoolNext
  <2>3. CASE ~Joinable(bm)
    <3>1. UNCHANGED Running BY <1>3, <2>1, <2>3 DEF Join, Running, Multi
    <3> QED BY <2>1, <3>1, PoolStutters
  <2> QED BY <2>2, <2>3
<1>4. CASE Launch
  <2>1. /\ Multi /\ bm \in Tasks /\ status[bm] = "wait" /\ thread[bm] = "none"
        /\ num_thread_running < Limit
        /\ Alive /\ Alive' /\ UNCHANGED <<opt, report>>
    BY <1>4 DEF Launch, CanLaunch, Scanning, MultiInv, Started, Alive, files
  <2>2. Running = Unjoined
    BY <2>1 DEF Running, Unjoined, MultiInv, Started
  <2>3. bm \in Waiting /\ Waiting' = Waiting \ {bm} /\ Running' = Running \cup {bm}
    BY <1>4, <2>1 DEF Launch, Waiting, Running, Multi
  <2>4. Cardinality(Running) < Limit BY <2>1, <2>2
  <2>5. \E j \in Waiting : Waiting' = Waiting \ {j} /\ Running' = Running \cup {j}
    BY <2>3
  <2>6. UNCHANGED <<Limit, Read>> BY <2>1 DEF Limit, Multi, Read
  <2>7. Pool!Start BY <2>1, <2>4, <2>5, <2>6, SameCardinality DEF Pool!Start, Waiting, Read
  <2> QED BY <2>7 DEF Pool!PoolNext
<1>5. CASE ParseTask
  <2>1. /\ AllDone /\ bm \in Tasks /\ thread[bm] # "none" /\ report[bm] = "none"
        /\ Alive /\ Alive' /\ UNCHANGED <<opt, status, thread>>
        /\ Multi
    BY <1>5, TasksAssumption
    DEF ParseTask, MultiInv, Parsed, Started, Alive, AllDone, Tasks
  <2>2. Running = {} /\ Running' = {} BY <2>1 DEF Running, AllDone, Multi
  <2>3. Read' = Read \cup {bm} BY <1>5, <2>1 DEF ParseTask, Parse, Read
  <2>4. Pool!Read BY <2>1, <2>2, <2>3 DEF Pool!Read, Read, Limit, Multi
  <2> QED BY <2>4 DEF Pool!PoolNext
<1>6. CASE CallTask
  <2>1. /\ ~Multi /\ bm \in Tasks /\ status[bm] = "wait" /\ thread[bm] = "none"
        /\ \A t \in Tasks : thread[t] # "none" => status[t] = "done"
        /\ Alive /\ Alive' /\ UNCHANGED <<opt, status, report>>
    BY <1>6, TasksAssumption DEF CallTask, SingleInv, Started, Alive, files, Tasks
  <2>2. Running = {} BY <2>1 DEF Running
  <2>3. Waiting' = Waiting \ {bm} /\ Running' = {bm}
    BY <1>6, <2>1 DEF CallTask, Waiting, Running, Multi
  <2>4. Cardinality(Running) < Limit BY <2>1, <2>2, FS_EmptySet DEF Limit
  <2>5. \E j \in Waiting : Waiting' = Waiting \ {j} /\ Running' = Running \cup {j}
    <3>1. bm \in Waiting BY <2>1 DEF Waiting
    <3> QED BY <2>2, <2>3, <3>1
  <2>6. UNCHANGED <<Limit, Read>> BY <2>1 DEF Limit, Multi, Read
  <2>7. Pool!Start BY <2>1, <2>4, <2>5, <2>6, SameCardinality DEF Pool!Start, Waiting, Read
  <2> QED BY <2>7 DEF Pool!PoolNext
<1>7. CASE TaskReturns
  <2>1. /\ ~Multi /\ bm \in Tasks /\ thread[bm] = "ok" /\ report[bm] = "none"
        /\ \A t \in Tasks : thread[t] # "none" => status[t] = "done" \/ t = bm
        /\ Alive /\ Alive' /\ UNCHANGED <<opt, thread>>
    BY <1>7, TasksAssumption DEF TaskReturns, SingleInv, Started, Parsed, Alive, Tasks
  <2>2. Running = {} /\ Running' = {}
    BY <1>7, <2>1 DEF TaskReturns, Running, Multi
  <2>3. Read' = Read \cup {bm} BY <1>7, <2>1 DEF TaskReturns, Read
  <2>4. Pool!Read BY <2>1, <2>2, <2>3 DEF Pool!Read, Read, Limit, Multi
  <2> QED BY <2>4 DEF Pool!PoolNext
<1>8. CASE ParseDies
  <2>1. UNCHANGED <<opt, status, thread, report>> /\ Alive /\ pc' = "aborted"
    BY <1>8 DEF ParseDies, Alive, files
  <2> QED BY <2>1, PoolAborts DEF Waiting, Running, Read, Multi
<1>9. CASE GenCsvRpt
  <2>1. UNCHANGED <<opt, status, thread, report>> /\ Alive /\ pc' \in {"over", "aborted"}
    BY <1>9 DEF GenCsvRpt, Alive, files
  <2>2. Read = Tasks BY <1>9 DEF GenCsvRpt, ReportInv, Parsed, Read
  <2>3. Pool!Report \/ Pool!Abort
    BY <2>1, <2>2 DEF Pool!Report, Pool!Abort, Read, Alive, Running, Limit, Multi
  <2> QED BY <2>3 DEF Pool!PoolNext
<1> QED BY <1>1, <1>2, <1>3, <1>4, <1>5, <1>6, <1>7, <1>8, <1>9 DEF Main

(* Every step of the driver is a step of the pool or none.                 *)
LEMMA PoolStep == ASSUME IInv, [Next]_vars PROVE [Pool!PoolNext]_Pool!poolVars
<1>1. CASE UNCHANGED vars
  BY <1>1, PoolStutters DEF vars, files, Waiting, Running, Read, Alive, Multi
<1>2. ASSUME NEW t \in Tasks, Task(t) PROVE [Pool!PoolNext]_Pool!poolVars
  BY <1>2, PoolTaskStep
<1>3. CASE Main BY <1>3, PoolMainStep
<1> QED BY <1>1, <1>2, <1>3 DEF Next, Ended

(* run_fpga_spice.pl keeps the safe part of the pool's promise: each task  *)
(* runs once, at most Limit at a time, and results are read when none is   *)
(* running, for any number of benchmarks and any options.                  *)
THEOREM ImplementsSafePool == Spec => Pool!PoolSafe
<1> QED BY PoolStarts, PoolStep, Invariance, PTL DEF Spec, Pool!PoolSafe
=============================================================================
