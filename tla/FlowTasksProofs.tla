--------------------------- MODULE FlowTasksProofs ---------------------------
(***************************************************************************)
(* For any number of benchmarks, any list of flows, even one that names a  *)
(* flow twice, and any options: the counter of running threads is what the *)
(* recorded and unrecorded threads make it, and no job is started twice.   *)
(***************************************************************************)
EXTENDS FlowTasks, FiniteSetTheorems, TLAPS

Uncounted == {j \in Jobs : Done(j) /\ j \notin thread_id}

Begun(j) == worker[j].stage # "none"

WorkerType == worker \in [Jobs -> [stage : Stages, tool : Nat]]

(* What each place of the main program knows of the job it is at.          *)
ControlInv ==
    /\ pc \in {"scan", "created", "join"} => Mode = "threads"
    /\ pc \in {"one", "task"} => Mode = pc
    /\ pc = "call" => Mode \in {"one", "task"}
    /\ pc \in {"call", "created", "join"} => at <= NumJobs /\ ~Done(Job)
    /\ pc = "created" => Job \notin thread_id
    /\ pc = "join" => Job \in thread_id \/ Ended(Job)

(* Every job begun is on record, or the main program is looking at it.     *)
BegunInv ==
    /\ pc = "plan" => \A j \in Jobs : ~Begun(j)
    /\ pc \in {"one", "task"} => \A j \in Jobs : Begun(j) => Done(j)
    /\ pc = "call" => \A j \in Jobs : Begun(j) => Done(j) \/ j = Job
    /\ pc \in {"scan", "created", "join"} =>
           \A j \in Jobs : Begun(j) => \/ Done(j) \/ j \in thread_id
                                       \/ pc \in {"created", "join"} /\ j = Job

IInv == CountIsRight /\ WorkerType /\ ControlInv /\ BegunInv
-----------------------------------------------------------------------------
LEMMA Sizes == NumJobs \in Nat \ {0} /\ NumBenchmarks \in Nat \ {0} /\ Len(FlowSeq) \in Nat \ {0}
  BY SizesAssumption DEF NumJobs

(* The main program is always at a benchmark and a flow.                   *)
LEMMA AtJob == ASSUME at \in 1 .. NumJobs PROVE Job \in Jobs
<1> DEFINE L == Len(FlowSeq)
           k == at - 1
           q == k \div L
           r == k % L
<1>1. /\ L \in Nat \ {0} /\ NumBenchmarks \in Nat \ {0} /\ k \in Nat
      /\ at <= NumBenchmarks * L /\ DOMAIN FlowSeq = 1 .. L
  BY SizesAssumption DEF NumJobs
<1>2. q \in Nat /\ r \in 0 .. L - 1 /\ k = L * q + r
  BY <1>1
<1>3. q < NumBenchmarks
  <2>1. SUFFICES ASSUME q >= NumBenchmarks PROVE FALSE
    BY <1>1, <1>2
  <2>2. PICK d \in Nat : q = NumBenchmarks + d
    BY <1>1, <1>2, <2>1
  <2>3. L * q = NumBenchmarks * L + L * d
    BY <1>1, <2>2
  <2>4. L * d \in Nat
    BY <1>1, <2>2
  <2> QED BY <1>1, <1>2, <2>3, <2>4
<1>4. 1 + q \in Benchmarks /\ 1 + r \in DOMAIN FlowSeq
  BY <1>1, <1>2, <1>3 DEF Benchmarks
<1> QED BY <1>4 DEF Job, JobAt, Jobs, Flows

LEMMA JobsAreFinite == IsFiniteSet(Jobs)
<1>1. IsFiniteSet(Benchmarks)
  BY FS_Interval, Sizes DEF Benchmarks
<1>2. IsFiniteSet(Flows)
  <2>1. IsFiniteSet(1 .. Len(FlowSeq))
    BY FS_Interval, Sizes
  <2>2. [k \in DOMAIN FlowSeq |-> FlowSeq[k]] \in Surjection(1 .. Len(FlowSeq), Flows)
    BY SizesAssumption DEF Surjection, Flows
  <2> QED BY <2>1, <2>2, FS_Surjection
<1> QED BY <1>1, <1>2, FS_Product DEF Jobs
LEMMA SetsAreFinite ==
    ASSUME TypeOK
    PROVE  /\ IsFiniteSet(Unjoined) /\ IsFiniteSet(Uncounted)
           /\ Cardinality(Unjoined) \in Nat /\ Cardinality(Uncounted) \in Nat
<1>1. Unjoined \subseteq Jobs /\ Uncounted \subseteq Jobs
  BY DEF TypeOK, Unjoined, Uncounted
<1> QED BY <1>1, JobsAreFinite, FS_Subset, FS_CardinalityType

LEMMA InitIInv == Init => IInv
<1> SUFFICES ASSUME Init PROVE IInv OBVIOUS
<1>1. opt \in Options /\ pc = "plan" /\ at = 1 /\ thread_id = {} /\ num_thread_running = 0
  BY DEF Init
<1>2. TypeOK /\ WorkerType
  <2>1. \A j \in Jobs : 1 \in DOMAIN Tools[j[2]]
    BY ToolsAssumption DEF Jobs, Flows
  <2> QED BY Sizes, <2>1 DEF Init, TypeOK, WorkerType, Stages, Dirs
<1>3. Unjoined = {} /\ Uncounted = {}
  BY DEF Init, Unjoined, Uncounted, Done
<1>4. CountIsRight
  BY <1>1, <1>2, <1>3, FS_EmptySet DEF CountIsRight, Uncounted
<1>5. ControlInv
  BY <1>1 DEF ControlInv
<1>6. BegunInv
  BY DEF Init, BegunInv, Begun
<1> QED BY <1>2, <1>4, <1>5, <1>6 DEF IInv

(* A step that leaves the record of jobs and threads alone.                *)
LEMMA CountUnchanged ==
    ASSUME CountIsRight, TypeOK', UNCHANGED <<opt, status, thread_id, num_thread_running>>
    PROVE  CountIsRight'
<1>1. Unjoined' = Unjoined /\ Uncounted' = Uncounted /\ Mode' = Mode
  BY DEF Unjoined, Uncounted, Done, Mode
<1> QED BY <1>1 DEF CountIsRight, Uncounted

-----------------------------------------------------------------------------
(* A flow at work: what it does is not seen by the main program, unless it *)
(* dies in a call.                                                         *)
LEMMA FlowStep == ASSUME IInv, NEW j \in Jobs, Flow(j) PROVE IInv'
<1>1. /\ UNCHANGED <<opt, at, status, thread_id, num_thread_running, parsed, reported>>
      /\ worker[j].stage \in {"enter", "run", "check"}
      /\ Alive
  BY DEF Flow, EnterDir, RunTool, CheckOutput, At, threads, results
<1>2. TypeOK /\ WorkerType
  BY DEF IInv, CountIsRight
<1>3. DOMAIN Tools[j[2]] = 1 .. Len(Tools[j[2]]) /\ Len(Tools[j[2]]) \in Nat \ {0}
      /\ worker[j].tool \in DOMAIN Tools[j[2]] /\ j[2] \in Flows
  BY <1>2, ToolsAssumption DEF TypeOK, Jobs, Flows
<1>4. cwd' \in Dirs
  BY <1>2, <1>3 DEF Flow, EnterDir, RunTool, CheckOutput, TypeOK, Dirs, Dir
<1>5. pc' = pc \/ (pc' = "aborted" /\ Mode # "threads")
  BY DEF Flow, EnterDir, RunTool, CheckOutput
<1>6. \E w \in [stage : Stages \ {"none"}, tool : DOMAIN Tools[j[2]]] : worker' = [worker EXCEPT ![j] = w]
  <2>1. CASE EnterDir(j)
    <3>1. worker' = [worker EXCEPT ![j] = [worker[j] EXCEPT !.stage = "run"]]
      BY <2>1 DEF EnterDir
    <3>2. [worker[j] EXCEPT !.stage = "run"] \in [stage : Stages \ {"none"}, tool : DOMAIN Tools[j[2]]]
      BY <1>2, <1>3 DEF WorkerType, Stages
    <3> QED BY <3>1, <3>2
  <2>2. CASE RunTool(j)
    <3>1. worker' = [worker EXCEPT ![j] = [worker[j] EXCEPT !.stage = "check"]]
      BY <2>2 DEF RunTool
    <3>2. [worker[j] EXCEPT !.stage = "check"] \in [stage : Stages \ {"none"}, tool : DOMAIN Tools[j[2]]]
      BY <1>2, <1>3 DEF WorkerType, Stages
    <3> QED BY <3>1, <3>2
  <2>3. CASE CheckOutput(j)
    <3> DEFINE good == IF worker[j].tool = Len(Tools[j[2]]) THEN [worker[j] EXCEPT !.stage = "ok"]
                       ELSE [stage |-> "enter", tool |-> worker[j].tool + 1]
               bad == [worker[j] EXCEPT !.stage = "died"]
    <3>1. worker' = [worker EXCEPT ![j] = good] \/ worker' = [worker EXCEPT ![j] = bad]
      BY <2>3, <1>2 DEF CheckOutput, WorkerType
    <3>2. /\ good \in [stage : Stages \ {"none"}, tool : DOMAIN Tools[j[2]]]
          /\ bad \in [stage : Stages \ {"none"}, tool : DOMAIN Tools[j[2]]]
      BY <1>2, <1>3 DEF WorkerType, Stages
    <3> QED BY <3>1, <3>2
  <2> QED BY <2>1, <2>2, <2>3 DEF Flow
<1>7. WorkerType' /\ worker'[j].tool \in DOMAIN Tools[j[2]] /\ worker'[j].stage \in Stages
      /\ \A i \in Jobs : i # j => worker'[i] = worker[i]
  <2>1. PICK w \in [stage : Stages \ {"none"}, tool : DOMAIN Tools[j[2]]] : worker' = [worker EXCEPT ![j] = w]
    BY <1>6
  <2>2. w \in [stage : Stages, tool : Nat] /\ w.tool \in DOMAIN Tools[j[2]]
    BY <1>3, <2>1
  <2> QED BY <1>2, <2>1, <2>2 DEF WorkerType
<1>8. \A i \in Jobs : Begun(i)' <=> Begun(i)
  BY <1>1, <1>2, <1>6, <1>7 DEF Begun, WorkerType
<1>9. \A i \in Jobs : Ended(i) => Ended(i)'
  BY <1>1, <1>7 DEF Ended
<1>10. TypeOK'
  <2>1. \A i \in Jobs : worker'[i].stage \in Stages /\ worker'[i].tool \in DOMAIN Tools[i[2]]
    BY <1>2, <1>7 DEF TypeOK
  <2> QED BY <1>1, <1>2, <1>4, <1>5, <2>1 DEF TypeOK
<1>11. CountIsRight'
  BY <1>1, <1>10, CountUnchanged DEF IInv
<1>12. ControlInv'
  <2>1. Job' = Job /\ Mode' = Mode /\ \A i \in Jobs : Done(i)' <=> Done(i)
    BY <1>1 DEF Job, Mode, Done
  <2>2. pc \in {"call", "created", "join"} => Job \in Jobs
    BY <1>2, AtJob, Sizes DEF IInv, ControlInv, TypeOK
  <2> QED BY <1>1, <1>5, <1>9, <2>1, <2>2 DEF IInv, ControlInv
<1>13. BegunInv'
  BY <1>1, <1>5, <1>8 DEF IInv, BegunInv, Job, Done
<1> QED BY <1>7, <1>11, <1>12, <1>13 DEF IInv

-----------------------------------------------------------------------------
(* Steps of the main program that start nothing and record nothing.        *)
LEMMA QuietStep ==
    ASSUME IInv, UNCHANGED <<opt, threads, worker, cwd>>,
           parsed' \subseteq Jobs, reported' \subseteq Flows, at' \in 1 .. NumJobs + 1,
           \/ PlanRunFlows \/ ForkFails \/ LastFlowReturned \/ NextPass \/ Bypass \/ CheckError
           \/ AtLimit \/ LaunchFails \/ ParseResults \/ ParseDies \/ GenCsvRpt
    PROVE  IInv'
<1>1. /\ opt' = opt /\ status' = status /\ thread_id' = thread_id
      /\ num_thread_running' = num_thread_running /\ worker' = worker /\ cwd' = cwd
      /\ TypeOK /\ WorkerType /\ Mode' = Mode /\ Mode \in {"one", "task", "threads"}
  BY DEF threads, IInv, CountIsRight, Mode
<1>2. pc' \in {"one", "task", "scan", "join", "parse", "report", "over", "aborted"}
  BY DEF PlanRunFlows, ForkFails, LastFlowReturned, NextPass, Bypass, CheckError, AtLimit,
     LaunchFails, CanLaunch, ParseResults, ParseDies, GenCsvRpt, Scanning, Calling
<1>3. TypeOK'
  BY <1>1, <1>2 DEF TypeOK
<1>4. CountIsRight'
  BY <1>1, <1>3, CountUnchanged DEF IInv
<1>5. \A i \in Jobs : (Done(i)' <=> Done(i)) /\ (Begun(i)' <=> Begun(i)) /\ (Ended(i)' <=> Ended(i))
  BY <1>1 DEF Done, Begun, Ended
<1>6. CASE CheckError
  <2>1. /\ at' = at /\ at <= NumJobs /\ ~Done(Job) /\ Job \in thread_id /\ pc = "scan"
        /\ pc' \in {"join", "aborted"} /\ Job' = Job
    BY <1>6 DEF CheckError, Scanning, Job
  <2>2. ControlInv'
    BY <1>1, <2>1 DEF IInv, ControlInv, Done
  <2>3. BegunInv'
    BY <1>1, <1>5, <2>1 DEF IInv, BegunInv
  <2> QED BY <1>1, <1>4, <2>2, <2>3 DEF IInv, WorkerType
<1>7. CASE ~CheckError
  <2>1. /\ pc' \in {"one", "task", "scan", "parse", "report", "over", "aborted"}
        /\ pc' = "scan" => Mode = "threads"
        /\ pc' \in {"one", "task"} => Mode = pc'
        /\ pc' \in {"one", "task", "scan"} => pc \in {pc', "plan"}
    BY <1>1, <1>7 DEF PlanRunFlows, ForkFails, LastFlowReturned, NextPass, Bypass, AtLimit,
       LaunchFails, CanLaunch, ParseResults, ParseDies, GenCsvRpt, Scanning, Calling, IInv, ControlInv
  <2>2. ControlInv'
    BY <1>1, <2>1 DEF ControlInv
  <2>3. BegunInv'
    BY <1>1, <1>5, <2>1 DEF IInv, BegunInv
  <2> QED BY <1>1, <1>4, <2>2, <2>3 DEF IInv, WorkerType
<1> QED BY <1>6, <1>7

LEMMA QuietSteps ==
    ASSUME IInv,
           \/ PlanRunFlows \/ ForkFails \/ LastFlowReturned \/ NextPass \/ Bypass \/ CheckError
           \/ AtLimit \/ LaunchFails \/ ParseResults \/ ParseDies \/ GenCsvRpt
    PROVE  IInv'
<1>1. UNCHANGED <<opt, threads, worker, cwd>>
  BY DEF PlanRunFlows, ForkFails, LastFlowReturned, NextPass, Bypass, CheckError, AtLimit,
     LaunchFails, ParseResults, ParseDies, GenCsvRpt, results
<1>2. TypeOK
  BY DEF IInv, CountIsRight
<1>3. parsed' \subseteq Jobs /\ reported' \subseteq Flows
  BY <1>2 DEF PlanRunFlows, ForkFails, LastFlowReturned, NextPass, Bypass, CheckError, AtLimit,
     LaunchFails, ParseResults, ParseDies, GenCsvRpt, results, TypeOK
<1>4. at' = at \/ at' = 1 \/ (at' = at + 1 /\ at <= NumJobs)
  BY DEF PlanRunFlows, ForkFails, LastFlowReturned, NextPass, Bypass, CheckError, AtLimit,
     LaunchFails, CanLaunch, ParseResults, ParseDies, GenCsvRpt, Scanning, Calling
<1>5. at' \in 1 .. NumJobs + 1
  BY <1>2, <1>4, Sizes DEF TypeOK
<1> QED BY <1>1, <1>3, <1>5, QuietStep

LEMMA CallStep == ASSUME IInv, CallFlow PROVE IInv'
<1>1. /\ pc \in {"one", "task"} /\ at <= NumJobs /\ ~HasRun
      /\ worker' = [worker EXCEPT ![Job] = [stage |-> "enter", tool |-> 1]]
      /\ status' = IF pc = "task" THEN [status EXCEPT ![Job] = "running"] ELSE status
      /\ pc' = "call"
      /\ UNCHANGED <<opt, at, thread_id, num_thread_running, cwd, parsed, reported>>
  BY DEF CallFlow, Calling, Started, results
<1>2. TypeOK /\ WorkerType /\ Mode' = Mode /\ Job' = Job /\ Mode = pc
  BY <1>1 DEF IInv, CountIsRight, Mode, Job, ControlInv
<1>3. Job \in Jobs
  BY <1>1, <1>2, AtJob, Sizes DEF TypeOK
<1>4. 1 \in DOMAIN Tools[Job[2]]
  BY <1>3, ToolsAssumption DEF Jobs, Flows
<1>5. WorkerType' /\ TypeOK'
  BY <1>1, <1>2, <1>3, <1>4 DEF WorkerType, TypeOK, Stages
<1>6. \A j \in Jobs : Done(j)' <=> Done(j)
  BY <1>1, <1>2, <1>3 DEF Done, HasRun, TypeOK
<1>7. ~Done(Job)
  BY <1>1 DEF HasRun, Done
<1>8. CountIsRight'
  BY <1>1, <1>2, <1>5 DEF CountIsRight
<1>9. ControlInv'
  BY <1>1, <1>2, <1>3, <1>6, <1>7 DEF ControlInv
<1>10. BegunInv'
  <2>1. \A j \in Jobs : j # Job => (Begun(j)' <=> Begun(j))
    BY <1>1, <1>2, <1>3 DEF Begun, WorkerType
  <2> QED BY <1>1, <1>2, <1>6, <2>1 DEF IInv, BegunInv
<1> QED BY <1>5, <1>8, <1>9, <1>10 DEF IInv

LEMMA ReturnStep == ASSUME IInv, FlowReturns PROVE IInv'
<1>1. /\ pc = "call" /\ at <= NumJobs /\ at' = at + 1 /\ pc' = Mode /\ Mode \in {"one", "task"}
      /\ status' = [status EXCEPT ![Job] = "done"]
      /\ parsed' \in {parsed, parsed \cup {Job}}
      /\ UNCHANGED <<opt, thread_id, num_thread_running, worker, cwd, reported>>
  BY DEF FlowReturns, IInv, ControlInv
<1>2. TypeOK /\ WorkerType /\ Mode' = Mode
  BY <1>1 DEF IInv, CountIsRight, Mode
<1>3. Job \in Jobs
  BY <1>1, <1>2, AtJob, Sizes DEF TypeOK
<1>4. WorkerType' /\ TypeOK'
  <2>1. at' \in 1 .. NumJobs + 1
    BY <1>1, <1>2, Sizes DEF TypeOK
  <2> QED BY <1>1, <1>2, <1>3, <2>1 DEF WorkerType, TypeOK
<1>5. \A j \in Jobs : (Done(j)' <=> Done(j) \/ j = Job) /\ (Begun(j)' <=> Begun(j))
  BY <1>1, <1>2, <1>3 DEF Done, Begun, TypeOK
<1>6. CountIsRight'
  BY <1>1, <1>2, <1>4 DEF CountIsRight
<1>7. ControlInv'
  BY <1>1, <1>2 DEF ControlInv
<1>8. BegunInv'
  BY <1>1, <1>2, <1>5 DEF IInv, BegunInv
<1> QED BY <1>4, <1>6, <1>7, <1>8 DEF IInv

LEMMA LaunchStep == ASSUME IInv, Launch PROVE IInv'
<1>1. /\ pc = "scan" /\ at <= NumJobs /\ ~Done(Job) /\ Job \notin thread_id
      /\ worker' = [worker EXCEPT ![Job] = [stage |-> "enter", tool |-> 1]]
      /\ pc' = "created"
      /\ UNCHANGED <<opt, at, status, thread_id, num_thread_running, cwd, parsed, reported>>
  BY DEF Launch, CanLaunch, Scanning, Started, threads, results
<1>2. TypeOK /\ WorkerType /\ Mode' = Mode /\ Job' = Job
  BY <1>1 DEF IInv, CountIsRight, Mode, Job
<1>3. Job \in Jobs
  BY <1>1, <1>2, AtJob, Sizes DEF TypeOK
<1>4. 1 \in DOMAIN Tools[Job[2]]
  BY <1>3, ToolsAssumption DEF Jobs, Flows
<1>5. WorkerType' /\ TypeOK'
  BY <1>1, <1>2, <1>3, <1>4 DEF WorkerType, TypeOK, Stages
<1>6. CountIsRight'
  BY <1>1, <1>5, CountUnchanged DEF IInv
<1>7. \A j \in Jobs : (Done(j)' <=> Done(j)) /\ (j # Job => (Begun(j)' <=> Begun(j)))
  BY <1>1, <1>2, <1>3 DEF Done, Begun, WorkerType
<1>8. ControlInv'
  BY <1>1, <1>2, <1>3, <1>7 DEF IInv, ControlInv
<1>9. BegunInv'
  BY <1>1, <1>2, <1>7 DEF IInv, BegunInv
<1> QED BY <1>5, <1>6, <1>8, <1>9 DEF IInv

LEMMA RunningStep == ASSUME IInv, CheckRunning PROVE IInv'
<1>1. /\ pc = "created" /\ pc' = "join" /\ at <= NumJobs /\ ~Done(Job) /\ Job \notin thread_id
      /\ Mode = "threads"
      /\ UNCHANGED <<opt, at, worker, cwd, parsed, reported>>
  BY DEF CheckRunning, results, IInv, ControlInv
<1>2. TypeOK /\ WorkerType /\ Mode' = Mode /\ Job' = Job
  BY <1>1 DEF IInv, CountIsRight, Mode, Job
<1>3. Job \in Jobs
  BY <1>1, <1>2, AtJob, Sizes DEF TypeOK
<1>4. CASE Ended(Job)
  <2>1. UNCHANGED <<status, thread_id, num_thread_running>>
    BY <1>4 DEF CheckRunning, threads
  <2>2. TypeOK' /\ WorkerType'
    BY <1>1, <1>2, <2>1 DEF TypeOK, WorkerType
  <2>3. CountIsRight'
    BY <1>1, <2>1, <2>2, CountUnchanged DEF IInv
  <2>4. \A j \in Jobs : (Done(j)' <=> Done(j)) /\ (Begun(j)' <=> Begun(j)) /\ (Ended(j)' <=> Ended(j))
    BY <1>1, <2>1 DEF Done, Begun, Ended
  <2>5. ControlInv'
    BY <1>1, <1>2, <1>3, <1>4, <2>4 DEF ControlInv
  <2>6. BegunInv'
    BY <1>1, <1>2, <2>1, <2>4 DEF IInv, BegunInv
  <2> QED BY <2>2, <2>3, <2>5, <2>6 DEF IInv
<1>5. CASE ~Ended(Job)
  <2>1. /\ status' = [status EXCEPT ![Job] = "running"]
        /\ thread_id' = thread_id \cup {Job}
        /\ num_thread_running' = num_thread_running + 1
    BY <1>5 DEF CheckRunning
  <2>2. TypeOK' /\ WorkerType'
    BY <1>1, <1>2, <1>3, <2>1 DEF TypeOK, WorkerType
  <2>3. \A j \in Jobs : (Done(j)' <=> Done(j)) /\ (Begun(j)' <=> Begun(j))
    BY <1>1, <1>2, <1>3, <2>1 DEF Done, Begun, TypeOK
  <2>4. CountIsRight'
    <3>1. Unjoined' = Unjoined \cup {Job} /\ Job \notin Unjoined
      BY <1>1, <1>2, <1>3, <2>1, <2>3 DEF Unjoined, TypeOK
    <3>2. Uncounted' = Uncounted
      BY <1>1, <2>1, <2>3 DEF Uncounted
    <3>3. Cardinality(Unjoined') = Cardinality(Unjoined) + 1
      BY <1>2, <3>1, SetsAreFinite, FS_AddElement
    <3>4. num_thread_running = Cardinality(Unjoined) - Cardinality(Uncounted)
      BY <1>1 DEF IInv, CountIsRight, Uncounted
    <3>5. num_thread_running' = Cardinality(Unjoined') - Cardinality(Uncounted')
      BY <1>2, <2>1, <3>2, <3>3, <3>4, SetsAreFinite
    <3> QED BY <2>2, <3>5 DEF CountIsRight, Uncounted
  <2>5. ControlInv'
    BY <1>1, <1>2, <1>3, <2>1, <2>3 DEF ControlInv
  <2>6. BegunInv'
    BY <1>1, <1>2, <2>1, <2>3 DEF IInv, BegunInv
  <2> QED BY <2>2, <2>4, <2>5, <2>6 DEF IInv
<1> QED BY <1>4, <1>5

LEMMA JoinStep == ASSUME IInv, Join PROVE IInv'
<1>1. /\ pc = "join" /\ pc' = "scan" /\ at' = at + 1 /\ at <= NumJobs /\ ~Done(Job)
      /\ Mode = "threads"
      /\ Job \in thread_id \/ Ended(Job)
      /\ UNCHANGED <<opt, thread_id, worker, cwd, parsed, reported>>
  BY DEF Join, results, IInv, ControlInv
<1>2. TypeOK /\ WorkerType /\ Mode' = Mode
  BY <1>1 DEF IInv, CountIsRight, Mode
<1>3. Job \in Jobs /\ at' \in 1 .. NumJobs + 1
  BY <1>1, <1>2, AtJob, Sizes DEF TypeOK
<1>4. CASE ~Ended(Job)
  <2>1. UNCHANGED <<status, num_thread_running>> /\ Job \in thread_id
    BY <1>1, <1>4 DEF Join
  <2>2. TypeOK' /\ WorkerType'
    BY <1>1, <1>2, <1>3, <2>1 DEF TypeOK, WorkerType
  <2>3. CountIsRight'
    BY <1>1, <2>1, <2>2, CountUnchanged DEF IInv
  <2>4. ControlInv'
    BY <1>1, <1>2 DEF ControlInv
  <2>5. BegunInv'
    BY <1>1, <2>1 DEF IInv, BegunInv, Done, Begun
  <2> QED BY <2>2, <2>3, <2>4, <2>5 DEF IInv
<1>5. CASE Ended(Job)
  <2>1. /\ num_thread_running' = num_thread_running - 1
        /\ status' = [status EXCEPT ![Job] = "done"]
    BY <1>5 DEF Join
  <2>2. TypeOK' /\ WorkerType'
    BY <1>1, <1>2, <1>3, <2>1 DEF TypeOK, WorkerType
  <2>3. \A j \in Jobs : (Done(j)' <=> Done(j) \/ j = Job) /\ (Begun(j)' <=> Begun(j))
    BY <1>1, <1>2, <1>3, <2>1 DEF Done, Begun, TypeOK
  <2>4. num_thread_running' = Cardinality(Unjoined') - Cardinality(Uncounted')
    <3>1. num_thread_running = Cardinality(Unjoined) - Cardinality(Uncounted)
      BY <1>1 DEF IInv, CountIsRight, Uncounted
    <3>2. CASE Job \in thread_id
      <4>1. Unjoined' = Unjoined \ {Job} /\ Job \in Unjoined /\ Uncounted' = Uncounted
        BY <1>1, <1>2, <1>3, <2>3, <3>2 DEF Unjoined, Uncounted, TypeOK
      <4>2. Cardinality(Unjoined') = Cardinality(Unjoined) - 1
        BY <1>2, <4>1, SetsAreFinite, FS_RemoveElement
      <4> QED BY <1>2, <2>1, <3>1, <4>1, <4>2, SetsAreFinite
    <3>3. CASE Job \notin thread_id
      <4>1. Uncounted' = Uncounted \cup {Job} /\ Job \notin Uncounted /\ Unjoined' = Unjoined
        BY <1>1, <1>2, <1>3, <2>3, <3>3 DEF Unjoined, Uncounted, TypeOK
      <4>2. Cardinality(Uncounted') = Cardinality(Uncounted) + 1
        BY <1>2, <4>1, SetsAreFinite, FS_AddElement
      <4> QED BY <1>2, <2>1, <3>1, <4>1, <4>2, SetsAreFinite
    <3> QED BY <3>2, <3>3
  <2>5. CountIsRight'
    BY <2>2, <2>4 DEF CountIsRight, Uncounted
  <2>6. ControlInv'
    BY <1>1, <1>2 DEF ControlInv
  <2>7. BegunInv'
    BY <1>1, <2>3 DEF IInv, BegunInv
  <2> QED BY <2>2, <2>5, <2>6, <2>7 DEF IInv
<1> QED BY <1>4, <1>5

LEMMA StutterStep == ASSUME IInv, UNCHANGED vars PROVE IInv'
<1>1. /\ UNCHANGED <<opt, pc, at, status, thread_id, num_thread_running, worker, cwd, parsed, reported>>
      /\ Job' = Job /\ Mode' = Mode
  BY DEF vars, threads, results, Job, Mode
<1>2. TypeOK' /\ WorkerType'
  BY <1>1 DEF IInv, CountIsRight, TypeOK, WorkerType
<1>3. CountIsRight'
  BY <1>1, <1>2, CountUnchanged DEF IInv
<1>4. ControlInv' /\ BegunInv'
  BY <1>1 DEF IInv, ControlInv, BegunInv, Done, Ended, Begun
<1> QED BY <1>2, <1>3, <1>4 DEF IInv
-----------------------------------------------------------------------------
(* IInv holds all along, whatever the flows do and however their threads   *)
(* and the polls of multithread_run_flows interleave.                      *)
THEOREM Invariance == Spec => []IInv
<1>1. IInv /\ [Next]_vars => IInv'
  BY FlowStep, QuietSteps, CallStep, ReturnStep, LaunchStep, RunningStep, JoinStep, StutterStep
     DEF Next, Main, Stopped
<1> QED BY InitIInv, <1>1, PTL DEF Spec

(* num_thread_running is the number of threads on record and not joined,   *)
(* less the number of jobs done whose thread was never on record.          *)
THEOREM CounterCorrect == Spec => []CountIsRight
<1>1. IInv => CountIsRight
  BY DEF IInv
<1> QED BY <1>1, Invariance, PTL

(* No flow is called, and no thread created, for a job that was begun.     *)
THEOREM JobsRunOnce == Spec => RunOnce
<1>1. ASSUME IInv, CallFlow \/ Launch PROVE worker[Job].stage = "none"
  <2>1. at \in 1 .. NumJobs
    BY <1>1, Sizes DEF IInv, CountIsRight, TypeOK, CallFlow, Calling, Launch, CanLaunch, Scanning
  <2>2. Job \in Jobs
    BY <2>1, AtJob
  <2>3. CASE CallFlow
    BY <1>1, <2>2, <2>3 DEF IInv, BegunInv, Begun, CallFlow, Calling, HasRun, Done
  <2>4. CASE Launch
    BY <1>1, <2>2, <2>4 DEF IInv, BegunInv, Begun, Launch, CanLaunch, Scanning
  <2> QED BY <1>1, <2>3, <2>4
<1>2. IInv /\ [Next]_vars => [(CallFlow \/ Launch) => worker[Job].stage = "none"]_vars
  BY <1>1
<1> QED BY <1>2, Invariance, PTL DEF Spec, RunOnce

=============================================================================
