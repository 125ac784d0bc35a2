------------------------ MODULE ForeverRetryProofs ------------------------
(***************************************************************************)
(* As long as deployments follow one another and none reads a pid file     *)
(* that is being written, the guard of launch_forever_retry() works: one   *)
(* worker at a time, and the pid file names it.  Kills, deaths before the  *)
(* loop and unrelated processes that take a free pid are all allowed.      *)
(***************************************************************************)
EXTENDS ForeverRetry, TLAPS

\* The initial state satisfies the inductive invariant.
LEMMA InitInv == ASSUME Init PROVE RetryInv
<1> USE RetryAssumption DEF Init, Working, Retrying
<1>1. TypeOK
  <2>1. 0 \in 0..Retries /\ 0 \in 0..MaxKills /\ 0 \in 0..MaxOthers
    OBVIOUS
  <2>2. tries \in [Runs -> 0..Retries] /\ kills \in 0..MaxKills /\ others \in 0..MaxOthers
    BY <2>1
  <2>3. crossed \in BOOLEAN /\ ready \in BOOLEAN /\ done \in BOOLEAN /\ since \subseteq Started /\ lost \subseteq Runs
    OBVIOUS
  <2>4. /\ proc \in [Pids -> Working \cup {"free", "zombie", "other"}]
        /\ parent \in [Pids -> Runs \cup {"none"}]
        /\ got \in [Runs -> Pids \cup {"none"}]
        /\ status \in [Runs -> {"none", "ok", "pending"}]
    OBVIOUS
  <2>5. \A r \in Runs : rpc[r] = "idle"
    OBVIOUS
  <2> QED
    BY <2>2, <2>3, <2>4, <2>5 DEF TypeOK
<1>2. OneRun /\ Named /\ Looked /\ Alone_
  BY DEF OneRun, Named, Looked, Alone_
<1> QED
  BY <1>1, <1>2 DEF RetryInv

\* Steps of a run preserve it.
LEMMA RunInv ==
  ASSUME RetryInv, NEW r \in Runs, Run(r)
  PROVE  RetryInv'
<1> USE RetryAssumption DEF RetryInv, TypeOK, OneRun, Named, Naming, Looked, Alone_, Started, Ended,
        Working, Retrying, At, Proc, files, procs, deploys, server, bounds
<1>1. CASE StartRun(r)
  BY <1>1 DEF StartRun
<1>2. CASE StepWorks(r)
  BY <1>2 DEF StepWorks
<1>3. CASE StepFails(r)
  BY <1>3 DEF StepFails
<1>4. CASE ReadPid(r)
  <2>1. TypeOK'
    BY <1>4 DEF ReadPid
  <2>2. ASSUME ~crossed' PROVE OneRun' /\ Named' /\ Looked' /\ Alone_'
    <3>1. ~crossed /\ pidfile # "empty" /\ rpc[r] = "read"
      BY <1>4, <2>2 DEF ReadPid
    <3>2. \A p \in Pids : proc[p] \in Working => pidfile = p
      BY <3>1
    <3>3. OneRun' /\ Alone_' /\ Named'
      BY <1>4, <3>1, <3>2 DEF ReadPid
    <3>4. Looked'
      BY <1>4, <3>1, <3>2 DEF ReadPid
    <3> QED
      BY <3>3, <3>4
  <2> QED
    BY <2>1, <2>2
<1>5. CASE Probe(r)
  BY <1>5 DEF Probe
<1>6. CASE Unlink(r)
  BY <1>6 DEF Unlink, PidRemoved
<1>7. ASSUME NEW p \in Pids, Spawn(r, p) PROVE RetryInv'
  BY <1>7 DEF Spawn
<1>8. CASE Truncate(r)
  BY <1>8 DEF Truncate, PidTruncated
<1>9. CASE Record(r)
  <2>1. got[r] \in Pids /\ pidfile' = got[r] /\ rpc' = [rpc EXCEPT ![r] = "report"]
    BY <1>9 DEF Record, PidWritten
  <2>2. TypeOK'
    BY <1>9, <2>1 DEF Record, PidWritten
  <2>3. ~crossed' => OneRun' /\ Looked' /\ Alone_'
    BY <1>9, <2>1 DEF Record
  <2>4. ~crossed' => Named'
    BY <1>9, <2>1 DEF Record
  <2> QED
    BY <2>2, <2>3, <2>4
<1>10. CASE Report(r)
  BY <1>10 DEF Report
<1> QED
  BY <1>1, <1>2, <1>3, <1>4, <1>5, <1>6, <1>7, <1>8, <1>9, <1>10 DEF Run

\* So do those of a worker and of the environment.
LEMMA WorkerInv ==
  ASSUME RetryInv, NEW p \in Pids,
         Worker(p) \/ BootDies(p) \/ Killed(p) \/ OtherStarts(p) \/ OtherEnds(p)
  PROVE  RetryInv'
<1> USE RetryAssumption DEF RetryInv, TypeOK, OneRun, Named, Naming, Looked, Alone_, Started, Ended,
        Working, Retrying, Proc, Exits, files, procs, deploys, server, bounds
<1>1. CASE Boot(p)
  BY <1>1 DEF Boot, PidTruncated
<1>2. CASE BootWrite(p)
  BY <1>2 DEF BootWrite, PidWritten
<1>3. CASE Try(p)
  BY <1>3 DEF Try
<1>4. CASE Stop(p)
  BY <1>4 DEF Stop, PidRemoved
<1>5. CASE BootDies(p)
  BY <1>5 DEF BootDies, Relying
<1>6. CASE Killed(p)
  BY <1>6 DEF Killed, Relying
<1>7. CASE OtherStarts(p)
  BY <1>7 DEF OtherStarts
<1>8. CASE OtherEnds(p)
  BY <1>8 DEF OtherEnds
<1> QED
  BY <1>1, <1>2, <1>3, <1>4, <1>5, <1>6, <1>7, <1>8 DEF Worker

\* Every step preserves it.
LEMMA StepInv ==
  ASSUME RetryInv, [Next]_vars
  PROVE  RetryInv'
<1>1. CASE \E r \in Runs : Run(r)
  BY <1>1, RunInv
<1>2. CASE \E p \in Pids : Worker(p) \/ BootDies(p) \/ Killed(p) \/ OtherStarts(p) \/ OtherEnds(p)
  BY <1>2, WorkerInv
<1>3. CASE ServerReady
  BY <1>3 DEF ServerReady, RetryInv, TypeOK, OneRun, Named, Naming, Looked, Alone_, Started, files, procs, deploys, bounds
<1>4. CASE UNCHANGED vars
  BY <1>4 DEF vars, RetryInv, TypeOK, OneRun, Named, Naming, Looked, Alone_, Started, files, procs, deploys, server, bounds
<1> QED
  BY <1>1, <1>2, <1>3, <1>4 DEF Next

\* The inductive invariant holds of every behaviour.
LEMMA Inductive == Spec => []RetryInv
<1>1. Init => RetryInv
  BY InitInv
<1>2. RetryInv /\ [Next]_vars => RetryInv'
  BY StepInv
<1> QED
  BY <1>1, <1>2, PTL DEF Spec

\* OneVisible: whatever is killed, dies early or takes a pid, a rerun of a
\* deployment never adds a second worker for the same step, and the pid file
\* names the worker while it is in its loop.
THEOREM OneVisible == Spec => []OneVisibleWorker
<1>1. RetryInv => AtMostOneWorker
  BY DEF RetryInv, Alone_, AtMostOneWorker, Working, Retrying
<1>2. RetryInv => WorkerVisible
  BY DEF RetryInv, Named, WorkerVisible, Working, Retrying
<1>3. RetryInv => OneVisibleWorker
  BY <1>1, <1>2 DEF OneVisibleWorker
<1> QED
  BY <1>3, Inductive, PTL

\* RetryTypeCorrect: every variable keeps its type, however many runs there are
\* at a time.
THEOREM RetryTypeCorrect == Spec => []TypeOK
<1>1. RetryInv => TypeOK
  BY DEF RetryInv
<1> QED
  BY <1>1, Inductive, PTL

\* A worker about to stop has seen its step verified: what NeverGivesUp needs.
Finished == \A p \in Pids : proc[p] = "stop" => done

\* Every step keeps it.
LEMMA FinishedStep ==
  ASSUME TypeOK, Finished, [Next]_vars
  PROVE  Finished'
<1> USE DEF Finished, TypeOK, Proc, Exits, files, procs, deploys, server, bounds
<1>1. ASSUME NEW r \in Runs, Run(r) PROVE Finished'
  BY <1>1 DEF Run, StartRun, StepWorks, StepFails, ReadPid, Probe, Unlink, Spawn, Truncate, Record, Report
<1>2. ASSUME NEW p \in Pids, Worker(p) PROVE Finished'
  BY <1>2 DEF Worker, Boot, BootWrite, Try, Stop
<1>3. ASSUME NEW p \in Pids, BootDies(p) \/ Killed(p) \/ OtherStarts(p) \/ OtherEnds(p) PROVE Finished'
  BY <1>3 DEF BootDies, Killed, OtherStarts, OtherEnds
<1>4. CASE ServerReady
  BY <1>4 DEF ServerReady
<1>5. CASE UNCHANGED vars
  BY <1>5 DEF vars
<1> QED
  BY <1>1, <1>2, <1>3, <1>4, <1>5 DEF Next

\* One step of anybody ends a worker only when its step is done or it was killed.
LEMMA EndsDone ==
  ASSUME TypeOK, Finished, [Next]_vars, NEW p \in Pids, proc[p] \in Working, proc'[p] \notin Working
  PROVE  done \/ kills' # kills
<1> USE DEF Finished, TypeOK, Proc, Exits, Working, Retrying, files, procs, deploys, server, bounds
<1>1. ASSUME NEW r \in Runs, Run(r) PROVE FALSE
  BY <1>1 DEF Run, StartRun, StepWorks, StepFails, ReadPid, Probe, Unlink, Spawn, Truncate, Record, Report
<1>2. ASSUME NEW q \in Pids, Worker(q) PROVE done
  BY <1>2 DEF Worker, Boot, BootWrite, Try, Stop
<1>3. ASSUME NEW q \in Pids, BootDies(q) \/ Killed(q) PROVE kills' # kills
  BY <1>3 DEF BootDies, Killed
<1>4. ASSUME NEW q \in Pids, OtherStarts(q) \/ OtherEnds(q) PROVE FALSE
  BY <1>4 DEF OtherStarts, OtherEnds
<1>5. CASE ServerReady
  BY <1>5 DEF ServerReady
<1>6. CASE UNCHANGED vars
  BY <1>6 DEF vars
<1> QED
  BY <1>1, <1>2, <1>3, <1>4, <1>5, <1>6 DEF Next

\* WorkersPersist: a worker that was not killed ends only with its step done,
\* also when runs overlap and the pid file is read half written.
THEOREM WorkersPersist == Spec => NeverGivesUp
<1>1. Init => Finished
  BY DEF Init, Finished
<1>2. TypeOK /\ Finished /\ [Next]_vars => Finished'
  BY FinishedStep
<1>3. TypeOK /\ Finished /\ [Next]_vars
        => [\A p \in Pids : proc[p] \in Working /\ proc'[p] \notin Working => done \/ kills' # kills]_vars
  BY EndsDone
<1> QED
  BY <1>1, <1>2, <1>3, RetryTypeCorrect, PTL DEF Spec, NeverGivesUp

\* What Ensured needs: an unrelated process is counted; a worker, or what is left of one, belongs to
\* a run that has launched it, and what is left goes when that run ends; and the worker a run has
\* launched or found goes on retrying until the step is done.
Strangers == others = 0 => \A p \in Pids : proc[p] # "other"
Children == \A p \in Pids : proc[p] \in Working \cup {"zombie"} =>
              /\ rpc[parent[p]] \in {"truncate", "record", "report", "ended"}
              /\ proc[p] = "zombie" => rpc[parent[p]] # "ended"
Launched == \A r \in Runs \ lost : rpc[r] \in {"truncate", "record"} => done \/ proc[got[r]] \in Retrying
Found == \A r \in Runs \ lost : ~crossed /\ others = 0 /\ rpc[r] = "report"
           => done \/ \E p \in Pids : proc[p] \in Retrying
EnsureInv == Finished /\ Strangers /\ Children /\ Launched /\ Found

\* Nobody relies on a worker before the first run.
LEMMA InitEnsure == ASSUME Init PROVE EnsureInv
  BY DEF Init, EnsureInv, Finished, Strangers, Children, Launched, Found, Working, Retrying

\* Steps of a run.
LEMMA RunEnsure ==
  ASSUME RetryInv, EnsureInv, NEW r \in Runs, Run(r)
  PROVE  Strangers' /\ Children' /\ Launched' /\ Found'
<1> USE DEF EnsureInv, Finished, Strangers, Children, Launched, Found, RetryInv, TypeOK, Working, Retrying,
            At, Proc, files, procs, deploys, server, bounds
<1>1. CASE StartRun(r)
  BY <1>1 DEF StartRun
<1>2. CASE StepWorks(r)
  BY <1>2 DEF StepWorks
<1>3. CASE StepFails(r)
  BY <1>3 DEF StepFails
<1>4. CASE ReadPid(r)
  BY <1>4 DEF ReadPid
<1>5. CASE Probe(r)
  <2>1. /\ rpc[r] = "probe" /\ got[r] \in Pids
        /\ rpc' = [rpc EXCEPT ![r] = IF proc[got[r]] # "free" THEN "report" ELSE "unlink"]
        /\ UNCHANGED <<proc, parent, got, done, crossed, others, lost>>
    BY <1>5 DEF Probe
  <2>2. Strangers' /\ Launched'
    BY <2>1
  <2>3. Children'
    BY <2>1
  <2>4. ASSUME ~crossed, others = 0, proc[got[r]] # "free" PROVE done \/ proc[got[r]] \in Retrying
    <3>1. proc[got[r]] # "zombie"
      BY <2>1, <2>4 DEF OneRun
    <3> QED
      BY <2>1, <2>4, <3>1
  <2>5. Found'
    BY <2>1, <2>4
  <2> QED
    BY <2>2, <2>3, <2>5
<1>6. CASE Unlink(r)
  BY <1>6 DEF Unlink
<1>7. ASSUME NEW p \in Pids, Spawn(r, p) PROVE Strangers' /\ Children' /\ Launched' /\ Found'
  BY <1>7 DEF Spawn
<1>8. CASE Truncate(r)
  BY <1>8 DEF Truncate
<1>9. CASE Record(r)
  BY <1>9 DEF Record
<1>10. CASE Report(r)
  BY <1>10 DEF Report
<1> QED
  BY <1>1, <1>2, <1>3, <1>4, <1>5, <1>6, <1>7, <1>8, <1>9, <1>10 DEF Run

\* Steps of a worker and of the environment: a worker that is killed is lost to the runs that rely on it.
LEMMA WorkerEnsure ==
  ASSUME RetryInv, EnsureInv, NEW p \in Pids,
         Worker(p) \/ BootDies(p) \/ Killed(p) \/ OtherStarts(p) \/ OtherEnds(p)
  PROVE  Strangers' /\ Children' /\ Launched' /\ Found'
<1> USE RetryAssumption
    DEF EnsureInv, Finished, Strangers, Children, Launched, Found, RetryInv, TypeOK, Working, Retrying, Relying,
        Proc, Exits, files, procs, deploys, server, bounds
<1>1. CASE Boot(p) \/ BootWrite(p)
  BY <1>1 DEF Boot, BootWrite
<1>2. CASE Try(p)
  BY <1>2 DEF Try
<1>3. CASE Stop(p)
  BY <1>3 DEF Stop
<1>4. CASE BootDies(p)
  BY <1>4 DEF BootDies
<1>5. CASE Killed(p)
  BY <1>5 DEF Killed
<1>6. CASE OtherStarts(p)
  BY <1>6 DEF OtherStarts
<1>7. CASE OtherEnds(p)
  BY <1>7 DEF OtherEnds
<1> QED
  BY <1>1, <1>2, <1>3, <1>4, <1>5, <1>6, <1>7 DEF Worker

\* Every step keeps it.
LEMMA StepEnsure ==
  ASSUME RetryInv, EnsureInv, [Next]_vars
  PROVE  EnsureInv'
<1>1. Finished'
  BY FinishedStep DEF EnsureInv, RetryInv
<1>2. CASE \E r \in Runs : Run(r)
  BY <1>1, <1>2, RunEnsure DEF EnsureInv
<1>3. CASE \E p \in Pids : Worker(p) \/ BootDies(p) \/ Killed(p) \/ OtherStarts(p) \/ OtherEnds(p)
  BY <1>1, <1>3, WorkerEnsure DEF EnsureInv
<1>4. CASE ServerReady \/ UNCHANGED vars
  <2>1. UNCHANGED <<proc, parent, rpc, got, done, crossed, others, lost>>
    BY <1>4 DEF ServerReady, vars, procs, deploys, server, bounds
  <2> QED
    BY <1>1, <2>1 DEF EnsureInv, Strangers, Children, Launched, Found
<1> QED
  BY <1>2, <1>3, <1>4 DEF Next

\* StepEnsured: for any number of runs, pids and attempts, until two deployments cross and while no pid is
\* another process's: when launch_forever_retry() has returned the step is done or somebody retries it,
\* unless the worker was killed after the launcher looked.
THEOREM StepEnsured == Spec => []Ensured
<1>1. Init => EnsureInv
  BY InitEnsure
<1>2. RetryInv /\ EnsureInv /\ [Next]_vars => EnsureInv'
  BY StepEnsure
<1>3. EnsureInv => Ensured
  BY DEF EnsureInv, Found, Ensured
<1> QED
  BY <1>1, <1>2, <1>3, Inductive, PTL DEF Spec
=============================================================================
