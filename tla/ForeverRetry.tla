---------------------------- MODULE ForeverRetry ----------------------------
(***************************************************************************)
(* The forever-retry workers of libs/spacecmd_common.py: a provisioning    *)
(* step that its installer cannot finish is handed to a detached process   *)
(* that retries it until it succeeds; a pid file says who is retrying.     *)
(*                                                                         *)
(* One key, that is one step of one server; workers of other keys share    *)
(* nothing with it.  A run is one installer under one setup_lab.  The two  *)
(* seconds of grace in forever_retry_handoff_since(), which can only turn  *)
(* "ok" into "pending", and the heartbeat are left out.                    *)
(***************************************************************************)
EXTENDS Naturals, FiniteSets

CONSTANTS
    Runs,       \* deployments that reach the step, each once
    Pids,       \* process ids
    Retries,    \* attempts an installer makes itself
    MaxKills,   \* bound on workers that are killed or die before their loop
    MaxOthers   \* bound on unrelated processes that take a pid

ASSUME RetryAssumption ==
    /\ Retries \in Nat \ {0}
    /\ MaxKills \in Nat /\ MaxOthers \in Nat
    /\ {"absent", "empty"} \cap Pids = {}

VARIABLES
    pidfile, since,       \* the pid file, and the runs that began before it was written
    proc, parent,         \* each process, and the run that launched it
    rpc, tries, got,      \* each run: where it is, its attempts, the pid it read or launched
    status,               \*   and what setup_lab says of the add-on
    ready, done,          \* the server can do the step; the step is done
    crossed,              \* two runs were under way at a time, or one read half a pid file
    kills, others,        \* the bounds
    lost                  \* runs whose worker was killed, or died early, after they had looked

files    == <<pidfile, since>>
procs    == <<proc, parent>>
deploys  == <<rpc, tries, got, status>>
server   == <<ready, done>>
bounds   == <<crossed, kills, others>>
vars     == <<files, procs, deploys, server, bounds, lost>>

Retrying == {"boot", "write", "attempt"}   \* a worker that has not succeeded
Working  == Retrying \cup {"stop"}
Ended    == {r \in Runs : rpc[r] = "ended"}
Started  == {r \in Runs : rpc[r] # "idle"}

At(r, c)   == rpc' = [rpc EXCEPT ![r] = c]
Proc(p, c) == proc' = [proc EXCEPT ![p] = c]

\* Path.write_text(): truncated first; its time stamp is later than the start
\* of every run.
PidWritten(p) == pidfile' = p /\ since' = Started
PidTruncated  == pidfile' = "empty" /\ since' = Started
PidRemoved    == pidfile' = "absent" /\ since' = {}

Init ==
    /\ pidfile = "absent" /\ since = {}
    /\ proc = [p \in Pids |-> "free"]
    /\ parent = [p \in Pids |-> "none"]
    /\ rpc = [r \in Runs |-> "idle"]
    /\ tries = [r \in Runs |-> 0]
    /\ got = [r \in Runs |-> "none"]
    /\ status = [r \in Runs |-> "none"]
    /\ ready = FALSE /\ done = FALSE
    /\ crossed = FALSE /\ kills = 0 /\ others = 0 /\ lost = {}

(***************************************************************************)
(* A run                                                                   *)
(***************************************************************************)
\* setup_lab takes the time and starts the installer.
StartRun(r) ==
    /\ rpc[r] = "idle"
    /\ crossed' = (crossed \/ ~(Started \subseteq Ended))
    /\ At(r, "step")
    /\ since' = since \ {r}
    /\ UNCHANGED <<pidfile, procs, tries, got, status, server, kills, others, lost>>

\* run_provisioning_step(): an attempt that works, or one that raises.
StepWorks(r) ==
    /\ rpc[r] = "step" /\ ready
    /\ done' = TRUE
    /\ At(r, "report")
    /\ UNCHANGED <<files, procs, tries, got, status, ready, bounds, lost>>

StepFails(r) ==
    /\ rpc[r] = "step" /\ tries[r] < Retries
    /\ tries' = [tries EXCEPT ![r] = @ + 1]
    /\ At(r, IF tries[r] + 1 < Retries THEN "step" ELSE "read")
    /\ UNCHANGED <<files, procs, got, status, server, bounds, lost>>

\* forever_retry_running(): the file is read, perhaps between the truncation and
\* the write of another process ...
ReadPid(r) ==
    /\ rpc[r] = "read"
    /\ At(r, CASE pidfile = "absent" -> "spawn" [] pidfile = "empty" -> "unlink" [] OTHER -> "probe")
    /\ got' = [got EXCEPT ![r] = IF pidfile \in Pids THEN pidfile ELSE "none"]
    /\ crossed' = (crossed \/ pidfile = "empty")
    /\ UNCHANGED <<files, procs, tries, status, server, kills, others, lost>>

\* MUTANT of Probe: the pid file is believed.
ProbeNothing(r) ==
    /\ rpc[r] = "probe"
    /\ At(r, "report")
    /\ UNCHANGED <<files, procs, tries, got, status, server, bounds, lost>>

\* ... os.kill(pid, 0) asks for the process, which a zombie or an unrelated
\* process with that pid answers too ...
Probe(r) ==
    /\ rpc[r] = "probe"
    /\ At(r, IF proc[got[r]] # "free" THEN "report" ELSE "unlink")
    /\ UNCHANGED <<files, procs, tries, got, status, server, bounds, lost>>

\* ... and a file that names no process is removed.
Unlink(r) ==
    /\ rpc[r] = "unlink"
    /\ PidRemoved
    /\ At(r, "spawn")
    /\ UNCHANGED <<procs, tries, got, status, server, bounds, lost>>

\* MUTANT of Spawn: the launcher leaves the pid file to the worker.
SpawnUnrecorded(r, p) ==
    /\ rpc[r] = "spawn" /\ proc[p] = "free"
    /\ Proc(p, "boot")
    /\ parent' = [parent EXCEPT ![p] = r]
    /\ got' = [got EXCEPT ![r] = p]
    /\ At(r, "report")
    /\ UNCHANGED <<files, tries, status, server, bounds, lost>>

\* launch_forever_retry(): Popen, in a session of its own.
Spawn(r, p) ==
    /\ rpc[r] = "spawn" /\ proc[p] = "free"
    /\ Proc(p, "boot")
    /\ parent' = [parent EXCEPT ![p] = r]
    /\ got' = [got EXCEPT ![r] = p]
    /\ At(r, "truncate")
    /\ UNCHANGED <<files, tries, status, server, bounds, lost>>

Truncate(r) ==
    /\ rpc[r] = "truncate"
    /\ PidTruncated
    /\ At(r, "record")
    /\ UNCHANGED <<procs, tries, got, status, server, bounds, lost>>

\* The launcher writes the worker's pid, whatever the worker has done since.
Record(r) ==
    /\ rpc[r] = "record"
    /\ PidWritten(got[r])
    /\ At(r, "report")
    /\ UNCHANGED <<procs, tries, got, status, server, bounds, lost>>

\* The installer exits 0 and its zombies go; _addon_status() looks for a pid
\* file written since the start.
Report(r) ==
    /\ rpc[r] = "report"
    /\ status' = [status EXCEPT ![r] = IF r \in since THEN "pending" ELSE "ok"]
    /\ proc' = [p \in Pids |-> IF proc[p] = "zombie" /\ parent[p] = r THEN "free" ELSE proc[p]]
    /\ At(r, "ended")
    /\ UNCHANGED <<files, parent, tries, got, server, bounds, lost>>

(***************************************************************************)
(* A worker                                                                *)
(***************************************************************************)
\* A process ends: a zombie until the run that launched it ends.
Exits(p) == Proc(p, IF rpc[parent[p]] = "ended" THEN "free" ELSE "zombie")

\* The runs that have found or launched a worker and rely on it.
Relying == {r \in Runs : rpc[r] \in {"truncate", "record", "report"}}

\* run_forever_retry_worker() begins by writing the pid file itself.
Boot(p) ==
    /\ proc[p] = "boot"
    /\ PidTruncated /\ Proc(p, "write")
    /\ UNCHANGED <<parent, deploys, server, bounds, lost>>

BootWrite(p) ==
    /\ proc[p] = "write"
    /\ PidWritten(p)
    /\ Proc(p, "attempt")
    /\ UNCHANGED <<parent, deploys, server, bounds, lost>>

\* What the worker's script does before the loop dies, as a credential file
\* that cannot be written does.
BootDies(p) ==
    /\ proc[p] = "boot" /\ kills < MaxKills
    /\ kills' = kills + 1
    /\ Exits(p)
    /\ lost' = lost \cup Relying
    /\ UNCHANGED <<files, parent, deploys, server, crossed, others>>

\* MUTANT of Try: an attempt that returns is a success, with no verify().
TryUnverified(p) ==
    /\ proc[p] = "attempt"
    /\ done' = (done \/ ready)
    /\ Proc(p, "stop")
    /\ UNCHANGED <<files, parent, deploys, ready, bounds, lost>>

\* MUTANT of Try: verify() rejects every attempt.
TryRejected(p) ==
    /\ proc[p] = "attempt" /\ ready
    /\ UNCHANGED vars

\* An attempt.  One that raises, or returns and is not verified, changes
\* nothing and is tried again.
Try(p) ==
    /\ proc[p] = "attempt" /\ ready
    /\ done' = TRUE
    /\ Proc(p, "stop")
    /\ UNCHANGED <<files, parent, deploys, ready, bounds, lost>>

\* The finally clause removes the pid file, whoever it names.
Stop(p) ==
    /\ proc[p] = "stop"
    /\ PidRemoved
    /\ Exits(p)
    /\ UNCHANGED <<parent, deploys, server, bounds, lost>>

(***************************************************************************)
(* The environment                                                         *)
(***************************************************************************)
ServerReady ==
    /\ ~ready /\ ready' = TRUE
    /\ UNCHANGED <<files, procs, deploys, done, bounds, lost>>

\* The worker is killed, or the host restarts.
Killed(p) ==
    /\ proc[p] \in Working /\ kills < MaxKills
    /\ kills' = kills + 1
    /\ Exits(p)
    /\ lost' = lost \cup Relying
    /\ UNCHANGED <<files, parent, deploys, server, crossed, others>>

OtherStarts(p) ==
    /\ proc[p] = "free" /\ others < MaxOthers
    /\ others' = others + 1
    /\ Proc(p, "other")
    /\ UNCHANGED <<files, parent, deploys, server, crossed, kills, lost>>

OtherEnds(p) ==
    /\ proc[p] = "other"
    /\ Proc(p, "free")
    /\ UNCHANGED <<files, parent, deploys, server, bounds, lost>>

-----------------------------------------------------------------------------
Run(r) ==
    \/ StartRun(r) \/ StepWorks(r) \/ StepFails(r) \/ ReadPid(r) \/ Probe(r) \/ Unlink(r)
    \/ (\E p \in Pids : Spawn(r, p)) \/ Truncate(r) \/ Record(r) \/ Report(r)

Worker(p) == Boot(p) \/ BootWrite(p) \/ Try(p) \/ Stop(p)

Next ==
    \/ \E r \in Runs : Run(r)
    \/ \E p \in Pids : Worker(p) \/ BootDies(p) \/ Killed(p) \/ OtherStarts(p) \/ OtherEnds(p)
    \/ ServerReady

\* Processes that run are scheduled, and the server's synchronisation ends.
Fairness ==
    /\ \A r \in Runs : WF_vars(Run(r))
    /\ \A p \in Pids : WF_vars(Worker(p))
    /\ WF_vars(ServerReady)

Spec == Init /\ [][Next]_vars /\ Fairness

-----------------------------------------------------------------------------
(***************************************************************************)
(* Properties                                                              *)
(***************************************************************************)
\* TypeOK: shapes; and a run that is about to probe or record a pid has one.
TypeOK ==
    /\ pidfile \in {"absent", "empty"} \cup Pids
    /\ since \subseteq Started
    /\ proc \in [Pids -> Working \cup {"free", "zombie", "other"}]
    /\ parent \in [Pids -> Runs \cup {"none"}]
    /\ rpc \in [Runs -> {"idle", "step", "read", "probe", "unlink", "spawn", "truncate", "record", "report", "ended"}]
    /\ tries \in [Runs -> 0..Retries]
    /\ got \in [Runs -> Pids \cup {"none"}]
    /\ status \in [Runs -> {"none", "ok", "pending"}]
    /\ ready \in BOOLEAN /\ done \in BOOLEAN
    /\ crossed \in BOOLEAN /\ kills \in 0..MaxKills /\ others \in 0..MaxOthers
    /\ lost \subseteq Runs
    /\ \A r \in Runs : rpc[r] \in {"probe", "truncate", "record"} => got[r] \in Pids
    /\ \A p \in Pids : proc[p] \in Working \cup {"zombie"} => parent[p] \in Runs

\* AtMostOneWorker: no "second worker racing the first one for the very same
\* operation" (launch_forever_retry()), as long as runs follow one another and
\* none reads the pid file while it is written.
AtMostOneWorker == ~crossed => \A p, q \in Pids : {proc[p], proc[q]} \subseteq Retrying => p = q

\* WorkerVisible: under the same condition a worker in its loop is the one the
\* pid file names, or is about to name once more, so that
\* "forever_retry_running() sees it as live for exactly as long as it is".
WorkerVisible == ~crossed => \A p \in Pids : proc[p] = "attempt" =>
    pidfile = p \/ (pidfile = "empty" /\ \E r \in Runs : rpc[r] = "record" /\ got[r] = p)

\* OneVisibleWorker: both, which is what the guard of launch_forever_retry() and
\* the pid file are for: one worker for a step, and it can be seen.
OneVisibleWorker == AtMostOneWorker /\ WorkerVisible

\* What makes AtMostOneWorker and WorkerVisible inductive: one run is active,
\* the worker is the process the pid file names or is about to name, and no run
\* that has found no worker is wrong.
OneRun == \A r, q \in Runs : {rpc[r], rpc[q]} \cap {"idle", "ended"} = {} => r = q
Naming(p) == \E r \in Runs : rpc[r] \in {"truncate", "record"} /\ got[r] = p
Named  == \A p \in Pids : proc[p] \in Working =>
            \/ pidfile = p
            \/ proc[p] = "boot" /\ Naming(p)
            \/ pidfile = "empty" /\ (proc[p] = "write" \/ \E r \in Runs : rpc[r] = "record" /\ got[r] = p)
Looked == \A r \in Runs, p \in Pids : proc[p] \in Working =>
            /\ rpc[r] \notin {"unlink", "spawn"}
            /\ rpc[r] \in {"probe", "truncate", "record"} => got[r] = p
Alone_ == \A p, q \in Pids : {proc[p], proc[q]} \subseteq Working => p = q
RetryInv == TypeOK /\ (~crossed => OneRun /\ Named /\ Looked /\ Alone_)

\* Ensured: when launch_forever_retry() has returned, somebody retries the
\* step or it is done, unless the worker was killed after the launcher looked;
\* as long as runs follow one another and no unrelated process has taken a pid.
Ensured == \A r \in Runs \ lost :
             ~crossed /\ others = 0 /\ rpc[r] = "report" /\ tries[r] = Retries => done \/ \E p \in Pids : proc[p] \in Retrying

\* NeverGivesUp: a worker that ends by itself leaves the step done, whoever else
\* has been at the pid file.
NeverGivesUp == [][\A p \in Pids : proc[p] \in Working /\ proc'[p] \notin Working => done \/ kills' # kills]_vars

\* HandedOffFinishes: a step reported as handed off is eventually done, unless a
\* worker was killed, however many runs there are at a time and whatever they
\* read of the pid file.
HandedOffFinishes == \A r \in Runs : (status[r] = "pending") ~> (done \/ kills > 0)
=============================================================================
