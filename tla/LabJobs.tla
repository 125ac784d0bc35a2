------------------------------ MODULE LabJobs ------------------------------
(***************************************************************************)
(* The web interface's jobs: lab-builder-helper's lab_create() starts      *)
(* setup_lab under a shell that leaves the exit status in a file, and      *)
(* job_state() works out what has become of it from that file and /proc.   *)
(* The live status page (status.html) polls job_state() until it is told   *)
(* that the job has ended.                                                 *)
(*                                                                         *)
(* Each request is a process of its own.  Tokens, logs and passphrases are *)
(* left out.                                                               *)
(***************************************************************************)
EXTENDS Naturals, FiniteSets

CONSTANTS
    Labs, Jobs, Pids,
    Requests,    \* lab_create() requests, each made once, at most
    MaxFaults    \* bound on jobs and helpers killed and pids taken by other processes

ASSUME JobsAssumption ==
    /\ MaxFaults \in Nat
    /\ "none" \notin Jobs \cup Pids \cup Labs

VARIABLES
    made, meta, rc,        \* job directories, the pid in job.json, the rc file
    labOf,                 \* the lab a job is for
    proc, jobOf,           \* each process and the job it runs
    outcome,               \* how the job ended, which its summary in the log says
    req, lab, todo, cur,   \* each request: where it is, its lab, the directories it
    pid,                   \*   has to look at, the one it looks at or made, its child
    page, shown,           \* the status page of each job: where it is, what it says
    crossed,               \* whether two requests were handled at a time
    kills, losses, others  \* faults so far: jobs killed, helpers killed, pids taken

disk     == <<made, meta, rc, labOf>>
system   == <<proc, jobOf, outcome>>
requests == <<req, lab, todo, cur, pid>>
pages    == <<page, shown>>
bounds   == <<crossed, kills, losses, others>>
vars     == <<disk, system, requests, pages, bounds>>

Alive(p)   == proc[p] # "free"
Running(j) == \E p \in Pids : proc[p] \notin {"free", "other"} /\ jobOf[p] = j
Building(j) == \E p \in Pids : proc[p] = "lab" /\ jobOf[p] = j
Idle       == {c \in Requests : req[c] \in {"new", "started", "refused", "lost"}}
At(c, s)   == req' = [req EXCEPT ![c] = s]
Codes      == {"0", "1"}
Outcomes   == {"ok", "pending", "failed"}

\* sys.exit(1 if _report.failed else 0)
ExitCode(o) == IF o = "failed" THEN "1" ELSE "0"

Init ==
    /\ made = {}
    /\ meta = [j \in Jobs |-> "none"] /\ rc = [j \in Jobs |-> "absent"]
    /\ labOf = [j \in Jobs |-> "none"]
    /\ proc = [p \in Pids |-> "free"] /\ jobOf = [p \in Pids |-> "none"]
    /\ outcome = [j \in Jobs |-> "none"]
    /\ req = [c \in Requests |-> "new"] /\ lab = [c \in Requests |-> "none"]
    /\ todo = [c \in Requests |-> {}] /\ cur = [c \in Requests |-> "none"]
    /\ pid = [c \in Requests |-> "none"]
    /\ page = [j \in Jobs |-> "closed"] /\ shown = [j \in Jobs |-> "none"]
    /\ crossed = FALSE /\ kills = 0 /\ losses = 0 /\ others = 0

(***************************************************************************)
(* lab_create()                                                            *)
(***************************************************************************)
LabCreate(c, l) ==
    /\ req[c] = "new"
    /\ crossed' = (crossed \/ Idle # Requests)
    /\ lab' = [lab EXCEPT ![c] = l]
    /\ todo' = [todo EXCEPT ![c] = made]
    /\ At(c, "scan")
    /\ UNCHANGED <<disk, system, cur, pid, pages, kills, losses, others>>

\* The next directory.  One without job.json is passed over, and so is a job
\* whose exit status is there; a job without one may be running.
ScanRc(c, j) ==
    /\ req[c] = "scan" /\ j \in todo[c]
    /\ todo' = [todo EXCEPT ![c] = @ \ {j}]
    /\ IF meta[j] # "none" /\ rc[j] \notin Codes
         THEN At(c, "look") /\ cur' = [cur EXCEPT ![c] = j]
         ELSE UNCHANGED <<req, cur>>
    /\ UNCHANGED <<disk, system, lab, pid, pages, bounds>>

\* MUTANT of ScanProc: a job that runs does not refuse the request.
ScanProcAll(c) ==
    /\ req[c] = "look"
    /\ At(c, "scan")
    /\ UNCHANGED <<disk, system, lab, todo, cur, pid, pages, bounds>>

\* MUTANT of ScanProc: a job without an exit status is taken to be running.
ScanProcNever(c) ==
    /\ req[c] = "look"
    /\ At(c, IF labOf[cur[c]] = lab[c] THEN "refused" ELSE "scan")
    /\ UNCHANGED <<disk, system, lab, todo, cur, pid, pages, bounds>>

\* /proc says whether its pid is in use; a running job of the lab refuses it.
ScanProc(c) ==
    /\ req[c] = "look"
    /\ At(c, IF Alive(meta[cur[c]]) /\ labOf[cur[c]] = lab[c] THEN "refused" ELSE "scan")
    /\ UNCHANGED <<disk, system, lab, todo, cur, pid, pages, bounds>>

\* The first name that mkdir() accepts; nobody else can take it.  Names that are
\* not taken are interchangeable, so one of them stands for all.
Mkdir(c, j) ==
    /\ req[c] = "scan" /\ todo[c] = {}
    /\ j \notin made /\ j = CHOOSE i \in Jobs : i \notin made
    /\ made' = made \cup {j}
    /\ labOf' = [labOf EXCEPT ![j] = lab[c]]
    /\ cur' = [cur EXCEPT ![c] = j]
    /\ At(c, "popen")
    /\ UNCHANGED <<meta, rc, system, lab, todo, pid, pages, bounds>>

Popen(c, p) ==
    /\ req[c] = "popen" /\ ~Alive(p)
    /\ proc' = [proc EXCEPT ![p] = "lab"]
    /\ jobOf' = [jobOf EXCEPT ![p] = cur[c]]
    /\ pid' = [pid EXCEPT ![c] = p]
    /\ At(c, "meta")
    /\ UNCHANGED <<disk, outcome, lab, todo, cur, pages, bounds>>

\* job.json makes the job visible; the answer has the page's address.
WriteMeta(c) ==
    /\ req[c] = "meta"
    /\ meta' = [meta EXCEPT ![cur[c]] = pid[c]]
    /\ page' = [page EXCEPT ![cur[c]] = "poll"]
    /\ At(c, "started")
    /\ UNCHANGED <<made, rc, labOf, system, lab, todo, cur, pid, shown, bounds>>

(***************************************************************************)
(* pub_status() and the page                                               *)
(***************************************************************************)
\* MUTANT of PollRc: an exit status that is there means success.
PollRcAnyIsDone(j) ==
    /\ page[j] = "poll"
    /\ IF rc[j] \in Codes
         THEN /\ shown' = [shown EXCEPT ![j] = "done"]
              /\ page' = [page EXCEPT ![j] = "final"]
         ELSE page' = [page EXCEPT ![j] = "look"] /\ UNCHANGED shown
    /\ UNCHANGED <<disk, system, requests, bounds>>

\* job_state() reads the exit status; the page puts the summary above it, and
\* goes on polling while that lists something pending.
PollRc(j) ==
    /\ page[j] = "poll"
    /\ IF rc[j] \in Codes
         THEN LET says == IF rc[j] # "0" THEN "failed"
                          ELSE IF outcome[j] = "pending" THEN "pending" ELSE "done"
              IN  /\ shown' = [shown EXCEPT ![j] = says]
                  /\ page' = [page EXCEPT ![j] = IF says = "pending" THEN "poll" ELSE "final"]
         ELSE page' = [page EXCEPT ![j] = "look"] /\ UNCHANGED shown
    /\ UNCHANGED <<disk, system, requests, bounds>>

\* MUTANT of PollProc: without an exit status the job is running.
PollProcRunning(j) ==
    /\ page[j] = "look"
    /\ shown' = [shown EXCEPT ![j] = "running"]
    /\ page' = [page EXCEPT ![j] = "poll"]
    /\ UNCHANGED <<disk, system, requests, bounds>>

\* When there was none, job_state() looks at /proc; after "failed" the page
\* polls no more.
PollProc(j) ==
    /\ page[j] = "look"
    /\ shown' = [shown EXCEPT ![j] = IF Alive(meta[j]) THEN "running" ELSE "failed"]
    /\ page' = [page EXCEPT ![j] = IF Alive(meta[j]) THEN "poll" ELSE "final"]
    /\ UNCHANGED <<disk, system, requests, bounds>>

(***************************************************************************)
(* The job: /bin/sh -c '"$@"; echo $? > "$0"'                              *)
(***************************************************************************)
\* setup_lab prints its summary and ends, with status 1 when anything failed.
\* A step that it has handed off goes on in a worker with a log of its own.
LabEnds(p, o) ==
    /\ proc[p] = "lab"
    /\ proc' = [proc EXCEPT ![p] = "open"]
    /\ outcome' = [outcome EXCEPT ![jobOf[p]] = o]
    /\ UNCHANGED <<disk, jobOf, requests, pages, bounds>>

ShellOpens(p) ==
    /\ proc[p] = "open"
    /\ proc' = [proc EXCEPT ![p] = "echo"]
    /\ rc' = [rc EXCEPT ![jobOf[p]] = "empty"]
    /\ UNCHANGED <<made, meta, labOf, jobOf, outcome, requests, pages, bounds>>

ShellEchoes(p) ==
    /\ proc[p] = "echo"
    /\ proc' = [proc EXCEPT ![p] = "exit"]
    /\ rc' = [rc EXCEPT ![jobOf[p]] = ExitCode(outcome[jobOf[p]])]
    /\ UNCHANGED <<made, meta, labOf, jobOf, outcome, requests, pages, bounds>>

ShellExits(p) ==
    /\ proc[p] = "exit"
    /\ proc' = [proc EXCEPT ![p] = "free"]
    /\ UNCHANGED <<disk, jobOf, outcome, requests, pages, bounds>>

(***************************************************************************)
(* Faults                                                                  *)
(***************************************************************************)
MayFail == kills + losses + others < MaxFaults

\* The job's session is killed, or the host restarts.
JobKilled(p) ==
    /\ proc[p] \in {"lab", "open", "echo"} /\ MayFail
    /\ kills' = kills + 1
    /\ proc' = [proc EXCEPT ![p] = "free"]
    /\ outcome' = [outcome EXCEPT ![jobOf[p]] = "killed"]
    /\ UNCHANGED <<disk, jobOf, requests, pages, crossed, losses, others>>

\* The helper is killed; what it has started goes on.
HelperKilled(c) ==
    /\ c \notin Idle /\ MayFail
    /\ losses' = losses + 1
    /\ At(c, "lost")
    /\ UNCHANGED <<disk, system, lab, todo, cur, pid, pages, crossed, kills, others>>

OtherStarts(p) ==
    /\ ~Alive(p) /\ MayFail
    /\ others' = others + 1
    /\ proc' = [proc EXCEPT ![p] = "other"]
    /\ UNCHANGED <<disk, jobOf, outcome, requests, pages, crossed, kills, losses>>

OtherEnds(p) ==
    /\ proc[p] = "other"
    /\ proc' = [proc EXCEPT ![p] = "free"]
    /\ UNCHANGED <<disk, jobOf, outcome, requests, pages, bounds>>

-----------------------------------------------------------------------------
Request(c) ==
    \/ \E l \in Labs : LabCreate(c, l)
    \/ \E j \in Jobs : ScanRc(c, j) \/ Mkdir(c, j)
    \/ ScanProc(c)
    \/ \E p \in Pids : Popen(c, p)
    \/ WriteMeta(c)

Page(j) == PollRc(j) \/ PollProc(j)
Shell(p) ==
    \/ \E o \in Outcomes : LabEnds(p, o)
    \/ ShellOpens(p) \/ ShellEchoes(p) \/ ShellExits(p)

Next ==
    \/ \E c \in Requests : Request(c) \/ HelperKilled(c)
    \/ \E j \in Jobs : Page(j)
    \/ \E p \in Pids : Shell(p) \/ JobKilled(p) \/ OtherStarts(p) \/ OtherEnds(p)

\* A page polls, and setup_lab ends (SetupLab's Termination).
Fairness == (\A j \in Jobs : WF_vars(Page(j))) /\ (\A p \in Pids : WF_vars(Shell(p)))

Spec == Init /\ [][Next]_vars /\ Fairness

-----------------------------------------------------------------------------
\* TypeOK: shapes; and job.json, the rc file and a page are those of a
\* directory that was made, and what a request or a page is about to use is there.
TypeOK ==
    /\ made \subseteq Jobs
    /\ meta \in [Jobs -> Pids \cup {"none"}]
    /\ rc \in [Jobs -> Codes \cup {"absent", "empty"}]
    /\ labOf \in [Jobs -> Labs \cup {"none"}]
    /\ proc \in [Pids -> {"free", "lab", "open", "echo", "exit", "other"}]
    /\ jobOf \in [Pids -> Jobs \cup {"none"}]
    /\ outcome \in [Jobs -> Outcomes \cup {"none", "killed"}]
    /\ req \in [Requests -> {"new", "scan", "look", "popen", "meta", "started", "refused", "lost"}]
    /\ lab \in [Requests -> Labs \cup {"none"}]
    /\ todo \in [Requests -> SUBSET Jobs]
    /\ cur \in [Requests -> Jobs \cup {"none"}]
    /\ pid \in [Requests -> Pids \cup {"none"}]
    /\ page \in [Jobs -> {"closed", "poll", "look", "final"}]
    /\ shown \in [Jobs -> {"none", "running", "pending", "done", "failed"}]
    /\ crossed \in BOOLEAN /\ {kills, losses, others} \subseteq 0..MaxFaults
    /\ \A j \in Jobs : (rc[j] # "absent" \/ meta[j] # "none" \/ page[j] # "closed") => j \in made
    /\ \A j \in Jobs : page[j] # "closed" => meta[j] \in Pids
    /\ \A c \in Requests :
         /\ req[c] \in {"look", "popen", "meta"} => cur[c] \in Jobs
         /\ req[c] = "look" => meta[cur[c]] \in Pids
         /\ req[c] = "meta" => pid[c] \in Pids

\* OneRunPerLab: "refuse while one runs for that lab" (lab_create()): no two
\* setup_lab processes build the same lab, as long as requests follow one
\* another and no helper is killed.
OneRunPerLab == ~crossed /\ losses = 0 => \A i, j \in Jobs : Building(i) /\ Building(j) /\ labOf[i] = labOf[j] => i = j

\* OwnDirectory: two runs "within the same second" do not collide: one process
\* at most writes the log and the exit status of a job.
OwnDirectory == \A p, q \in Pids :
    {proc[p], proc[q]} \cap {"free", "other"} = {} /\ jobOf[p] = jobOf[q] => p = q

\* RefusedRightly: a request is refused for a job that has not ended, as long as
\* no pid is used a second time, by another job or by an unrelated process.
OwnPids == others = 0 /\ \A b, c \in Requests : pid[b] = pid[c] /\ pid[b] # "none" => b = c
RefusedRightly == [][\A c \in Requests : OwnPids /\ req[c] = "look" /\ req'[c] = "refused" => Running(cur[c])]_vars

\* DoneTruthful: "Done - the lab is ready" is said of a run that ended with
\* nothing failed and nothing pending.
DoneTruthful == \A j \in Jobs : shown[j] = "done" => outcome[j] = "ok"

\* PageSettles: a page does not say "running" for ever: it comes to an end, or
\* says that something is pending, as long as the job's pid is not another's.
PageSettles == \A j \in Jobs :
    (page[j] = "poll") ~> (page[j] = "final" \/ shown[j] = "pending" \/ \E p \in Pids : meta[j] = p /\ proc[p] = "other")

-----------------------------------------------------------------------------
(***************************************************************************)
(* What makes the properties inductive                                     *)
(***************************************************************************)
Live(p) == proc[p] \notin {"free", "other"}

\* What a job has left behind is what its process has come to.
Staged ==
    /\ \A p \in Pids : Live(p) =>
         /\ jobOf[p] \in made
         /\ proc[p] = "lab" => rc[jobOf[p]] = "absent" /\ outcome[jobOf[p]] = "none"
         /\ proc[p] = "open" => rc[jobOf[p]] = "absent" /\ outcome[jobOf[p]] \in Outcomes
         /\ proc[p] = "echo" => rc[jobOf[p]] = "empty" /\ outcome[jobOf[p]] \in Outcomes
         /\ proc[p] = "exit" => rc[jobOf[p]] \in Codes
    /\ \A j \in Jobs : rc[j] \in Codes => outcome[j] \in Outcomes /\ rc[j] = ExitCode(outcome[j])
    /\ \A j \in Jobs : shown[j] = "done" => rc[j] \in Codes
    /\ \A j \in Jobs \ made : outcome[j] = "none"

\* A directory that was just made is its request's alone.
Claimed ==
    /\ \A c \in Requests : req[c] \in {"popen", "meta"} => cur[c] \in made /\ meta[cur[c]] = "none"
    /\ \A b, c \in Requests :
         {req[b], req[c]} \subseteq {"popen", "meta"} /\ cur[b] = cur[c] => b = c
    /\ \A c \in Requests : req[c] = "popen" =>
         /\ rc[cur[c]] = "absent" /\ outcome[cur[c]] = "none"
         /\ \A p \in Pids : Live(p) => jobOf[p] # cur[c]

\* A pid in job.json, and a process, are those of the request that made the job.
Children ==
    /\ \A c \in Requests : pid[c] # "none" => req[c] \in {"meta", "started", "lost"}
    /\ \A j \in Jobs : meta[j] # "none" => \E c \in Requests : pid[c] = meta[j] /\ cur[c] = j
    /\ \A p \in Pids : Live(p) => \E c \in Requests : pid[c] = p /\ cur[c] = jobOf[p]
    /\ others = 0 => \A p \in Pids : proc[p] # "other"

\* While requests follow one another, a job that is building is in job.json or is
\* the request's own, and a request has yet to look at it or will not go on.
InTurn ==
    /\ \A b, c \in Requests : b \notin Idle /\ c \notin Idle => b = c
    /\ \A p \in Pids : proc[p] = "lab" =>
         \/ meta[jobOf[p]] = p
         \/ \E c \in Requests : req[c] = "meta" /\ cur[c] = jobOf[p] /\ pid[c] = p
    /\ \A c \in Requests, p \in Pids : proc[p] = "lab" /\ labOf[jobOf[p]] = lab[c] =>
         /\ req[c] \in {"scan", "look"} => jobOf[p] \in todo[c] \/ (req[c] = "look" /\ cur[c] = jobOf[p])
         /\ req[c] # "popen"
    /\ \A c \in Requests : req[c] = "popen" => labOf[cur[c]] = lab[c]
    /\ \A p, q \in Pids : proc[p] = "lab" /\ proc[q] = "lab" /\ labOf[jobOf[p]] = labOf[jobOf[q]] => p = q

JobsInv ==
    /\ TypeOK /\ OwnDirectory /\ Staged /\ DoneTruthful /\ Claimed /\ Children
    /\ ~crossed /\ losses = 0 => InTurn
=============================================================================
