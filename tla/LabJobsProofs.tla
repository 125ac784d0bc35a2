--------------------------- MODULE LabJobsProofs ---------------------------
(***************************************************************************)
(* The properties of the web interface's jobs for any number of labs,      *)
(* jobs, requests and faults: a job's files are its own, "done" is true,   *)
(* and a lab is built once at a time while requests follow one another.    *)
(***************************************************************************)
EXTENDS LabJobs, TLAPS

\* The initial state satisfies the inductive invariant.
LEMMA InitInv == ASSUME Init PROVE JobsInv
<1> USE JobsAssumption
<1>1. TypeOK
  <2>1. crossed \in BOOLEAN
    BY DEF Init
  <2>6. {kills, losses, others} \subseteq 0..MaxFaults
    BY DEF Init
  <2>2. /\ meta \in [Jobs -> Pids \cup {"none"}]
        /\ rc \in [Jobs -> Codes \cup {"absent", "empty"}]
        /\ labOf \in [Jobs -> Labs \cup {"none"}]
        /\ outcome \in [Jobs -> Outcomes \cup {"none", "killed"}]
        /\ shown \in [Jobs -> {"none", "running", "pending", "done", "failed"}]
    BY DEF Init
  <2>3. /\ jobOf \in [Pids -> Jobs \cup {"none"}]
        /\ lab \in [Requests -> Labs \cup {"none"}]
        /\ cur \in [Requests -> Jobs \cup {"none"}]
        /\ pid \in [Requests -> Pids \cup {"none"}]
    BY DEF Init
  <2>4. /\ made = {} /\ todo \in [Requests -> SUBSET Jobs]
        /\ \A c \in Requests : req[c] = "new"
        /\ \A j \in Jobs : rc[j] = "absent" /\ meta[j] = "none" /\ page[j] = "closed"
    BY DEF Init
  <2>5. /\ req \in [Requests -> {"new", "scan", "look", "popen", "meta", "started", "refused", "lost"}]
        /\ page \in [Jobs -> {"closed", "poll", "look", "final"}]
        /\ proc \in [Pids -> {"free", "lab", "open", "echo", "exit", "other"}]
    BY DEF Init
  <2> QED
    BY <2>1, <2>2, <2>3, <2>4, <2>5, <2>6 DEF TypeOK
<1>2. OwnDirectory /\ Staged /\ DoneTruthful /\ Claimed /\ Children
  BY DEF Init, OwnDirectory, Staged, DoneTruthful, Claimed, Children, Codes, Live
<1>3. InTurn
  BY DEF Init, InTurn, Idle
<1> QED
  BY <1>1, <1>2, <1>3 DEF JobsInv

\* Steps of a request preserve it.
LEMMA RequestInv ==
  ASSUME JobsInv, NEW c \in Requests, Request(c)
  PROVE  JobsInv'
<1> USE JobsAssumption DEF At, disk, system, pages, bounds
<1>1. ASSUME NEW l \in Labs, LabCreate(c, l) PROVE JobsInv'
  <2>1. TypeOK'
    BY <1>1 DEF LabCreate, JobsInv, TypeOK
  <2>2. OwnDirectory' /\ Staged' /\ DoneTruthful' /\ Claimed' /\ Children'
    BY <1>1 DEF LabCreate, JobsInv, TypeOK, OwnDirectory, Staged, DoneTruthful, Claimed, Children, Live
  <2>3. ~crossed' /\ losses' = 0 => InTurn'
    <3> SUFFICES ASSUME ~crossed', losses' = 0 PROVE InTurn'
      OBVIOUS
    <3>1. /\ \A b \in Requests : req[b] \in {"new", "started", "refused", "lost"}
          /\ InTurn /\ req' = [req EXCEPT ![c] = "scan"]
          /\ todo' = [todo EXCEPT ![c] = made] /\ lab' = [lab EXCEPT ![c] = l]
          /\ UNCHANGED <<disk, system, cur, pid>>
      BY <1>1 DEF LabCreate, JobsInv, TypeOK, Idle
    <3>2. \A p \in Pids : proc[p] = "lab" => jobOf[p] \in made
      BY DEF JobsInv, Staged, Live
    <3>3. \A b \in Requests : b # c => req'[b] \in {"new", "started", "refused", "lost"}
      BY <3>1 DEF JobsInv, TypeOK
    <3>4. req'[c] = "scan" /\ todo'[c] = made
      BY <3>1 DEF JobsInv, TypeOK
    <3>5. (\A b, d \in Requests : b \notin Idle /\ d \notin Idle => b = d)'
      BY <3>3 DEF Idle
    <3>6. (\A p \in Pids : proc[p] = "lab" =>
             \/ meta[jobOf[p]] = p
             \/ \E b \in Requests : req[b] = "meta" /\ cur[b] = jobOf[p] /\ pid[b] = p)'
      BY <3>1 DEF InTurn
    <3>7. (\A b \in Requests, p \in Pids : proc[p] = "lab" /\ labOf[jobOf[p]] = lab[b] =>
             /\ req[b] \in {"scan", "look"} => jobOf[p] \in todo[b] \/ (req[b] = "look" /\ cur[b] = jobOf[p])
             /\ req[b] # "popen")'
      BY <3>1, <3>2, <3>3, <3>4
    <3>8. (\A b \in Requests : req[b] = "popen" => labOf[cur[b]] = lab[b])'
      BY <3>3, <3>4
    <3> QED
      BY <3>1, <3>5, <3>6, <3>7, <3>8 DEF InTurn
  <2> QED
    BY <2>1, <2>2, <2>3 DEF JobsInv
<1>2. ASSUME NEW j \in Jobs, ScanRc(c, j) PROVE JobsInv'
  <2>1. TypeOK'
    BY <1>2 DEF ScanRc, JobsInv, TypeOK
  <2>2. /\ UNCHANGED <<disk, system, lab, pid, pages, bounds>> /\ req[c] = "scan"
        /\ todo' = [todo EXCEPT ![c] = @ \ {j}]
        /\ \A b \in Requests : b # c => req'[b] = req[b] /\ cur'[b] = cur[b] /\ todo'[b] = todo[b]
        /\ \/ req' = req /\ cur' = cur /\ (meta[j] = "none" \/ rc[j] \in Codes)
           \/ req'[c] = "look" /\ cur'[c] = j
    BY <1>2 DEF ScanRc, JobsInv, TypeOK
  <2>3. OwnDirectory' /\ Staged' /\ DoneTruthful'
    BY <2>2 DEF JobsInv, OwnDirectory, Staged, DoneTruthful, Live
  <2>4. Claimed'
    BY <2>2 DEF JobsInv, Claimed, Live
  <2>5. Children'
    BY <2>2 DEF JobsInv, TypeOK, Children, Live
  <2>6. ~crossed' /\ losses' = 0 => InTurn'
    <3> SUFFICES ASSUME ~crossed', losses' = 0 PROVE InTurn'
      OBVIOUS
    <3>1. InTurn /\ \A b \in Requests : req[b] \in {"scan", "look", "popen", "meta"} => b = c
      BY <2>2 DEF JobsInv, InTurn, Idle
    <3>2. \A p \in Pids : proc[p] = "lab" => meta[jobOf[p]] = p /\ rc[jobOf[p]] = "absent"
      BY <2>2, <3>1 DEF JobsInv, Staged, InTurn, Live
    <3>3. (\A b, d \in Requests : b \notin Idle /\ d \notin Idle => b = d)'
      BY <2>2, <3>1 DEF Idle, JobsInv, TypeOK
    <3>4. ASSUME NEW b \in Requests, NEW p \in Pids, proc[p] = "lab", labOf[jobOf[p]] = lab[b]
          PROVE  /\ req'[b] \in {"scan", "look"} => jobOf[p] \in todo'[b] \/ (req'[b] = "look" /\ cur'[b] = jobOf[p])
                 /\ req'[b] # "popen"
      <4>1. CASE b = c
        <5>1. jobOf[p] \in todo[c]
          BY <2>2, <3>1, <3>4, <4>1 DEF InTurn
        <5>2. meta[jobOf[p]] # "none" /\ rc[jobOf[p]] \notin Codes
          BY <3>2, <3>4 DEF Codes
        <5> QED
          BY <2>2, <4>1, <5>1, <5>2 DEF JobsInv, TypeOK
      <4>2. CASE b # c
        BY <2>2, <3>1, <3>4, <4>2 DEF InTurn
      <4> QED
        BY <4>1, <4>2
    <3>5. (\A b \in Requests : req[b] = "popen" => labOf[cur[b]] = lab[b])'
      BY <2>2, <3>1
    <3> QED
      BY <2>2, <3>1, <3>2, <3>3, <3>4, <3>5 DEF InTurn
  <2> QED
    BY <2>1, <2>3, <2>4, <2>5, <2>6 DEF JobsInv
<1>3. ASSUME NEW j \in Jobs, Mkdir(c, j) PROVE JobsInv'
  <2>0. /\ req[c] = "scan" /\ todo[c] = {} /\ j \notin made /\ made' = made \cup {j}
        /\ labOf' = [labOf EXCEPT ![j] = lab[c]] /\ cur' = [cur EXCEPT ![c] = j]
        /\ req' = [req EXCEPT ![c] = "popen"]
        /\ UNCHANGED <<meta, rc, proc, jobOf, outcome, lab, todo, pid, page, shown, crossed, kills, losses, others>>
    BY <1>3 DEF Mkdir
  <2>1. TypeOK'
    BY <2>0 DEF JobsInv, TypeOK
  <2>2. OwnDirectory' /\ Staged' /\ DoneTruthful' /\ Children'
    BY <2>0 DEF JobsInv, TypeOK, OwnDirectory, Staged, DoneTruthful, Children, Live
  <2>3. Claimed'
    BY <2>0 DEF JobsInv, TypeOK, Staged, Claimed, Live
  <2>4. ~crossed' /\ losses' = 0 => InTurn'
    BY <2>0 DEF JobsInv, TypeOK, Staged, InTurn, Claimed, Idle, Live
  <2> QED
    BY <2>1, <2>2, <2>3, <2>4 DEF JobsInv
<1>4. CASE ScanProc(c)
  <2>1. TypeOK'
    BY <1>4 DEF ScanProc, JobsInv, TypeOK
  <2>2. OwnDirectory' /\ Staged' /\ DoneTruthful' /\ Claimed' /\ Children'
    BY <1>4 DEF ScanProc, JobsInv, TypeOK, OwnDirectory, Staged, DoneTruthful, Claimed, Children, Live
  <2>3. ~crossed' /\ losses' = 0 => InTurn'
    BY <1>4, SMTT(20) DEF ScanProc, JobsInv, TypeOK, InTurn, Idle, Live, Alive
  <2> QED
    BY <2>1, <2>2, <2>3 DEF JobsInv
<1>5. ASSUME NEW p \in Pids, Popen(c, p) PROVE JobsInv'
  <2>0. /\ req[c] = "popen" /\ proc[p] = "free" /\ cur[c] \in Jobs
        /\ proc' = [proc EXCEPT ![p] = "lab"] /\ jobOf' = [jobOf EXCEPT ![p] = cur[c]]
        /\ pid' = [pid EXCEPT ![c] = p] /\ req' = [req EXCEPT ![c] = "meta"]
        /\ UNCHANGED <<disk, outcome, lab, todo, cur, pages, bounds>>
    BY <1>5 DEF Popen, Alive, JobsInv, TypeOK
  <2>1. TypeOK'
    BY <2>0 DEF JobsInv, TypeOK
  <2>2. /\ proc'[p] = "lab" /\ jobOf'[p] = cur[c]
        /\ \A q \in Pids : q # p => proc'[q] = proc[q] /\ jobOf'[q] = jobOf[q]
    BY <2>0 DEF JobsInv, TypeOK
  <2>3. OwnDirectory'
    <3>1. \A q \in Pids : q # p /\ proc[q] \notin {"free", "other"} => jobOf[q] # cur[c]
      BY <2>0 DEF JobsInv, Claimed, Live
    <3>2. ASSUME NEW q \in Pids, NEW r \in Pids, proc'[q] \notin {"free", "other"},
                 proc'[r] \notin {"free", "other"}, jobOf'[q] = jobOf'[r]
          PROVE  q = r
      <4>1. CASE q = p \/ r = p
        BY <2>2, <3>1, <3>2, <4>1
      <4>2. CASE q # p /\ r # p
        BY <2>2, <3>2, <4>2 DEF JobsInv, OwnDirectory
      <4> QED
        BY <4>1, <4>2
    <3> QED
      BY <3>2 DEF OwnDirectory
  <2>4. Staged' /\ DoneTruthful'
    BY <2>0, <2>2 DEF JobsInv, Staged, DoneTruthful, Claimed, Live
  <2>5. Claimed'
    BY <1>5 DEF Popen, JobsInv, TypeOK, Claimed, Live, Alive
  <2>6. Children'
    BY <1>5 DEF Popen, JobsInv, TypeOK, Children, Live, Alive
  <2>7. ~crossed' /\ losses' = 0 => InTurn'
    <3> SUFFICES ASSUME ~crossed', losses' = 0 PROVE InTurn'
      OBVIOUS
    <3>1. InTurn /\ \A b \in Requests : req[b] \in {"scan", "look", "popen", "meta"} => b = c
      BY <2>0 DEF JobsInv, InTurn, Idle
    <3>2. labOf[cur[c]] = lab[c] /\ \A q \in Pids : proc[q] = "lab" => labOf[jobOf[q]] # lab[c]
      BY <2>0, <3>1 DEF InTurn
    <3>3. /\ req'[c] = "meta" /\ pid'[c] = p
          /\ \A b \in Requests : b # c => req'[b] = req[b] /\ pid'[b] = pid[b]
      BY <2>0 DEF JobsInv, TypeOK
    <3>4. (\A b, d \in Requests : b \notin Idle /\ d \notin Idle => b = d)'
      BY <3>1, <3>3 DEF Idle, JobsInv, TypeOK
    <3>5. (\A q \in Pids : proc[q] = "lab" =>
             \/ meta[jobOf[q]] = q
             \/ \E b \in Requests : req[b] = "meta" /\ cur[b] = jobOf[q] /\ pid[b] = q)'
      BY <2>0, <2>2, <3>1, <3>3 DEF InTurn
    <3>6. (\A b \in Requests, q \in Pids : proc[q] = "lab" /\ labOf[jobOf[q]] = lab[b] =>
             /\ req[b] \in {"scan", "look"} => jobOf[q] \in todo[b] \/ (req[b] = "look" /\ cur[b] = jobOf[q])
             /\ req[b] # "popen")'
      BY <3>1, <3>3
    <3>7. (\A b \in Requests : req[b] = "popen" => labOf[cur[b]] = lab[b])'
      BY <3>1, <3>3
    <3>8. (\A q, r \in Pids : proc[q] = "lab" /\ proc[r] = "lab" /\ labOf[jobOf[q]] = labOf[jobOf[r]] => q = r)'
      BY <2>0, <2>2, <3>1, <3>2 DEF InTurn
    <3> QED
      BY <3>4, <3>5, <3>6, <3>7, <3>8 DEF InTurn
  <2> QED
    BY <2>1, <2>3, <2>4, <2>5, <2>6, <2>7 DEF JobsInv
<1>6. CASE WriteMeta(c)
  <2>1. TypeOK'
    BY <1>6 DEF WriteMeta, JobsInv, TypeOK, Claimed
  <2>2. OwnDirectory' /\ Staged' /\ DoneTruthful'
    BY <1>6 DEF WriteMeta, JobsInv, TypeOK, OwnDirectory, Staged, DoneTruthful, Live
  <2>3. Claimed'
    BY <1>6 DEF WriteMeta, JobsInv, TypeOK, Claimed, Live
  <2>4. Children'
    BY <1>6 DEF WriteMeta, JobsInv, TypeOK, Children, Live
  <2>5. ~crossed' /\ losses' = 0 => InTurn'
    BY <1>6 DEF WriteMeta, JobsInv, TypeOK, Claimed, InTurn, Idle, Live
  <2> QED
    BY <2>1, <2>2, <2>3, <2>4, <2>5 DEF JobsInv
<1> QED
  BY <1>1, <1>2, <1>3, <1>4, <1>5, <1>6 DEF Request

\* Steps of a page preserve it.
LEMMA PageInv ==
  ASSUME JobsInv, NEW j \in Jobs, Page(j)
  PROVE  JobsInv'
<1> USE JobsAssumption DEF disk, system, requests, bounds
<1>1. CASE PollRc(j)
  <2>1. TypeOK'
    BY <1>1 DEF PollRc, JobsInv, TypeOK
  <2>2. OwnDirectory' /\ Staged' /\ Claimed' /\ Children'
    BY <1>1 DEF PollRc, JobsInv, TypeOK, OwnDirectory, Staged, Claimed, Children, Live
  <2>3. DoneTruthful'
    BY <1>1 DEF PollRc, JobsInv, TypeOK, Staged, DoneTruthful, ExitCode, Codes, Outcomes
  <2>4. ~crossed' /\ losses' = 0 => InTurn'
    BY <1>1 DEF PollRc, JobsInv, TypeOK, InTurn, Idle, Live
  <2> QED
    BY <2>1, <2>2, <2>3, <2>4 DEF JobsInv
<1>2. CASE PollProc(j)
  <2>1. TypeOK'
    BY <1>2 DEF PollProc, JobsInv, TypeOK
  <2>2. OwnDirectory' /\ Staged' /\ DoneTruthful' /\ Claimed' /\ Children'
    BY <1>2 DEF PollProc, JobsInv, TypeOK, OwnDirectory, Staged, DoneTruthful, Claimed, Children, Live
  <2>3. ~crossed' /\ losses' = 0 => InTurn'
    BY <1>2 DEF PollProc, JobsInv, TypeOK, InTurn, Idle, Live
  <2> QED
    BY <2>1, <2>2, <2>3 DEF JobsInv
<1> QED
  BY <1>1, <1>2 DEF Page

\* Steps of a job's shell preserve it.
LEMMA ShellInv ==
  ASSUME JobsInv, NEW p \in Pids, Shell(p)
  PROVE  JobsInv'
<1> USE JobsAssumption DEF disk, pages, requests, bounds
<1>1. ASSUME NEW o \in Outcomes, LabEnds(p, o) PROVE JobsInv'
  <2>1. TypeOK'
    BY <1>1 DEF LabEnds, JobsInv, TypeOK
  <2>2. OwnDirectory' /\ Staged' /\ DoneTruthful'
    BY <1>1 DEF LabEnds, JobsInv, TypeOK, OwnDirectory, Staged, DoneTruthful, Live, Codes
  <2>3. Claimed' /\ Children'
    BY <1>1 DEF LabEnds, JobsInv, TypeOK, Claimed, Children, Live
  <2>4. ~crossed' /\ losses' = 0 => InTurn'
    BY <1>1 DEF LabEnds, JobsInv, TypeOK, InTurn, Idle
  <2> QED
    BY <2>1, <2>2, <2>3, <2>4 DEF JobsInv
<1>2. CASE ShellOpens(p)
  <2>1. TypeOK'
    BY <1>2 DEF ShellOpens, JobsInv, TypeOK, Staged, Live
  <2>2. OwnDirectory' /\ Staged' /\ DoneTruthful'
    BY <1>2 DEF ShellOpens, JobsInv, TypeOK, OwnDirectory, Staged, DoneTruthful, Live, Codes
  <2>3. Claimed' /\ Children'
    BY <1>2 DEF ShellOpens, JobsInv, TypeOK, Claimed, Children, Live
  <2>4. ~crossed' /\ losses' = 0 => InTurn'
    BY <1>2 DEF ShellOpens, JobsInv, TypeOK, InTurn, Idle
  <2> QED
    BY <2>1, <2>2, <2>3, <2>4 DEF JobsInv
<1>3. CASE ShellEchoes(p)
  <2>1. TypeOK'
    BY <1>3 DEF ShellEchoes, JobsInv, TypeOK, Staged, Live, ExitCode, Codes
  <2>2. OwnDirectory' /\ Staged' /\ DoneTruthful'
    BY <1>3 DEF ShellEchoes, JobsInv, TypeOK, OwnDirectory, Staged, DoneTruthful, Live, ExitCode, Codes
  <2>3. Claimed' /\ Children'
    BY <1>3 DEF ShellEchoes, JobsInv, TypeOK, Claimed, Children, Live
  <2>4. ~crossed' /\ losses' = 0 => InTurn'
    BY <1>3 DEF ShellEchoes, JobsInv, TypeOK, InTurn, Idle
  <2> QED
    BY <2>1, <2>2, <2>3, <2>4 DEF JobsInv
<1>4. CASE ShellExits(p)
  <2>1. TypeOK'
    BY <1>4 DEF ShellExits, JobsInv, TypeOK
  <2>2. OwnDirectory' /\ Staged' /\ DoneTruthful' /\ Claimed' /\ Children'
    BY <1>4 DEF ShellExits, JobsInv, TypeOK, OwnDirectory, Staged, DoneTruthful, Claimed, Children, Live
  <2>3. ~crossed' /\ losses' = 0 => InTurn'
    BY <1>4 DEF ShellExits, JobsInv, TypeOK, InTurn, Idle
  <2> QED
    BY <2>1, <2>2, <2>3 DEF JobsInv
<1> QED
  BY <1>1, <1>2, <1>3, <1>4 DEF Shell

\* Kills and unrelated processes preserve it.
LEMMA FaultInv ==
  ASSUME JobsInv,
         \/ \E c \in Requests : HelperKilled(c)
         \/ \E p \in Pids : JobKilled(p) \/ OtherStarts(p) \/ OtherEnds(p)
  PROVE  JobsInv'
<1> USE JobsAssumption DEF disk, pages, requests, bounds, system
<1>1. ASSUME NEW c \in Requests, HelperKilled(c) PROVE JobsInv'
  <2>1. TypeOK'
    <3>1. losses' \in 0..MaxFaults
      BY <1>1 DEF HelperKilled, MayFail, JobsInv, TypeOK
    <3> QED
      BY <1>1, <3>1 DEF HelperKilled, At, JobsInv, TypeOK
  <2>2. OwnDirectory' /\ Staged' /\ DoneTruthful'
    BY <1>1 DEF HelperKilled, JobsInv, OwnDirectory, Staged, DoneTruthful, Live
  <2>3. Claimed' /\ Children'
    BY <1>1 DEF HelperKilled, At, JobsInv, TypeOK, Claimed, Children, Live
  <2>4. losses' # 0
    BY <1>1 DEF HelperKilled, JobsInv, TypeOK
  <2> QED
    BY <2>1, <2>2, <2>3, <2>4 DEF JobsInv
<1>2. ASSUME NEW p \in Pids, JobKilled(p) PROVE JobsInv'
  <2>1. TypeOK'
    <3>1. kills' \in 0..MaxFaults
      BY <1>2 DEF JobKilled, MayFail, JobsInv, TypeOK
    <3>2. outcome' \in [Jobs -> Outcomes \cup {"none", "killed"}]
      BY <1>2 DEF JobKilled, JobsInv, TypeOK
    <3>3. proc' \in [Pids -> {"free", "lab", "open", "echo", "exit", "other"}]
      BY <1>2 DEF JobKilled, JobsInv, TypeOK
    <3>4. UNCHANGED <<disk, jobOf, requests, pages, crossed, losses, others>>
      BY <1>2 DEF JobKilled
    <3> QED
      BY <3>1, <3>2, <3>3, <3>4 DEF JobsInv, TypeOK
  <2>2. OwnDirectory' /\ Staged' /\ DoneTruthful'
    BY <1>2 DEF JobKilled, JobsInv, TypeOK, OwnDirectory, Staged, DoneTruthful, Live, Codes
  <2>3. Claimed' /\ Children'
    BY <1>2 DEF JobKilled, JobsInv, TypeOK, Claimed, Children, Live
  <2>4. ~crossed' /\ losses' = 0 => InTurn'
    <3>1. /\ UNCHANGED <<disk, jobOf, requests, pages, crossed, losses>>
          /\ \A q \in Pids : proc'[q] = "lab" => proc[q] = "lab"
      BY <1>2 DEF JobKilled, JobsInv, TypeOK
    <3> QED
      BY <3>1 DEF JobsInv, InTurn, Idle
  <2> QED
    BY <2>1, <2>2, <2>3, <2>4 DEF JobsInv
<1>3. ASSUME NEW p \in Pids, OtherStarts(p) \/ OtherEnds(p) PROVE JobsInv'
  <2>1. TypeOK'
    BY <1>3 DEF OtherStarts, OtherEnds, MayFail, JobsInv, TypeOK
  <2>2. OwnDirectory' /\ Staged' /\ DoneTruthful'
    BY <1>3 DEF OtherStarts, OtherEnds, Alive, JobsInv, TypeOK, OwnDirectory, Staged, DoneTruthful, Live
  <2>3. Claimed' /\ Children'
    BY <1>3, SMTT(20) DEF OtherStarts, OtherEnds, Alive, JobsInv, TypeOK, Claimed, Children, Live
  <2>4. ~crossed' /\ losses' = 0 => InTurn'
    <3>1. /\ UNCHANGED <<disk, jobOf, requests, pages, crossed, losses>>
          /\ \A q \in Pids : proc'[q] = "lab" => proc[q] = "lab"
      BY <1>3 DEF OtherStarts, OtherEnds, JobsInv, TypeOK
    <3> QED
      BY <3>1 DEF JobsInv, InTurn, Idle
  <2> QED
    BY <2>1, <2>2, <2>3, <2>4 DEF JobsInv
<1> QED
  BY <1>1, <1>2, <1>3

\* JobsInv is an invariant: no step of a request, a page, a shell or a fault
\* breaks it.
THEOREM JobsInvariant == Spec => []JobsInv
<1>1. Init => JobsInv
  BY InitInv
<1>2. JobsInv /\ [Next]_vars => JobsInv'
  <2> SUFFICES ASSUME JobsInv, [Next]_vars PROVE JobsInv'
    OBVIOUS
  <2>1. CASE Next
    BY <2>1, RequestInv, PageInv, ShellInv, FaultInv DEF Next
  <2>2. CASE UNCHANGED vars
    BY <2>2 DEF vars, disk, system, requests, pages, bounds, JobsInv, TypeOK, OwnDirectory, Staged,
                DoneTruthful, Claimed, Children, InTurn, Idle, Live
  <2> QED
    BY <2>1, <2>2
<1> QED
  BY <1>1, <1>2, PTL DEF Spec

\* Every state of lab_create(), the jobs' shells and the pages is well formed: a
\* page and an exit status are those of a directory that was made, and what the
\* next step reads is there.
THEOREM JobsTypeCorrect == Spec => []TypeOK
<1>1. JobsInv => TypeOK
  BY DEF JobsInv
<1> QED
  BY <1>1, JobsInvariant, PTL

\* "Done" on the status page is said of a run that ended with nothing failed and
\* nothing pending (job_state() and the page), and a job's log and exit status
\* are written by one process (lab_create()'s mkdir), whatever is killed.
THEOREM JobsTruthful == Spec => []DoneTruthful /\ []OwnDirectory
<1>1. JobsInv => DoneTruthful /\ OwnDirectory
  BY DEF JobsInv
<1> QED
  BY <1>1, JobsInvariant, PTL

\* lab_create() refuses a lab that is being built: with requests that follow one
\* another and no helper killed, no lab is built twice at a time.
THEOREM OneRun == Spec => []OneRunPerLab
<1>1. JobsInv => OneRunPerLab
  <2> SUFFICES ASSUME JobsInv, ~crossed, losses = 0, NEW i \in Jobs, NEW j \in Jobs,
                      Building(i), Building(j), labOf[i] = labOf[j]
               PROVE  i = j
    BY DEF OneRunPerLab
  <2>1. PICK p \in Pids : proc[p] = "lab" /\ jobOf[p] = i
    BY DEF Building
  <2>2. PICK q \in Pids : proc[q] = "lab" /\ jobOf[q] = j
    BY DEF Building
  <2> QED
    BY <2>1, <2>2 DEF JobsInv, InTurn
<1> QED
  BY <1>1, JobsInvariant, PTL

\* A request is refused for a job that has not ended, when no pid is used twice:
\* the pid in job.json is then the job's process for as long as it is in /proc.
THEOREM RefusalsRight == Spec => RefusedRightly
<1>1. ASSUME JobsInv, [Next]_vars
      PROVE  [\A c \in Requests : OwnPids /\ req[c] = "look" /\ req'[c] = "refused" => Running(cur[c])]_vars
  <2> SUFFICES ASSUME Next, NEW c \in Requests, OwnPids, req[c] = "look", req'[c] = "refused"
               PROVE  Running(cur[c])
    BY <1>1
  <2>1. ScanProc(c) /\ Alive(meta[cur[c]])
    <3> USE <1>1 DEF JobsInv, TypeOK, At, requests
    <3>1. ASSUME NEW b \in Requests, Request(b) PROVE b = c /\ ScanProc(b)
      <4>1. ASSUME NEW l \in Labs, LabCreate(b, l) PROVE FALSE
        BY <4>1 DEF LabCreate
      <4>2. ASSUME NEW j \in Jobs, ScanRc(b, j) PROVE FALSE
        BY <4>2 DEF ScanRc
      <4>3. ASSUME NEW j \in Jobs, Mkdir(b, j) PROVE FALSE
        BY <4>3 DEF Mkdir
      <4>4. ASSUME NEW p \in Pids, Popen(b, p) PROVE FALSE
        BY <4>4 DEF Popen
      <4>5. ASSUME WriteMeta(b) PROVE FALSE
        BY <4>5 DEF WriteMeta
      <4>6. ASSUME ScanProc(b) PROVE b = c
        BY <4>6 DEF ScanProc
      <4> QED
        BY <3>1, <4>1, <4>2, <4>3, <4>4, <4>5, <4>6 DEF Request
    <3>2. ASSUME NEW b \in Requests, HelperKilled(b) PROVE FALSE
      BY <3>2 DEF HelperKilled
    <3>3. ASSUME NEW j \in Jobs, Page(j) PROVE FALSE
      BY <3>3 DEF Page, PollRc, PollProc
    <3>4. ASSUME NEW p \in Pids, Shell(p) \/ JobKilled(p) \/ OtherStarts(p) \/ OtherEnds(p) PROVE FALSE
      BY <3>4 DEF Shell, LabEnds, ShellOpens, ShellEchoes, ShellExits, JobKilled, OtherStarts, OtherEnds
    <3>5. ScanProc(c)
      BY <3>1, <3>2, <3>3, <3>4 DEF Next
    <3> QED
      BY <3>5 DEF ScanProc
  <2>2. meta[cur[c]] \in Pids /\ cur[c] \in Jobs /\ "none" \notin Pids
    BY <1>1, JobsAssumption DEF JobsInv, TypeOK
  <2>3. Live(meta[cur[c]])
    BY <1>1, <2>1, <2>2 DEF JobsInv, Children, OwnPids, Alive, Live
  <2>4. PICK b \in Requests : pid[b] = meta[cur[c]] /\ cur[b] = cur[c]
    BY <1>1, <2>2 DEF JobsInv, Children
  <2>5. PICK d \in Requests : pid[d] = meta[cur[c]] /\ cur[d] = jobOf[meta[cur[c]]]
    BY <1>1, <2>2, <2>3 DEF JobsInv, Children
  <2>6. b = d
    BY <2>2, <2>4, <2>5 DEF OwnPids
  <2> QED
    BY <2>2, <2>3, <2>4, <2>5, <2>6 DEF Running, Live
<1> QED
  BY <1>1, JobsInvariant, PTL DEF Spec, RefusedRightly
=============================================================================
