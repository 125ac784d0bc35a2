--------------------------- MODULE SetupLabProofs ---------------------------
(***************************************************************************)
(* Theorems about SetupLab for every lab: any nodes, clusters, add-ons and *)
(* pool size.                                                              *)
(***************************************************************************)
EXTENDS SetupLab, TLAPS

\* The three disjuncts that only leave the phase, or end the run.
LEMMA PhaseSteps ==
    ASSUME TypeOK
    PROVE  /\ \A p \in Phases : GoTo(p) => phase' \in Phases /\ banner' = banner /\ exit' = exit
           /\ Die => phase' = "exited" /\ banner' = banner /\ exit' = 1
           /\ Stay => phase' = phase /\ banner' = banner /\ exit' = exit
  BY DEF GoTo, Die, Stay, outcome, TypeOK

\* _RunReport only ever grows by entries of its own types.
LEMMA ReportTypes ==
    ASSUME TypeOK
    PROVE  /\ \A n \in Nodes, s \in NodeStatus : AddNode(n, s) => nodeStatus' \subseteq Nodes \X NodeStatus
           /\ \A k \in ErrorKind, x \in Scopes : AddError(k, x) => errors' \subseteq ErrorKind \X Scopes
           /\ \A x \in Scopes, a \in Addons : RecordAddon(x, a) =>
                 /\ addonStatus' \subseteq Scopes \X Addons \X AddonStatus
                 /\ errors' \subseteq ErrorKind \X Scopes
  BY DEF AddNode, AddError, RecordAddon, TypeOK, ErrorKind, Scopes

\* The variables have their types at first.
LEMMA InitTypeOK == Init => TypeOK
<1> SUFFICES ASSUME Init PROVE TypeOK
  OBVIOUS
<1> USE DEF Init
<1>1. vm \in [Nodes -> {"absent", "old", "new", "host"}]
  OBVIOUS
<1>2. queue \in Seq(Addons)
  OBVIOUS
<1>3. parallel \in Nat
  BY LabAssumption
<1>4. scope \in Scopes /\ phase \in Phases
  BY DEF Scopes, Phases
<1>5. vip \subseteq HarvesterClusters
  OBVIOUS
<1>6. wpc \in [Nodes -> {"todo", "keep", "destroy", "provision", "done", "raised"}]
  OBVIOUS
<1>7. exit \in 0..2
  OBVIOUS
<1> QED
  BY <1>1, <1>2, <1>3, <1>4, <1>5, <1>6, <1>7 DEF TypeOK

\* The steps before the nodes are created keep the types,
LEMMA BeforeTypeOK == TypeOK /\ Before => TypeOK'
<1> SUFFICES ASSUME TypeOK, Before PROVE TypeOK'
  OBVIOUS
<1> USE DEF TypeOK, GoTo, Die, Phases, input, loop, report, outcome, world
<1>1. CASE FetchImages
  BY <1>1 DEF FetchImages
<1>2. CASE AllocateIps
  BY <1>2 DEF AllocateIps
<1>3. CASE Preflight
  BY <1>3, ReportTypes DEF Preflight, PreflightFails, ErrorKind, Scopes
<1>4. CASE ValidateAddons
  BY <1>4, ReportTypes DEF ValidateAddons, PreflightFails, ErrorKind, Scopes
<1>5. CASE ConfigureServices
  BY <1>5 DEF ConfigureServices
<1>6. CASE ClusterDns
  BY <1>6 DEF ClusterDns
<1> QED
  BY <1>1, <1>2, <1>3, <1>4, <1>5, <1>6 DEF Before

\* What a worker does not catch ends the worker, and on the main thread the run.
LEMMA RaiseIs ==
    ASSUME NEW n \in Nodes, Raise(n)
    PROVE  /\ wpc' = [wpc EXCEPT ![n] = "raised"] /\ banner' = banner
           /\ (phase' = phase /\ exit' = exit) \/ (phase' = "exited" /\ exit' = 1)
  BY DEF Raise, Die, Stay, outcome

\* A worker that creates a node keeps the types too.
LEMMA WorkerTypeOK == \A n \in Nodes : TypeOK /\ Worker(n) => TypeOK'
<1> SUFFICES ASSUME NEW n \in Nodes, TypeOK, Worker(n) PROVE TypeOK'
  OBVIOUS
<1> USE DEF TypeOK, Die, Stay, Phases, input, loop, report, outcome, world
<1>0. n \in Scopes
  BY DEF Scopes
<1>1. CASE StartNode(n)
  <2>1. CASE StartExisting(n)
    <3>1. CASE Raise(n) /\ UNCHANGED nodeStatus
      BY <1>1, <3>1, RaiseIs DEF StartNode
    <3>2. CASE Finish(n, "existing") /\ Stay
      BY <1>1, <3>2, ReportTypes DEF StartNode, Finish, NodeStatus
    <3> QED
      BY <2>1, <3>1, <3>2 DEF StartExisting
  <2>2. CASE StartOwned(n)
    BY <1>1, <2>2 DEF StartNode, StartOwned
  <2> QED
    BY <1>1, <2>1, <2>2 DEF StartNode
<1>2. CASE KeepCheck(n)
  <2>1. CASE Raise(n) /\ UNCHANGED <<nodeStatus, errors>>
    BY <1>2, <2>1, RaiseIs DEF KeepCheck
  <2>2. CASE Stay
    BY <1>0, <1>2, <2>2, ReportTypes DEF KeepCheck, Finish, Raise, NodeStatus, ErrorKind
  <2> QED
    BY <1>2, <2>1, <2>2 DEF KeepCheck
<1>3. CASE DestroyVm(n)
  <2>1. VipWithout(n) \subseteq HarvesterClusters
    BY DEF VipWithout
  <2>2. vm' \in [Nodes -> {"absent", "old", "new", "host"}] /\ vip' \subseteq HarvesterClusters
    BY <1>3, <2>1 DEF DestroyVm
  <2>3. CASE Raise(n) /\ UNCHANGED errors
    BY <1>3, <2>2, <2>3, RaiseIs DEF DestroyVm
  <2>4. CASE wpc' = [wpc EXCEPT ![n] = "provision"] /\ Stay /\ (UNCHANGED errors \/ AddError("destroy", n))
    BY <1>0, <1>3, <2>2, <2>4, ReportTypes DEF DestroyVm, ErrorKind
  <2> QED
    BY <1>3, <2>3, <2>4 DEF DestroyVm
<1>4. CASE ProvisionVm(n)
  <2>1. VipWithout(n) \subseteq HarvesterClusters /\ VipWith(n) \subseteq HarvesterClusters
    BY DEF VipWithout, VipWith
  <2>2. CASE Provisioned(n)
    BY <1>0, <1>4, <2>1, <2>2, ReportTypes DEF ProvisionVm, Provisioned, Finish, ErrorKind, NodeStatus
  <2>3. CASE ProvisionFails(n)
    <3>1. vm' \in [Nodes -> {"absent", "old", "new", "host"}] /\ vip' \subseteq HarvesterClusters
      BY <2>1, <2>3 DEF ProvisionFails
    <3>2. CASE Raise(n) /\ UNCHANGED <<nodeStatus, errors>>
      <4>1. /\ wpc' = [wpc EXCEPT ![n] = "raised"] /\ banner' = banner
            /\ phase' \in Phases /\ exit' \in 0..2
        BY <3>2, RaiseIs
      <4>2. UNCHANGED <<input, loop, report, touched>>
        BY <1>4, <3>2 DEF ProvisionVm
      <4> QED
        BY <3>1, <4>1, <4>2
    <3>3. CASE Stay /\ Finish(n, "FAILED") /\ AddError("provision", n)
      BY <1>0, <1>4, <3>1, <3>3, ReportTypes DEF ProvisionVm, Finish, ErrorKind, NodeStatus
    <3> QED
      BY <2>3, <3>2, <3>3 DEF ProvisionFails
  <2>4. CASE NoVip(n)
    BY <1>0, <1>4, <2>4, ReportTypes DEF ProvisionVm, NoVip, Finish, ErrorKind, NodeStatus
  <2> QED
    BY <1>4, <2>2, <2>3, <2>4 DEF ProvisionVm
<1> QED
  BY <1>1, <1>2, <1>3, <1>4 DEF Worker

\* The end of the creation keeps the types,
LEMMA CreateDoneTypeOK == TypeOK /\ CreateDone => TypeOK'
<1> SUFFICES ASSUME TypeOK, CreateDone PROVE TypeOK'
  OBVIOUS
<1> QED
  BY DEF TypeOK, CreateDone, ToVmAddons, ToReboot, ToK8s, RebootNodes, ClusterNodes,
         GoTo, Die, Phases, input, loop, report, outcome, world

\* and so do the steps for the nodes that are kept,
LEMMA KeptTypeOK == TypeOK /\ Kept => TypeOK'
<1> SUFFICES ASSUME TypeOK, Kept PROVE TypeOK'
  OBVIOUS
<1> USE DEF TypeOK, GoTo, Die, Stay, Phases, input, loop, report, outcome, world
<1>1. ASSUME NEW n \in Nodes, RebootKept(n) PROVE TypeOK'
  BY <1>1 DEF RebootKept
<1>2. ASSUME NEW n \in Nodes, WaitKept(n) PROVE TypeOK'
  BY <1>2 DEF WaitKept
<1>3. CASE RebootDone
  BY <1>3 DEF RebootDone, ToWait, ClusterNodes
<1>4. CASE WaitDone
  BY <1>4 DEF WaitDone, ToK8s
<1> QED
  BY <1>1, <1>2, <1>3, <1>4 DEF Kept

\* settle and addons work on the add-ons of a cluster, nodeaddons on those of a node: the lists of
\* add-ons are looked up inside their domains.
ScopeKind == /\ phase \in {"settle", "addons"} => scope \in Clusters
             /\ phase = "nodeaddons" => scope \in Nodes

\* The steps for the clusters keep the types,
LEMMA K8sTypeOK == TypeOK /\ ScopeKind /\ K8s => TypeOK'
<1> SUFFICES ASSUME TypeOK, ScopeKind, K8s PROVE TypeOK'
  OBVIOUS
<1> USE DEF TypeOK, GoTo, Die, Stay, Phases, input, loop, report, outcome, world
<1>1. ASSUME NEW c \in Clusters, SkipCluster(c) PROVE TypeOK'
  BY <1>1, ReportTypes DEF SkipCluster, ErrorKind, Scopes, ClusterStatus
<1>2. ASSUME NEW c \in Clusters, InstallK8s(c) PROVE TypeOK'
  BY <1>2, ReportTypes DEF InstallK8s, ErrorKind, Scopes, ClusterStatus, Members
<1>3. CASE Settle
  <2>1. ClusterServices[scope] \in Seq(Addons) /\ ClusterAddons[scope] \in Seq(Addons)
    BY <1>3, LabAssumption DEF Settle, ScopeKind
  <2>2. ClusterServices[scope] \o ClusterAddons[scope] \in Seq(Addons)
    BY <2>1
  <2>3. queue' \in Seq(Addons)
    <3> DEFINE all == ClusterServices[scope] \o ClusterAddons[scope]
    <3>1. queue' = all \/ queue' = queue
      BY <1>3 DEF Settle
    <3>2. all \in Seq(Addons)
      BY <2>2
    <3> HIDE DEF all
    <3> QED
      BY <3>1, <3>2
  <2>4. /\ installed' = installed \/ installed' = {}
        /\ phase' = "addons" \/ phase' = "exited"
        /\ exit' = exit \/ exit' = 1
    BY <1>3 DEF Settle
  <2>5. UNCHANGED <<input, nodesLeft, clustersLeft, scope, wpc, report, world, banner>>
    BY <1>3 DEF Settle
  <2> QED
    BY <2>3, <2>4, <2>5
<1>4. CASE ClusterAddon
  <2>1. Head(queue) \in Addons /\ Tail(queue) \in Seq(Addons)
    BY <1>4 DEF ClusterAddon
  <2> QED
    BY <1>4, <2>1, ReportTypes, SMTT(20) DEF ClusterAddon
<1>5. CASE ClusterAddonsDone
  BY <1>5 DEF ClusterAddonsDone
<1>6. CASE K8sDone
  BY <1>6 DEF K8sDone, ToVmAddons
<1> QED
  BY <1>1, <1>2, <1>3, <1>4, <1>5, <1>6 DEF K8s

\* and so do the steps after them.
LEMMA AfterTypeOK == TypeOK /\ ScopeKind /\ After => TypeOK'
<1> SUFFICES ASSUME TypeOK, ScopeKind, After PROVE TypeOK'
  OBVIOUS
<1> USE DEF TypeOK, GoTo, Die, Stay, Phases, input, loop, report, outcome, world
<1>1. ASSUME NEW n \in Nodes, NodeAddonsStart(n) PROVE TypeOK'
  BY <1>1, LabAssumption DEF NodeAddonsStart, Scopes
<1>2. ASSUME NEW n \in Nodes, PostCommands(n) PROVE TypeOK'
  BY <1>2, ReportTypes DEF PostCommands, ErrorKind, Scopes
<1>3. CASE NodeAddon
  <2>1. Head(queue) \in Addons /\ Tail(queue) \in Seq(Addons)
    BY <1>3 DEF NodeAddon
  <2>2. CASE ~Runs(scope, Head(queue))
    BY <1>3, <2>2 DEF NodeAddon
  <2>3. CASE Runs(scope, Head(queue))
    <3>1. RecordAddon(scope, Head(queue)) /\ queue' = Tail(queue) /\ Stay
      BY <1>3, <2>3 DEF NodeAddon
    <3>2. addonStatus' \subseteq Scopes \X Addons \X AddonStatus /\ errors' \subseteq ErrorKind \X Scopes
      BY <2>1, <3>1, ReportTypes
    <3> QED
      BY <1>3, <2>1, <3>1, <3>2 DEF NodeAddon
  <2> QED
    BY <2>2, <2>3
<1>4. CASE NodeAddonsDone
  BY <1>4 DEF NodeAddonsDone
<1>5. CASE VmAddonsDone
  BY <1>5 DEF VmAddonsDone, ToPost
<1>6. CASE PostDone
  BY <1>6 DEF PostDone, ToSummary
<1>7. CASE Summary
  BY <1>7 DEF Summary, Banner
<1> QED
  BY <1>1, <1>2, <1>3, <1>4, <1>5, <1>6, <1>7 DEF After

\* Add-ons are looked up for a cluster or for a node, as the phase needs it: at first,
LEMMA InitScopeKind == Init => ScopeKind
  BY DEF Init, ScopeKind

\* and after every step.
LEMMA StepScopeKind == TypeOK /\ ScopeKind /\ [Next]_vars => ScopeKind'
<1> SUFFICES ASSUME TypeOK, ScopeKind, [Next]_vars PROVE ScopeKind'
  OBVIOUS
<1> USE DEF TypeOK, ScopeKind, GoTo, Die, Stay, input, loop, outcome
<1>1. CASE Before
  BY <1>1 DEF Before, FetchImages, AllocateIps, Preflight, PreflightFails, ValidateAddons,
              ConfigureServices, ClusterDns
<1>2. ASSUME NEW n \in Nodes, Worker(n) PROVE ScopeKind'
  <2>1. phase' \in {"create", "exited"}
    BY <1>2 DEF Worker, StartNode, StartExisting, StartOwned, Raise, KeepCheck, DestroyVm, ProvisionVm, Provisioned, ProvisionFails, NoVip
  <2> QED
    BY <2>1
<1>3. CASE CreateDone
  BY <1>3 DEF CreateDone, ToVmAddons, ToReboot, ToK8s
<1>4. CASE Kept
  BY <1>4 DEF Kept, RebootKept, WaitKept, RebootDone, WaitDone, ToWait, ToK8s
<1>5. CASE K8s
  <2>1. ASSUME NEW c \in Clusters, SkipCluster(c) \/ InstallK8s(c) PROVE ScopeKind'
    BY <2>1 DEF SkipCluster, InstallK8s
  <2>2. CASE Settle
    <3>1. phase' \in {"addons", "exited"} /\ scope' = scope /\ phase = "settle"
      BY <2>2 DEF Settle
    <3> QED
      BY <3>1
  <2>3. CASE ClusterAddon
    <3>1. phase' \in {"addons", "exited"} /\ scope' = scope /\ phase = "addons"
      BY <2>3 DEF ClusterAddon
    <3> QED
      BY <3>1
  <2>4. CASE ClusterAddonsDone \/ K8sDone
    BY <2>4 DEF ClusterAddonsDone, K8sDone, ToVmAddons
  <2> QED
    BY <1>5, <2>1, <2>2, <2>3, <2>4 DEF K8s
<1>6. CASE After
  <2>1. ASSUME NEW n \in Nodes, NodeAddonsStart(n) \/ PostCommands(n) PROVE ScopeKind'
    BY <2>1 DEF NodeAddonsStart, PostCommands
  <2>2. CASE NodeAddon
    <3>1. phase' \in {"nodeaddons", "exited"} /\ scope' = scope /\ phase = "nodeaddons"
      BY <2>2 DEF NodeAddon
    <3> QED
      BY <3>1
  <2>3. CASE NodeAddonsDone \/ VmAddonsDone \/ PostDone \/ Summary
    BY <2>3 DEF NodeAddonsDone, VmAddonsDone, ToPost, PostDone, ToSummary, Summary
  <2> QED
    BY <1>6, <2>1, <2>2, <2>3 DEF After
<1>7. CASE UNCHANGED vars
  BY <1>7 DEF vars
<1> QED
  BY <1>1, <1>2, <1>3, <1>4, <1>5, <1>6, <1>7 DEF Next, Step, Ended

\* Every variable keeps its type in every run of setup_lab.py, whatever the
\* lab: in particular the add-on loops only look up lists that exist.
THEOREM TypeCorrect == Spec => []TypeOK
<1>1. Init => TypeOK /\ ScopeKind
  BY InitTypeOK, InitScopeKind
<1>2. TypeOK /\ ScopeKind /\ [Next]_vars => TypeOK' /\ ScopeKind'
  <2> SUFFICES ASSUME TypeOK, ScopeKind, [Next]_vars PROVE TypeOK'
    BY StepScopeKind
  <2>1. CASE UNCHANGED vars
    BY <2>1 DEF vars, TypeOK, input, loop, report, outcome, world
  <2> QED
    BY <2>1, BeforeTypeOK, WorkerTypeOK, CreateDoneTypeOK, KeptTypeOK, K8sTypeOK, AfterTypeOK
       DEF Next, Step, Ended
<1> QED
  BY <1>1, <1>2, PTL DEF Spec

(***************************************************************************)
(* What the workers report.                                                *)
(***************************************************************************)
\* Only a worker touches VMs, program counters and node statuses.
LEMMA OthersLeaveWorkers ==
    Before \/ CreateDone \/ Kept \/ K8s \/ After \/ UNCHANGED vars
      => UNCHANGED <<wpc, nodeStatus, vm>>
<1> USE DEF report, world
<1>1. Before => UNCHANGED <<wpc, nodeStatus, vm>>
  BY DEF Before, FetchImages, AllocateIps, Preflight, ValidateAddons, ConfigureServices, ClusterDns
<1>2. CreateDone \/ Kept => UNCHANGED <<wpc, nodeStatus, vm>>
  BY DEF CreateDone, Kept, RebootKept, WaitKept, RebootDone, WaitDone
<1>3. K8s => UNCHANGED <<wpc, nodeStatus, vm>>
  BY DEF K8s, SkipCluster, InstallK8s, Settle, ClusterAddon, ClusterAddonsDone, K8sDone
<1>4. After => UNCHANGED <<wpc, nodeStatus, vm>>
  BY DEF After, NodeAddonsStart, PostCommands, NodeAddon, NodeAddonsDone, VmAddonsDone, PostDone, Summary
<1> QED
  BY <1>1, <1>2, <1>3, <1>4 DEF vars

\* A worker's step is its own: it leaves the other nodes alone.
LEMMA WorkerFrame ==
    ASSUME NEW n \in Nodes, NEW m \in Nodes \ {n}, TypeOK, Worker(n)
    PROVE  /\ wpc'[m] = wpc[m]
           /\ vm'[m] = vm[m]
           /\ \A s \in NodeStatus : <<m, s>> \in nodeStatus' <=> <<m, s>> \in nodeStatus
<1> USE DEF TypeOK, Finish, AddNode, world
<1>1. CASE StartNode(n)
  BY <1>1 DEF StartNode, StartExisting, StartOwned, Raise
<1>2. CASE KeepCheck(n)
  BY <1>2 DEF KeepCheck, Raise
<1>3. CASE DestroyVm(n)
  BY <1>3 DEF DestroyVm, Raise
<1>4. CASE ProvisionVm(n)
  BY <1>4 DEF ProvisionVm, Provisioned, ProvisionFails, NoVip, Raise
<1> QED
  BY <1>1, <1>2, <1>3, <1>4 DEF Worker

\* A worker keeps its own part of the report true.
LEMMA WorkerOwn ==
    ASSUME NEW n \in Nodes, TypeOK, WorkerInv(n), Worker(n)
    PROVE  WorkerInv(n)'
<1> USE DEF TypeOK, WorkerInv, Finish, AddNode, NodeStatus, world
<1>1. CASE StartNode(n)
  BY <1>1 DEF StartNode, StartExisting, StartOwned, Raise
<1>2. CASE KeepCheck(n)
  BY <1>2 DEF KeepCheck, Raise
<1>3. CASE DestroyVm(n)
  BY <1>3 DEF DestroyVm, Raise
<1>4. CASE ProvisionVm(n)
  <2>1. CASE Provisioned(n)
    BY <1>4, <2>1 DEF ProvisionVm, Provisioned
  <2>2. CASE ProvisionFails(n)
    BY <1>4, <2>2 DEF ProvisionVm, ProvisionFails, Raise
  <2>3. CASE NoVip(n)
    BY <1>4, <2>3 DEF ProvisionVm, NoVip
  <2> QED
    BY <1>4, <2>1, <2>2, <2>3 DEF ProvisionVm
<1> QED
  BY <1>1, <1>2, <1>3, <1>4 DEF Worker

\* A step of a worker keeps the workers in line with the phase of the run,
LEMMA WorkerPhase ==
    ASSUME NEW n \in Nodes, TypeOK, PhaseInv, Worker(n)
    PROVE  PhaseInv'
<1>1. phase = "create" /\ touched = {} /\ touched' = touched /\ parallel' = parallel
  BY DEF Worker, StartNode, KeepCheck, DestroyVm, ProvisionVm, PhaseInv, AfterCreate, world, input
<1>4. Active' \subseteq Active \cup {n} /\ (n \notin Active => MayStart(n))
  BY DEF Worker, StartNode, StartExisting, StartOwned, KeepCheck, DestroyVm, ProvisionVm, Provisioned, ProvisionFails,
         NoVip, Finish, Raise, Active, TypeOK
<1>5. \A m \in Active' : OnMainThread(m)' => Active' = {m}
  <2>1. SUFFICES ASSUME NEW m \in Active', OnMainThread(m) PROVE Active' = {m}
    BY <1>1 DEF OnMainThread
  <2>2. CASE n \in Active
    <3>1. Active' \subseteq Active /\ m \in Active
      BY <1>4, <2>1, <2>2
    <3> QED
      BY <2>1, <2>2, <3>1 DEF PhaseInv
  <2>3. CASE n \notin Active /\ OnMainThread(n)
    BY <1>4, <2>1, <2>3 DEF MayStart
  <2>4. CASE n \notin Active /\ ~OnMainThread(n)
    <3>1. m # n /\ m \in Creators
      BY <2>1, <2>4 DEF OnMainThread
    <3>3. m \in Active
      BY <1>4, <2>1, <3>1
    <3>2. wpc[m] = "done"
      BY <1>4, <2>4, <3>1 DEF MayStart
    <3> QED
      BY <3>2, <3>3 DEF Active
  <2> QED
    BY <2>2, <2>3, <2>4
<1>2. CASE phase' = "create"
  BY <1>1, <1>2, <1>5 DEF PhaseInv, AfterCreate, WorkersJoined
<1>3. CASE phase' # "create"
  <2>1. phase' = "exited" /\ wpc' = [wpc EXCEPT ![n] = "raised"] /\ OnMainThread(n)
    BY <1>1, <1>3 DEF Worker, StartNode, StartExisting, StartOwned, KeepCheck, DestroyVm, ProvisionVm,
                      Provisioned, ProvisionFails, NoVip, Raise, Stay, Die
  <2>2. Active \subseteq {n}
    BY <1>4, <2>1 DEF PhaseInv, MayStart
  <2>3. Active' = {}
    BY <2>1, <2>2 DEF Active, TypeOK
  <2> QED
    BY <1>1, <2>1, <2>3 DEF PhaseInv, AfterCreate, WorkersJoined
<1> QED
  BY <1>2, <1>3

\* and so do the other steps.
LEMMA OthersPhase ==
    ASSUME TypeOK, PhaseInv, Before \/ CreateDone \/ Kept \/ K8s \/ After \/ UNCHANGED vars
    PROVE  PhaseInv'
<1> USE DEF TypeOK, PhaseInv, AfterCreate, WorkersJoined, Active, FailedNodes
<1>0. UNCHANGED <<wpc, nodeStatus, vm>>
  BY OthersLeaveWorkers
<1>1. CASE Before
  <2>1. phase \in {"fetch", "allocate", "preflight", "validate", "services", "dns"} /\ touched' = touched
    BY <1>1 DEF Before, FetchImages, AllocateIps, Preflight, ValidateAddons, ConfigureServices, ClusterDns, world
  <2>2. phase' \in {"allocate", "preflight", "validate", "services", "dns", "create", "exited"}
    BY <1>1 DEF Before, FetchImages, AllocateIps, Preflight, PreflightFails, ValidateAddons,
                ConfigureServices, ClusterDns, GoTo, Die
  <2> QED
    BY <1>0, <2>1, <2>2
<1>2. CASE CreateDone
  <2>1. phase = "create" /\ touched' = touched
    BY <1>2 DEF CreateDone, world
  <2>2. /\ \A n \in Nodes : wpc[n] \in {"done", "raised"}
        /\ phase' # "create"
        /\ phase' \in AfterCreate => \A n \in Nodes : wpc[n] # "raised"
    BY <1>2 DEF CreateDone, ToVmAddons, ToReboot, ToK8s, GoTo, Die
  <2> QED
    BY <1>0, <2>1, <2>2
<1>3. CASE Kept
  <2>1. phase \in {"reboot", "wait"} /\ phase' \in AfterCreate \cup {"exited"} /\ touched' = touched
    BY <1>3 DEF Kept, RebootKept, WaitKept, RebootDone, WaitDone, ToWait, ToK8s, GoTo, Die, Stay, world
  <2> QED
    BY <1>0, <2>1
<1>4. CASE K8s
  <2>1. phase \in {"k8s", "settle", "addons"} /\ phase' \in AfterCreate \cup {"exited"}
    BY <1>4 DEF K8s, SkipCluster, InstallK8s, Settle, ClusterAddon, ClusterAddonsDone, K8sDone,
                ToVmAddons, GoTo, Die, Stay
  <2>2. \A n \in touched' : n \in touched \/ (n \in Nodes /\ n \notin FailedNodes)
    BY <1>4 DEF K8s, SkipCluster, InstallK8s, MissingNodes, Members, Settle, ClusterAddon,
                ClusterAddonsDone, K8sDone, world
  <2> QED
    BY <1>0, <2>1, <2>2
<1>5. CASE After
  <2>1. phase \in AfterCreate /\ touched' = touched
    BY <1>5 DEF After, NodeAddonsStart, PostCommands, NodeAddon, NodeAddonsDone, VmAddonsDone, PostDone, Summary, world
  <2>2. phase' \in AfterCreate \cup {"exited"}
    BY <1>5 DEF After, NodeAddonsStart, PostCommands, NodeAddon, NodeAddonsDone, VmAddonsDone, PostDone, Summary,
                ToPost, ToSummary, GoTo, Die, Stay
  <2> QED
    BY <1>0, <2>1, <2>2
<1>6. CASE UNCHANGED vars
  <2>1. UNCHANGED <<phase, wpc, nodeStatus, vm, touched, parallel>>
    BY <1>6 DEF vars, world, input, report
  <2>2. \A n \in Nodes : OnMainThread(n)' <=> OnMainThread(n)
    BY <2>1 DEF OnMainThread
  <2> QED
    BY <2>1, <2>2
<1> QED
  BY <1>1, <1>2, <1>3, <1>4, <1>5, <1>6

\* The report is right at first,
LEMMA InitReportInv == Init => ReportInv
  BY DEF Init, ReportInv, PhaseInv, AfterCreate, WorkersJoined, Active, WorkerInv

\* after every step,
LEMMA StepReportInv == TypeOK /\ ReportInv /\ [Next]_vars => ReportInv'
<1> SUFFICES ASSUME TypeOK, ReportInv, [Next]_vars PROVE ReportInv'
  OBVIOUS
<1>1. ASSUME NEW n \in Nodes, Worker(n) PROVE ReportInv'
  <2>1. PhaseInv'
    BY <1>1, WorkerPhase DEF ReportInv
  <2>2. ASSUME NEW m \in Nodes PROVE WorkerInv(m)'
    <3>1. CASE m = n
      BY <1>1, <3>1, WorkerOwn DEF ReportInv
    <3>2. CASE m # n
      BY <1>1, <3>2, WorkerFrame DEF ReportInv, WorkerInv, NodeStatus
    <3> QED
      BY <3>1, <3>2
  <2> QED
    BY <2>1, <2>2 DEF ReportInv
<1>2. CASE Before \/ CreateDone \/ Kept \/ K8s \/ After \/ UNCHANGED vars
  BY <1>2, OthersPhase, OthersLeaveWorkers DEF ReportInv, WorkerInv
<1> QED
  BY <1>1, <1>2 DEF Next, Step, Ended

\* and so always.
LEMMA ReportInvariant == Spec => [](TypeOK /\ ReportInv)
<1>1. TypeOK /\ ReportInv /\ [Next]_vars => ReportInv'
  BY StepReportInv
<1> QED
  BY <1>1, InitReportInv, TypeCorrect, PTL DEF Spec

\* No Kubernetes install reaches a node that the run did not provision,
\* reuse or find, for any lab and any interleaving of the pool.
THEOREM InstallSafe == Spec => []NoInstallOnUnprovisioned
<1>1. TypeOK /\ ReportInv => NoInstallOnUnprovisioned
  BY DEF TypeOK, ReportInv, PhaseInv, WorkerInv, NoInstallOnUnprovisioned, FailedNodes, NodeStatus
<1> QED
  BY <1>1, ReportInvariant, PTL

\* Each node is reported at most once, truthfully, and by the summary all of
\* them are.
THEOREM ReportIsTruthful == Spec => []ReportTruthful
<1>1. TypeOK /\ ReportInv => ReportTruthful
  <2> SUFFICES ASSUME TypeOK, ReportInv PROVE ReportTruthful
    OBVIOUS
  <2>1. ASSUME NEW r \in nodeStatus, NEW q \in nodeStatus, r[1] = q[1] PROVE r = q
    <3>1. PICK n \in Nodes, s \in NodeStatus : r = <<n, s>>
      BY DEF TypeOK
    <3>2. PICK m \in Nodes, t \in NodeStatus : q = <<m, t>>
      BY DEF TypeOK
    <3>3. n = m
      BY <2>1, <3>1, <3>2
    <3>4. s = t
      BY <3>1, <3>2, <3>3 DEF ReportInv, WorkerInv
    <3> QED
      BY <3>1, <3>2, <3>3, <3>4
  <2>2. ASSUME NEW n \in Nodes, phase = "summary" PROVE \E s \in NodeStatus : <<n, s>> \in nodeStatus
    BY <2>2 DEF ReportInv, PhaseInv, AfterCreate, WorkerInv
  <2> QED
    BY <2>1, <2>2 DEF ReportTruthful, ReportInv, WorkerInv
<1> QED
  BY <1>1, ReportInvariant, PTL

\* The thread pool is left only when no worker is at work.
THEOREM PoolJoined == Spec => []WorkersJoined
<1>1. ReportInv => WorkersJoined
  BY DEF ReportInv, PhaseInv
<1> QED
  BY <1>1, ReportInvariant, PTL

\* A VM that has been reported, and an existing host, is never destroyed or
\* recreated by a later step.
THEOREM ReportedVmSafe == Spec => ReportedVmUntouched
<1> DEFINE Untouched == \A n \in Nodes :
               n \in Existing \/ (\E s \in NodeStatus : <<n, s>> \in nodeStatus)
                 => vm'[n] = vm[n]
<1>1. TypeOK /\ ReportInv /\ [Next]_vars => [Untouched]_vars
  <2> SUFFICES ASSUME TypeOK, ReportInv, [Next]_vars,
                      NEW n \in Nodes, n \in Existing \/ (\E s \in NodeStatus : <<n, s>> \in nodeStatus)
               PROVE  vm'[n] = vm[n]
    OBVIOUS
  <2>1. wpc[n] \notin {"keep", "destroy", "provision"}
    BY DEF ReportInv, WorkerInv
  <2>2. ASSUME NEW m \in Nodes, Worker(m) PROVE vm'[n] = vm[n]
    <3>1. CASE m = n
      BY <2>1, <2>2, <3>1 DEF Worker, StartNode, KeepCheck, DestroyVm, ProvisionVm, world
    <3>2. CASE m # n
      BY <2>2, <3>2, WorkerFrame
    <3> QED
      BY <3>1, <3>2
  <2> QED
    BY <2>2, OthersLeaveWorkers DEF Next, Step, Ended
<1> QED
  BY <1>1, ReportInvariant, PTL DEF Spec, ReportedVmUntouched

(***************************************************************************)
(* Harvester nodes and the VIP of their cluster.                           *)
(***************************************************************************)
\* A node that joins a Harvester cluster starts after its create node is done, and a create
\* node that was created has brought the VIP.
CreatorInv ==
    /\ \A n \in Nodes : KCluster[n] \in HarvesterClusters /\ n # CreateNode[KCluster[n]] /\ wpc[n] # "todo"
         => wpc[CreateNode[KCluster[n]]] = "done"
    /\ \A c \in HarvesterClusters : <<CreateNode[c], "created">> \in nodeStatus => c \in vip
    /\ \A n \in Nodes : <<"novip", n>> \in errors =>
         /\ KCluster[n] \in HarvesterClusters /\ wpc[n] = "done" /\ n # CreateNode[KCluster[n]]
         /\ <<CreateNode[KCluster[n]], "created">> \notin nodeStatus

\* Only a worker records that a VIP was missing, or moves a VIP.
LEMMA OthersLeaveVips ==
    ASSUME Before \/ CreateDone \/ Kept \/ K8s \/ After \/ UNCHANGED vars
    PROVE  /\ vip' = vip
           /\ \A n \in Nodes : <<"novip", n>> \in errors' => <<"novip", n>> \in errors
<1> USE DEF report, world, AddError
<1>1. CASE Before
  BY <1>1 DEF Before, FetchImages, AllocateIps, Preflight, PreflightFails, ValidateAddons, ConfigureServices, ClusterDns
<1>2. CASE CreateDone \/ Kept
  BY <1>2 DEF CreateDone, Kept, RebootKept, WaitKept, RebootDone, WaitDone
<1>3. CASE K8s
  <2>1. ASSUME NEW c \in Clusters, SkipCluster(c) \/ InstallK8s(c)
        PROVE  vip' = vip /\ \A n \in Nodes : <<"novip", n>> \in errors' => <<"novip", n>> \in errors
    BY <2>1 DEF SkipCluster, InstallK8s
  <2>2. CASE ClusterAddon
    <3>1. vip' = vip
      BY <2>2 DEF ClusterAddon
    <3>2. errors' = errors \/ errors' = errors \cup {<<"addon", scope>>}
      BY <2>2 DEF ClusterAddon, RecordAddon
    <3> QED
      BY <3>1, <3>2
  <2>3. CASE Settle \/ ClusterAddonsDone \/ K8sDone
    BY <2>3 DEF Settle, ClusterAddonsDone, K8sDone
  <2> QED
    BY <1>3, <2>1, <2>2, <2>3 DEF K8s
<1>4. CASE After
  BY <1>4 DEF After, NodeAddonsStart, PostCommands, NodeAddon, RecordAddon, NodeAddonsDone, VmAddonsDone, PostDone, Summary
<1>5. CASE UNCHANGED vars
  BY <1>5 DEF vars
<1> QED
  BY <1>1, <1>2, <1>3, <1>4, <1>5

\* The create node of a Harvester cluster is one of its nodes, and of no other cluster.
LEMMA CreatorOfOne ==
    \A c \in HarvesterClusters : CreateNode[c] \in Nodes /\ CreateNode[c] \notin Existing /\ KCluster[CreateNode[c]] = c
  BY LabAssumption

\* A worker's step keeps the order of the create nodes.
LEMMA WorkerCreator ==
    ASSUME NEW n \in Nodes, TypeOK, ReportInv, CreatorInv, Worker(n)
    PROVE  CreatorInv'
<1> USE CreatorOfOne
<1>0. wpc[n] # "done"
  BY DEF Worker, StartNode, KeepCheck, DestroyVm, ProvisionVm
<1>1. ASSUME NEW m \in Nodes, KCluster[m] \in HarvesterClusters, m # CreateNode[KCluster[m]], wpc'[m] # "todo"
      PROVE  wpc'[CreateNode[KCluster[m]]] = "done"
  <2>1. wpc[CreateNode[KCluster[m]]] = "done"
    <3>1. CASE wpc[m] # "todo"
      BY <1>1, <3>1 DEF CreatorInv
    <3>2. CASE wpc[m] = "todo"
      <4>1. m = n
        BY <1>1, <3>2, WorkerFrame
      <4>2. MayStart(n)
        BY <3>2, <4>1 DEF Worker, StartNode, KeepCheck, DestroyVm, ProvisionVm
      <4>3. CASE OnMainThread(n)
        <5>1. parallel = 0
          BY <1>1, <4>1, <4>3 DEF OnMainThread, Creators
        <5> QED
          BY <1>1, <4>1, <4>2, <4>3, <5>1 DEF MayStart, BeforeInFile
      <4>4. CASE ~OnMainThread(n)
        BY <1>1, <4>1, <4>2, <4>4 DEF MayStart, Creators
      <4> QED
        BY <4>3, <4>4
    <3> QED
      BY <3>1, <3>2
  <2> QED
    BY <1>0, <1>1, <2>1, WorkerFrame
<1>2. ASSUME NEW c \in HarvesterClusters, <<CreateNode[c], "created">> \in nodeStatus'
      PROVE  c \in vip'
  <2>1. CASE n = CreateNode[c]
    <3>1. <<n, "created">> \notin nodeStatus
      BY <1>0 DEF ReportInv, WorkerInv, NodeStatus
    <3>2. ProvisionVm(n) /\ Provisioned(n)
      BY <1>2, <2>1, <3>1 DEF Worker, StartNode, StartExisting, StartOwned, KeepCheck, DestroyVm, ProvisionVm,
                              ProvisionFails, NoVip, Finish, AddNode
    <3> QED
      BY <2>1, <3>2 DEF Provisioned, VipWith
  <2>2. CASE n # CreateNode[c]
    <3>1. c \in vip
      BY <1>2, <2>2, WorkerFrame DEF CreatorInv, NodeStatus
    <3> QED
      BY <2>2, <3>1 DEF Worker, StartNode, KeepCheck, DestroyVm, ProvisionVm, Provisioned, ProvisionFails, NoVip,
                        VipWith, VipWithout, world
  <2> QED
    BY <2>1, <2>2
<1>3. ASSUME NEW m \in Nodes, <<"novip", m>> \in errors'
      PROVE  /\ KCluster[m] \in HarvesterClusters /\ wpc'[m] = "done" /\ m # CreateNode[KCluster[m]]
             /\ <<CreateNode[KCluster[m]], "created">> \notin nodeStatus'
  <2>1. CASE <<"novip", m>> \in errors
    <3>1. /\ KCluster[m] \in HarvesterClusters /\ wpc[m] = "done" /\ m # CreateNode[KCluster[m]]
          /\ <<CreateNode[KCluster[m]], "created">> \notin nodeStatus /\ wpc[CreateNode[KCluster[m]]] = "done"
      BY <2>1 DEF CreatorInv
    <3> QED
      BY <1>0, <3>1, WorkerFrame DEF NodeStatus
  <2>2. CASE <<"novip", m>> \notin errors
    <3>1. m = n /\ NoVip(n) /\ wpc[n] = "provision"
      BY <1>3, <2>2 DEF Worker, StartNode, KeepCheck, DestroyVm, ProvisionVm, Provisioned, ProvisionFails, NoVip, AddError
    <3>2. KCluster[m] \in HarvesterClusters /\ m # CreateNode[KCluster[m]] /\ KCluster[m] \notin vip
      BY <3>1 DEF NoVip, LacksVip
    <3>3. <<CreateNode[KCluster[m]], "created">> \notin nodeStatus
      BY <3>2 DEF CreatorInv
    <3>4. wpc'[m] = "done" /\ nodeStatus' = nodeStatus \cup {<<m, "FAILED">>}
      BY <3>1 DEF NoVip, Finish, AddNode, TypeOK
    <3> QED
      BY <3>2, <3>3, <3>4
  <2> QED
    BY <2>1, <2>2
<1> QED
  BY <1>1, <1>2, <1>3 DEF CreatorInv

\* phase_create_vms(): in any lab and any pool, no Harvester node fails for want of a VIP
\* when its cluster's create node was created in this run.
THEOREM CreatorGoesFirst == Spec => []CreatorFirst
<1>1. Init => CreatorInv
  BY DEF Init, CreatorInv
<1>2. TypeOK /\ ReportInv /\ CreatorInv /\ [Next]_vars => CreatorInv'
  BY WorkerCreator, OthersLeaveVips, OthersLeaveWorkers DEF Next, Step, Ended, CreatorInv
<1>3. CreatorInv => CreatorFirst
  BY DEF CreatorInv, CreatorFirst
<1> QED
  BY <1>1, <1>2, <1>3, ReportInvariant, PTL DEF Spec

(***************************************************************************)
(* What the add-on loops have done.                                        *)
(***************************************************************************)
Early      == {"fetch", "allocate", "preflight", "validate", "services", "dns", "create", "reboot", "wait"}
InClusters == {"k8s", "settle", "addons"}
Late       == {"vmaddons", "nodeaddons", "post", "summary"}

AllAddons(c) == ClusterServices[c] \o ClusterAddons[c]
Recorded(x, a) == \E s \in AddonStatus : <<x, a, s>> \in addonStatus

\* The queue is what is left of a list, and what comes before it is recorded.
Loop(x, list) == \E k \in 0..Len(list) :
    /\ Len(queue) = Len(list) - k
    /\ \A i \in 1..Len(queue) : queue[i] = list[k + i]
    /\ \A i \in 1..k : Recorded(x, list[i])

ClusterDone(c) ==
    /\ <<c, "ok">> \in clusterStatus \/ <<c, "FAILED">> \in clusterStatus
    /\ <<c, "ok">> \in clusterStatus =>
         /\ Members(c) \subseteq touched
         /\ (phase \in {"settle", "addons"} /\ scope = c) \/ \A a \in Elements(AllAddons(c)) : Recorded(c, a)

NodeDone(n) == \/ n \in FailedNodes
               \/ phase = "nodeaddons" /\ scope = n
               \/ \A a \in Elements(NodeAddons[n]) : Recorded(n, a)

\* The loop over the clusters, and the one over the add-ons of a cluster.
ClusterLoop ==
    /\ phase \in Early => addonStatus = {} /\ clusterStatus = {} /\ touched = {}
    /\ phase \in InClusters => \A c \in clustersLeft : <<c, "ok">> \notin clusterStatus /\ \A a \in Addons : ~Recorded(c, a)
    /\ phase \in {"settle", "addons"} => scope \notin clustersLeft
    /\ phase = "settle" => \A a \in Addons : ~Recorded(scope, a)
    /\ phase = "addons" => Loop(scope, AllAddons(scope)) /\ \A a \in Addons : a \in installed <=> Recorded(scope, a)
    /\ phase \in InClusters => \A c \in Clusters \ clustersLeft : ClusterDone(c)
    /\ phase \in Late => \A c \in Clusters : ClusterDone(c)

\* The loop over the nodes, and the one over the add-ons of a node.
NodeLoop ==
    /\ phase = "nodeaddons" => Loop(scope, NodeAddons[scope])
    /\ phase \in {"vmaddons", "nodeaddons"} => \A n \in Nodes \ nodesLeft : NodeDone(n)
    /\ phase \in {"post", "summary"} => \A n \in Nodes : NodeDone(n)

\* The labs for which the comment on phase_install_k8s_and_addons() holds: K3s only, no
\* mapping among the add-ons of a cluster, and a script for every service.
PlainLab == /\ \A c \in Clusters : ClusterType[c] = "k3s" /\ \A a \in Elements(ClusterServices[c]) : Runs(c, a)
            /\ Mapped = {}

\* AddonsInOrder, one cluster at a time.
InOrder ==
    /\ \A c \in Clusters, a \in Addons, s, t \in AddonStatus :
         <<c, a, s>> \in addonStatus /\ <<c, a, t>> \in addonStatus => s = t
    /\ \A c \in Clusters, a \in Addons : Recorded(c, a) /\ a \notin Elements(ClusterServices[c])
         => \A b \in Elements(ClusterServices[c]) : Recorded(c, b)

Exits ==
    /\ phase # "exited" => exit # 0
    /\ phase \notin {"fetch", "allocate", "preflight", "exited"} => ListedRun
    /\ phase = "exited" /\ PlainLab => (touched = {} /\ clusterStatus = {}) \/ banner # "none"

ProgressInv == ClusterLoop /\ NodeLoop /\ Exits /\ InOrder /\ ExitZeroSound /\ (PlainLab => ClusterWorkReported)

\* The services of a cluster come first in its list.
LEMMA AllAddonsLists ==
    ASSUME NEW c \in Clusters
    PROVE  /\ AllAddons(c) \in Seq(Addons)
           /\ Len(ClusterServices[c]) \in Nat /\ Len(AllAddons(c)) \in Nat
           /\ Len(ClusterServices[c]) =< Len(AllAddons(c))
           /\ \A i \in 1..Len(ClusterServices[c]) : AllAddons(c)[i] = ClusterServices[c][i]
           /\ Elements(AllAddons(c)) = Elements(ClusterServices[c]) \cup Elements(ClusterAddons[c])
           /\ \A i \in 1..Len(AllAddons(c)) :
                AllAddons(c)[i] \notin Elements(ClusterServices[c]) => i > Len(ClusterServices[c])
<1> DEFINE S == ClusterServices[c]
           A == ClusterAddons[c]
<1>1. S \in Seq(Addons) /\ A \in Seq(Addons)
  BY LabAssumption
<1> HIDE DEF S, A
<1>2. /\ S \o A \in Seq(Addons) /\ Len(S) \in Nat /\ Len(A) \in Nat /\ Len(S \o A) = Len(S) + Len(A)
      /\ \A i \in 1..Len(S \o A) : (S \o A)[i] = IF i =< Len(S) THEN S[i] ELSE A[i - Len(S)]
  BY <1>1
<1>3. ASSUME NEW i \in 1..Len(A) PROVE A[i] \in Elements(S \o A)
  <2>1. Len(S) + i \in 1..Len(S \o A) /\ (S \o A)[Len(S) + i] = A[i]
    BY <1>2
  <2> QED
    BY <2>1 DEF Elements
<1>4. ASSUME NEW i \in 1..Len(S) PROVE S[i] \in Elements(S \o A)
  <2>1. i \in 1..Len(S \o A) /\ (S \o A)[i] = S[i]
    BY <1>2
  <2> QED
    BY <2>1 DEF Elements
<1>5. ASSUME NEW i \in 1..Len(S \o A) PROVE (S \o A)[i] \in Elements(S) \cup Elements(A)
  BY <1>2 DEF Elements
<1>6. Elements(S \o A) = Elements(S) \cup Elements(A)
  BY <1>3, <1>4, <1>5 DEF Elements
<1>7. \A i \in 1..Len(S \o A) : (S \o A)[i] \notin Elements(S) => i > Len(S)
  BY <1>2 DEF Elements
<1>8. AllAddons(c) = S \o A /\ ClusterServices[c] = S /\ ClusterAddons[c] = A
  BY DEF AllAddons, S, A
<1>9. /\ Len(S) =< Len(S \o A)
      /\ \A i \in 1..Len(S) : (S \o A)[i] = S[i]
  BY <1>2
<1> QED
  BY <1>2, <1>6, <1>7, <1>8, <1>9

\* The loop over a list begins with all of it,
LEMMA LoopStarts ==
    ASSUME NEW x, NEW list \in Seq(Addons), queue' = list
    PROVE  Loop(x, list)'
<1>1. /\ 0 \in 0..Len(list) /\ Len(queue') = Len(list) - 0 /\ \A i \in 1..Len(queue') : queue'[i] = list[0 + i]
      /\ \A i \in 1..0 : Recorded(x, list[i])'
  OBVIOUS
<1> QED
  BY <1>1 DEF Loop

\* goes on when its head is recorded,
LEMMA LoopGoesOn ==
    ASSUME NEW x, NEW list \in Seq(Addons), queue \in Seq(Addons), queue # <<>>, Loop(x, list),
           queue' = Tail(queue), addonStatus \subseteq addonStatus',
           \E s \in AddonStatus : <<x, Head(queue), s>> \in addonStatus'
    PROVE  Loop(x, list)'
<1>1. PICK k \in 0..Len(list) :
        /\ Len(queue) = Len(list) - k
        /\ \A i \in 1..Len(queue) : queue[i] = list[k + i]
        /\ \A i \in 1..k : Recorded(x, list[i])
  BY DEF Loop
<1>2. /\ Len(queue) \in Nat \ {0} /\ Head(queue) = queue[1] /\ Len(Tail(queue)) = Len(queue) - 1
      /\ \A i \in 1..Len(queue) - 1 : Tail(queue)[i] = queue[i + 1]
  OBVIOUS
<1>3. /\ k + 1 \in 0..Len(list) /\ Len(queue') = Len(list) - (k + 1)
      /\ \A i \in 1..Len(queue') : queue'[i] = list[(k + 1) + i]
  BY <1>1, <1>2
<1>4. \A i \in 1..k : Recorded(x, list[i])'
  BY <1>1 DEF Recorded
<1>5. list[k + 1] = Head(queue)
  BY <1>1, <1>2
<1>6. Recorded(x, list[k + 1])'
  BY <1>5 DEF Recorded
<1>7. \A i \in 1..(k + 1) : i \in 1..k \/ i = k + 1
  OBVIOUS
<1>8. \A i \in 1..(k + 1) : Recorded(x, list[i])'
  BY <1>4, <1>6, <1>7
<1> QED
  BY <1>3, <1>8 DEF Loop

\* takes its head from the list, when everything before it is recorded,
LEMMA LoopHead ==
    ASSUME NEW x, NEW list \in Seq(Addons), queue \in Seq(Addons), queue # <<>>, Loop(x, list)
    PROVE  \E k \in 1..Len(list) : Head(queue) = list[k] /\ \A i \in 1..Len(list) : i < k => Recorded(x, list[i])
<1>1. PICK k \in 0..Len(list) :
        /\ Len(queue) = Len(list) - k
        /\ \A i \in 1..Len(queue) : queue[i] = list[k + i]
        /\ \A i \in 1..k : Recorded(x, list[i])
  BY DEF Loop
<1>2. Len(queue) \in Nat \ {0} /\ Head(queue) = queue[1]
  OBVIOUS
<1>3. k + 1 \in 1..Len(list) /\ Head(queue) = list[k + 1] /\ \A i \in 1..Len(list) : i < k + 1 => i \in 1..k
  BY <1>1, <1>2
<1> QED
  BY <1>1, <1>3

\* and ends when everything is recorded.
LEMMA LoopEnds ==
    ASSUME NEW x, NEW list \in Seq(Addons), queue = <<>>, Loop(x, list)
    PROVE  \A a \in Elements(list) : Recorded(x, a)
<1>1. PICK k \in 0..Len(list) : Len(queue) = Len(list) - k /\ \A i \in 1..k : Recorded(x, list[i])
  BY DEF Loop
<1>2. k = Len(list)
  BY <1>1
<1> QED
  BY <1>1, <1>2 DEF Elements

\* Up to phase_create_vms() and the wait for kept nodes nothing is installed.
LEMMA EarlyProgress ==
    ASSUME TypeOK, ProgressInv, Before \/ (\E n \in Nodes : Worker(n)) \/ CreateDone \/ Kept
    PROVE  ProgressInv'
<1>1. phase \in Early /\ UNCHANGED <<addonStatus, clusterStatus, touched>>
  BY DEF Early, report, world, Before, FetchImages, AllocateIps, Preflight, ValidateAddons, ConfigureServices, ClusterDns,
         Worker, StartNode, KeepCheck, DestroyVm, ProvisionVm, CreateDone, Kept, RebootKept, WaitKept, RebootDone, WaitDone
<1>2. /\ phase' \in Early \cup {"k8s", "vmaddons", "exited"}
      /\ phase' = "k8s" => clustersLeft' = Clusters
      /\ phase' = "vmaddons" => Clusters = {} /\ nodesLeft' = Nodes
      /\ exit' = exit \/ exit' = 1
  <2> USE DEF Early, GoTo, Die, Stay, outcome
  <2>1. CASE Before
    BY <2>1 DEF Before, FetchImages, AllocateIps, Preflight, PreflightFails, ValidateAddons, ConfigureServices, ClusterDns
  <2>2. ASSUME NEW n \in Nodes, Worker(n)
        PROVE  phase' \in {"create", "exited"} /\ (exit' = exit \/ exit' = 1)
    BY <2>2 DEF Worker, StartNode, StartExisting, StartOwned, Raise, KeepCheck, DestroyVm, ProvisionVm, Provisioned, ProvisionFails, NoVip
  <2>3. CASE CreateDone
    BY <2>3 DEF CreateDone, ToVmAddons, ToReboot, ToK8s
  <2>4. CASE Kept
    BY <2>4 DEF Kept, RebootKept, WaitKept, RebootDone, WaitDone, ToWait, ToK8s
  <2> QED
    BY <2>1, <2>2, <2>3, <2>4
<1>3. phase' \notin {"fetch", "allocate", "preflight", "exited"} => ListedRun
  <2> USE DEF GoTo, Die, Stay, outcome
  <2>1. CASE Before
    BY <2>1 DEF Before, FetchImages, AllocateIps, Preflight, PreflightFails, ValidateAddons, ConfigureServices, ClusterDns,
                ProgressInv, Exits
  <2>2. CASE (\E n \in Nodes : Worker(n)) \/ CreateDone \/ Kept
    <3>1. phase \in {"create", "reboot", "wait"}
      BY <2>2 DEF Worker, StartNode, KeepCheck, DestroyVm, ProvisionVm, CreateDone, Kept, RebootKept, WaitKept, RebootDone,
                  WaitDone
    <3> QED
      BY <3>1 DEF ProgressInv, Exits
  <2> QED
    BY <2>1, <2>2
<1>4. addonStatus' = {} /\ clusterStatus' = {} /\ touched' = {} /\ exit' # 0
  BY <1>1, <1>2 DEF ProgressInv, ClusterLoop, Exits, Early
<1>5. ClusterLoop' /\ NodeLoop'
  BY <1>2, <1>4 DEF ClusterLoop, NodeLoop, Recorded, Early, InClusters, Late
<1>6. Exits' /\ InOrder' /\ ExitZeroSound' /\ ClusterWorkReported'
  BY <1>3, <1>4 DEF Exits, InOrder, Recorded, ExitZeroSound, ClusterWorkReported
<1> QED
  BY <1>5, <1>6 DEF ProgressInv

\* What a step leaves alone while the run goes on.
LEMMA RunGoesOn ==
    ASSUME ProgressInv, phase \in InClusters \cup Late, phase' \in InClusters \cup Late, exit' = exit
    PROVE  Exits' /\ ExitZeroSound' /\ ClusterWorkReported'
<1>1. exit' # 0 /\ phase' # "exited" /\ ListedRun
  BY DEF ProgressInv, Exits, InClusters, Late
<1> QED
  BY <1>1 DEF Exits, ExitZeroSound, ClusterWorkReported

\* The run ends without a summary: not in a plain lab once its add-ons are checked.
LEMMA RunDies ==
    ASSUME ProgressInv, ~PlainLab, phase' = "exited", exit' = 1
    PROVE  Exits' /\ ExitZeroSound' /\ (PlainLab => ClusterWorkReported')
  BY DEF Exits, ExitZeroSound

\* A cluster with a failed node is skipped, and reported.
LEMMA SkipProgress ==
    ASSUME TypeOK, ProgressInv, NEW c \in Clusters, SkipCluster(c)
    PROVE  ProgressInv'
<1>1. /\ phase = "k8s" /\ phase' = "k8s" /\ exit' = exit
      /\ UNCHANGED <<scope, queue, installed, nodesLeft, addonStatus, touched>>
      /\ clustersLeft' = clustersLeft \ {c} /\ clusterStatus' = clusterStatus \cup {<<c, "FAILED">>} /\ c \in clustersLeft
  BY DEF SkipCluster, Stay, outcome, world
<1>2. ClusterLoop' /\ NodeLoop' /\ InOrder'
  BY <1>1 DEF ProgressInv, ClusterLoop, NodeLoop, InOrder, ClusterDone, Recorded, Early, InClusters, Late
<1> QED
  BY <1>1, <1>2, RunGoesOn DEF ProgressInv, InClusters

\* A cluster is installed, fails, or ends the run.
LEMMA InstallProgress ==
    ASSUME TypeOK, ProgressInv, NEW c \in Clusters, InstallK8s(c)
    PROVE  ProgressInv'
<1>1. /\ phase = "k8s" /\ c \in clustersLeft /\ clustersLeft' = clustersLeft \ {c} /\ touched' = touched \cup Members(c)
      /\ UNCHANGED <<queue, installed, nodesLeft, addonStatus>>
  BY DEF InstallK8s
<1>2. CASE phase' = "settle"
  <2>1. clusterStatus' = clusterStatus \cup {<<c, "ok">>} /\ scope' = c /\ exit' = exit
    BY <1>1, <1>2 DEF InstallK8s, GoTo, Stay, Die, outcome
  <2>2. ClusterLoop' /\ NodeLoop' /\ InOrder'
    BY <1>1, <1>2, <2>1 DEF ProgressInv, ClusterLoop, NodeLoop, InOrder, ClusterDone, Recorded, Early, InClusters, Late
  <2> QED
    BY <1>1, <1>2, <2>1, <2>2, RunGoesOn DEF ProgressInv, InClusters
<1>3. CASE phase' = "k8s"
  <2>1. clusterStatus' = clusterStatus \cup {<<c, "FAILED">>} /\ scope' = scope /\ exit' = exit
    BY <1>1, <1>3 DEF InstallK8s, GoTo, Stay, Die, outcome
  <2>2. ClusterLoop' /\ NodeLoop' /\ InOrder'
    BY <1>1, <1>3, <2>1 DEF ProgressInv, ClusterLoop, NodeLoop, InOrder, ClusterDone, Recorded, Early, InClusters, Late
  <2> QED
    BY <1>1, <1>3, <2>1, <2>2, RunGoesOn DEF ProgressInv, InClusters
<1>4. CASE phase' \notin {"settle", "k8s"}
  <2>1. phase' = "exited" /\ exit' = 1 /\ ClusterType[c] # "k3s"
    BY <1>1, <1>4 DEF InstallK8s, GoTo, Stay, Die
  <2>2. ClusterLoop' /\ NodeLoop' /\ InOrder'
    BY <1>1, <2>1 DEF ProgressInv, ClusterLoop, NodeLoop, InOrder, Recorded, Early, InClusters, Late
  <2> QED
    BY <2>1, <2>2, RunDies DEF ProgressInv, PlainLab
<1> QED
  BY <1>2, <1>3, <1>4

\* The add-ons of a cluster are queued.
LEMMA SettleProgress ==
    ASSUME TypeOK, ScopeKind, ProgressInv, Settle
    PROVE  ProgressInv'
<1>1. /\ phase = "settle" /\ scope \in Clusters
      /\ UNCHANGED <<scope, clustersLeft, nodesLeft, addonStatus, clusterStatus, touched>>
  BY DEF Settle, ScopeKind, report, world
<1>2. CASE scope \in HarvesterClusters \cup Mapped
  <2>1. phase' = "exited" /\ exit' = 1
    BY <1>2 DEF Settle, Die
  <2>2. ~PlainLab
    BY <1>1, <1>2 DEF PlainLab, HarvesterClusters
  <2>3. ClusterLoop' /\ NodeLoop' /\ InOrder'
    BY <1>1, <2>1 DEF ProgressInv, ClusterLoop, NodeLoop, InOrder, Recorded, Early, InClusters, Late
  <2> QED
    BY <2>1, <2>2, <2>3, RunDies DEF ProgressInv
<1>3. CASE scope \notin HarvesterClusters \cup Mapped
  <2>1. phase' = "addons" /\ exit' = exit /\ queue' = AllAddons(scope) /\ installed' = {}
    BY <1>3 DEF Settle, GoTo, outcome, AllAddons
  <2>2. PICK c \in Clusters : c = scope
    BY <1>1
  <2>3. Loop(c, AllAddons(c))'
    BY <2>1, <2>2, AllAddonsLists, LoopStarts
  <2>4. ClusterLoop' /\ NodeLoop' /\ InOrder'
    BY <1>1, <2>1, <2>2, <2>3 DEF ProgressInv, ClusterLoop, NodeLoop, InOrder, ClusterDone, Recorded, Early, InClusters, Late
  <2> QED
    BY <1>1, <2>1, <2>4, RunGoesOn DEF ProgressInv, InClusters
<1> QED
  BY <1>2, <1>3

\* What the preflight has let through runs where it is listed, and in a plain lab so do the services.
LEMMA ListedCanRun ==
    ASSUME ListedRun
    PROVE  /\ \A n \in Nodes : \A a \in Elements(NodeAddons[n]) : Runs(n, a)
           /\ PlainLab => \A c \in Clusters : \A a \in Elements(AllAddons(c)) : Runs(c, a)
  BY AllAddonsLists DEF ListedRun, PlainLab

\* What one more entry of the report records.
LEMMA OneMoreRecorded ==
    ASSUME NEW x, NEW a, NEW s \in AddonStatus, addonStatus' = addonStatus \cup {<<x, a, s>>}
    PROVE  /\ Recorded(x, a)'
           /\ \A y, b : Recorded(y, b)' <=> Recorded(y, b) \/ (y = x /\ b = a)
<1>1. \A y, b, t : <<y, b, t>> \in addonStatus' <=> <<y, b, t>> \in addonStatus \/ (y = x /\ b = a /\ t = s)
  OBVIOUS
<1> QED
  BY <1>1 DEF Recorded

\* One add-on of a cluster is skipped, or run and recorded, or has no script.
LEMMA ClusterAddonProgress ==
    ASSUME TypeOK, ScopeKind, ProgressInv, ClusterAddon
    PROVE  ProgressInv'
<1>1. /\ phase = "addons" /\ queue # <<>> /\ UNCHANGED <<scope, clustersLeft, nodesLeft, clusterStatus, touched>>
  BY DEF ClusterAddon, world
<1>2. PICK c \in Clusters : c = scope
  BY <1>1 DEF ScopeKind
<1>3. PICK a \in Addons : a = Head(queue)
  BY <1>1 DEF TypeOK
<1>4. /\ Loop(c, AllAddons(c)) /\ queue \in Seq(Addons) /\ AllAddons(c) \in Seq(Addons)
      /\ \A b \in Addons : b \in installed <=> Recorded(c, b)
      /\ c \notin clustersLeft
  BY <1>1, <1>2, AllAddonsLists DEF ProgressInv, ClusterLoop, TypeOK
<1>5. PICK k \in 1..Len(AllAddons(c)) :
        a = AllAddons(c)[k] /\ \A i \in 1..Len(AllAddons(c)) : i < k => Recorded(c, AllAddons(c)[i])
  BY <1>1, <1>3, <1>4, LoopHead
<1>6. CASE a \in installed
  <2>1. phase' = "addons" /\ exit' = exit /\ queue' = Tail(queue) /\ UNCHANGED <<installed, addonStatus>>
    BY <1>1, <1>3, <1>6 DEF ClusterAddon, Stay, outcome
  <2>2. \E s \in AddonStatus : <<c, Head(queue), s>> \in addonStatus'
    BY <1>3, <1>4, <1>6, <2>1 DEF Recorded
  <2>3. Loop(c, AllAddons(c))'
    BY <1>1, <1>4, <2>1, <2>2, LoopGoesOn
  <2>4. ClusterLoop' /\ NodeLoop' /\ InOrder'
    BY <1>1, <1>2, <2>1, <2>3 DEF ProgressInv, ClusterLoop, NodeLoop, InOrder, ClusterDone, Recorded, Early, InClusters, Late
  <2> QED
    BY <1>1, <2>1, <2>4, RunGoesOn DEF ProgressInv, InClusters
<1>7. CASE a \notin installed /\ ~Runs(c, a)
  <2>1. phase' = "exited" /\ exit' = 1 /\ UNCHANGED addonStatus
    BY <1>1, <1>2, <1>3, <1>7 DEF ClusterAddon, Die
  <2>2. ListedRun /\ a \in Elements(AllAddons(c))
    BY <1>1, <1>5 DEF ProgressInv, Exits, Elements
  <2>3. ~PlainLab
    BY <1>7, <2>2, ListedCanRun
  <2>4. ClusterLoop' /\ NodeLoop' /\ InOrder'
    BY <1>1, <2>1 DEF ProgressInv, ClusterLoop, NodeLoop, InOrder, Recorded, Early, InClusters, Late
  <2> QED
    BY <2>1, <2>3, <2>4, RunDies DEF ProgressInv
<1>8. CASE a \notin installed /\ Runs(c, a)
  <2>1. PICK s \in AddonStatus : addonStatus' = addonStatus \cup {<<c, a, s>>}
    BY <1>1, <1>2, <1>3, <1>8 DEF ClusterAddon, RecordAddon
  <2>2. phase' = "addons" /\ exit' = exit /\ queue' = Tail(queue) /\ installed' = installed \cup {a}
    BY <1>1, <1>2, <1>3, <1>8 DEF ClusterAddon, Stay, outcome
  <2>3. \A y, b : Recorded(y, b)' <=> Recorded(y, b) \/ (y = c /\ b = a)
    BY <2>1, OneMoreRecorded
  <2>4. Loop(c, AllAddons(c))'
    <3>1. \E t \in AddonStatus : <<c, Head(queue), t>> \in addonStatus'
      BY <1>3, <2>1
    <3> QED
      BY <1>1, <1>4, <2>1, <2>2, <3>1, LoopGoesOn
  <2>5. ClusterLoop'
    <3>1. \A d \in Clusters \ clustersLeft : ClusterDone(d)'
      BY <1>1, <1>2, <2>2, <2>3 DEF ProgressInv, ClusterLoop, ClusterDone, InClusters
    <3>2. \A d \in clustersLeft : <<d, "ok">> \notin clusterStatus /\ \A b \in Addons : ~Recorded(d, b)'
      BY <1>1, <1>4, <2>3 DEF ProgressInv, ClusterLoop, InClusters
    <3>3. \A b \in Addons : b \in installed' <=> Recorded(c, b)'
      BY <1>4, <2>2, <2>3
    <3> QED
      BY <1>1, <1>2, <1>4, <2>2, <2>4, <3>1, <3>2, <3>3 DEF ClusterLoop, Early, InClusters, Late
  <2>6. NodeLoop'
    BY <2>2 DEF NodeLoop
  <2>7. InOrder'
    <3>1. \A t \in AddonStatus : <<c, a, t>> \notin addonStatus
      BY <1>4, <1>8 DEF Recorded
    <3>2. \A d \in Clusters, b \in Addons, t, u \in AddonStatus :
            <<d, b, t>> \in addonStatus' /\ <<d, b, u>> \in addonStatus' => t = u
      BY <2>1, <3>1 DEF ProgressInv, InOrder
    <3>3. ASSUME a \notin Elements(ClusterServices[c]), NEW b \in Elements(ClusterServices[c])
          PROVE  Recorded(c, b)
      <4>1. PICK i \in 1..Len(ClusterServices[c]) : b = ClusterServices[c][i]
        BY DEF Elements
      <4>2. k > Len(ClusterServices[c])
        BY <1>5, <3>3, AllAddonsLists
      <4>3. i \in 1..Len(AllAddons(c)) /\ i < k /\ AllAddons(c)[i] = b
        BY <4>1, <4>2, AllAddonsLists
      <4> QED
        BY <1>5, <4>3
    <3>4. \A d \in Clusters, b \in Addons : Recorded(d, b)' /\ b \notin Elements(ClusterServices[d])
            => \A e \in Elements(ClusterServices[d]) : Recorded(d, e)'
      BY <2>3, <3>3 DEF ProgressInv, InOrder
    <3> QED
      BY <3>2, <3>4 DEF InOrder
  <2> QED
    BY <1>1, <2>2, <2>5, <2>6, <2>7, RunGoesOn DEF ProgressInv, InClusters
<1> QED
  BY <1>6, <1>7, <1>8

\* The add-ons of a cluster are all recorded.
LEMMA ClusterAddonsDoneProgress ==
    ASSUME TypeOK, ScopeKind, ProgressInv, ClusterAddonsDone
    PROVE  ProgressInv'
<1>1. /\ phase = "addons" /\ phase' = "k8s" /\ exit' = exit /\ queue = <<>>
      /\ UNCHANGED <<scope, queue, installed, clustersLeft, nodesLeft, clusterStatus, addonStatus, touched>>
  BY DEF ClusterAddonsDone, GoTo, outcome, loop, report, world
<1>2. PICK c \in Clusters : c = scope
  BY <1>1 DEF ScopeKind
<1>3. \A a \in Elements(AllAddons(c)) : Recorded(c, a)
  BY <1>1, <1>2, AllAddonsLists, LoopEnds DEF ProgressInv, ClusterLoop
<1>4. ClusterLoop' /\ NodeLoop' /\ InOrder'
  BY <1>1, <1>2, <1>3 DEF ProgressInv, ClusterLoop, NodeLoop, InOrder, ClusterDone, Recorded, Early, InClusters, Late
<1> QED
  BY <1>1, <1>4, RunGoesOn DEF ProgressInv, InClusters

\* Every cluster has had its turn.
LEMMA K8sDoneProgress ==
    ASSUME TypeOK, ProgressInv, K8sDone
    PROVE  ProgressInv'
<1>1. /\ phase = "k8s" /\ phase' = "vmaddons" /\ exit' = exit /\ clustersLeft = {} /\ nodesLeft' = Nodes
      /\ UNCHANGED <<clusterStatus, addonStatus, touched>>
  BY DEF K8sDone, ToVmAddons, GoTo, outcome, report, world
<1>2. ClusterLoop' /\ NodeLoop' /\ InOrder'
  BY <1>1 DEF ProgressInv, ClusterLoop, NodeLoop, InOrder, ClusterDone, Recorded, Early, InClusters, Late
<1> QED
  BY <1>1, <1>2, RunGoesOn DEF ProgressInv, InClusters, Late

\* A node's add-ons are queued, unless the node failed.
LEMMA NodeAddonsStartProgress ==
    ASSUME TypeOK, ReportInv, ProgressInv, NEW n \in Nodes, NodeAddonsStart(n)
    PROVE  ProgressInv'
<1>1. /\ phase = "vmaddons" /\ n \in nodesLeft /\ nodesLeft' = nodesLeft \ {n}
      /\ UNCHANGED <<nodeStatus, clusterStatus, addonStatus, touched>>
  BY DEF NodeAddonsStart, report, world
<1>2. CASE n \in FailedNodes
  <2>1. phase' = "vmaddons" /\ exit' = exit
    BY <1>1, <1>2 DEF NodeAddonsStart, Stay, outcome
  <2>2. ClusterLoop' /\ NodeLoop' /\ InOrder'
    BY <1>1, <1>2, <2>1 DEF ProgressInv, ClusterLoop, NodeLoop, InOrder, ClusterDone, NodeDone, FailedNodes, Recorded,
                            Early, InClusters, Late
  <2> QED
    BY <1>1, <2>1, <2>2, RunGoesOn DEF ProgressInv, Late
<1>3. CASE n \notin FailedNodes
  <2>1. phase' = "nodeaddons" /\ exit' = exit /\ scope' = n /\ queue' = NodeAddons[n]
    BY <1>1, <1>3 DEF NodeAddonsStart, GoTo, outcome
  <2>2. Loop(n, NodeAddons[n])'
    <3>1. NodeAddons[n] \in Seq(Addons)
      BY LabAssumption
    <3> QED
      BY <2>1, <3>1, LoopStarts
  <2>3. NodeLoop'
    BY <1>1, <2>1, <2>2 DEF ProgressInv, NodeLoop, NodeDone, FailedNodes, Recorded
  <2>4. ClusterLoop' /\ InOrder'
    BY <1>1, <2>1 DEF ProgressInv, ClusterLoop, InOrder, ClusterDone, Recorded, Early, InClusters, Late
  <2> QED
    BY <1>1, <2>1, <2>3, <2>4, RunGoesOn DEF ProgressInv, Late
<1> QED
  BY <1>2, <1>3

\* One add-on of a node is run and recorded.
LEMMA NodeAddonProgress ==
    ASSUME TypeOK, ScopeKind, ProgressInv, NodeAddon
    PROVE  ProgressInv'
<1>1. /\ phase = "nodeaddons" /\ queue # <<>>
      /\ UNCHANGED <<scope, clustersLeft, nodesLeft, nodeStatus, clusterStatus, touched>>
  BY DEF NodeAddon, world
<1>2. PICK n \in Nodes : n = scope
  BY <1>1 DEF ScopeKind
<1>3. PICK a \in Addons : a = Head(queue)
  BY <1>1 DEF TypeOK
<1>4. Loop(n, NodeAddons[n]) /\ queue \in Seq(Addons) /\ NodeAddons[n] \in Seq(Addons)
  BY <1>1, <1>2, LabAssumption DEF ProgressInv, NodeLoop, TypeOK
<1>5. Runs(n, a)
  <2>1. \E k \in 1..Len(NodeAddons[n]) : a = NodeAddons[n][k]
    BY <1>1, <1>3, <1>4, LoopHead
  <2>2. a \in Elements(NodeAddons[n])
    BY <2>1 DEF Elements
  <2>3. ListedRun
    BY <1>1 DEF ProgressInv, Exits
  <2> QED
    BY <2>2, <2>3, ListedCanRun
<1>6. PICK s \in AddonStatus : addonStatus' = addonStatus \cup {<<n, a, s>>}
  BY <1>1, <1>2, <1>3, <1>5 DEF NodeAddon, RecordAddon
<1>7. phase' = "nodeaddons" /\ exit' = exit /\ queue' = Tail(queue)
  BY <1>1, <1>2, <1>3, <1>5 DEF NodeAddon, Stay, outcome
<1>8. \A y, b : Recorded(y, b)' <=> Recorded(y, b) \/ (y = n /\ b = a)
  BY <1>6, OneMoreRecorded
<1>9. Loop(n, NodeAddons[n])'
  <2>1. \E t \in AddonStatus : <<n, Head(queue), t>> \in addonStatus'
    BY <1>3, <1>6
  <2> QED
    BY <1>1, <1>4, <1>6, <1>7, <2>1, LoopGoesOn
<1>10. n \notin Clusters
  BY ScopeAssumption
<1>11. NodeLoop'
  <2>1. \A m \in Nodes \ nodesLeft : NodeDone(m)'
    BY <1>1, <1>7, <1>8 DEF ProgressInv, NodeLoop, NodeDone, FailedNodes
  <2> QED
    BY <1>1, <1>2, <1>7, <1>9, <2>1 DEF NodeLoop
<1>12. ClusterLoop'
  <2>1. \A d \in Clusters : ClusterDone(d)'
    BY <1>1, <1>7, <1>8 DEF ProgressInv, ClusterLoop, ClusterDone, Late
  <2> QED
    BY <1>7, <2>1 DEF ClusterLoop, Early, InClusters
<1>13. InOrder'
  <2>1. \A d \in Clusters, b \in Addons, t \in AddonStatus : <<d, b, t>> \in addonStatus' <=> <<d, b, t>> \in addonStatus
    BY <1>6, <1>10
  <2> QED
    BY <1>8, <1>10, <2>1 DEF ProgressInv, InOrder
<1> QED
  BY <1>1, <1>7, <1>11, <1>12, <1>13, RunGoesOn DEF ProgressInv, Late

\* The add-ons of a node are all recorded.
LEMMA NodeAddonsDoneProgress ==
    ASSUME TypeOK, ScopeKind, ProgressInv, NodeAddonsDone
    PROVE  ProgressInv'
<1>1. /\ phase = "nodeaddons" /\ phase' = "vmaddons" /\ exit' = exit /\ queue = <<>>
      /\ UNCHANGED <<scope, queue, nodesLeft, nodeStatus, clusterStatus, addonStatus, touched>>
  BY DEF NodeAddonsDone, GoTo, outcome, loop, report, world
<1>2. PICK n \in Nodes : n = scope
  BY <1>1 DEF ScopeKind
<1>3. \A a \in Elements(NodeAddons[n]) : Recorded(n, a)
  <2>1. NodeAddons[n] \in Seq(Addons) /\ Loop(n, NodeAddons[n])
    BY <1>1, <1>2, LabAssumption DEF ProgressInv, NodeLoop
  <2> QED
    BY <1>1, <2>1, LoopEnds
<1>4. NodeLoop'
  BY <1>1, <1>2, <1>3 DEF ProgressInv, NodeLoop, NodeDone, FailedNodes, Recorded
<1>5. ClusterLoop' /\ InOrder'
  BY <1>1 DEF ProgressInv, ClusterLoop, InOrder, ClusterDone, Recorded, Early, InClusters, Late
<1> QED
  BY <1>1, <1>4, <1>5, RunGoesOn DEF ProgressInv, Late

\* phase_post_commands() and what leads to it add no add-on.
LEMMA PostProgress ==
    ASSUME TypeOK, ProgressInv, VmAddonsDone \/ PostDone \/ \E n \in Nodes : PostCommands(n)
    PROVE  ProgressInv'
<1>1. /\ phase \in {"vmaddons", "post"} /\ phase' \in {"post", "summary"} /\ exit' = exit
      /\ phase = "vmaddons" => nodesLeft = {}
      /\ UNCHANGED <<nodeStatus, clusterStatus, addonStatus, touched>>
  BY DEF VmAddonsDone, PostDone, PostCommands, ToPost, ToSummary, GoTo, Stay, outcome, report, world
<1>2. NodeLoop'
  BY <1>1 DEF ProgressInv, NodeLoop, NodeDone, FailedNodes, Recorded
<1>3. ClusterLoop' /\ InOrder'
  BY <1>1 DEF ProgressInv, ClusterLoop, InOrder, ClusterDone, Recorded, Early, InClusters, Late
<1> QED
  BY <1>1, <1>2, <1>3, RunGoesOn DEF ProgressInv, Late

\* print_summary() and the exit code.
LEMMA SummaryProgress ==
    ASSUME TypeOK, ReportInv, ProgressInv, Summary
    PROVE  ProgressInv'
<1>1. /\ phase = "summary" /\ phase' = "exited" /\ banner' = Banner /\ exit' = IF Failed THEN 1 ELSE 0
      /\ UNCHANGED <<nodeStatus, clusterStatus, addonStatus, errors, touched, vm>>
  BY DEF Summary, report, world
<1>2. ClusterLoop' /\ NodeLoop' /\ InOrder'
  BY <1>1 DEF ProgressInv, ClusterLoop, NodeLoop, InOrder, Recorded, Early, InClusters, Late
<1>3. Banner \in {"failures", "pending", "warnings", "ok"} /\ (~Failed => Banner # "failures")
  BY DEF Banner
<1>4. Exits'
  BY <1>1, <1>3 DEF Exits
<1>5. /\ \A c \in Clusters : ClusterDone(c) /\ (<<c, "ok">> \in clusterStatus =>
           \A a \in Elements(AllAddons(c)) : Recorded(c, a))
      /\ \A n \in Nodes : n \in FailedNodes \/ \A a \in Elements(NodeAddons[n]) : Recorded(n, a)
  BY <1>1 DEF ProgressInv, ClusterLoop, NodeLoop, ClusterDone, NodeDone, Late
<1>6. ExitZeroSound'
  <2> SUFFICES ASSUME exit' = 0 PROVE ExitZeroSound'
    BY DEF ExitZeroSound
  <2>1. ~Failed /\ errors = {}
    BY <1>1 DEF Failed
  <2>2. banner' \in {"ok", "warnings", "pending"}
    BY <1>1, <1>3, <2>1
  <2>3. \A n \in Nodes : n \notin FailedNodes
    BY <2>1 DEF Failed, FailedNodes
  <2>4. \A n \in Nodes : vm[n] # "absent"
    <3>1. \A n \in Nodes : \E s \in NodeStatus : <<n, s>> \in nodeStatus
      BY <1>1 DEF ReportInv, PhaseInv, AfterCreate, WorkerInv
    <3>2. \A n \in Nodes : \/ <<n, "created">> \in nodeStatus \/ <<n, "reused">> \in nodeStatus
                          \/ <<n, "existing">> \in nodeStatus
      BY <2>3, <3>1 DEF FailedNodes, NodeStatus
    <3> QED
      BY <3>2 DEF ReportInv, WorkerInv
  <2>5. \A c \in Clusters : <<c, "ok">> \in clusterStatus /\ Members(c) \subseteq touched
    BY <1>5, <2>1 DEF ClusterDone, Failed
  <2>6. \A x, a : Recorded(x, a) => \E s \in {"ok", "pending"} : <<x, a, s>> \in addonStatus
    <3> SUFFICES ASSUME NEW x, NEW a, NEW s \in AddonStatus, <<x, a, s>> \in addonStatus
                 PROVE  s \in {"ok", "pending"}
      BY DEF Recorded
    <3>1. <<x, a, s>>[3] # "FAILED"
      BY <2>1 DEF Failed
    <3> QED
      BY <3>1 DEF AddonStatus
  <2>7. \A c \in Clusters : \A a \in Elements(ClusterServices[c]) \cup Elements(ClusterAddons[c]) :
          \E s \in {"ok", "pending"} : <<c, a, s>> \in addonStatus
    BY <1>5, <2>5, <2>6, AllAddonsLists
  <2>8. \A n \in Nodes : \A a \in Elements(NodeAddons[n]) : \E s \in {"ok", "pending"} : <<n, a, s>> \in addonStatus
    BY <1>5, <2>3, <2>6
  <2>9. /\ errors' = {} /\ FailedNodes' = FailedNodes
        /\ vm' = vm /\ clusterStatus' = clusterStatus /\ touched' = touched /\ addonStatus' = addonStatus
    BY <1>1, <2>1 DEF FailedNodes
  <2> QED
    BY <2>2, <2>3, <2>4, <2>5, <2>7, <2>8, <2>9 DEF ExitZeroSound
<1>7. ClusterWorkReported'
  <2>1. banner' # "none"
    BY <1>1, <1>3
  <2>2. \A c \in Clusters : <<c, "ok">> \in clusterStatus =>
          \A a \in Elements(ClusterServices[c]) \cup Elements(ClusterAddons[c]) :
             \E s \in AddonStatus : <<c, a, s>> \in addonStatus
    BY <1>5, AllAddonsLists DEF Recorded
  <2> QED
    BY <1>1, <2>1, <2>2 DEF ClusterWorkReported
<1> QED
  BY <1>2, <1>4, <1>6, <1>7 DEF ProgressInv

\* A run that has not begun has done none of it.
LEMMA InitProgress == ASSUME Init PROVE ProgressInv
  BY DEF Init, ProgressInv, ClusterLoop, NodeLoop, Exits, InOrder, Recorded, ExitZeroSound, ClusterWorkReported,
         Early, InClusters, Late

\* Every step keeps the loops' account of their work.
LEMMA StepProgress ==
    ASSUME TypeOK, ScopeKind, ReportInv, ProgressInv, [Next]_vars
    PROVE  ProgressInv'
<1>1. CASE Before \/ (\E n \in Nodes : Worker(n)) \/ CreateDone \/ Kept
  BY <1>1, EarlyProgress
<1>2. CASE K8s
  BY <1>2, SkipProgress, InstallProgress, SettleProgress, ClusterAddonProgress, ClusterAddonsDoneProgress, K8sDoneProgress
     DEF K8s
<1>3. CASE After
  BY <1>3, NodeAddonsStartProgress, NodeAddonProgress, NodeAddonsDoneProgress, PostProgress, SummaryProgress DEF After
<1>4. CASE UNCHANGED vars
  <2>1. /\ UNCHANGED <<phase, scope, queue, installed, clustersLeft, nodesLeft, exit, banner>>
        /\ UNCHANGED <<nodeStatus, clusterStatus, addonStatus, errors, touched, vm>>
    BY <1>4 DEF vars, input, loop, report, outcome, world
  <2>2. ClusterLoop'
    BY <2>1 DEF ProgressInv, ClusterLoop, Loop, ClusterDone, Recorded, Early, InClusters, Late
  <2>3. NodeLoop'
    BY <2>1 DEF ProgressInv, NodeLoop, Loop, NodeDone, FailedNodes, Recorded
  <2>4. Exits' /\ InOrder'
    BY <2>1 DEF ProgressInv, Exits, InOrder, Recorded
  <2>5. ExitZeroSound'
    BY <2>1 DEF ProgressInv, ExitZeroSound, FailedNodes
  <2>6. PlainLab => ClusterWorkReported'
    BY <2>1 DEF ProgressInv, ClusterWorkReported
  <2> QED
    BY <2>2, <2>3, <2>4, <2>5, <2>6 DEF ProgressInv
<1> QED
  BY <1>1, <1>2, <1>3, <1>4 DEF Next, Step, Ended

\* What the loops have done is accounted for in every reachable state.
LEMMA ProgressInvariant == Spec => [](TypeOK /\ ProgressInv)
<1>1. Init => ScopeKind /\ ProgressInv
  BY InitScopeKind, InitProgress
<1>2. TypeOK /\ ReportInv /\ ScopeKind /\ ProgressInv /\ [Next]_vars => ScopeKind' /\ ProgressInv'
  BY StepScopeKind, StepProgress
<1> QED
  BY <1>1, <1>2, ReportInvariant, PTL DEF Spec

\* Exit status 0 keeps its promise in every lab: every node and cluster is there, and every
\* service and add-on that was asked for has run where it was asked for, without an error.
THEOREM ExitZeroIsSound == Spec => []ExitZeroSound
<1>1. ProgressInv => ExitZeroSound
  BY DEF ProgressInv
<1> QED
  BY <1>1, ProgressInvariant, PTL

\* _install_cluster_addons(): in every lab an add-on runs once for a cluster, and no add-on before
\* the services of its cluster.
THEOREM AddonsRunInOrder == Spec => []AddonsInOrder
<1>1. TypeOK /\ ProgressInv => AddonsInOrder
  <2> SUFFICES ASSUME TypeOK, ProgressInv PROVE AddonsInOrder
    OBVIOUS
  <2>0. InOrder
    BY DEF ProgressInv
  <2>1. ASSUME NEW r \in addonStatus, NEW q \in addonStatus, r[1] \in Clusters, r[1] = q[1], r[2] = q[2] PROVE r = q
    <3>1. PICK x \in Scopes, a \in Addons, s \in AddonStatus : r = <<x, a, s>>
      BY DEF TypeOK
    <3>2. PICK y \in Scopes, b \in Addons, t \in AddonStatus : q = <<y, b, t>>
      BY DEF TypeOK
    <3>3. x \in Clusters /\ x = y /\ a = b
      BY <2>1, <3>1, <3>2
    <3>4. s = t
      BY <2>0, <3>1, <3>2, <3>3 DEF InOrder
    <3> QED
      BY <3>1, <3>2, <3>3, <3>4
  <2>2. ASSUME NEW r \in addonStatus, r[1] \in Clusters, r[2] \notin Elements(ClusterServices[r[1]]),
               NEW b \in Elements(ClusterServices[r[1]])
        PROVE  \E s \in AddonStatus : <<r[1], b, s>> \in addonStatus
    <3>1. PICK x \in Scopes, a \in Addons, s \in AddonStatus : r = <<x, a, s>>
      BY DEF TypeOK
    <3>2. x \in Clusters /\ x = r[1] /\ a \notin Elements(ClusterServices[x]) /\ Recorded(x, a)
      BY <2>2, <3>1 DEF Recorded
    <3> QED
      BY <2>0, <2>2, <3>2 DEF InOrder, Recorded
  <2> QED
    BY <2>1, <2>2 DEF AddonsInOrder
<1> QED
  BY <1>1, ProgressInvariant, PTL

\* The comment on phase_install_k8s_and_addons(), for the labs it holds for: of K3s clusters, with
\* plain lists and services that can run there.  There a run that reached a node ends in a summary,
\* and a cluster that was installed has had every service and add-on.
THEOREM ClusterWorkIsReported == ASSUME PlainLab PROVE Spec => []ClusterWorkReported
<1>1. ProgressInv => ClusterWorkReported
  BY DEF ProgressInv
<1> QED
  BY <1>1, ProgressInvariant, PTL

=============================================================================
