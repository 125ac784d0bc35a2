------------------------------ MODULE SetupLab ------------------------------
(***************************************************************************)
(* One run of scripts/setup_lab.py: main(), the phases of setup_lab(), the *)
(* thread pool that creates the VMs, and the report that ends in a banner  *)
(* and an exit code.                                                       *)
(*                                                                         *)
(* What the run drives (a hypervisor, a cloud, ssh, an add-on installer)   *)
(* is the environment: each call returns one of the outcomes the code      *)
(* tells apart.  The order of the nodes and of the clusters in the lab     *)
(* file is an input, so a loop over them takes any element that is left.   *)
(***************************************************************************)
EXTENDS Naturals, Sequences, FiniteSets

CONSTANTS
    Nodes,            \* keys of definition["nodes"]
    Clusters,         \* keys of definition["kclusters"]
    Addons,           \* add-on names
    NoCluster,        \* a node's missing "kcluster"
    Lab,              \* stands for the whole lab in an error's scope
    KCluster,         \* KCluster[n] = nodes[n].kcluster
    Existing,         \* nodes marked "existing"
    ClusterType,      \* kclusters[c].clu_type
    CreateNode,       \* harvester.create_node(), for the Harvester clusters
    ClusterServices,  \* k8s.cluster_services(): add-ons the cluster implies
    ClusterAddons,    \* kclusters[c].addons
    NodeAddons,       \* nodes[n].addons
    Mapped,           \* clusters whose addons list has a {"<addon>": {...}} entry
    Scripts,          \* add-ons that have an install_<addon> script
    Misfits,          \* <<scope, addon>>: apps.requirement_issue() has an objection
    MaxParallel       \* bound on the N of --parallel=N

HarvesterClusters == {c \in Clusters : ClusterType[c] = "harvester"}

ASSUME LabAssumption ==
    /\ NoCluster \notin Clusters
    /\ KCluster \in [Nodes -> Clusters \cup {NoCluster}]
    /\ Existing \subseteq Nodes
    /\ ClusterType \in [Clusters -> {"k3s", "rke2", "kubeadm", "harvester"}]
    /\ CreateNode \in [HarvesterClusters -> Nodes \ Existing]
    /\ \A c \in HarvesterClusters : KCluster[CreateNode[c]] = c
    /\ ClusterServices \in [Clusters -> Seq(Addons)]
    /\ ClusterAddons \in [Clusters -> Seq(Addons)]
    /\ NodeAddons \in [Nodes -> Seq(Addons)]
    /\ Mapped \subseteq Clusters
    /\ Scripts \subseteq Addons
    /\ Misfits \subseteq (Nodes \cup Clusters) \X Addons
    /\ MaxParallel \in Nat

\* A scope names one list of add-ons; no node has the name of a cluster.
ASSUME ScopeAssumption ==
    /\ Nodes \cap Clusters = {}
    /\ Lab \notin Nodes \cup Clusters
    /\ NoCluster \notin Nodes \cup {Lab}

VARIABLES
    \* The command line: --keep and --parallel=N (0 without the flag).
    keep, parallel,
    \* The main thread: where it is, and what its current loop has left.
    phase, nodesLeft, clustersLeft, scope, queue, installed,
    \* The workers of phase_create_vms, one per node.
    wpc,
    \* _RunReport, and what the user sees of it.
    nodeStatus, clusterStatus, addonStatus, errors, warned, banner, exit,
    \* The outside world: each node's VM, the Harvester VIPs that are
    \* assigned, and the nodes a Kubernetes install has reached over ssh.
    vm, vip, touched

input   == <<keep, parallel>>
loop    == <<nodesLeft, clustersLeft, scope, queue, installed>>
report  == <<nodeStatus, clusterStatus, addonStatus, errors, warned>>
outcome == <<banner, exit>>
world   == <<vm, vip, touched>>
vars    == <<input, phase, loop, wpc, report, outcome, world>>

NodeStatus    == {"created", "reused", "existing", "FAILED"}
ClusterStatus == {"ok", "FAILED"}
AddonStatus   == {"ok", "pending", "FAILED"}
Phases == {"fetch", "allocate", "preflight", "validate", "services", "dns",
           "create", "reboot", "wait", "k8s", "settle", "addons",
           "vmaddons", "nodeaddons", "post", "summary", "exited"}
ErrorKind == {"preflight", "keep", "destroy", "pre", "novip", "provision",
              "cluster", "addon", "post"}
Scopes == Nodes \cup Clusters \cup {Lab}

(***************************************************************************)
(* Helpers                                                                 *)
(***************************************************************************)
Members(c) == {n \in Nodes : KCluster[n] = c}

\* {name for name, status in _report.nodes if status == "FAILED"}
FailedNodes == {n \in Nodes : <<n, "FAILED">> \in nodeStatus}

Elements(s) == {s[i] : i \in 1..Len(s)}

\* apps.collect_addon_names(): the add-ons the definition lists itself.
ListedAddons == (UNION {Elements(ClusterAddons[c]) : c \in Clusters})
                  \cup (UNION {Elements(NodeAddons[n]) : n \in Nodes})

\* The script is there, and check_requirements() lets it run there: what _install_cluster_addons() and
\* phase_vm_addons() die without.
Runs(x, a) == a \in Scripts /\ <<x, a>> \notin Misfits

\* _RunReport.failed and _RunReport.pending
Failed ==
    \/ errors # {}
    \/ \E n \in Nodes : <<n, "FAILED">> \in nodeStatus
    \/ \E c \in Clusters : <<c, "FAILED">> \in clusterStatus
    \/ \E r \in addonStatus : r[3] = "FAILED"
Pending == \E r \in addonStatus : r[3] = "pending"

\* print_summary()'s last line.
Banner == CASE Failed -> "failures"
            [] ~Failed /\ Pending -> "pending"
            [] ~Failed /\ ~Pending /\ warned -> "warnings"
            [] OTHER -> "ok"

\* An exception nobody catches, or a die(): the process ends with status 1
\* and print_summary() is not reached.
Die == /\ phase' = "exited"
       /\ exit' = 1
       /\ UNCHANGED banner

GoTo(p) == phase' = p /\ UNCHANGED outcome
Stay    == UNCHANGED <<phase, outcome>>

AddNode(n, s)  == nodeStatus' = nodeStatus \cup {<<n, s>>}
AddError(k, x) == errors' = errors \cup {<<k, x>>}

-----------------------------------------------------------------------------
Init ==
    /\ keep \in BOOLEAN
    /\ parallel \in 0..MaxParallel
    /\ phase = "fetch"
    /\ nodesLeft = {} /\ clustersLeft = {}
    /\ scope = Lab /\ queue = <<>> /\ installed = {}
    /\ wpc = [n \in Nodes |-> "todo"]
    /\ nodeStatus = {} /\ clusterStatus = {} /\ addonStatus = {}
    /\ errors = {} /\ warned = FALSE
    /\ banner = "none" /\ exit = 2
    /\ vm \in [Nodes -> {"absent", "old", "host"}]
    /\ \A n \in Nodes : vm[n] = "host" <=> n \in Existing
    /\ vip \in SUBSET {c \in HarvesterClusters : vm[CreateNode[c]] = "old"}
    /\ touched = {}

(***************************************************************************)
(* main() up to setup_lab()                                                *)
(***************************************************************************)
\* phase_fetch_images: fetch_source_image() dies when it cannot download or
\* verify an image.
FetchImages ==
    /\ phase = "fetch"
    /\ GoTo("allocate") \/ Die
    /\ UNCHANGED <<input, loop, wpc, report, world>>

\* phase_allocate_ips: dies when a network has no free address.
AllocateIps ==
    /\ phase = "allocate"
    /\ GoTo("preflight") \/ Die
    /\ UNCHANGED <<input, loop, wpc, report, world>>

\* A preflight that fails prints the summary itself and exits 1.
PreflightFails ==
    /\ AddError("preflight", Lab)
    /\ banner' = "failures"
    /\ exit' = 1
    /\ phase' = "exited"

\* Every add-on that a cluster or a node lists can run there.
ListedRun ==
    /\ \A c \in Clusters : \A a \in Elements(ClusterAddons[c]) : Runs(c, a)
    /\ \A n \in Nodes : \A a \in Elements(NodeAddons[n]) : Runs(n, a)

\* validate_lab_definition() and _fold_issues_into_report().
Preflight ==
    /\ phase = "preflight"
    /\ warned' \in BOOLEAN
    /\ \/ PreflightFails
       \/ /\ ListedRun
          /\ GoTo("validate")
          /\ UNCHANGED errors
    /\ UNCHANGED <<input, loop, wpc, nodeStatus, clusterStatus, addonStatus, world>>

\* validate_addon_configs(): install_<addon> --validate for what is listed.
ValidateAddons ==
    /\ phase = "validate"
    /\ \/ ListedAddons # {} /\ PreflightFails
       \/ /\ ListedAddons \subseteq Scripts
          /\ GoTo("services")
          /\ UNCHANGED errors
    /\ UNCHANGED <<input, loop, wpc, nodeStatus, clusterStatus, addonStatus, warned, world>>

(***************************************************************************)
(* setup_lab(): services and cluster DNS                                   *)
(***************************************************************************)
ConfigureServices ==
    /\ phase = "services"
    /\ GoTo(IF Clusters # {} THEN "dns" ELSE "create") \/ Die
    /\ UNCHANGED <<input, loop, wpc, report, world>>

ClusterDns ==
    /\ phase = "dns"
    /\ GoTo("create") \/ Die
    /\ UNCHANGED <<input, loop, wpc, report, world>>

(***************************************************************************)
(* phase_create_vms: one worker per node                                   *)
(***************************************************************************)
Active == {n \in Nodes : wpc[n] \in {"keep", "destroy", "provision"}}

\* With --parallel, the node that creates each Harvester cluster goes first,
\* on the main thread.
Creators == {CreateNode[c] : c \in HarvesterClusters}

OnMainThread(n) == parallel = 0 \/ n \in Creators

\* Sequentially the file's order applies, and a cluster's create node is the
\* first of its nodes in that order.
BeforeInFile(n) ==
    IF KCluster[n] \in HarvesterClusters
      THEN {CreateNode[KCluster[n]]} \ {n}
      ELSE {}

\* MUTANT of MayStart: the pool does not wait for the create nodes.
MayStartAtOnce(n) ==
    IF OnMainThread(n) THEN Active = {} ELSE Cardinality(Active) < parallel

MayStart(n) ==
    IF OnMainThread(n)
      THEN /\ Active = {}
           /\ parallel = 0 => \A m \in BeforeInFile(n) : wpc[m] = "done"
      ELSE /\ \A m \in Creators : wpc[m] = "done"
           /\ Cardinality(Active) < parallel

Finish(n, s) == /\ AddNode(n, s)
                /\ wpc' = [wpc EXCEPT ![n] = "done"]

\* What a worker raises and does not catch ends the run at once on the main
\* thread; from the pool, future.result() raises it again once the pool has
\* run every other node.
Raise(n) ==
    /\ wpc' = [wpc EXCEPT ![n] = "raised"]
    /\ IF OnMainThread(n) THEN Die ELSE Stay

\* An existing host is only waited for; check_ssh_conn() dies on a timeout.
StartExisting(n) ==
    /\ n \in Existing
    /\ \/ Finish(n, "existing") /\ Stay
       \/ Raise(n) /\ UNCHANGED nodeStatus

StartOwned(n) ==
    /\ n \notin Existing
    /\ wpc' = [wpc EXCEPT ![n] = IF keep THEN "keep" ELSE "destroy"]
    /\ Stay
    /\ UNCHANGED nodeStatus

StartNode(n) ==
    /\ phase = "create" /\ wpc[n] = "todo" /\ MayStart(n)
    /\ StartExisting(n) \/ StartOwned(n)
    /\ UNCHANGED <<input, loop, clusterStatus, addonStatus, errors, warned, world>>

\* MUTANT of KeepCheck: no return after the backend error.
KeepCheckFallsThrough(n) ==
    /\ phase = "create" /\ wpc[n] = "keep"
    /\ \/ vm[n] = "old" /\ Finish(n, "reused") /\ UNCHANGED errors
       \/ wpc' = [wpc EXCEPT ![n] = "destroy"] /\ UNCHANGED <<nodeStatus, errors>>
       \/ /\ wpc' = [wpc EXCEPT ![n] = "destroy"]
          /\ AddNode(n, "FAILED") /\ AddError("keep", n)
    /\ Stay
    /\ UNCHANGED <<input, loop, clusterStatus, addonStatus, warned, world>>

\* vm_is_reusable(): only a running VM is; SystemExit counts as "not there";
\* a RuntimeError leaves the VM alone and fails the node; nothing else is caught.
KeepCheck(n) ==
    /\ phase = "create" /\ wpc[n] = "keep"
    /\ \/ Stay /\ vm[n] = "old" /\ Finish(n, "reused") /\ UNCHANGED errors
       \/ Stay /\ wpc' = [wpc EXCEPT ![n] = "destroy"] /\ UNCHANGED <<nodeStatus, errors>>
       \/ Stay /\ Finish(n, "FAILED") /\ AddError("keep", n)
       \/ Raise(n) /\ UNCHANGED <<nodeStatus, errors>>
    /\ UNCHANGED <<input, loop, clusterStatus, addonStatus, warned, world>>

\* The VIP of a Harvester cluster is a secondary address of its create node.
VipWithout(n) == {c \in vip : CreateNode[c] # n}

\* destroy_vm(): SystemExit is ignored, a RuntimeError is recorded; either way the node is provisioned
\* next.  Another exception (subprocess.TimeoutExpired of virtctl) leaves the node without a status.
DestroyVm(n) ==
    /\ phase = "create" /\ wpc[n] = "destroy"
    /\ \/ vm' = [vm EXCEPT ![n] = "absent"] /\ vip' = VipWithout(n)
       \/ UNCHANGED <<vm, vip>>
    /\ \/ /\ UNCHANGED errors \/ AddError("destroy", n)
          /\ wpc' = [wpc EXCEPT ![n] = "provision"]
          /\ Stay
       \/ Raise(n) /\ UNCHANGED errors
    /\ UNCHANGED <<input, loop, nodeStatus, clusterStatus, addonStatus, warned, touched>>

\* A node that joins a Harvester cluster needs the VIP of its create node.
LacksVip(n) ==
    /\ KCluster[n] \in HarvesterClusters
    /\ n # CreateNode[KCluster[n]]
    /\ KCluster[n] \notin vip

VipWith(n) == vip \cup {c \in HarvesterClusters : CreateNode[c] = n}

\* provision_vm() returns, with a message for each failed pre-command.
Provisioned(n) ==
    /\ ~LacksVip(n)
    /\ vm' = [vm EXCEPT ![n] = "new"]
    /\ vip' = VipWith(n)
    /\ Finish(n, "created")
    /\ AddError("pre", n) \/ UNCHANGED errors
    /\ Stay

\* provision_vm() dies or raises, before or after create_vm(): only SystemExit and RuntimeError are caught.
ProvisionFails(n) ==
    /\ ~LacksVip(n)
    /\ \/ UNCHANGED <<vm, vip>>
       \/ vm' = [vm EXCEPT ![n] = "new"] /\ vip' \in {VipWithout(n), VipWith(n)}
    /\ \/ Stay /\ Finish(n, "FAILED") /\ AddError("provision", n)
       \/ Raise(n) /\ UNCHANGED <<nodeStatus, errors>>

\* "create node '{}' has no VIP yet; create it first"
NoVip(n) ==
    /\ LacksVip(n)
    /\ Finish(n, "FAILED")
    /\ AddError("novip", n)
    /\ UNCHANGED <<vm, vip>>
    /\ Stay

ProvisionVm(n) ==
    /\ phase = "create" /\ wpc[n] = "provision"
    /\ Provisioned(n) \/ ProvisionFails(n) \/ NoVip(n)
    /\ UNCHANGED <<input, loop, clusterStatus, addonStatus, warned, touched>>

\* The pool is joined; the first exception of a worker ends the run.
ClusterNodes == {n \in Nodes : KCluster[n] # NoCluster}
RebootNodes  == {n \in ClusterNodes \ Existing : KCluster[n] \notin HarvesterClusters}

\* Entering a phase sets up its loop.
ToReboot == GoTo("reboot") /\ nodesLeft' = RebootNodes /\ UNCHANGED <<clustersLeft, scope, queue, installed>>
ToWait == GoTo("wait") /\ nodesLeft' = ClusterNodes /\ UNCHANGED <<clustersLeft, scope, queue, installed>>
ToK8s == GoTo("k8s") /\ clustersLeft' = Clusters /\ UNCHANGED <<nodesLeft, scope, queue, installed>>
ToVmAddons == GoTo("vmaddons") /\ nodesLeft' = Nodes /\ UNCHANGED <<clustersLeft, scope, queue, installed>>
ToPost == GoTo("post") /\ nodesLeft' = Nodes /\ UNCHANGED <<clustersLeft, scope, queue, installed>>
ToSummary == GoTo("summary") /\ UNCHANGED loop

CreateDone ==
    /\ phase = "create"
    /\ \A n \in Nodes : wpc[n] \in {"done", "raised"}
    /\ IF \E n \in Nodes : wpc[n] = "raised" THEN Die /\ UNCHANGED loop
       ELSE IF Clusters = {} THEN ToVmAddons
       ELSE IF keep THEN ToReboot ELSE ToK8s
    /\ UNCHANGED <<input, wpc, report, world>>

(***************************************************************************)
(* phase_reboot_and_wait_kept_nodes                                        *)
(***************************************************************************)
\* locate_kvm_host() dies when no host it can ask has the VM.
RebootKept(n) ==
    /\ phase = "reboot" /\ n \in nodesLeft
    /\ \/ Stay /\ nodesLeft' = nodesLeft \ {n}
       \/ Die /\ UNCHANGED nodesLeft
    /\ UNCHANGED <<input, clustersLeft, scope, queue, installed, wpc, report, world>>

RebootDone ==
    /\ phase = "reboot" /\ nodesLeft = {}
    /\ ToWait
    /\ UNCHANGED <<input, wpc, report, world>>

\* MUTANT of WaitKept: the wait for a node that is not there has no limit.
WaitKeptForever(n) ==
    /\ phase = "wait" /\ n \in nodesLeft
    /\ Stay
    /\ nodesLeft' = IF vm[n] = "absent" THEN nodesLeft ELSE nodesLeft \ {n}
    /\ UNCHANGED <<input, clustersLeft, scope, queue, installed, wpc, report, world>>

\* check_ssh_conn() dies when the node does not come back.
WaitKept(n) ==
    /\ phase = "wait" /\ n \in nodesLeft
    /\ \/ Stay /\ nodesLeft' = nodesLeft \ {n}
       \/ Die /\ UNCHANGED nodesLeft
    /\ UNCHANGED <<input, clustersLeft, scope, queue, installed, wpc, report, world>>

WaitDone ==
    /\ phase = "wait" /\ nodesLeft = {}
    /\ ToK8s
    /\ UNCHANGED <<input, wpc, report, world>>

(***************************************************************************)
(* phase_install_k8s_and_addons                                            *)
(***************************************************************************)
\* MUTANT of MissingNodes: a failed node is looked for only among the
\* nodes that have no VM at all.
MissingVms(c) == {n \in Members(c) \cap FailedNodes : vm[n] = "absent"}

MissingNodes(c) == Members(c) \cap FailedNodes

\* One unprovisioned node is one unintended target: nothing is installed.
SkipCluster(c) ==
    /\ phase = "k8s" /\ c \in clustersLeft
    /\ MissingNodes(c) # {}
    /\ clustersLeft' = clustersLeft \ {c}
    /\ clusterStatus' = clusterStatus \cup {<<c, "FAILED">>}
    /\ AddError("cluster", c)
    /\ Stay
    /\ UNCHANGED <<input, nodesLeft, scope, queue, installed, wpc, nodeStatus, addonStatus, warned, world>>

\* MUTANT of InstallK8s: a failed install is not caught.
InstallK8sUncaught(c) ==
    /\ phase = "k8s" /\ c \in clustersLeft
    /\ MissingNodes(c) = {}
    /\ clustersLeft' = clustersLeft \ {c}
    /\ touched' = touched \cup Members(c)
    /\ \/ /\ clusterStatus' = clusterStatus \cup {<<c, "ok">>}
          /\ scope' = c
          /\ GoTo("settle")
       \/ Die /\ UNCHANGED <<clusterStatus, scope>>
    /\ UNCHANGED <<input, nodesLeft, queue, installed, wpc, nodeStatus, addonStatus, errors, warned, vm, vip>>

\* install_cluster() reaches every member by its hostname.  SystemExit and
\* RuntimeError are caught.  What RKE2's rsync raises (CalledProcessError),
\* Harvester's name lookup (OSError) and Kubeadm when an agent comes first
\* (TypeError) is neither; K3s raises nothing else.
InstallK8s(c) ==
    /\ phase = "k8s" /\ c \in clustersLeft
    /\ MissingNodes(c) = {}
    /\ clustersLeft' = clustersLeft \ {c}
    /\ touched' = touched \cup Members(c)
    /\ \/ /\ clusterStatus' = clusterStatus \cup {<<c, "ok">>}
          /\ scope' = c
          /\ GoTo("settle")
          /\ UNCHANGED errors
       \/ /\ clusterStatus' = clusterStatus \cup {<<c, "FAILED">>}
          /\ AddError("cluster", c)
          /\ Stay
          /\ UNCHANGED scope
       \/ /\ ClusterType[c] # "k3s"
          /\ Die
          /\ UNCHANGED <<clusterStatus, errors, scope>>
    /\ UNCHANGED <<input, nodesLeft, queue, installed, wpc, nodeStatus, addonStatus, warned, vm, vip>>

\* MUTANT of Settle: the installed set is not reset for each cluster.
SettleKeepsInstalled ==
    /\ phase = "settle"
    /\ IF scope \in HarvesterClusters \cup Mapped
         THEN Die /\ UNCHANGED queue
         ELSE GoTo("addons") /\ queue' = ClusterServices[scope] \o ClusterAddons[scope]
    /\ UNCHANGED <<input, nodesLeft, clustersLeft, scope, installed, wpc, report, world>>

\* wait_system_ready() asks the distribution for its kubectl command, which
\* HarvesterDistro does not define: NotImplementedError.  The log line of
\* _install_cluster_addons() joins the entries as strings: TypeError for a
\* mapping.  Otherwise the cluster's own services come before the add-ons it
\* lists.
Settle ==
    /\ phase = "settle"
    /\ IF scope \in HarvesterClusters \cup Mapped
         THEN Die /\ UNCHANGED <<queue, installed>>
         ELSE /\ GoTo("addons")
              /\ queue' = ClusterServices[scope] \o ClusterAddons[scope]
              /\ installed' = {}
    /\ UNCHANGED <<input, nodesLeft, clustersLeft, scope, wpc, report, world>>

\* _run_addon() and _addon_status(); an exit code other than 0 is an error.
RecordAddon(x, a) ==
    \E s \in AddonStatus :
        /\ addonStatus' = addonStatus \cup {<<x, a, s>>}
        /\ IF s = "FAILED" THEN AddError("addon", x) ELSE UNCHANGED errors

\* MUTANT of ClusterAddon: an add-on that is listed twice is not skipped.
ClusterAddonAgain ==
    /\ phase = "addons" /\ queue # <<>>
    /\ RecordAddon(scope, Head(queue))
    /\ queue' = Tail(queue)
    /\ Stay
    /\ UNCHANGED <<input, nodesLeft, clustersLeft, scope, installed, wpc, nodeStatus, clusterStatus, warned, world>>

ClusterAddon ==
    /\ phase = "addons" /\ queue # <<>>
    /\ IF Head(queue) \in installed
         THEN Stay /\ queue' = Tail(queue) /\ UNCHANGED <<installed, addonStatus, errors>>
         ELSE IF ~Runs(scope, Head(queue))
         THEN Die /\ UNCHANGED <<queue, installed, addonStatus, errors>>
         ELSE /\ RecordAddon(scope, Head(queue))
              /\ installed' = installed \cup {Head(queue)}
              /\ queue' = Tail(queue)
              /\ Stay
    /\ UNCHANGED <<input, nodesLeft, clustersLeft, scope, wpc, nodeStatus, clusterStatus, warned, world>>

ClusterAddonsDone ==
    /\ phase = "addons" /\ queue = <<>>
    /\ GoTo("k8s")
    /\ UNCHANGED <<input, loop, wpc, report, world>>

K8sDone ==
    /\ phase = "k8s" /\ clustersLeft = {}
    /\ ToVmAddons
    /\ UNCHANGED <<input, wpc, report, world>>

(***************************************************************************)
(* phase_vm_addons, phase_post_commands and the end of the run             *)
(***************************************************************************)
NodeAddonsStart(n) ==
    /\ phase = "vmaddons" /\ n \in nodesLeft
    /\ nodesLeft' = nodesLeft \ {n}
    /\ IF n \in FailedNodes
         THEN Stay /\ UNCHANGED <<scope, queue>>
         ELSE GoTo("nodeaddons") /\ scope' = n /\ queue' = NodeAddons[n]
    /\ UNCHANGED <<input, clustersLeft, installed, wpc, report, world>>

NodeAddon ==
    /\ phase = "nodeaddons" /\ queue # <<>>
    /\ IF ~Runs(scope, Head(queue))
         THEN Die /\ UNCHANGED <<queue, addonStatus, errors>>
         ELSE /\ RecordAddon(scope, Head(queue))
              /\ queue' = Tail(queue)
              /\ Stay
    /\ UNCHANGED <<input, nodesLeft, clustersLeft, scope, installed, wpc, nodeStatus, clusterStatus, warned, world>>

NodeAddonsDone ==
    /\ phase = "nodeaddons" /\ queue = <<>>
    /\ GoTo("vmaddons")
    /\ UNCHANGED <<input, loop, wpc, report, world>>

VmAddonsDone ==
    /\ phase = "vmaddons" /\ nodesLeft = {}
    /\ ToPost
    /\ UNCHANGED <<input, wpc, report, world>>

PostCommands(n) ==
    /\ phase = "post" /\ n \in nodesLeft
    /\ nodesLeft' = nodesLeft \ {n}
    /\ UNCHANGED errors \/ (n \notin FailedNodes /\ AddError("post", n))
    /\ Stay
    /\ UNCHANGED <<input, clustersLeft, scope, queue, installed, wpc, nodeStatus, clusterStatus, addonStatus, warned, world>>

PostDone ==
    /\ phase = "post" /\ nodesLeft = {}
    /\ ToSummary
    /\ UNCHANGED <<input, wpc, report, world>>

\* print_summary(), then sys.exit(1 if _report.failed else 0).
Summary ==
    /\ phase = "summary"
    /\ banner' = Banner
    /\ exit' = IF Failed THEN 1 ELSE 0
    /\ phase' = "exited"
    /\ UNCHANGED <<input, loop, wpc, report, world>>

-----------------------------------------------------------------------------
Before  == FetchImages \/ AllocateIps \/ Preflight \/ ValidateAddons
             \/ ConfigureServices \/ ClusterDns
Worker(n) == StartNode(n) \/ KeepCheck(n) \/ DestroyVm(n) \/ ProvisionVm(n)
Kept    == (\E n \in Nodes : RebootKept(n) \/ WaitKept(n)) \/ RebootDone \/ WaitDone
K8s     == (\E c \in Clusters : SkipCluster(c) \/ InstallK8s(c))
             \/ Settle \/ ClusterAddon \/ ClusterAddonsDone \/ K8sDone
After   == (\E n \in Nodes : NodeAddonsStart(n) \/ PostCommands(n))
             \/ NodeAddon \/ NodeAddonsDone \/ VmAddonsDone \/ PostDone \/ Summary

\* The process has ended.
Ended == phase = "exited" /\ UNCHANGED vars

Step == Before \/ (\E n \in Nodes : Worker(n)) \/ CreateDone \/ Kept \/ K8s \/ After
Next == Step \/ Ended

\* Every blocking call of the run has a retry limit or a timeout (ssh,
\* check_ssh_conn, wait_for_ssh_command, kubectl wait), so the process does
\* not stop before its end.
Spec == Init /\ [][Next]_vars /\ WF_vars(Step)

-----------------------------------------------------------------------------
(***************************************************************************)
(* Properties                                                              *)
(***************************************************************************)
TypeOK ==
    /\ keep \in BOOLEAN
    /\ parallel \in Nat
    /\ phase \in Phases
    /\ nodesLeft \subseteq Nodes
    /\ clustersLeft \subseteq Clusters
    /\ scope \in Scopes
    /\ queue \in Seq(Addons)
    /\ installed \subseteq Addons
    /\ wpc \in [Nodes -> {"todo", "keep", "destroy", "provision", "done", "raised"}]
    /\ nodeStatus \subseteq Nodes \X NodeStatus
    /\ clusterStatus \subseteq Clusters \X ClusterStatus
    /\ addonStatus \subseteq Scopes \X Addons \X AddonStatus
    /\ errors \subseteq ErrorKind \X Scopes
    /\ warned \in BOOLEAN
    /\ banner \in {"none", "failures", "pending", "warnings", "ok"}
    /\ exit \in 0..2
    /\ vm \in [Nodes -> {"absent", "old", "new", "host"}]
    /\ vip \subseteq HarvesterClusters
    /\ touched \subseteq Nodes

\* _RunReport.add_node() is called once per node whatever path
\* _create_one_vm() takes, and what it records is what happened to the VM:
\* the report at the end has one status for every node, "created" only for
\* a VM this run made, "reused" only for one that it left as it was.
ReportTruthful ==
    /\ \A r, q \in nodeStatus : r[1] = q[1] => r = q
    /\ \A n \in Nodes :
         /\ <<n, "created">> \in nodeStatus => vm[n] = "new"
         /\ <<n, "reused">> \in nodeStatus => vm[n] = "old"
         /\ <<n, "existing">> \in nodeStatus <=> n \in Existing /\ wpc[n] = "done"
         /\ phase = "summary" => \E s \in NodeStatus : <<n, s>> \in nodeStatus

\* phase_install_k8s_and_addons() never runs an install against a node that
\* this run did not provision, reuse or find (the comment on failed_nodes):
\* the node's name could resolve to a machine of another lab.
NoInstallOnUnprovisioned ==
    \A n \in touched : vm[n] # "absent" /\ n \notin FailedNodes

\* Exit status 0 is the promise a scripted caller relies on: every node and
\* cluster is there, every service and add-on the lab asked for has run, for
\* each cluster and node that asked for it, without failing, and nothing was
\* recorded as an error on the way.
ExitZeroSound ==
    exit = 0 =>
        /\ errors = {} /\ banner \in {"ok", "warnings", "pending"}
        /\ \A n \in Nodes : vm[n] # "absent" /\ n \notin FailedNodes
        /\ \A c \in Clusters : <<c, "ok">> \in clusterStatus /\ Members(c) \subseteq touched
        /\ \A c \in Clusters : \A a \in Elements(ClusterServices[c]) \cup Elements(ClusterAddons[c]) :
              \E s \in {"ok", "pending"} : <<c, a, s>> \in addonStatus
        /\ \A n \in Nodes : \A a \in Elements(NodeAddons[n]) :
              \E s \in {"ok", "pending"} : <<n, a, s>> \in addonStatus

\* _install_cluster_addons() runs each add-on of a cluster at most once, so
\* it leaves one status, even when the lab lists it twice or as a service;
\* and it runs the ingress controller and storage class a cluster needs before
\* any of the add-ons that may need them.
AddonsInOrder ==
    /\ \A r, q \in addonStatus : r[1] \in Clusters /\ r[1] = q[1] /\ r[2] = q[2] => r = q
    /\ \A r \in addonStatus :
         r[1] \in Clusters /\ r[2] \notin Elements(ClusterServices[r[1]]) =>
             \A a \in Elements(ClusterServices[r[1]]) :
                 \E s \in AddonStatus : <<r[1], a, s>> \in addonStatus

\* "One cluster's Kubernetes install blowing up should be recorded and
\* skipped, not take the whole run (and its end-of-run summary) down with
\* it": once an install has reached a node, the run ends in a summary, and a
\* cluster whose install succeeded gets every service and add-on it lists
\* before the run ends.
ClusterWorkReported ==
    phase = "exited" =>
        /\ touched # {} => banner # "none"
        /\ \A c \in Clusters : <<c, "ok">> \in clusterStatus =>
             \A a \in Elements(ClusterServices[c]) \cup Elements(ClusterAddons[c]) :
                 \E s \in AddonStatus : <<c, a, s>> \in addonStatus

\* phase_create_vms() leaves its thread pool only when every worker has
\* ended: no VM is still being destroyed or created while Kubernetes is
\* installed, or when the process exits.
WorkersJoined == phase # "create" => Active = {}

\* A Harvester node never fails for want of a VIP when its cluster's create
\* node was created in this run: phase_create_vms() orders them.
CreatorFirst ==
    \A n \in Nodes : <<"novip", n>> \in errors =>
        <<CreateNode[KCluster[n]], "created">> \notin nodeStatus

\* What makes the four properties above inductive: what a worker has done is
\* what its program counter says, and the phases after phase_create_vms()
\* start when every worker is done.
WorkerInv(n) ==
    /\ n \in Existing <=> vm[n] = "host"
    /\ wpc[n] \in {"keep", "destroy", "provision"} => n \notin Existing
    /\ wpc[n] = "done" <=> \E s \in NodeStatus : <<n, s>> \in nodeStatus
    /\ \A s, t \in NodeStatus : <<n, s>> \in nodeStatus /\ <<n, t>> \in nodeStatus => s = t
    /\ <<n, "created">> \in nodeStatus => vm[n] = "new"
    /\ <<n, "reused">> \in nodeStatus => vm[n] = "old"
    /\ <<n, "existing">> \in nodeStatus <=> n \in Existing /\ wpc[n] = "done"

AfterCreate == {"reboot", "wait", "k8s", "settle", "addons", "vmaddons", "nodeaddons", "post", "summary"}

PhaseInv ==
    /\ phase \in AfterCreate => \A n \in Nodes : wpc[n] = "done"
    /\ touched # {} => phase \in AfterCreate \cup {"exited"}
    /\ \A n \in touched : wpc[n] = "done" /\ n \notin FailedNodes
    /\ WorkersJoined
    /\ \A n \in Active : OnMainThread(n) => Active = {n}

ReportInv == PhaseInv /\ \A n \in Nodes : WorkerInv(n)

\* Once a node has been reported, and for an existing host always, no step
\* of any worker or phase destroys or recreates its VM.
ReportedVmUntouched ==
    [][\A n \in Nodes :
          n \in Existing \/ (\E s \in NodeStatus : <<n, s>> \in nodeStatus)
            => vm'[n] = vm[n]]_vars

\* Every run of setup_lab.py comes to an end.
Termination == <>(phase = "exited")
=============================================================================
