----------------------------- MODULE K8sInstall -----------------------------
(***************************************************************************)
(* A Kubernetes cluster of a lab (libs/k8s.py, and libs/harvester.py for   *)
(* Harvester): install_cluster() goes from node to node, the first founds  *)
(* the cluster, the others join it with its token.  With setup_lab --keep  *)
(* the same runs again over nodes of which some were made anew.            *)
(*                                                                         *)
(* On a transactional system a package is in the running system only after *)
(* a reboot into the snapshot it was installed in; a transaction begins    *)
(* with the running snapshot and discards the one that is pending.         *)
(***************************************************************************)
EXTENDS Naturals, Sequences

CONSTANTS
    Nodes, NodeSeq,      \* the nodes, and their order in the definition
    Defs,                \* the definitions of the cluster there can be
    MaxStarts, MaxFaults \* bounds: runs of setup_lab, and things that go wrong

Distros == {"k3s", "rke2", "kubeadm", "harvester"}
Ingresses == {"nginx", "traefik"}

\* The nodes are the keys of a dictionary, and cluster_plan() refuses a Harvester cluster another
\* ingress controller than the one it comes with.
ASSUME K8sInstallAssumption ==
    /\ NodeSeq \in Seq(Nodes) /\ {NodeSeq[i] : i \in DOMAIN NodeSeq} = Nodes /\ Nodes # {}
    /\ \A i, j \in DOMAIN NodeSeq : NodeSeq[i] = NodeSeq[j] => i = j
    /\ \A d \in Defs : d.distro = "harvester" => d.ingress \in {"", "nginx"}
    /\ Defs \subseteq [distro : Distros, type : [Nodes -> {"server", "agent"}], trans : BOOLEAN, cni : BOOLEAN,
                       ingress : Ingresses \cup {"", "none"}, needs : BOOLEAN]
    /\ MaxStarts \in Nat /\ MaxFaults \in Nat

First == NodeSeq[1]

(***************************************************************************)
(* Which ingress controller a cluster gets                                 *)
(***************************************************************************)
\* bundled_choice of the distribution.
Bundled(d) == CASE d.distro = "k3s" -> {"traefik"} [] d.distro = "kubeadm" -> {} [] OTHER -> {"nginx"}

\* cluster_choice(): what clu_ingress says, else the distribution's own, else nginx.
Choice(d) == IF d.ingress # "" THEN {d.ingress} \ {"none"} ELSE IF Bundled(d) # {} THEN Bundled(d) ELSE {"nginx"}

\* MUTANT of Disabled: the bundled component is left out only when there is to be none.
DisabledNone(d) == d.ingress = "none"

\* cluster_disabled(): the bundled one is not the one that is chosen.
Disabled(d) == Bundled(d) # {} /\ Choice(d) # Bundled(d)

\* cluster_plan(): the add-on that is installed as the cluster's ingress controller.
Plan(d) == IF (d.ingress = "" /\ (Bundled(d) # {} \/ ~d.needs)) \/ Choice(d) = Bundled(d) THEN {} ELSE Choice(d)

(***************************************************************************)
(* The calls for one node                                                  *)
(***************************************************************************)
\* K3sDistro._install() and _start().
K3sNode == <<"settle", "k3s-script", "settle", "policy?", "start">>

\* MUTANT of Rke2Node: the installer runs while the new kernel is pending.
Rke2NodeUnsettled(d) == <<"settle">> \o (IF d.trans THEN <<"kernel">> ELSE <<>>)
                        \o <<"rke2-script", "config", "settle", "start">>

\* RKE2Distro._install(): on a transactional system the kernel is updated first.
Rke2Node(d) == <<"settle">> \o (IF d.trans THEN <<"kernel", "settle">> ELSE <<>>)
               \o <<"rke2-script", "config", "settle", "start">>

\* KubeadmDistro.prepare_node(), then _init() or a join.
PrepareNode(d) == <<"install-containerd", "containerd-config", "install-kubeadm", "missing?">>
                  \o (IF d.trans THEN <<"settle">> ELSE <<>>) \o <<"enable">>
KubeadmInit == <<"init", "cni", "token">>
KubeadmNode(d, founds) == PrepareNode(d) \o (IF founds THEN KubeadmInit ELSE <<"join">>)

\* HarvesterDistro.install_cluster(): the nodes build the cluster by themselves.  What setup_lab waits
\* for afterwards raises for Harvester (see SetupLab), so its add-ons are never reached.
HarvesterCluster == <<"https?", "kubeconfig", "ready?", "settings">>

\* The node that founds a cluster of K3s or RKE2 is asked for the token of the others.
NodeProgram(d, founds) ==
    IF d.distro = "kubeadm" THEN KubeadmNode(d, founds)
    ELSE (IF d.distro = "k3s" THEN K3sNode ELSE Rke2Node(d)) \o (IF founds THEN <<"token">> ELSE <<>>)

(***************************************************************************)
(* State                                                                   *)
(***************************************************************************)
VARIABLES
    def,        \* the definition of the cluster
    file,       \* <clu_name>/config-server.yaml where setup_lab runs: absent, or whether it disables nginx
    node,       \* each node: packages running, packages of the pending snapshot, its service, its cluster
    clusters,   \* every cluster there was: a network plugin, and its ingress controllers
    work,       \* the worker: calls left, nodes done, the token (a cluster, 0 for none), how it ended
    fresh,      \* nodes made anew in this run
    unseen,     \* nodes whose pending snapshot the last look at it did not see
    starts, faults

vars == <<def, file, node, clusters, work, fresh, unseen, starts, faults>>

New == [run |-> {}, next |-> {}, svc |-> "none", in |-> 0]
Idle == [todo |-> <<>>, done |-> 0, token |-> 0, end |-> "none"]
Busy == work.todo # <<>>
At(op) == Busy /\ work.todo[1] = op
Cur == NodeSeq[work.done + 1]           \* the node the worker is at
It == node[Cur]

Init == /\ def \in Defs /\ file = "absent" /\ node = [n \in Nodes |-> New] /\ clusters = <<>>
        /\ work = Idle /\ fresh = {} /\ unseen = {} /\ starts = 0 /\ faults = 0

\* setup_lab reaches the cluster: kept nodes were rebooted, the others are new.  The ingress of the
\* definition may have been changed since.
Begin ==
    /\ ~Busy /\ starts < MaxStarts /\ starts' = starts + 1
    /\ fresh' \in IF starts = 0 THEN {Nodes} ELSE SUBSET Nodes
    /\ def' \in {d \in Defs : [d EXCEPT !.ingress = def.ingress] = def}
    /\ node' = [n \in Nodes |-> IF n \in fresh' THEN New
                                ELSE [node[n] EXCEPT !.run = @ \cup node[n].next, !.next = {}]]
    /\ work' = [Idle EXCEPT !.todo = IF def.distro = "harvester" THEN HarvesterCluster ELSE <<"node">>]
    /\ unseen' = {}
    /\ UNCHANGED <<file, clusters, faults>>

Did(k) == work' = [work EXCEPT !.todo = SubSeq(@, k + 1, Len(@))]
Dies == work' = [work EXCEPT !.todo = <<>>, !.end = "failed"]
Still == UNCHANGED <<def, file, fresh, starts, faults>>
Same == Still /\ UNCHANGED unseen
Put(n) == node' = [node EXCEPT ![Cur] = n]

\* The next node.  An agent that comes first has no join command of kubeadm: TypeError.
NextNode ==
    /\ At("node") /\ UNCHANGED <<node, clusters>> /\ Same
    /\ IF def.distro = "kubeadm" /\ work.token = 0 /\ def.type[Cur] = "agent"
         THEN work' = [work EXCEPT !.todo = <<>>, !.end = "crashed"]
         ELSE work' = [work EXCEPT !.todo = NodeProgram(def, work.token = 0) \o <<"node-done">>]

NodeDone ==
    /\ At("node-done") /\ UNCHANGED <<node, clusters>> /\ Same
    /\ work' = [work EXCEPT !.done = @ + 1,
                            !.todo = IF work.done + 1 = Len(NodeSeq) THEN <<"ready?", "add-ons">> ELSE <<"node">>]

(***************************************************************************)
(* Packages                                                                *)
(***************************************************************************)
\* reboot_into_pending_snapshot().
Settle == /\ At("settle") /\ Did(1) /\ UNCHANGED clusters /\ Still
          /\ Put([It EXCEPT !.run = @ \cup It.next, !.next = {}])
          /\ unseen' = unseen \ {Cur}

\* A look at the node that fails: pending_snapshot() says that nothing is pending, or boot_id() is ""
\* and the wait for the reboot is over at once.  The installation goes on in the system that runs.
SettleIsLost == /\ At("settle") /\ Did(1) /\ unseen' = unseen \cup {Cur}

\* The reboot that was not waited for, when it was only the boot id that was not read.
LateReboot(n) == /\ n \in unseen /\ unseen' = unseen \ {n}
                 /\ node' = [node EXCEPT ![n].run = @ \cup node[n].next, ![n].next = {}]
                 /\ UNCHANGED <<clusters, work>> /\ Still

\* A package manager: at once, or in a snapshot of what is running.
Installed(n, p) == IF def.trans THEN [n EXCEPT !.next = n.run \cup {p}] ELSE [n EXCEPT !.run = @ \cup {p}]
Package(op, p) == At(op) /\ Did(1) /\ Put(Installed(It, p)) /\ UNCHANGED clusters /\ Same

UpdateKernel == Package("kernel", "kernel")
K3sScript == Package("k3s-script", "k3s")
Rke2Script == Package("rke2-script", "rke2")
InstallPackages == Package("install-containerd", "containerd") \/ Package("install-kubeadm", "kubeadm")

\* What has to be there, in the running system.
Requires(op, p) == /\ At(op) /\ (IF p \in It.run THEN Did(1) ELSE Dies)
                   /\ UNCHANGED <<node, clusters>> /\ Same

\* The policy that comes with k3s has to be there where SELinux is enabled; elsewhere nothing has to.
PolicyNotAsked == At("policy?") /\ Did(1) /\ UNCHANGED <<node, clusters>> /\ Same
CheckPolicy == Requires("policy?", "k3s") \/ PolicyNotAsked
ContainerdConfig == Requires("containerd-config", "containerd")
MissingBinaries == Requires("missing?", "kubeadm")
EnableContainerd == Requires("enable", "containerd")

\* write_node_config(): only where there is no file yet; it is copied to the node.
WriteNodeConfig ==
    /\ At("config") /\ Did(1) /\ UNCHANGED <<node, clusters, def, fresh, unseen, starts, faults>>
    /\ file' = IF file # "absent" THEN file ELSE IF Disabled(def) THEN "no-nginx" ELSE "all"

(***************************************************************************)
(* Founding and joining                                                    *)
(***************************************************************************)
\* A new cluster, with the ingress controller it comes with.
Found(cs, net) == clusters' = Append(clusters, [net |-> net, ingress |-> cs])
Founded == Len(clusters) + 1
Token(t) == work' = [work EXCEPT !.todo = Tail(@), !.token = t]

\* systemctl enable --now: a service that runs is left as it is.  K3s makes every node but the
\* first an agent; an RKE2 agent has nothing to join when it is the first.
StartFirst ==
    /\ At("start") /\ work.token = 0 /\ Same
    /\ \/ /\ def.distro = "rke2" /\ (def.type[Cur] = "agent" \/ "rke2" \notin It.run)
          /\ Dies /\ UNCHANGED <<node, clusters>>
       \/ /\ def.distro = "k3s" \/ (def.type[Cur] = "server" /\ "rke2" \in It.run)
          /\ IF It.svc = "server" THEN Token(It.in) /\ UNCHANGED <<node, clusters>>
             ELSE /\ Token(Founded) /\ Put([It EXCEPT !.svc = "server", !.in = Founded])
                  /\ LET off == IF def.distro = "k3s" THEN Disabled(def) ELSE file = "no-nginx"
                     IN  Found(IF off THEN {} ELSE Bundled(def), TRUE)

\* MUTANT of StartOther: a server of RKE2 is started before its server: line is written.
StartOtherAlone ==
    /\ At("start") /\ work.token # 0 /\ UNCHANGED clusters /\ Same /\ Did(1)
    /\ Put([It EXCEPT !.svc = "server", !.in = IF def.type[Cur] = "server" THEN 0 ELSE work.token])

StartOther ==
    /\ At("start") /\ work.token # 0 /\ UNCHANGED clusters /\ Same
    /\ IF def.distro = "rke2" /\ "rke2" \notin It.run THEN Dies /\ UNCHANGED node
       ELSE /\ Did(1)
            /\ IF It.svc # "none" THEN UNCHANGED node
               ELSE Put([It EXCEPT !.svc = IF def.distro = "k3s" THEN "agent" ELSE def.type[Cur], !.in = work.token])

\* kubeadm init and kubeadm join, which refuse a node that has a cluster.
KubeadmInits ==
    /\ At("init") /\ Same
    /\ IF It.svc # "none" THEN Dies /\ UNCHANGED <<node, clusters>>
       ELSE Token(Founded) /\ Put([It EXCEPT !.svc = "server", !.in = Founded]) /\ Found({}, FALSE)
ApplyCni == /\ At("cni") /\ Did(1) /\ UNCHANGED node /\ Same
            /\ clusters' = [clusters EXCEPT ![work.token].net = def.cni]
\* kubeadm token create, or the file node-token.
CreateToken == At("token") /\ Did(1) /\ UNCHANGED <<node, clusters>> /\ Same
KubeadmJoins ==
    /\ At("join") /\ UNCHANGED clusters /\ Same
    /\ IF It.svc # "none" THEN Dies /\ UNCHANGED node
       ELSE Did(1) /\ Put([It EXCEPT !.svc = def.type[Cur], !.in = work.token])

\* A Harvester node, by its node_config(): the first creates, the others join at the VIP.
HarvesterNode(n) ==
    /\ def.distro = "harvester" /\ starts > 0 /\ node[n].svc = "none"
    /\ \/ /\ n = First /\ Found(Bundled(def), TRUE)
          /\ node' = [node EXCEPT ![n].svc = "server", ![n].in = Founded]
       \/ /\ n # First /\ node[First].in # 0 /\ UNCHANGED clusters
          /\ node' = [node EXCEPT ![n].svc = "server", ![n].in = node[First].in]
    /\ UNCHANGED work /\ Same
WaitHttps == /\ At("https?") /\ node[First].svc = "server" /\ Token(node[First].in)
             /\ UNCHANGED <<node, clusters>> /\ Same
FetchKubeconfig == At("kubeconfig") /\ Did(1) /\ UNCHANGED <<node, clusters>> /\ Same
ApplySettings == /\ At("settings") /\ work' = [work EXCEPT !.todo = <<>>, !.end = "ok"]
                 /\ UNCHANGED <<node, clusters>> /\ Same

(***************************************************************************)
(* The end of the installation                                             *)
(***************************************************************************)
Ready(n) == node[n].svc # "none" /\ node[n].in = work.token /\ clusters[work.token].net

\* MUTANT of WaitNodesReady: it is enough that the servers are ready.
WaitServersReady ==
    /\ At("ready?") /\ UNCHANGED <<node, clusters>> /\ Same
    /\ IF \A n \in Nodes : node[n].svc = "server" => Ready(n) THEN Did(1) ELSE Dies

\* MUTANT of WaitNodesReady: without a timeout.
WaitNodesReadyForever ==
    At("ready?") /\ (\A n \in Nodes : Ready(n)) /\ Did(1) /\ UNCHANGED <<node, clusters>> /\ Same

\* wait_nodes_ready(): as many nodes as the cluster has, or the timeout, which a node that has
\* joined nothing or another cluster runs into.
WaitNodesReady ==
    /\ At("ready?") /\ UNCHANGED <<node, clusters>> /\ Same
    /\ \/ (\A n \in Nodes : Ready(n)) /\ Did(1)
       \/ (\E n \in Nodes : node[n].svc # "none" /\ ~Ready(n)) /\ Dies

\* _install_cluster_addons(), for the ingress controller of the plan.
InstallAddons ==
    /\ At("add-ons") /\ UNCHANGED node /\ Same
    /\ clusters' = [clusters EXCEPT ![work.token].ingress = @ \cup Plan(def)]
    /\ work' = [work EXCEPT !.todo = <<>>, !.end = "ok"]

\* A command fails, a node does not come back, a wait is too long.  A kernel that cannot be
\* updated is only warned of, and a policy that cannot be asked for is taken to be there; a failed rsync of
\* the configuration is an error nobody catches.
CallFails ==
    /\ Busy /\ work.todo[1] \notin {"node", "node-done"} /\ faults < MaxFaults /\ faults' = faults + 1
    /\ \/ (At("kernel") \/ At("policy?")) /\ Did(1) /\ UNCHANGED unseen
       \/ At("config") /\ work' = [work EXCEPT !.todo = <<>>, !.end = "crashed"] /\ UNCHANGED unseen
       \/ ~At("kernel") /\ ~At("policy?") /\ ~At("config") /\ Dies /\ UNCHANGED unseen
       \/ SettleIsLost
    /\ UNCHANGED <<def, file, node, clusters, fresh, starts>>

Step ==
    \/ NextNode \/ NodeDone \/ Settle \/ UpdateKernel \/ K3sScript \/ Rke2Script \/ InstallPackages
    \/ CheckPolicy \/ ContainerdConfig \/ MissingBinaries \/ EnableContainerd \/ WriteNodeConfig
    \/ StartFirst \/ StartOther \/ KubeadmInits \/ ApplyCni \/ CreateToken \/ KubeadmJoins
    \/ WaitHttps \/ FetchKubeconfig \/ ApplySettings \/ WaitNodesReady \/ InstallAddons

Next == Begin \/ Step \/ CallFails \/ \E n \in Nodes : HarvesterNode(n) \/ LateReboot(n)

\* Commands return, waits have a timeout, and a Harvester node that runs installs itself.
Spec == Init /\ [][Next]_vars /\ WF_vars(Step) /\ \A n \in Nodes : WF_vars(HarvesterNode(n))

(***************************************************************************)
(* Properties                                                              *)
(***************************************************************************)
TypeOK ==
    /\ def \in Defs /\ file \in {"absent", "all", "no-nginx"} /\ fresh \subseteq Nodes /\ unseen \subseteq Nodes
    /\ clusters \in Seq([net : BOOLEAN, ingress : SUBSET Ingresses])
    /\ node \in [Nodes -> [run : SUBSET {"kernel", "k3s", "rke2", "containerd", "kubeadm"},
                           next : SUBSET {"kernel", "k3s", "rke2", "containerd", "kubeadm"},
                           svc : {"none", "server", "agent"}, in : 0..Len(clusters)]]
    /\ work.token \in 0..Len(clusters) /\ work.done \in 0..Len(NodeSeq)
    /\ work.end \in {"none", "ok", "failed", "crashed"}
    /\ starts \in 0..MaxStarts /\ faults \in 0..MaxFaults

\* A cluster that is reported as installed is one cluster of all its nodes, also when some of
\* them were kept and others made anew (install_cluster()).
OneCluster ==
    work.end = "ok" => /\ node[First].svc = "server"
                       /\ \A n \in Nodes : node[n].svc # "none" /\ node[n].in = node[First].in

\* "a cluster gets nothing it is not asked for and nothing it already has" (cluster_plan()): for a
\* cluster founded in this run, with a configuration file that is not of an older definition; and no
\* cluster ever gets a controller that there is not (TypeOK).
IngressAsAsked == TypeOK /\ (
    /\ work.end = "ok" /\ First \in fresh
    /\ def.distro = "rke2" => file = IF Disabled(def) THEN "no-nginx" ELSE "all"
    => clusters[work.token].ingress = IF def.ingress = "" /\ Bundled(def) = {} /\ ~def.needs THEN {} ELSE Choice(def))

\* Nodes that were all made anew become a cluster when nothing fails: no package is missing
\* where it is used, nothing is started before it can run (_install(), prepare_node()).
InstallsOnNewNodes ==
    /\ faults = 0 /\ fresh = Nodes /\ def.cni /\ def.type[First] = "server"
    /\ ~(def.distro = "kubeadm" /\ def.trans)
    => work.end \notin {"failed", "crashed"}

\* The same for kubeadm on a transactional system: "the packages land in a new snapshot, so the node
\* reboots into it before kubeadm runs" (prepare_node()).
KubeadmOnTransactional ==
    faults = 0 /\ fresh = Nodes /\ def.cni /\ def.type[First] = "server" => work.end \notin {"failed", "crashed"}

\* No transaction discards one that is pending (_before_installer(), reboot_into_pending_snapshot()), whatever
\* failed before, in this run or an earlier one, except on a node where the last look for a pending
\* snapshot failed.
PendingKept ==
    [][\A n \in Nodes \ unseen :
         def.distro # "kubeadm" /\ n \notin fresh' \ fresh /\ starts' = starts /\ node[n].next # {}
         => node'[n].next = {} \/ node[n].next \subseteq node'[n].next]_vars

\* Every installation ends, with a result or an error.
Ends == Busy ~> ~Busy
=============================================================================
