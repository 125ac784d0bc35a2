-------------------------- MODULE K8sInstallProofs --------------------------
(***************************************************************************)
(* What an installation of a cluster keeps to, for any number of nodes, of *)
(* runs over kept and new nodes, and of calls that fail: the cluster that  *)
(* is reported is one cluster of all its nodes, with the ingress           *)
(* controller it was asked for; no pending snapshot is discarded; and      *)
(* nodes that are all new become a cluster when nothing fails.             *)
(***************************************************************************)
EXTENDS K8sInstall, SequenceTheorems, TLAPS

(***************************************************************************)
(* The calls that are left                                                 *)
(***************************************************************************)
Packages == {"kernel", "k3s", "rke2", "containerd", "kubeadm"}
Scripts == {"kernel", "k3s-script", "rke2-script", "install-containerd", "install-kubeadm"}
Founding == {"start", "init"}
NodeOps == Scripts \cup Founding \cup
           {"settle", "policy?", "config", "containerd-config", "missing?", "enable", "cni", "token", "join", "node-done"}
HarvesterTails == {<<"https?", "kubeconfig", "ready?", "settings">>, <<"kubeconfig", "ready?", "settings">>,
                   <<"ready?", "settings">>, <<"settings">>}
Ops == NodeOps \cup {"node", "ready?", "add-ons", "https?", "kubeconfig", "settings"}
NodeTodo == Seq(NodeOps) \ {<<>>}

\* What the worker has left to do: nothing, the calls of a Harvester cluster, or those of a node, with
\* the next node or the end of the installation after them.
Plans(d) == {<<>>} \cup IF d.distro = "harvester" THEN HarvesterTails
                        ELSE NodeTodo \cup {<<"node">>, <<"ready?", "add-ons">>, <<"add-ons">>}

Has(s, op) == \E i \in 1..Len(s) : s[i] = op

\* The calls left for a node, when the worker has founded or not (token) and is at its first node or not.
Founds(s, d, token, first) ==
    /\ \A i \in 1..Len(s) : s[i] = "node-done" <=> i = Len(s)
    /\ Has(s, "init") => d.distro = "kubeadm"
    /\ Has(s, "config") => d.distro = "rke2"
    /\ token = 0 => \E i \in 1..Len(s) : s[i] \in Founding /\ \A j \in 1..Len(s) : s[j] \in Founding => i = j
    /\ token # 0 => ~Has(s, "init") /\ (first => ~Has(s, "start"))
    /\ first => ~Has(s, "join")

\* The configuration of RKE2 is written before its service starts.
Configures(s) == \A i \in 1..Len(s) : s[i] = "start" => \E j \in 1..Len(s) : j < i /\ s[j] = "config"

\* Before every package manager, the node is settled.
SettlesFirst(s) == \A i \in 1..Len(s) : s[i] \in Scripts => i > 1 /\ s[i - 1] = "settle"

\* Between two package managers the node is settled, and before the first one too unless nothing is pending.
Settled(s, clear) ==
    \A i \in 1..Len(s) : s[i] \in Scripts =>
        \/ \E j \in 1..i : s[j] = "settle" /\ \A k \in j..i : s[k] \in Scripts => k = i
        \/ clear /\ \A k \in 1..i : s[k] \in Scripts => k = i

Todo ==
    /\ work \in [todo : Seq(Ops), done : 0..Len(NodeSeq), token : 0..Len(clusters),
                 end : {"none", "ok", "failed", "crashed"}]
    /\ work.todo \in Plans(def)
    /\ work.todo # <<>> => work.end = "none"
    /\ def.distro # "harvester" /\ Busy => /\ work.token = 0 => work.done = 0
                                           /\ work.done = 0 => work.todo \in NodeTodo \cup {<<"node">>}
    /\ work.todo = <<"node">> => (work.done = 0 => work.token = 0) /\ work.done < Len(NodeSeq)
    /\ work.todo \in NodeTodo => /\ work.done < Len(NodeSeq)
                                 /\ Founds(work.todo, def, work.token, work.done = 0)
                                 /\ def.distro = "rke2" /\ file = "absent" => Configures(work.todo)

\* All nodes are of the cluster whose token the worker holds.
Joined == \A n \in Nodes : node[n].svc # "none" /\ node[n].in = work.token

Members ==
    /\ node[First].svc # "agent"
    /\ \A n \in Nodes : node[n].svc # "none" => node[n].in # 0
    /\ work.todo \in {<<"add-ons">>, <<"settings">>} \/ work.end = "ok" => Joined

\* The controllers a cluster of this definition comes with.
Base == IF (def.distro = "k3s" /\ Disabled(def)) \/ (def.distro = "rke2" /\ file = "no-nginx") THEN {}
        ELSE Bundled(def)

\* A cluster founded in this run has what it comes with, and at the end what was planned besides.
Controllers ==
    First \in fresh =>
      /\ def.distro = "harvester" /\ node[First].svc # "none" => /\ node[First].in # 0
                                                               /\ clusters[node[First].in].ingress = {"nginx"}
      /\ def.distro # "harvester" /\ Busy /\ work.token = 0 => node[First].svc = "none"
      /\ def.distro # "harvester" /\ Busy /\ work.token # 0 =>
           clusters[work.token].ingress = Base /\ (def.distro = "rke2" => file # "absent")
      /\ def.distro # "harvester" /\ work.end = "ok" =>
           work.token # 0 /\ clusters[work.token].ingress = Base \cup Plan(def)

K8sInv == TypeOK /\ Todo /\ Members /\ Controllers

(***************************************************************************)
(* Sequences of calls                                                      *)
(***************************************************************************)
\* What is left of a sequence after its first element.
LEMMA Rest ==
    ASSUME NEW S, NEW s \in Seq(S), s # <<>>
    PROVE  /\ SubSeq(s, 2, Len(s)) = Tail(s) /\ Tail(s) \in Seq(S) /\ s[1] \in S
           /\ Len(s) \in Nat /\ Len(s) >= 1 /\ Len(Tail(s)) = Len(s) - 1
           /\ \A i \in 1..Len(s) - 1 : Tail(s)[i] = s[i + 1]
           /\ \A i \in 2..Len(s) : s[i] = Tail(s)[i - 1]
           /\ Len(s) = 1 => Tail(s) = <<>>
<1>1. Len(s) \in Nat /\ Len(s) >= 1 /\ s[1] \in S
  OBVIOUS
<1>2. Tail(s) \in Seq(S) /\ Len(Tail(s)) = Len(s) - 1 /\ \A i \in 1..Len(s) - 1 : Tail(s)[i] = s[i + 1]
  OBVIOUS
<1>3. SubSeq(s, 2, Len(s)) = Tail(s)
  BY <1>1, <1>2
<1>4. ASSUME Len(s) = 1 PROVE Tail(s) = <<>>
  <2>1. Len(Tail(s)) = 0
    BY <1>2, <1>4
  <2>2. Tail(s) # <<>> => Len(Tail(s)) \in Nat \ {0}
    BY <1>2, EmptySeq
  <2> QED
    BY <2>1, <2>2
<1>5. \A i \in 2..Len(s) : s[i] = Tail(s)[i - 1]
  <2> SUFFICES ASSUME NEW i \in 2..Len(s) PROVE s[i] = Tail(s)[i - 1]
    OBVIOUS
  <2>1. i - 1 \in 1..Len(s) - 1 /\ (i - 1) + 1 = i
    BY <1>1
  <2> QED
    BY <1>2, <2>1
<1> QED
  BY <1>1, <1>2, <1>3, <1>4, <1>5

(***************************************************************************)
(* The calls for a node, one distribution at a time: the worker founds     *)
(* with them when it has no token, and joins when it has one.              *)
(***************************************************************************)
\* K3s, founding.
LEMMA K3sFounding ==
    ASSUME NEW d \in Defs, d.distro = "k3s", NEW t \in Nat, t = 0,
           NEW p, p = (K3sNode \o <<"token">>) \o <<"node-done">>
    PROVE  p \in NodeTodo /\ Founds(p, d, t, t = 0) /\ SettlesFirst(p)
<1>1. /\ Len(p) = 7 /\ p[1] = "settle" /\ p[2] = "k3s-script" /\ p[3] = "settle"
      /\ p[4] = "policy?" /\ p[5] = "start" /\ p[6] = "token" /\ p[7] = "node-done"
  BY DEF K3sNode
<1>2. p \in NodeTodo
  BY <1>1 DEF K3sNode, NodeTodo, NodeOps, Scripts, Founding
<1>3. 5 \in 1..Len(p) /\ p[5] \in Founding /\ \A j \in 1..Len(p) : p[j] \in Founding => j = 5
  BY <1>1 DEF Founding
<1>4. SettlesFirst(p)
  BY <1>1 DEF SettlesFirst, Scripts
<1> QED
  BY <1>1, <1>2, <1>3, <1>4, SMTT(20) DEF Founds, Has, Founding

\* K3s, joining.
LEMMA K3sJoining ==
    ASSUME NEW d \in Defs, d.distro = "k3s", NEW t \in Nat, t # 0,
           NEW p, p = (K3sNode \o <<>>) \o <<"node-done">>
    PROVE  p \in NodeTodo /\ Founds(p, d, t, t = 0) /\ SettlesFirst(p)
<1>1. /\ Len(p) = 6 /\ p[1] = "settle" /\ p[2] = "k3s-script" /\ p[3] = "settle"
      /\ p[4] = "policy?" /\ p[5] = "start" /\ p[6] = "node-done"
  BY DEF K3sNode
<1>2. p \in NodeTodo
  BY <1>1 DEF K3sNode, NodeTodo, NodeOps, Scripts, Founding
<1>3. SettlesFirst(p)
  BY <1>1 DEF SettlesFirst, Scripts
<1> QED
  BY <1>1, <1>2, <1>3, SMTT(20) DEF Founds, Has, Founding

\* RKE2, founding.
LEMMA Rke2Founding ==
    ASSUME NEW d \in Defs, d.distro = "rke2", NEW t \in Nat, t = 0,
           NEW p, p = ((<<"settle">> \o <<>> \o <<"rke2-script", "config", "settle", "start">>)
                \o <<"token">>) \o <<"node-done">>
    PROVE  p \in NodeTodo /\ Founds(p, d, t, t = 0) /\ Configures(p) /\ SettlesFirst(p)
<1>1. /\ Len(p) = 7 /\ p[1] = "settle" /\ p[2] = "rke2-script" /\ p[3] = "config"
      /\ p[4] = "settle" /\ p[5] = "start" /\ p[6] = "token" /\ p[7] = "node-done"
  BY SMT
<1>2. p \in NodeTodo
  BY <1>1 DEF NodeTodo, NodeOps, Scripts, Founding
<1>3. 5 \in 1..Len(p) /\ p[5] \in Founding /\ \A j \in 1..Len(p) : p[j] \in Founding => j = 5
  BY <1>1 DEF Founding
<1>4. SettlesFirst(p)
  BY <1>1 DEF SettlesFirst, Scripts
<1> QED
  BY <1>1, <1>2, <1>3, <1>4 DEF Founds, Has, Founding, Configures

\* RKE2 on a transactional system, founding.
LEMMA Rke2KernelFounding ==
    ASSUME NEW d \in Defs, d.distro = "rke2", NEW t \in Nat, t = 0,
           NEW p, p = ((<<"settle">> \o <<"kernel", "settle">> \o <<"rke2-script", "config", "settle", "start">>)
                \o <<"token">>) \o <<"node-done">>
    PROVE  p \in NodeTodo /\ Founds(p, d, t, t = 0) /\ Configures(p) /\ SettlesFirst(p)
<1>1. /\ Len(p) = 9 /\ p[1] = "settle" /\ p[2] = "kernel" /\ p[3] = "settle"
      /\ p[4] = "rke2-script" /\ p[5] = "config" /\ p[6] = "settle" /\ p[7] = "start"
      /\ p[8] = "token" /\ p[9] = "node-done"
  BY SMT
<1>2. p \in NodeTodo
  BY <1>1 DEF NodeTodo, NodeOps, Scripts, Founding
<1>3. 7 \in 1..Len(p) /\ p[7] \in Founding /\ \A j \in 1..Len(p) : p[j] \in Founding => j = 7
  BY <1>1 DEF Founding
<1>4. SettlesFirst(p)
  BY <1>1 DEF SettlesFirst, Scripts
<1> QED
  BY <1>1, <1>2, <1>3, <1>4 DEF Founds, Has, Founding, Configures

\* RKE2, joining.
LEMMA Rke2Joining ==
    ASSUME NEW d \in Defs, d.distro = "rke2", NEW t \in Nat, t # 0,
           NEW p, p = ((<<"settle">> \o <<>> \o <<"rke2-script", "config", "settle", "start">>)
                \o <<>>) \o <<"node-done">>
    PROVE  p \in NodeTodo /\ Founds(p, d, t, t = 0) /\ Configures(p) /\ SettlesFirst(p)
<1>1. /\ Len(p) = 6 /\ p[1] = "settle" /\ p[2] = "rke2-script" /\ p[3] = "config"
      /\ p[4] = "settle" /\ p[5] = "start" /\ p[6] = "node-done"
  BY SMT
<1>2. p \in NodeTodo
  BY <1>1 DEF NodeTodo, NodeOps, Scripts, Founding
<1>3. SettlesFirst(p)
  BY <1>1 DEF SettlesFirst, Scripts
<1> QED
  BY <1>1, <1>2, <1>3 DEF Founds, Has, Founding, Configures

\* RKE2 on a transactional system, joining.
LEMMA Rke2KernelJoining ==
    ASSUME NEW d \in Defs, d.distro = "rke2", NEW t \in Nat, t # 0,
           NEW p, p = ((<<"settle">> \o <<"kernel", "settle">> \o <<"rke2-script", "config", "settle", "start">>)
                \o <<>>) \o <<"node-done">>
    PROVE  p \in NodeTodo /\ Founds(p, d, t, t = 0) /\ Configures(p) /\ SettlesFirst(p)
<1>1. /\ Len(p) = 8 /\ p[1] = "settle" /\ p[2] = "kernel" /\ p[3] = "settle"
      /\ p[4] = "rke2-script" /\ p[5] = "config" /\ p[6] = "settle" /\ p[7] = "start"
      /\ p[8] = "node-done"
  BY SMT
<1>2. p \in NodeTodo
  BY <1>1 DEF NodeTodo, NodeOps, Scripts, Founding
<1>3. SettlesFirst(p)
  BY <1>1 DEF SettlesFirst, Scripts
<1> QED
  BY <1>1, <1>2, <1>3 DEF Founds, Has, Founding, Configures

\* kubeadm, founding.
LEMMA KubeadmFounding ==
    ASSUME NEW d \in Defs, d.distro = "kubeadm", NEW t \in Nat, t = 0,
           NEW p, p = ((<<"install-containerd", "containerd-config", "install-kubeadm", "missing?">> \o <<>> \o <<"enable">>)
                \o KubeadmInit) \o <<"node-done">>
    PROVE  p \in NodeTodo /\ Founds(p, d, t, t = 0)
<1>1. /\ Len(p) = 9 /\ p[1] = "install-containerd" /\ p[2] = "containerd-config"
      /\ p[3] = "install-kubeadm" /\ p[4] = "missing?" /\ p[5] = "enable" /\ p[6] = "init"
      /\ p[7] = "cni" /\ p[8] = "token" /\ p[9] = "node-done"
  BY DEF KubeadmInit
<1>2. p \in NodeTodo
  BY <1>1 DEF KubeadmInit, NodeTodo, NodeOps, Scripts, Founding
<1>3. \A j \in 1..Len(p) : j \in {1, 2, 3, 4, 5, 6, 7, 8, 9}
  BY <1>1
<1>4. \A j \in 1..Len(p) : p[j] \in Founding => j = 6
  BY <1>1, <1>3 DEF Founding
<1>5. \A j \in 1..Len(p) : p[j] \notin {"join", "config"} /\ (p[j] = "node-done" => j = 9)
  BY <1>1, <1>3
<1> QED
  BY <1>1, <1>2, <1>3, <1>4, <1>5 DEF Founds, Has, Founding

\* kubeadm, joining.
LEMMA KubeadmJoining ==
    ASSUME NEW d \in Defs, d.distro = "kubeadm", NEW t \in Nat, t # 0,
           NEW p, p = ((<<"install-containerd", "containerd-config", "install-kubeadm", "missing?">> \o <<>> \o <<"enable">>)
                \o <<"join">>) \o <<"node-done">>
    PROVE  p \in NodeTodo /\ Founds(p, d, t, t = 0)
<1>1. /\ Len(p) = 7 /\ p[1] = "install-containerd" /\ p[2] = "containerd-config"
      /\ p[3] = "install-kubeadm" /\ p[4] = "missing?" /\ p[5] = "enable" /\ p[6] = "join"
      /\ p[7] = "node-done"
  BY SMT
<1>2. p \in NodeTodo
  BY <1>1 DEF NodeTodo, NodeOps, Scripts, Founding
<1> QED
  BY <1>1, <1>2 DEF Founds, Has, Founding

\* kubeadm on a transactional system, founding.
LEMMA KubeadmTransactionalFounding ==
    ASSUME NEW d \in Defs, d.distro = "kubeadm", NEW t \in Nat, t = 0,
           NEW p, p = ((<<"install-containerd", "containerd-config", "install-kubeadm", "missing?">> \o <<"settle">> \o <<"enable">>)
                \o KubeadmInit) \o <<"node-done">>
    PROVE  p \in NodeTodo /\ Founds(p, d, t, t = 0)
<1>1. /\ Len(p) = 10 /\ p[1] = "install-containerd" /\ p[2] = "containerd-config"
      /\ p[3] = "install-kubeadm" /\ p[4] = "missing?" /\ p[5] = "settle" /\ p[6] = "enable"
      /\ p[7] = "init" /\ p[8] = "cni" /\ p[9] = "token" /\ p[10] = "node-done"
  BY DEF KubeadmInit
<1>2. p \in NodeTodo
  BY <1>1 DEF KubeadmInit, NodeTodo, NodeOps, Scripts, Founding
<1>3. \A j \in 1..Len(p) : j \in {1, 2, 3, 4, 5, 6, 7, 8, 9, 10}
  BY <1>1
<1>4. \A j \in 1..Len(p) : p[j] \in Founding => j = 7
  BY <1>1, <1>3 DEF Founding
<1>5. \A j \in 1..Len(p) : p[j] \notin {"join", "config"} /\ (p[j] = "node-done" => j = 10)
  BY <1>1, <1>3
<1> QED
  BY <1>1, <1>2, <1>3, <1>4, <1>5 DEF Founds, Has, Founding

\* kubeadm on a transactional system, joining.
LEMMA KubeadmTransactionalJoining ==
    ASSUME NEW d \in Defs, d.distro = "kubeadm", NEW t \in Nat, t # 0,
           NEW p, p = ((<<"install-containerd", "containerd-config", "install-kubeadm", "missing?">> \o <<"settle">> \o <<"enable">>)
                \o <<"join">>) \o <<"node-done">>
    PROVE  p \in NodeTodo /\ Founds(p, d, t, t = 0)
<1>1. /\ Len(p) = 8 /\ p[1] = "install-containerd" /\ p[2] = "containerd-config"
      /\ p[3] = "install-kubeadm" /\ p[4] = "missing?" /\ p[5] = "settle" /\ p[6] = "enable"
      /\ p[7] = "join" /\ p[8] = "node-done"
  BY SMT
<1>2. p \in NodeTodo
  BY <1>1 DEF NodeTodo, NodeOps, Scripts, Founding
<1> QED
  BY <1>1, <1>2 DEF Founds, Has, Founding

\* Whatever the distribution.
LEMMA Programs ==
    ASSUME NEW d \in Defs, d.distro # "harvester", NEW t \in Nat,
           NEW p, p = NodeProgram(d, t = 0) \o <<"node-done">>
    PROVE  /\ p \in NodeTodo /\ Founds(p, d, t, t = 0)
           /\ d.distro = "rke2" => Configures(p)
           /\ d.distro # "kubeadm" => SettlesFirst(p)
<1>1. d.distro \in {"k3s", "rke2", "kubeadm"}
  BY K8sInstallAssumption DEF Distros
<1>2. CASE d.distro = "k3s"
  BY <1>2, K3sFounding, K3sJoining DEF NodeProgram
<1>3. CASE d.distro = "rke2"
  BY <1>3, Rke2Founding, Rke2KernelFounding, Rke2Joining, Rke2KernelJoining DEF NodeProgram, Rke2Node
<1>4. CASE d.distro = "kubeadm"
  BY <1>4, KubeadmFounding, KubeadmTransactionalFounding, KubeadmJoining, KubeadmTransactionalJoining
     DEF NodeProgram, KubeadmNode, PrepareNode
<1> QED
  BY <1>1, <1>2, <1>3, <1>4

(***************************************************************************)
(* The calls of one step                                                   *)
(***************************************************************************)
\* Which plans begin with a call for a node.
LEMMA AtNode ==
    ASSUME Todo, NEW op \in NodeOps, At(op)
    PROVE  /\ work.todo \in NodeTodo /\ work.todo[1] = op /\ Busy
           /\ def.distro # "harvester" /\ work.end = "none"
           /\ work.done < Len(NodeSeq) /\ Founds(work.todo, def, work.token, work.done = 0)
<1>1. work.todo # <<>> /\ work.todo[1] = op /\ work.todo \in Plans(def) /\ work.end = "none"
  BY DEF At, Busy, Todo
<1>2. op \notin {"node", "ready?", "add-ons", "https?", "kubeconfig", "settings"}
  BY DEF NodeOps, Scripts, Founding
<1>3. work.todo \notin HarvesterTails \cup {<<"node">>, <<"ready?", "add-ons">>, <<"add-ons">>}
  BY <1>1, <1>2 DEF HarvesterTails
<1>4. def.distro # "harvester" /\ work.todo \in NodeTodo
  BY <1>1, <1>3 DEF Plans
<1> QED
  BY <1>1, <1>4 DEF Todo, Busy

\* The calls of a node are none of the other plans.
LEMMA NodeTodoIsNot ==
    \A s \in NodeTodo :
      s \notin HarvesterTails \cup {<<>>, <<"node">>, <<"ready?", "add-ons">>, <<"add-ons">>, <<"settings">>}
<1>1. \A s \in NodeTodo : s # <<>> /\ s[1] \in NodeOps
  BY Rest DEF NodeTodo
<1>2. {"node", "ready?", "add-ons", "https?", "kubeconfig", "settings"} \cap NodeOps = {}
  BY DEF NodeOps, Scripts, Founding
<1> QED
  BY <1>1, <1>2 DEF HarvesterTails

\* The first call returns.
LEMMA DidOne ==
    ASSUME Todo, Busy, Did(1)
    PROVE  work' = [work EXCEPT !.todo = Tail(work.todo)]
<1>1. work.todo \in Seq(Ops) /\ work.todo # <<>>
  BY DEF Todo, Busy
<1>2. SubSeq(work.todo, 1 + 1, Len(work.todo)) = Tail(work.todo)
  <2>1. 1 + 1 = 2
    OBVIOUS
  <2> QED
    BY <1>1, <2>1, Rest
<1> QED
  BY <1>2 DEF Did

\* A call that neither founds a cluster nor ends a node leaves the rest of the calls in order.
LEMMA RestOfCalls ==
    ASSUME NEW s \in NodeTodo, NEW d, NEW t \in Nat, NEW u \in Nat, NEW first \in BOOLEAN, Founds(s, d, t, first),
           IF s[1] \in Founding THEN u # 0 ELSE u = t /\ s[1] # "node-done"
    PROVE  Tail(s) \in NodeTodo /\ Founds(Tail(s), d, u, first)
<1>1. /\ Tail(s) \in Seq(NodeOps) /\ Len(s) \in Nat /\ Len(s) >= 1 /\ Len(Tail(s)) = Len(s) - 1
      /\ \A i \in 1..Len(s) - 1 : Tail(s)[i] = s[i + 1]
      /\ \A i \in 2..Len(s) : s[i] = Tail(s)[i - 1]
  BY Rest DEF NodeTodo
<1>2. s[1] # "node-done" /\ 1 \in 1..Len(s)
  BY <1>1 DEF Founding
<1>3. Len(s) > 1 /\ Tail(s) # <<>>
  <2>1. Len(s) # 1
    BY <1>2 DEF Founds
  <2>2. Len(Tail(s)) # 0
    BY <1>1, <2>1
  <2> QED
    BY <1>1, <2>1, <2>2, EmptySeq
<1>4. \A op : Has(Tail(s), op) => Has(s, op)
  <2> SUFFICES ASSUME NEW op, NEW i \in 1..Len(Tail(s)), Tail(s)[i] = op PROVE \E j \in 1..Len(s) : s[j] = op
    BY DEF Has
  <2>1. i + 1 \in 1..Len(s) /\ s[i + 1] = op
    BY <1>1
  <2> QED
    BY <2>1
<1>5. \A i \in 1..Len(Tail(s)) : Tail(s)[i] = "node-done" <=> i = Len(Tail(s))
  <2> SUFFICES ASSUME NEW i \in 1..Len(Tail(s)) PROVE Tail(s)[i] = "node-done" <=> i = Len(Tail(s))
    OBVIOUS
  <2>1. i + 1 \in 1..Len(s) /\ (i + 1 = Len(s) <=> i = Len(Tail(s)))
    BY <1>1
  <2> QED
    BY <1>1, <2>1 DEF Founds
<1>6. ASSUME u = 0
      PROVE  \E i \in 1..Len(Tail(s)) :
               Tail(s)[i] \in Founding /\ \A j \in 1..Len(Tail(s)) : Tail(s)[j] \in Founding => i = j
  <2>1. PICK k \in 1..Len(s) : s[k] \in Founding /\ \A j \in 1..Len(s) : s[j] \in Founding => k = j
    BY <1>6 DEF Founds
  <2>2. k # 1 /\ k - 1 \in 1..Len(Tail(s)) /\ Tail(s)[k - 1] \in Founding
    BY <1>1, <1>6, <2>1
  <2>3. ASSUME NEW j \in 1..Len(Tail(s)), Tail(s)[j] \in Founding PROVE k - 1 = j
    <3>1. j + 1 \in 1..Len(s) /\ s[j + 1] \in Founding
      BY <1>1, <2>3
    <3> QED
      BY <1>1, <2>1, <3>1
  <2> QED
    BY <2>2, <2>3
<1>7. ASSUME u # 0 PROVE ~Has(Tail(s), "init") /\ (first => ~Has(Tail(s), "start"))
  <2>1. CASE s[1] \in Founding /\ t = 0
    <3>1. \A j \in 2..Len(s) : s[j] \notin Founding
      <4>1. PICK k \in 1..Len(s) : \A j \in 1..Len(s) : s[j] \in Founding => k = j
        BY <2>1 DEF Founds
      <4>2. k = 1
        BY <1>2, <2>1, <4>1
      <4> QED
        BY <1>1, <4>1, <4>2
    <3>2. \A i \in 1..Len(Tail(s)) : Tail(s)[i] \notin Founding
      <4> SUFFICES ASSUME NEW i \in 1..Len(Tail(s)) PROVE Tail(s)[i] \notin Founding
        OBVIOUS
      <4>1. i + 1 \in 2..Len(s) /\ Tail(s)[i] = s[i + 1]
        BY <1>1
      <4> QED
        BY <3>1, <4>1
    <3> QED
      BY <3>2 DEF Has, Founding
  <2>2. CASE t # 0
    BY <1>4, <2>2 DEF Founds
  <2> QED
    BY <1>7, <2>1, <2>2
<1> QED
  BY <1>1, <1>3, <1>4, <1>5, <1>6, <1>7 DEF NodeTodo, Founds

\* What is written before the service starts stays before it, until it is written.
LEMMA RestConfigures ==
    ASSUME NEW s \in NodeTodo, Configures(s), s[1] # "config" PROVE Configures(Tail(s))
<1>1. /\ Len(s) \in Nat /\ Len(s) >= 1 /\ Len(Tail(s)) = Len(s) - 1
      /\ \A i \in 1..Len(s) - 1 : Tail(s)[i] = s[i + 1]
      /\ \A i \in 2..Len(s) : s[i] = Tail(s)[i - 1]
  BY Rest DEF NodeTodo
<1> SUFFICES ASSUME NEW i \in 1..Len(Tail(s)), Tail(s)[i] = "start"
             PROVE  \E j \in 1..Len(Tail(s)) : j < i /\ Tail(s)[j] = "config"
  BY DEF Configures
<1>2. i + 1 \in 1..Len(s) /\ s[i + 1] = "start"
  BY <1>1
<1>3. PICK k \in 1..Len(s) : k < i + 1 /\ s[k] = "config"
  BY <1>2 DEF Configures
<1>4. k - 1 \in 1..Len(Tail(s)) /\ k - 1 < i /\ Tail(s)[k - 1] = "config"
  BY <1>1, <1>3
<1> QED
  BY <1>4

\* The node the worker is at.
LEMMA CurIsNode ==
    /\ First \in Nodes /\ Len(NodeSeq) \in Nat /\ Len(NodeSeq) >= 1
    /\ Todo /\ work.done < Len(NodeSeq) => Cur \in Nodes /\ (Cur = First <=> work.done = 0)
<1>1. NodeSeq \in Seq(Nodes) /\ Len(NodeSeq) \in Nat
  <2>1. NodeSeq \in Seq(Nodes)
    BY K8sInstallAssumption
  <2> QED
    BY <2>1, LenProperties
<1>2. Len(NodeSeq) >= 1
  <2>1. PICK n \in Nodes : TRUE
    BY K8sInstallAssumption
  <2>2. PICK i \in DOMAIN NodeSeq : n = NodeSeq[i]
    BY <2>1, K8sInstallAssumption
  <2> QED
    BY <1>1, <2>2
<1>3. First \in Nodes
  BY <1>1, <1>2 DEF First
<1>4. ASSUME Todo, work.done < Len(NodeSeq) PROVE Cur \in Nodes /\ (Cur = First <=> work.done = 0)
  <2>1. work.done \in Nat /\ work.done + 1 \in DOMAIN NodeSeq /\ 1 \in DOMAIN NodeSeq
    BY <1>1, <1>2, <1>4 DEF Todo
  <2>2. NodeSeq[work.done + 1] = NodeSeq[1] => work.done + 1 = 1
    BY <2>1, K8sInstallAssumption
  <2> QED
    BY <1>1, <2>1, <2>2 DEF Cur, First
<1> QED
  BY <1>1, <1>2, <1>3, <1>4

\* A call for a node that returns and founds nothing.
LEMMA NodeStep ==
    ASSUME K8sInv, NEW op \in NodeOps \ (Founding \cup {"node-done"}), At(op),
           work' = [work EXCEPT !.todo = Tail(work.todo)],
           UNCHANGED <<def, fresh>>, file' = file \/ (def.distro = "rke2" /\ file = "absent"),
           op = "config" => file' # "absent",
           Len(clusters') = Len(clusters),
           \A c \in 1..Len(clusters) : clusters'[c].ingress = clusters[c].ingress,
           \A n \in Nodes : node'[n].svc = node[n].svc /\ node'[n].in = node[n].in
    PROVE  Todo' /\ Members' /\ Controllers'
<1>1. /\ work.todo \in NodeTodo /\ work.todo[1] = op /\ Busy /\ def.distro # "harvester" /\ work.end = "none"
      /\ work.done < Len(NodeSeq) /\ Founds(work.todo, def, work.token, work.done = 0)
  BY AtNode DEF K8sInv
<1>2. /\ work \in [todo : Seq(Ops), done : 0..Len(NodeSeq), token : 0..Len(clusters),
                   end : {"none", "ok", "failed", "crashed"}]
      /\ work.token \in Nat /\ First \in Nodes /\ Len(clusters) \in Nat
  BY CurIsNode DEF K8sInv, Todo, TypeOK
<1>3. Tail(work.todo) \in NodeTodo /\ Founds(Tail(work.todo), def, work.token, work.done = 0)
  BY <1>1, <1>2, RestOfCalls
<1>4. work'.todo = Tail(work.todo) /\ work'.done = work.done /\ work'.token = work.token /\ work'.end = "none"
  BY <1>1, <1>2
<1>5. Tail(work.todo) \in Seq(Ops)
  BY <1>3 DEF NodeTodo, Ops
<1>6. work' \in [todo : Seq(Ops), done : 0..Len(NodeSeq), token : 0..Len(clusters'),
                 end : {"none", "ok", "failed", "crashed"}]
  BY <1>2, <1>5
<1>7. def.distro = "rke2" /\ file' = "absent" => Configures(Tail(work.todo))
  BY <1>1, RestConfigures DEF K8sInv, Todo
<1>8. \A s \in NodeTodo : s # <<"node">> /\ s \notin {<<"add-ons">>, <<"settings">>}
  BY NodeTodoIsNot
<1>9. Todo'
  <2>1. work'.todo \in Plans(def)' /\ work'.todo \in NodeTodo
    BY <1>1, <1>3, <1>4 DEF Plans
  <2>2. work'.token = 0 => work'.done = 0
    BY <1>1, <1>4 DEF K8sInv, Todo
  <2>3. Founds(work'.todo, def', work'.token, work'.done = 0)
    BY <1>3, <1>4
  <2>4. def'.distro = "rke2" /\ file' = "absent" => Configures(work'.todo)
    BY <1>4, <1>7
  <2>5. work'.todo # <<"node">> /\ work'.done < Len(NodeSeq)
    BY <1>1, <1>4, <1>8, <2>1
  <2> QED
    BY <1>4, <1>6, <2>1, <2>2, <2>3, <2>4, <2>5 DEF Todo
<1>10. Members'
  BY <1>1, <1>2, <1>3, <1>4, <1>8 DEF K8sInv, Members
<1>11. Controllers'
  <2>1. Base' = Base \/ (def.distro = "rke2" /\ file = "absent")
    BY DEF Base, Disabled, Bundled, Choice
  <2>2. work.token # 0 => clusters'[work.token].ingress = clusters[work.token].ingress
    BY <1>2
  <2> QED
    BY <1>1, <1>2, <1>4, <2>1, <2>2 DEF K8sInv, Controllers, Busy
<1> QED
  BY <1>9, <1>10, <1>11

\* A call that fails ends the installation.
LEMMA DiesStep ==
    ASSUME K8sInv, Busy, NEW e \in {"failed", "crashed"}, work' = [work EXCEPT !.todo = <<>>, !.end = e],
           UNCHANGED <<def, fresh, file, node, clusters>>
    PROVE  Todo' /\ Members' /\ Controllers'
<1>1. work \in [todo : Seq(Ops), done : 0..Len(NodeSeq), token : 0..Len(clusters),
                   end : {"none", "ok", "failed", "crashed"}]
  BY DEF K8sInv, Todo
<1>2. work'.todo = <<>> /\ work'.done = work.done /\ work'.token = work.token /\ work'.end = e
  BY <1>1
<1>3. work' \in [todo : Seq(Ops), done : 0..Len(NodeSeq), token : 0..Len(clusters'),
                 end : {"none", "ok", "failed", "crashed"}]
  BY <1>1, EmptySeq
<1>4. <<>> # <<"node">> /\ <<>> # <<"add-ons">> /\ <<>> # <<"settings">> /\ <<>> \notin NodeTodo
  BY DEF NodeTodo
<1>5. Todo'
  BY <1>2, <1>3, <1>4 DEF Todo, Plans, Busy
<1>6. Members'
  BY <1>2, <1>4 DEF K8sInv, Members
<1>7. Controllers'
  BY <1>2 DEF K8sInv, Controllers, Busy, Base, Disabled, Bundled, Choice
<1> QED
  BY <1>5, <1>6, <1>7

\* The type invariant in parts: a node, and what is counted and remembered.
NodeType == [run : SUBSET Packages, next : SUBSET Packages, svc : {"none", "server", "agent"}, in : 0..Len(clusters)]
Quantities == starts \in 0..MaxStarts /\ faults \in 0..MaxFaults /\ unseen \subseteq Nodes

\* What the type invariant says of the nodes.
LEMMA NodeTypes ==
    TypeOK <=> /\ def \in Defs /\ file \in {"absent", "all", "no-nginx"} /\ fresh \subseteq Nodes
               /\ clusters \in Seq([net : BOOLEAN, ingress : SUBSET Ingresses])
               /\ node \in [Nodes -> NodeType]
               /\ work.token \in 0..Len(clusters) /\ work.done \in 0..Len(NodeSeq)
               /\ work.end \in {"none", "ok", "failed", "crashed"}
               /\ Quantities
  BY DEF TypeOK, NodeType, Packages, Quantities

\* One node changes.
LEMMA NodeChanged ==
    ASSUME TypeOK, Cur \in Nodes, NEW x \in NodeType, Put(x)
    PROVE  node' \in [Nodes -> NodeType] /\ node'[Cur] = x /\ \A n \in Nodes \ {Cur} : node'[n] = node[n]
  BY NodeTypes DEF Put

\* What a step of the worker leaves alone.
LEMMA SameStep == ASSUME K8sInv, Same PROVE UNCHANGED <<def, file, fresh>> /\ Quantities'
  BY DEF K8sInv, TypeOK, Same, Still, Quantities

\* A call for packages, or one that looks for them, of a node.
LEMMA PackageStep ==
    ASSUME K8sInv, NEW op \in NodeOps \ (Founding \cup {"node-done", "config"}), At(op), Did(1),
           NEW x \in NodeType, x.svc = It.svc, x.in = It.in, Put(x),
           UNCHANGED <<clusters, def, file, fresh>>, Quantities'
    PROVE  K8sInv'
<1>1. Busy /\ work.done < Len(NodeSeq)
  BY AtNode DEF K8sInv
<1>2. Cur \in Nodes /\ work' = [work EXCEPT !.todo = Tail(work.todo)]
  BY <1>1, CurIsNode, DidOne DEF K8sInv
<1>3. node' \in [Nodes -> NodeType] /\ \A n \in Nodes : node'[n].svc = node[n].svc /\ node'[n].in = node[n].in
  BY <1>2, NodeChanged DEF K8sInv, It
<1>4. Todo' /\ Members' /\ Controllers'
  BY <1>2, <1>3, NodeStep
<1>5. TypeOK'
  <2>1. work.token \in 0..Len(clusters) /\ work.done \in 0..Len(NodeSeq)
    BY DEF K8sInv, TypeOK
  <2>2. work' \in [todo : Seq(Ops), done : 0..Len(NodeSeq), token : 0..Len(clusters),
                   end : {"none", "ok", "failed", "crashed"}]
    BY <1>4 DEF Todo
  <2> QED
    BY <1>3, <2>2, NodeTypes DEF K8sInv, TypeOK, Quantities, NodeType, Packages
<1> QED
  BY <1>4, <1>5 DEF K8sInv

\* reboot_into_pending_snapshot().
LEMMA SettleStep == ASSUME K8sInv, Settle PROVE K8sInv'
<1> DEFINE x == [It EXCEPT !.run = @ \cup It.next, !.next = {}]
<1>1. At("settle") /\ Did(1) /\ Put(x) /\ UNCHANGED clusters /\ Still /\ unseen' = unseen \ {Cur}
  BY DEF Settle
<1>2. "settle" \in NodeOps \ (Founding \cup {"node-done", "config"})
  BY DEF NodeOps, Founding, Scripts
<1>3. It \in NodeType
  BY <1>1, <1>2, AtNode, CurIsNode, NodeTypes DEF K8sInv, It
<1>4. x \in NodeType /\ x.svc = It.svc /\ x.in = It.in
  BY <1>3 DEF NodeType
<1>5. UNCHANGED <<def, file, fresh>> /\ Quantities'
  BY <1>1 DEF K8sInv, TypeOK, Still, Quantities
<1> HIDE DEF x
<1> QED
  BY <1>1, <1>2, <1>4, <1>5, PackageStep

\* A package manager.
LEMMA InstallStep ==
    ASSUME K8sInv, NEW op \in Scripts, NEW p \in Packages, Package(op, p) PROVE K8sInv'
<1> DEFINE x == Installed(It, p)
<1>1. At(op) /\ Did(1) /\ Put(x) /\ UNCHANGED clusters /\ Same
  BY DEF Package
<1>2. op \in NodeOps \ (Founding \cup {"node-done", "config"})
  BY DEF NodeOps, Founding, Scripts
<1>3. It \in NodeType
  BY <1>1, <1>2, AtNode, CurIsNode, NodeTypes DEF K8sInv, It
<1>4. x \in NodeType /\ x.svc = It.svc /\ x.in = It.in
  BY <1>3 DEF NodeType, Installed
<1> HIDE DEF x
<1> QED
  BY <1>1, <1>2, <1>4, PackageStep, SameStep

\* A call that changes nothing on its node.
LEMMA PassStep ==
    ASSUME K8sInv, NEW op \in NodeOps \ (Founding \cup {"node-done", "config"}), At(op), Did(1),
           UNCHANGED <<node, clusters, def, file, fresh>>, Quantities'
    PROVE  K8sInv'
<1>1. work.done < Len(NodeSeq) /\ Cur \in Nodes
  BY AtNode, CurIsNode DEF K8sInv
<1>2. It \in NodeType
  BY <1>1, NodeTypes DEF K8sInv, It
<1>3. Put(It)
  BY <1>1, NodeTypes DEF K8sInv, Put, It
<1> QED
  BY <1>2, <1>3, PackageStep

\* A failure.
LEMMA FailStep ==
    ASSUME K8sInv, Busy, NEW e \in {"failed", "crashed"}, work' = [work EXCEPT !.todo = <<>>, !.end = e],
           UNCHANGED <<def, fresh, file, node, clusters>>, Quantities'
    PROVE  K8sInv'
<1>1. Todo' /\ Members' /\ Controllers'
  BY DiesStep
<1>2. TypeOK'
  <2>1. work' \in [todo : Seq(Ops), done : 0..Len(NodeSeq), token : 0..Len(clusters'),
                   end : {"none", "ok", "failed", "crashed"}]
    BY <1>1 DEF Todo
  <2> QED
    BY <2>1, NodeTypes DEF K8sInv, TypeOK, NodeType, Packages, Quantities
<1> QED
  BY <1>1, <1>2 DEF K8sInv

\* What has to be there.
LEMMA RequiresStep ==
    ASSUME K8sInv, NEW op \in NodeOps \ (Founding \cup {"node-done", "config"}), NEW p, Requires(op, p) PROVE K8sInv'
<1>1. CASE p \in It.run
  BY <1>1, PassStep, SameStep DEF Requires
<1>2. CASE p \notin It.run
  <2>1. Busy /\ Quantities'
    BY <1>2 DEF Requires, At, Same, Still, K8sInv, TypeOK, Quantities
  <2> QED
    BY <1>2, <2>1, FailStep DEF Requires, Dies, Same, Still
<1> QED
  BY <1>1, <1>2

\* write_node_config().
LEMMA ConfigStep == ASSUME K8sInv, WriteNodeConfig PROVE K8sInv'
<1>0. "config" \in NodeOps \ (Founding \cup {"node-done"})
  BY DEF NodeOps, Founding, Scripts
<1>1. At("config") /\ Did(1) /\ Busy
  BY DEF WriteNodeConfig, At
<1>2. work' = [work EXCEPT !.todo = Tail(work.todo)]
  BY <1>1, DidOne DEF K8sInv
<1>3. file' \in {"all", "no-nginx"} /\ (file' = file \/ file = "absent")
  BY DEF WriteNodeConfig, K8sInv, TypeOK
<1>4. def.distro = "rke2"
  <2>1. work.todo \in NodeTodo /\ work.todo[1] = "config" /\ Founds(work.todo, def, work.token, work.done = 0)
    BY <1>0, <1>1, AtNode DEF K8sInv
  <2>2. 1 \in 1..Len(work.todo)
    BY <2>1, Rest DEF NodeTodo
  <2> QED
    BY <2>1, <2>2 DEF Founds, Has
<1>5. Todo' /\ Members' /\ Controllers'
  BY <1>0, <1>1, <1>2, <1>3, <1>4, NodeStep DEF WriteNodeConfig
<1>6. TypeOK'
  <2>1. work' \in [todo : Seq(Ops), done : 0..Len(NodeSeq), token : 0..Len(clusters'),
                   end : {"none", "ok", "failed", "crashed"}]
    BY <1>5 DEF Todo
  <2> QED
    BY <1>3, <2>1, NodeTypes DEF K8sInv, TypeOK, WriteNodeConfig, NodeType, Packages
<1> QED
  BY <1>5, <1>6 DEF K8sInv

\* kubectl apply of the network plugin.
LEMMA CniStep == ASSUME K8sInv, ApplyCni PROVE K8sInv'
<1>0. "cni" \in NodeOps \ (Founding \cup {"node-done"}) /\ "cni" # "config"
  BY DEF NodeOps, Founding, Scripts
<1>1. At("cni") /\ Did(1) /\ Busy /\ UNCHANGED node /\ Same
  BY DEF ApplyCni, At
<1>2. work' = [work EXCEPT !.todo = Tail(work.todo)]
  BY <1>1, DidOne DEF K8sInv
<1>3. /\ clusters' = [clusters EXCEPT ![work.token].net = def.cni] /\ def.cni \in BOOLEAN
      /\ clusters \in Seq([net : BOOLEAN, ingress : SUBSET Ingresses])
  BY K8sInstallAssumption DEF ApplyCni, K8sInv, TypeOK
<1>4. /\ clusters' \in Seq([net : BOOLEAN, ingress : SUBSET Ingresses]) /\ Len(clusters') = Len(clusters)
      /\ \A c \in 1..Len(clusters) : clusters'[c].ingress = clusters[c].ingress
  <2> DEFINE C == [net : BOOLEAN, ingress : SUBSET Ingresses]
  <2>1. clusters \in Seq(C) /\ clusters \in [1..Len(clusters) -> C] /\ Len(clusters) \in Nat
    BY <1>3, LenProperties
  <2>2. CASE work.token \in 1..Len(clusters)
    <3> DEFINE e == [clusters[work.token] EXCEPT !.net = def.cni]
    <3>1. e \in C /\ e.ingress = clusters[work.token].ingress
      BY <1>3, <2>1, <2>2
    <3>2. clusters' = [clusters EXCEPT ![work.token] = e]
      BY <1>3
    <3> HIDE DEF e, C
    <3> QED
      BY <2>1, <2>2, <3>1, <3>2, ExceptSeq DEF C
  <2>3. CASE work.token \notin 1..Len(clusters)
    <3>1. clusters' = clusters
      BY <1>3, <2>1, <2>3
    <3> QED
      BY <2>1, <3>1
  <2> QED
    BY <2>2, <2>3
<1>5. Todo' /\ Members' /\ Controllers'
  BY <1>0, <1>1, <1>2, <1>4, NodeStep DEF Same, Still
<1>6. TypeOK'
  <2>1. work' \in [todo : Seq(Ops), done : 0..Len(NodeSeq), token : 0..Len(clusters'),
                   end : {"none", "ok", "failed", "crashed"}]
    BY <1>5 DEF Todo
  <2> QED
    BY <1>1, <1>4, <2>1, NodeTypes DEF K8sInv, TypeOK, Same, Still, NodeType, Packages
<1> QED
  BY <1>5, <1>6 DEF K8sInv

\* The ingress controllers of a distribution, chosen or planned, are among those there are.
LEMMA Controller ==
    ASSUME NEW d \in Defs
    PROVE  Bundled(d) \subseteq Ingresses /\ Choice(d) \subseteq Ingresses /\ Plan(d) \subseteq Ingresses
<1>1. Bundled(d) \subseteq Ingresses
  BY DEF Bundled, Ingresses
<1>2. d.ingress \in Ingresses \cup {"", "none"}
  BY K8sInstallAssumption
<1>3. Choice(d) \subseteq Ingresses
  BY <1>1, <1>2 DEF Choice, Ingresses
<1> QED
  BY <1>1, <1>3 DEF Plan

\* The worker is at the first node when it has no token, and then gets one.
LEMMA AtFirst ==
    ASSUME K8sInv, NEW op \in Founding, At(op), work.token = 0
    PROVE  /\ Cur = First /\ First \in Nodes /\ work.done = 0 /\ def.distro # "harvester" /\ work.end = "none" /\ Busy
           /\ work.todo \in NodeTodo /\ Founds(work.todo, def, 0, TRUE) /\ work.todo[1] = op
           /\ op = "start" /\ def.distro = "rke2" => file # "absent"
           /\ op = "init" => def.distro = "kubeadm"
<1>0. op \in NodeOps
  BY DEF NodeOps
<1>1. /\ work.todo \in NodeTodo /\ work.todo[1] = op /\ Busy /\ def.distro # "harvester" /\ work.end = "none"
      /\ work.done < Len(NodeSeq) /\ Founds(work.todo, def, work.token, work.done = 0)
  BY <1>0, AtNode DEF K8sInv
<1>2. work.done = 0
  BY <1>1 DEF K8sInv, Todo
<1>3. Cur = First /\ First \in Nodes
  BY <1>1, <1>2, CurIsNode DEF K8sInv
<1>4. 1 \in 1..Len(work.todo) /\ Len(work.todo) \in Nat
  BY <1>1, Rest DEF NodeTodo
<1>5. op = "start" /\ def.distro = "rke2" => file # "absent"
  BY <1>1, <1>4 DEF K8sInv, Todo, Configures
<1>6. op = "init" => def.distro = "kubeadm"
  BY <1>1, <1>4 DEF Founds, Has
<1>7. Founds(work.todo, def, 0, TRUE)
  <2>1. (work.done = 0) = TRUE
    BY <1>2
  <2> QED
    BY <1>1, <2>1
<1> QED
  BY <1>1, <1>2, <1>3, <1>5, <1>6, <1>7

\* A node that founded a cluster, or has one, and holds its token.
LEMMA TokenStep ==
    ASSUME K8sInv, NEW op \in Founding, At(op), work.token = 0, NEW t \in Nat \ {0}, Token(t),
           Len(clusters') \in Nat, t =< Len(clusters'), UNCHANGED <<def, file>>
    PROVE  Todo' /\ Busy' /\ work'.token = t /\ work'.end = "none" /\ work'.todo \in NodeTodo
<1>1. /\ work.done = 0 /\ def.distro # "harvester" /\ work.end = "none"
      /\ work.todo \in NodeTodo /\ Founds(work.todo, def, 0, TRUE) /\ work.todo[1] = op
      /\ op = "start" /\ def.distro = "rke2" => file # "absent"
      /\ op = "init" => def.distro = "kubeadm"
  BY AtFirst
<1>2. /\ work \in [todo : Seq(Ops), done : 0..Len(NodeSeq), token : 0..Len(clusters),
                   end : {"none", "ok", "failed", "crashed"}]
      /\ Len(NodeSeq) \in Nat /\ Len(NodeSeq) >= 1
  BY CurIsNode DEF K8sInv, Todo
<1>3. Tail(work.todo) \in NodeTodo /\ Founds(Tail(work.todo), def, t, TRUE)
  BY <1>1, RestOfCalls
<1>4. work'.todo = Tail(work.todo) /\ work'.done = 0 /\ work'.token = t /\ work'.end = "none"
  BY <1>1, <1>2 DEF Token
<1>5. Tail(work.todo) \in Seq(Ops)
  BY <1>3 DEF NodeTodo, Ops
<1>6. work' \in [todo : Seq(Ops), done : 0..Len(NodeSeq), token : 0..Len(clusters'),
                 end : {"none", "ok", "failed", "crashed"}]
  <2>1. t \in 0..Len(clusters')
    OBVIOUS
  <2>2. work' = [work EXCEPT !.todo = Tail(work.todo), !.token = t]
    BY DEF Token
  <2> QED
    BY <1>2, <1>5, <2>1, <2>2
<1>7. def.distro = "rke2" => file # "absent"
  <2>1. op = "start" \/ op = "init"
    BY DEF Founding
  <2> QED
    BY <1>1, <2>1
<1>8. Tail(work.todo) # <<"node">>
  BY <1>3, NodeTodoIsNot
<1>9. Founds(work'.todo, def', work'.token, work'.done = 0)
  <2>1. (work'.done = 0) = TRUE
    BY <1>4
  <2> QED
    BY <1>3, <1>4, <2>1
<1>10. work'.todo \in Plans(def')
  BY <1>1, <1>3, <1>4 DEF Plans
<1>11. Busy'
  BY <1>3, <1>4 DEF Busy, NodeTodo
<1>12. Todo'
  BY <1>1, <1>2, <1>3, <1>4, <1>6, <1>7, <1>8, <1>9, <1>10 DEF Todo
<1> QED
  BY <1>3, <1>4, <1>11, <1>12

\* A cluster is founded.
LEMMA FoundStep ==
    ASSUME K8sInv, NEW op \in Founding, At(op), work.token = 0, Token(Founded),
           Put([It EXCEPT !.svc = "server", !.in = Founded]), NEW net \in BOOLEAN, Found(Base, net), Same
    PROVE  K8sInv'
<1>1. /\ Cur = First /\ First \in Nodes /\ work.done = 0 /\ def.distro # "harvester" /\ work.end = "none"
      /\ op = "start" /\ def.distro = "rke2" => file # "absent"
      /\ op = "init" => def.distro = "kubeadm"
  BY AtFirst
<1> DEFINE C == [net : BOOLEAN, ingress : SUBSET Ingresses]
<1>2. Base \in SUBSET Ingresses
  BY Controller DEF Base, K8sInv, TypeOK
<1>3. clusters \in Seq(C) /\ Len(clusters) \in Nat
  BY DEF K8sInv, TypeOK
<1>4. /\ clusters' \in Seq(C) /\ Len(clusters') = Founded /\ Founded \in Nat \ {0}
      /\ clusters'[Founded] = [net |-> net, ingress |-> Base]
  BY <1>2, <1>3 DEF Found, Founded
<1>5. Todo' /\ Busy' /\ work'.token = Founded /\ work'.end = "none" /\ work'.todo \in NodeTodo
  BY <1>4, TokenStep DEF Same, Still
<1>6. It \in NodeType
  BY <1>1, NodeTypes DEF K8sInv, It
<1>7. \A n \in Nodes : node'[n] = IF n = First THEN [It EXCEPT !.svc = "server", !.in = Founded] ELSE node[n]
  BY <1>1, NodeTypes DEF Put, K8sInv
<1>8. node'[First].svc = "server" /\ node'[First].in = Founded
  BY <1>1, <1>6, <1>7 DEF NodeType
<1>9. TypeOK'
  <2>1. \A n \in Nodes : node'[n] \in NodeType'
    <3>1. [It EXCEPT !.svc = "server", !.in = Founded] \in NodeType'
      <4>1. Founded \in 0..Len(clusters')
        BY <1>4
      <4>2. NodeType' = [run : SUBSET Packages, next : SUBSET Packages, svc : {"none", "server", "agent"},
                         in : 0..Len(clusters')]
        BY DEF NodeType
      <4> QED
        BY <1>6, <4>1, <4>2 DEF NodeType
    <3>2. \A n \in Nodes : node[n] \in NodeType'
      BY <1>3, <1>4, NodeTypes DEF NodeType, K8sInv, Founded
    <3> QED
      BY <1>7, <3>1, <3>2
  <2>2. node' \in [Nodes -> NodeType']
    BY <1>1, <2>1, NodeTypes DEF Put, K8sInv
  <2>3. work' \in [todo : Seq(Ops), done : 0..Len(NodeSeq), token : 0..Len(clusters'),
                   end : {"none", "ok", "failed", "crashed"}]
    BY <1>5 DEF Todo
  <2> QED
    BY <1>4, <2>2, <2>3 DEF K8sInv, TypeOK, Same, Still, NodeType, Packages
<1>10. Members'
  <2>1. work'.todo \notin {<<"add-ons">>, <<"settings">>}
    BY <1>5, NodeTodoIsNot
  <2>2. \A n \in Nodes : node'[n].svc # "none" => node'[n].in # 0
    BY <1>4, <1>7, <1>8 DEF K8sInv, Members
  <2> QED
    BY <1>5, <1>8, <2>1, <2>2 DEF Members
<1>11. Controllers'
  <2>1. Base' = Base
    BY DEF Base, Same, Still, Disabled, Bundled, Choice
  <2>2. def.distro = "rke2" => file # "absent"
    BY <1>1 DEF Founding
  <2> QED
    BY <1>1, <1>4, <1>5, <2>1, <2>2 DEF Controllers, Same, Still
<1> QED
  BY <1>5, <1>9, <1>10, <1>11 DEF K8sInv

\* A node that is the server of a cluster already is asked for the token of that cluster.
LEMMA KeepStep ==
    ASSUME K8sInv, NEW op \in Founding, At(op), work.token = 0, It.svc = "server", Token(It.in),
           UNCHANGED <<node, clusters>>, Same
    PROVE  K8sInv'
<1>1. Cur = First /\ First \in Nodes /\ def.distro # "harvester" /\ Busy
  BY AtFirst
<1>2. It \in NodeType /\ It.in # 0 /\ Len(clusters) \in Nat
  BY <1>1, NodeTypes DEF K8sInv, It, Members, TypeOK
<1>3. It.in \in Nat \ {0} /\ It.in =< Len(clusters)
  BY <1>2 DEF NodeType
<1>4. Todo' /\ Busy' /\ work'.token = It.in /\ work'.end = "none" /\ work'.todo \in NodeTodo
  BY <1>2, <1>3, TokenStep DEF Same, Still
<1>5. Members'
  BY <1>1, <1>4, NodeTodoIsNot DEF K8sInv, Members
<1>6. First \notin fresh
  BY <1>1 DEF K8sInv, Controllers, It
<1>7. Controllers'
  BY <1>6 DEF Controllers, Same, Still
<1>8. TypeOK'
  <2>1. work' \in [todo : Seq(Ops), done : 0..Len(NodeSeq), token : 0..Len(clusters'),
                   end : {"none", "ok", "failed", "crashed"}]
    BY <1>4 DEF Todo
  <2> QED
    BY <2>1 DEF K8sInv, TypeOK, Same, Still
<1> QED
  BY <1>4, <1>5, <1>7, <1>8 DEF K8sInv

\* systemctl enable --now on the first node.
LEMMA StartFirstStep == ASSUME K8sInv, StartFirst PROVE K8sInv'
<1>1. At("start") /\ "start" \in Founding /\ work.token = 0 /\ Same /\ Busy
  BY DEF StartFirst, Founding, At
<1>2. CASE Dies /\ UNCHANGED <<node, clusters>>
  <2>1. Quantities'
    BY <1>1 DEF Same, Still, K8sInv, TypeOK, Quantities
  <2> QED
    BY <1>1, <1>2, <2>1, FailStep DEF Dies, Same, Still
<1>3. CASE It.svc = "server" /\ Token(It.in) /\ UNCHANGED <<node, clusters>>
  BY <1>1, <1>3, KeepStep
<1>4. CASE /\ Token(Founded) /\ Put([It EXCEPT !.svc = "server", !.in = Founded])
           /\ LET off == IF def.distro = "k3s" THEN Disabled(def) ELSE file = "no-nginx"
              IN  Found(IF off THEN {} ELSE Bundled(def), TRUE)
  <2>1. def.distro # "harvester" /\ def.distro \in {"k3s", "rke2", "kubeadm", "harvester"}
    BY <1>1, AtFirst, K8sInstallAssumption DEF K8sInv, TypeOK, Distros
  <2>2. (IF (IF def.distro = "k3s" THEN Disabled(def) ELSE file = "no-nginx") THEN {} ELSE Bundled(def)) = Base
    BY <2>1 DEF Base, Bundled
  <2>3. Found(Base, TRUE)
    BY <1>4, <2>2
  <2> QED
    BY <1>1, <1>4, <2>3, FoundStep
<1> QED
  BY <1>2, <1>3, <1>4 DEF StartFirst

\* kubeadm init.
LEMMA InitStep == ASSUME K8sInv, KubeadmInits PROVE K8sInv'
<1>1. At("init") /\ "init" \in Founding /\ "init" \in NodeOps /\ Same /\ Busy
  BY DEF KubeadmInits, Founding, NodeOps, At
<1>2. work.token = 0
  <2>1. work.todo \in NodeTodo /\ work.todo[1] = "init" /\ Founds(work.todo, def, work.token, work.done = 0)
    BY <1>1, AtNode DEF K8sInv
  <2>2. 1 \in 1..Len(work.todo)
    BY <2>1, Rest DEF NodeTodo
  <2> QED
    BY <2>1, <2>2 DEF Founds, Has
<1>3. CASE Dies /\ UNCHANGED <<node, clusters>>
  <2>1. Quantities'
    BY <1>1 DEF Same, Still, K8sInv, TypeOK, Quantities
  <2> QED
    BY <1>1, <1>3, <2>1, FailStep DEF Dies, Same, Still
<1>4. CASE Token(Founded) /\ Put([It EXCEPT !.svc = "server", !.in = Founded]) /\ Found({}, FALSE)
  <2>1. Base = {}
    BY <1>1, <1>2, AtFirst DEF Base, Bundled
  <2> QED
    BY <1>1, <1>2, <1>4, <2>1, FoundStep
<1> QED
  BY <1>3, <1>4 DEF KubeadmInits

\* A node joins the cluster whose token the worker has: it is not the first.
LEMMA JoinStep ==
    ASSUME K8sInv, NEW op \in {"start", "join"}, At(op), Did(1), work.token # 0, UNCHANGED clusters, Same,
           NEW x \in NodeType, x.in # 0, Put(x)
    PROVE  K8sInv'
<1>1. op \in NodeOps
  BY DEF NodeOps, Founding
<1>2. /\ work.todo \in NodeTodo /\ work.todo[1] = op /\ Busy /\ def.distro # "harvester" /\ work.end = "none"
      /\ work.done < Len(NodeSeq) /\ Founds(work.todo, def, work.token, work.done = 0)
  BY <1>1, AtNode DEF K8sInv
<1>3. 1 \in 1..Len(work.todo)
  BY <1>2, Rest DEF NodeTodo
<1>4. work.done # 0
  BY <1>2, <1>3 DEF Founds, Has
<1>5. Cur \in Nodes /\ Cur # First /\ First \in Nodes
  BY <1>2, <1>4, CurIsNode DEF K8sInv
<1>6. node' \in [Nodes -> NodeType] /\ node'[Cur] = x /\ \A n \in Nodes \ {Cur} : node'[n] = node[n]
  BY <1>5, NodeChanged DEF K8sInv
<1>7. work' = [work EXCEPT !.todo = Tail(work.todo)]
  BY <1>2, DidOne DEF K8sInv
<1>8. /\ work \in [todo : Seq(Ops), done : 0..Len(NodeSeq), token : 0..Len(clusters),
                   end : {"none", "ok", "failed", "crashed"}]
      /\ work.token \in Nat
  BY DEF K8sInv, Todo, TypeOK
<1>9. Tail(work.todo) \in NodeTodo /\ Founds(Tail(work.todo), def, work.token, work.done = 0)
  BY <1>2, <1>8, RestOfCalls, <1>1 DEF Founding
<1>10. work'.todo = Tail(work.todo) /\ work'.done = work.done /\ work'.token = work.token /\ work'.end = "none"
  BY <1>2, <1>7, <1>8
<1>11. work' \in [todo : Seq(Ops), done : 0..Len(NodeSeq), token : 0..Len(clusters'),
                 end : {"none", "ok", "failed", "crashed"}]
  BY <1>7, <1>8, <1>9, SMTT(20) DEF Same, NodeTodo, Ops
<1>12. def.distro = "rke2" /\ file = "absent" => Configures(Tail(work.todo))
  BY <1>2, RestConfigures DEF K8sInv, Todo
<1>13. Todo'
  <2>1. Founds(work'.todo, def', work'.token, work'.done = 0)
    BY <1>9, <1>10 DEF Same, Still
  <2>2. work'.todo \in Plans(def')
    BY <1>2, <1>9, <1>10 DEF Plans, Same, Still
  <2> QED
    BY <1>2, <1>4, <1>8, <1>9, <1>10, <1>11, <1>12, <2>1, <2>2, NodeTodoIsNot DEF Todo, Same, Still
<1>14. Members'
  BY <1>2, <1>5, <1>6, <1>9, <1>10, NodeTodoIsNot DEF K8sInv, Members
<1>15. Controllers'
  <2>1. Base' = Base
    BY DEF Base, Same, Still, Disabled, Bundled, Choice
  <2> QED
    BY <1>2, <1>5, <1>6, <1>8, <1>10, <2>1 DEF K8sInv, Controllers, Same, Still, Busy
<1>16. TypeOK'
  BY <1>6, <1>11, NodeTypes DEF K8sInv, TypeOK, Same, Still, NodeType, Packages
<1> QED
  BY <1>13, <1>14, <1>15, <1>16 DEF K8sInv

\* systemctl enable --now on another node.
LEMMA StartOtherStep == ASSUME K8sInv, StartOther PROVE K8sInv'
<1>1. At("start") /\ "start" \in NodeOps /\ work.token # 0 /\ Same /\ Busy /\ UNCHANGED clusters
  BY DEF StartOther, Founding, NodeOps, At
<1>2. Cur \in Nodes /\ It \in NodeType /\ def \in Defs
  BY <1>1, AtNode, CurIsNode, NodeTypes DEF K8sInv, It
<1>3. CASE Dies /\ UNCHANGED node
  <2>1. Quantities'
    BY <1>1 DEF Same, Still, K8sInv, TypeOK, Quantities
  <2> QED
    BY <1>1, <1>3, <2>1, FailStep DEF Dies, Same, Still
<1>4. CASE Did(1) /\ It.svc # "none" /\ UNCHANGED node
  <2>1. Put(It) /\ It.in # 0
    BY <1>2, <1>4, NodeTypes DEF K8sInv, Put, It, Members
  <2> QED
    BY <1>1, <1>2, <1>4, <2>1, JoinStep
<1>5. CASE Did(1) /\ Put([It EXCEPT !.svc = IF def.distro = "k3s" THEN "agent" ELSE def.type[Cur], !.in = work.token])
  <2> DEFINE x == [It EXCEPT !.svc = IF def.distro = "k3s" THEN "agent" ELSE def.type[Cur], !.in = work.token]
  <2>1. def.type[Cur] \in {"server", "agent"}
    BY <1>2, K8sInstallAssumption
  <2>2. work.token \in 0..Len(clusters)
    BY DEF K8sInv, TypeOK
  <2>3. x \in NodeType /\ x.in # 0
    BY <1>1, <1>2, <2>1, <2>2 DEF NodeType
  <2> HIDE DEF x
  <2> QED
    BY <1>1, <1>5, <2>3, JoinStep DEF x
<1> QED
  BY <1>3, <1>4, <1>5 DEF StartOther

\* kubeadm join.
LEMMA KubeadmJoinStep == ASSUME K8sInv, KubeadmJoins PROVE K8sInv'
<1>1. At("join") /\ "join" \in NodeOps /\ Same /\ Busy /\ UNCHANGED clusters
  BY DEF KubeadmJoins, NodeOps, At
<1>2. Cur \in Nodes /\ It \in NodeType /\ def \in Defs /\ Founds(work.todo, def, work.token, work.done = 0)
      /\ work.todo \in NodeTodo /\ work.todo[1] = "join" /\ def.distro # "harvester"
  BY <1>1, AtNode, CurIsNode, NodeTypes DEF K8sInv, It
<1>3. work.token # 0
  <2>1. 1 \in 1..Len(work.todo)
    BY <1>2, Rest DEF NodeTodo
  <2>2. work.done # 0
    BY <1>2, <2>1 DEF Founds, Has
  <2> QED
    BY <1>1, <1>2, <2>2 DEF K8sInv, Todo
<1>4. CASE Dies /\ UNCHANGED node
  <2>1. Quantities'
    BY <1>1 DEF Same, Still, K8sInv, TypeOK, Quantities
  <2> QED
    BY <1>1, <1>4, <2>1, FailStep DEF Dies, Same, Still
<1>5. CASE Did(1) /\ Put([It EXCEPT !.svc = def.type[Cur], !.in = work.token])
  <2> DEFINE x == [It EXCEPT !.svc = def.type[Cur], !.in = work.token]
  <2>1. def.type[Cur] \in {"server", "agent"}
    BY <1>2, K8sInstallAssumption
  <2>2. work.token \in 0..Len(clusters)
    BY DEF K8sInv, TypeOK
  <2>3. x \in NodeType /\ x.in # 0
    BY <1>2, <1>3, <2>1, <2>2 DEF NodeType
  <2> HIDE DEF x
  <2> QED
    BY <1>1, <1>3, <1>5, <2>3, JoinStep DEF x
<1> QED
  BY <1>4, <1>5 DEF KubeadmJoins

\* Which plans begin with a call that is not for a node.
LEMMA AtOther ==
    ASSUME Todo
    PROVE  /\ At("node") => work.todo = <<"node">> /\ def.distro # "harvester"
           /\ At("https?") => work.todo = <<"https?", "kubeconfig", "ready?", "settings">> /\ def.distro = "harvester"
           /\ At("kubeconfig") => work.todo = <<"kubeconfig", "ready?", "settings">> /\ def.distro = "harvester"
           /\ At("ready?") => \/ work.todo = <<"ready?", "settings">> /\ def.distro = "harvester"
                              \/ work.todo = <<"ready?", "add-ons">> /\ def.distro # "harvester"
           /\ At("settings") => work.todo = <<"settings">> /\ def.distro = "harvester"
           /\ At("add-ons") => work.todo = <<"add-ons">> /\ def.distro # "harvester"
<1>1. work.todo \in Plans(def)
  BY DEF Todo
<1>2. {"node", "ready?", "add-ons", "https?", "kubeconfig", "settings"} \cap NodeOps = {}
  BY DEF NodeOps, Scripts, Founding
<1>3. \A s \in NodeTodo : s[1] \in NodeOps
  BY Rest DEF NodeTodo
<1>4. ASSUME Busy
      PROVE  work.todo \notin NodeTodo \/ work.todo[1] \notin {"node", "ready?", "add-ons", "https?", "kubeconfig", "settings"}
  BY <1>2, <1>3
<1>5. CASE def.distro = "harvester"
  BY <1>1, <1>5 DEF Plans, HarvesterTails, At, Busy
<1>6. CASE def.distro # "harvester"
  BY <1>1, <1>4, <1>6 DEF Plans, At, Busy
<1> QED
  BY <1>5, <1>6

\* The next node, or the end for an agent that comes first.
LEMMA NextNodeStep == ASSUME K8sInv, NextNode PROVE K8sInv'
<1>1. At("node") /\ Busy /\ UNCHANGED <<node, clusters>> /\ Same
  BY DEF NextNode, At
<1>2. work.todo = <<"node">> /\ def.distro # "harvester" /\ work.end = "none"
  BY <1>1, AtOther DEF K8sInv, Todo, Busy
<1>3. CASE work' = [work EXCEPT !.todo = <<>>, !.end = "crashed"]
  BY <1>1, <1>3, FailStep, SameStep
<1>4. CASE work' = [work EXCEPT !.todo = NodeProgram(def, work.token = 0) \o <<"node-done">>]
  <2>1. PICK p : p = NodeProgram(def, work.token = 0) \o <<"node-done">>
    OBVIOUS
  <2>2. /\ work \in [todo : Seq(Ops), done : 0..Len(NodeSeq), token : 0..Len(clusters),
                     end : {"none", "ok", "failed", "crashed"}]
        /\ work.token \in Nat /\ def \in Defs
    BY DEF K8sInv, Todo, TypeOK
  <2>3. p \in NodeTodo /\ Founds(p, def, work.token, work.token = 0) /\ (def.distro = "rke2" => Configures(p))
    BY <1>2, <2>1, <2>2, Programs
  <2>4. (work.token = 0) = (work.done = 0) /\ work.done < Len(NodeSeq)
    BY <1>1, <1>2, <2>2 DEF K8sInv, Todo
  <2>5. work' = [work EXCEPT !.todo = p]
    BY <1>4, <2>1
  <2>6. work'.todo = p /\ work'.done = work.done /\ work'.token = work.token /\ work'.end = "none"
    BY <1>2, <2>2, <2>5
  <2>7. work' \in [todo : Seq(Ops), done : 0..Len(NodeSeq), token : 0..Len(clusters'),
                   end : {"none", "ok", "failed", "crashed"}]
    BY <1>1, <2>2, <2>3, <2>5 DEF NodeTodo, Ops
  <2>8. Founds(work'.todo, def', work'.token, work'.done = 0)
    BY <1>1, <2>3, <2>4, <2>6 DEF Same, Still
  <2>9. work'.todo \in Plans(def')
    BY <1>1, <1>2, <2>3, <2>6 DEF Plans, Same, Still
  <2>10. Todo'
    BY <1>1, <1>2, <2>2, <2>3, <2>4, <2>6, <2>7, <2>8, <2>9, NodeTodoIsNot DEF Todo, Same, Still
  <2>11. Members'
    BY <1>1, <1>2, <2>3, <2>6, NodeTodoIsNot DEF K8sInv, Members
  <2>12. Busy'
    BY <2>3, <2>6 DEF Busy, NodeTodo
  <2>13. Controllers'
    BY <1>1, <1>2, <2>6, <2>12 DEF K8sInv, Controllers, Same, Still, Base, Disabled, Bundled, Choice
  <2>14. TypeOK'
    BY <1>1, <2>7 DEF K8sInv, TypeOK, Same, Still
  <2> QED
    BY <2>10, <2>11, <2>13, <2>14 DEF K8sInv
<1> QED
  BY <1>3, <1>4 DEF NextNode

\* The node is done: the next one, or the end of the installation.
LEMMA NodeDoneStep == ASSUME K8sInv, NodeDone PROVE K8sInv'
<1>1. At("node-done") /\ Busy /\ UNCHANGED <<node, clusters>> /\ Same /\ "node-done" \in NodeOps
  BY DEF NodeDone, At, NodeOps
<1>2. /\ work.todo \in NodeTodo /\ work.todo[1] = "node-done" /\ def.distro # "harvester" /\ work.end = "none"
      /\ work.done < Len(NodeSeq) /\ Founds(work.todo, def, work.token, work.done = 0)
  BY <1>1, AtNode DEF K8sInv
<1>3. work.token # 0
  <2>1. Len(work.todo) \in Nat /\ 1 \in 1..Len(work.todo)
    BY <1>2, Rest DEF NodeTodo
  <2>2. Len(work.todo) = 1 /\ work.todo[1] \notin Founding
    BY <1>2, <2>1 DEF Founds, Founding
  <2> QED
    BY <1>2, <2>2 DEF Founds
<1>4. /\ work \in [todo : Seq(Ops), done : 0..Len(NodeSeq), token : 0..Len(clusters),
                   end : {"none", "ok", "failed", "crashed"}]
      /\ Len(NodeSeq) \in Nat
  BY CurIsNode DEF K8sInv, Todo
<1>5. PICK s \in {<<"ready?", "add-ons">>, <<"node">>} :
        /\ s = <<"node">> => work.done + 1 # Len(NodeSeq)
        /\ work' = [work EXCEPT !.done = work.done + 1, !.todo = s]
  BY DEF NodeDone
<1>6. work'.todo = s /\ work'.done = work.done + 1 /\ work'.token = work.token /\ work'.end = "none"
  BY <1>2, <1>4, <1>5
<1>7. s \in Seq(Ops) /\ s # <<>> /\ s \notin {<<"add-ons">>, <<"settings">>} /\ s \notin NodeTodo
  <2>1. "node" \in Ops /\ "ready?" \in Ops /\ "add-ons" \in Ops
    BY DEF Ops
  <2>2. <<"node">> \in Seq(Ops) /\ <<"ready?", "add-ons">> \in Seq(Ops)
    BY <2>1
  <2>3. s # <<>> /\ s # <<"add-ons">> /\ s # <<"settings">>
    OBVIOUS
  <2>4. s \notin NodeTodo
    BY NodeTodoIsNot
  <2> QED
    BY <2>2, <2>3, <2>4
<1>8. work' \in [todo : Seq(Ops), done : 0..Len(NodeSeq), token : 0..Len(clusters'),
                   end : {"none", "ok", "failed", "crashed"}]
  <2>1. work.done + 1 \in 0..Len(NodeSeq) /\ clusters' = clusters
    BY <1>1, <1>2, <1>4
  <2> QED
    BY <1>4, <1>5, <1>7, <2>1
<1>9. s \in Plans(def')
  BY <1>1, <1>2 DEF Plans, Same, Still
<1>10. Todo'
  BY <1>1, <1>2, <1>3, <1>4, <1>5, <1>6, <1>7, <1>8, <1>9 DEF Todo, Same, Still
<1>11. Members'
  BY <1>1, <1>6, <1>7 DEF K8sInv, Members
<1>12. Controllers'
  BY <1>1, <1>2, <1>6, <1>7 DEF K8sInv, Controllers, Same, Still, Base, Disabled, Bundled, Choice, Busy
<1>13. TypeOK'
  BY <1>1, <1>8 DEF K8sInv, TypeOK, Same, Still
<1> QED
  BY <1>10, <1>11, <1>12, <1>13 DEF K8sInv

\* setup_lab reaches the cluster: nothing is left of what an earlier run had in hand.
LEMMA BeginStep == ASSUME K8sInv, Begin PROVE K8sInv'
<1> DEFINE T == IF def.distro = "harvester" THEN <<"https?", "kubeconfig", "ready?", "settings">> ELSE <<"node">>
<1>0. starts < MaxStarts /\ starts' = starts + 1 /\ clusters' = clusters
  BY DEF Begin
<1>1. /\ UNCHANGED <<file, clusters, faults>>
      /\ node' = [n \in Nodes |-> IF n \in fresh' THEN New
                                  ELSE [node[n] EXCEPT !.run = @ \cup node[n].next, !.next = {}]]
      /\ work' = [Idle EXCEPT !.todo = T]
  <2>2. UNCHANGED <<file, clusters, faults>>
    BY DEF Begin
  <2>3. node' = [n \in Nodes |-> IF n \in fresh' THEN New
                                 ELSE [node[n] EXCEPT !.run = @ \cup node[n].next, !.next = {}]]
    BY DEF Begin
  <2>4. work' = [Idle EXCEPT !.todo = T]
    BY DEF Begin, HarvesterCluster
  <2> QED
    BY <2>2, <2>3, <2>4
<1>2. fresh' \subseteq Nodes
  BY DEF Begin
<1>3. def' \in Defs /\ def'.distro = def.distro
  <2>1. PICK d \in Defs : def' = d /\ [d EXCEPT !.ingress = def.ingress] = def
    BY DEF Begin
  <2>2. [d EXCEPT !.ingress = def.ingress].distro = d.distro
    BY <2>1, K8sInstallAssumption
  <2> QED
    BY <2>1, <2>2
<1>4. work'.todo = T /\ work'.done = 0 /\ work'.token = 0 /\ work'.end = "none"
  BY <1>1 DEF Idle
<1>5. T # <<>> /\ T \notin {<<"add-ons">>, <<"settings">>} \cup NodeTodo /\ T \in Seq(Ops) /\ T \in Plans(def')
  <2>1. T # <<>> /\ T \notin {<<"add-ons">>, <<"settings">>}
    OBVIOUS
  <2>2. T \notin NodeTodo
    BY NodeTodoIsNot DEF HarvesterTails
  <2>3. {"node", "https?", "kubeconfig", "ready?", "settings"} \subseteq Ops
    BY DEF Ops
  <2>4. T \in Seq(Ops)
    BY <2>3
  <2>5. T \in Plans(def')
    BY <1>3 DEF Plans, HarvesterTails
  <2> QED
    BY <2>1, <2>2, <2>4, <2>5
<1>6. T = <<"node">> => def.distro # "harvester"
  OBVIOUS
<1>7. Len(NodeSeq) \in Nat /\ Len(NodeSeq) >= 1 /\ First \in Nodes /\ Len(clusters) \in Nat
  BY CurIsNode DEF K8sInv, TypeOK
<1> HIDE DEF T
<1>8. work' \in [todo : Seq(Ops), done : 0..Len(NodeSeq), token : 0..Len(clusters'),
                 end : {"none", "ok", "failed", "crashed"}]
  <2>1. work' = [todo |-> T, done |-> 0, token |-> 0, end |-> "none"]
    BY <1>1 DEF Idle
  <2>2. 0 \in 0..Len(NodeSeq) /\ 0 \in 0..Len(clusters')
    BY <1>0, <1>7
  <2> QED
    BY <1>5, <2>1, <2>2
<1>9. Todo'
  <2>1. def.distro # "harvester" => T = <<"node">>
    BY DEF T
  <2> QED
    BY <1>3, <1>4, <1>5, <1>6, <1>7, <1>8, <2>1 DEF Todo, Busy
<1>10. \A n \in Nodes : /\ node'[n] \in NodeType
                        /\ n \in fresh' => node'[n].svc = "none"
                        /\ n \notin fresh' => node'[n].svc = node[n].svc /\ node'[n].in = node[n].in
  <2> SUFFICES ASSUME NEW n \in Nodes
               PROVE  /\ node'[n] \in NodeType
                      /\ n \in fresh' => node'[n].svc = "none"
                      /\ n \notin fresh' => node'[n].svc = node[n].svc /\ node'[n].in = node[n].in
    OBVIOUS
  <2>1. node[n] \in NodeType
    BY NodeTypes DEF K8sInv
  <2>2. New \in NodeType /\ New.svc = "none"
    BY <1>7 DEF New, NodeType
  <2>3. [node[n] EXCEPT !.run = @ \cup node[n].next, !.next = {}] \in NodeType
    BY <2>1 DEF NodeType
  <2> QED
    BY <1>1, <2>1, <2>2, <2>3 DEF NodeType
<1>11. Members'
  BY <1>4, <1>5, <1>7, <1>10 DEF K8sInv, Members
<1>12. Controllers'
  BY <1>3, <1>4, <1>7, <1>10 DEF Controllers
<1>13. TypeOK'
  <2>1. node' \in [Nodes -> NodeType']
    <3>1. NodeType' = NodeType
      BY <1>1 DEF NodeType
    <3> QED
      BY <1>1, <1>10, <3>1
  <2>2. starts' \in 0..MaxStarts
    <3>1. MaxStarts \in Nat
      BY K8sInstallAssumption
    <3> QED
      BY <1>0, <3>1 DEF K8sInv, TypeOK
  <2>3. unseen' = {}
    BY DEF Begin
  <2> QED
    BY <1>1, <1>2, <1>3, <1>8, <2>1, <2>2, <2>3 DEF K8sInv, TypeOK, NodeType, Packages
<1> QED
  BY <1>9, <1>11, <1>12, <1>13 DEF K8sInv

\* A Harvester node installs itself, and founds its cluster or joins it.
LEMMA HarvesterNodeStep == ASSUME K8sInv, NEW n \in Nodes, HarvesterNode(n) PROVE K8sInv'
<1> DEFINE C == [net : BOOLEAN, ingress : SUBSET Ingresses]
<1>1. def.distro = "harvester" /\ node[n].svc = "none" /\ work' = work /\ Same
  BY DEF HarvesterNode
<1>2. clusters \in Seq(C) /\ Len(clusters) \in Nat /\ First \in Nodes /\ node[n] \in NodeType
  BY CurIsNode, NodeTypes DEF K8sInv, TypeOK
<1>3. ~Joined
  BY <1>1 DEF Joined
<1>4. work.todo \notin {<<"add-ons">>, <<"settings">>} /\ work.end # "ok"
  BY <1>3 DEF K8sInv, Members
<1> DEFINE k == IF n = First THEN Founded ELSE node[First].in
<1>5. /\ k \in Nat \ {0}
      /\ node' = [node EXCEPT ![n].svc = "server", ![n].in = k]
      /\ clusters' \in Seq(C) /\ Len(clusters') >= Len(clusters) /\ Len(clusters') \in Nat /\ k =< Len(clusters')
      /\ \A c \in 1..Len(clusters) : clusters'[c] = clusters[c]
      /\ n # First \/ clusters'[k].ingress = {"nginx"}
  <2>1. CASE n = First /\ Found(Bundled(def), TRUE) /\ node' = [node EXCEPT ![n].svc = "server", ![n].in = Founded]
    <3>1. Bundled(def) = {"nginx"} /\ {"nginx"} \in SUBSET Ingresses
      BY <1>1 DEF Bundled, Ingresses
    <3>2. clusters' = Append(clusters, [net |-> TRUE, ingress |-> {"nginx"}])
      BY <2>1, <3>1 DEF Found
    <3>3. [net |-> TRUE, ingress |-> {"nginx"}] \in C
      BY <3>1
    <3>4. /\ clusters' \in Seq(C) /\ Len(clusters') = Len(clusters) + 1
          /\ \A c \in 1..Len(clusters) : clusters'[c] = clusters[c]
          /\ clusters'[Len(clusters) + 1] = [net |-> TRUE, ingress |-> {"nginx"}]
      BY <1>2, <3>2, <3>3
    <3>5. Founded \in Nat \ {0} /\ Founded = Len(clusters) + 1 /\ clusters'[Founded].ingress = {"nginx"}
      BY <1>2, <3>4 DEF Founded
    <3> QED
      BY <1>2, <2>1, <3>4, <3>5
  <2>2. CASE /\ n # First /\ node[First].in # 0 /\ UNCHANGED clusters
             /\ node' = [node EXCEPT ![n].svc = "server", ![n].in = node[First].in]
    <3>1. node[First].in \in Nat \ {0} /\ node[First].in =< Len(clusters)
      BY <1>2, <2>2, NodeTypes DEF K8sInv, NodeType
    <3> QED
      BY <1>2, <2>2, <3>1
  <2> QED
    BY <2>1, <2>2 DEF HarvesterNode
<1> HIDE DEF k
<1>6. /\ node'[n].svc = "server" /\ node'[n].in = k
      /\ \A m \in Nodes \ {n} : node'[m] = node[m]
      /\ node'[n] = [node[n] EXCEPT !.svc = "server", !.in = k]
  BY <1>2, <1>5, NodeTypes DEF K8sInv, NodeType
<1>7. Todo'
  <2>1. work' \in [todo : Seq(Ops), done : 0..Len(NodeSeq), token : 0..Len(clusters'),
                   end : {"none", "ok", "failed", "crashed"}]
    BY <1>1, <1>2, <1>5 DEF K8sInv, Todo
  <2> QED
    BY <1>1, <2>1 DEF K8sInv, Todo, Same, Still, Busy, Plans
<1>8. Members'
  <2>1. node'[First].svc # "agent"
    BY <1>2, <1>6 DEF K8sInv, Members
  <2>2. \A m \in Nodes : node'[m].svc # "none" => node'[m].in # 0
    BY <1>5, <1>6 DEF K8sInv, Members
  <2> QED
    BY <1>1, <1>4, <2>1, <2>2 DEF Members
<1>9. Controllers'
  <2>1. n # First /\ First \in fresh /\ node[First].svc # "none" =>
          clusters'[node[First].in].ingress = {"nginx"}
    <3>1. node[First].in \in 0..Len(clusters)
      BY <1>2, NodeTypes DEF K8sInv, NodeType
    <3> QED
      BY <1>1, <1>2, <1>5, <3>1 DEF K8sInv, Controllers
  <2>2. First \in fresh /\ node'[First].svc # "none" =>
          node'[First].in # 0 /\ clusters'[node'[First].in].ingress = {"nginx"}
    BY <1>2, <1>5, <1>6, <2>1 DEF K8sInv, Members
  <2> QED
    BY <1>1, <2>2 DEF Controllers, Same, Still
<1>10. TypeOK'
  <2>1. NodeType' = [run : SUBSET Packages, next : SUBSET Packages, svc : {"none", "server", "agent"},
                     in : 0..Len(clusters')]
    BY DEF NodeType
  <2>2. \A m \in Nodes : node'[m] \in NodeType'
    <3>1. \A m \in Nodes \ {n} : node'[m] \in NodeType'
      BY <1>2, <1>5, <1>6, <2>1, NodeTypes DEF K8sInv, NodeType
    <3>2. node'[n] \in NodeType'
      <4>1. k \in 0..Len(clusters')
        BY <1>5
      <4> QED
        BY <1>2, <1>6, <2>1, <4>1 DEF NodeType
    <3> QED
      BY <3>1, <3>2
  <2>3. node' \in [Nodes -> NodeType']
    BY <1>5, <2>2, NodeTypes DEF K8sInv
  <2>4. work' \in [todo : Seq(Ops), done : 0..Len(NodeSeq), token : 0..Len(clusters'),
                   end : {"none", "ok", "failed", "crashed"}]
    BY <1>7 DEF Todo
  <2> QED
    BY <1>1, <1>5, <2>3, <2>4 DEF K8sInv, TypeOK, Same, Still, NodeType, Packages
<1> QED
  BY <1>7, <1>8, <1>9, <1>10 DEF K8sInv

\* The create node answers on HTTPS, and the kubeconfig is fetched.
LEMMA HarvesterWaitStep == ASSUME K8sInv, WaitHttps \/ FetchKubeconfig PROVE K8sInv'
<1>1. UNCHANGED <<node, clusters>> /\ Same /\ Busy /\ First \in Nodes /\ Len(clusters) \in Nat
  BY CurIsNode DEF WaitHttps, FetchKubeconfig, At, K8sInv, TypeOK
<1>2. /\ work \in [todo : Seq(Ops), done : 0..Len(NodeSeq), token : 0..Len(clusters),
                   end : {"none", "ok", "failed", "crashed"}]
      /\ node[First].in \in 0..Len(clusters)
  BY <1>1, NodeTypes DEF K8sInv, Todo, NodeType
<1>3. /\ def.distro = "harvester" /\ work.end = "none"
      /\ Tail(work.todo) \in {<<"kubeconfig", "ready?", "settings">>, <<"ready?", "settings">>}
  <2>1. work.end = "none"
    BY <1>1 DEF K8sInv, Todo, Busy
  <2>2. CASE WaitHttps
    <3>1. work.todo = <<"https?", "kubeconfig", "ready?", "settings">> /\ def.distro = "harvester"
      BY <2>2, AtOther DEF WaitHttps, K8sInv
    <3>2. Tail(work.todo) = <<"kubeconfig", "ready?", "settings">>
      BY <3>1
    <3> QED
      BY <2>1, <3>1, <3>2
  <2>3. CASE FetchKubeconfig
    <3>1. work.todo = <<"kubeconfig", "ready?", "settings">> /\ def.distro = "harvester"
      BY <2>3, AtOther DEF FetchKubeconfig, K8sInv
    <3>2. Tail(work.todo) = <<"ready?", "settings">>
      BY <3>1
    <3> QED
      BY <2>1, <3>1, <3>2
  <2> QED
    BY <2>2, <2>3
<1>4. PICK t \in 0..Len(clusters) : work' = [work EXCEPT !.todo = Tail(work.todo), !.token = t]
  <2>1. CASE WaitHttps
    BY <1>2, <2>1 DEF WaitHttps, Token
  <2>2. CASE FetchKubeconfig
    <3>1. work' = [work EXCEPT !.todo = Tail(work.todo)]
      BY <1>1, <2>2, DidOne DEF FetchKubeconfig, K8sInv
    <3>2. [work EXCEPT !.todo = Tail(work.todo)] = [work EXCEPT !.todo = Tail(work.todo), !.token = work.token]
      BY <1>2
    <3> QED
      BY <1>2, <3>1, <3>2
  <2> QED
    BY <2>1, <2>2
<1>5. work'.todo = Tail(work.todo) /\ work'.end = "none"
  BY <1>2, <1>3, <1>4
<1>6. /\ work'.todo \in Seq(Ops) /\ work'.todo # <<>>
      /\ work'.todo \notin {<<"settings">>, <<"add-ons">>, <<"node">>} \cup NodeTodo
  <2>1. {"kubeconfig", "ready?", "settings"} \subseteq Ops
    BY DEF Ops
  <2>2. <<"kubeconfig", "ready?", "settings">> \in Seq(Ops) /\ <<"ready?", "settings">> \in Seq(Ops)
    BY <2>1
  <2>3. work'.todo \notin NodeTodo
    BY <1>3, <1>5, NodeTodoIsNot DEF HarvesterTails
  <2>4. work'.todo # <<>> /\ work'.todo \notin {<<"settings">>, <<"add-ons">>, <<"node">>}
    <3>1. PICK s : s = work'.todo
      OBVIOUS
    <3>2. CASE s = <<"kubeconfig", "ready?", "settings">>
      BY <3>1, <3>2
    <3>3. CASE s = <<"ready?", "settings">>
      BY <3>1, <3>3
    <3> QED
      BY <1>3, <1>5, <3>1, <3>2, <3>3
  <2> QED
    BY <1>3, <1>5, <2>2, <2>3, <2>4
<1>7. work' \in [todo : Seq(Ops), done : 0..Len(NodeSeq), token : 0..Len(clusters'),
                 end : {"none", "ok", "failed", "crashed"}]
  BY <1>1, <1>2, <1>4, <1>5, <1>6
<1>8. Todo'
  BY <1>1, <1>3, <1>5, <1>6, <1>7 DEF Todo, Plans, HarvesterTails, Same, Still
<1>9. Members'
  BY <1>1, <1>5, <1>6 DEF K8sInv, Members
<1>10. Controllers'
  BY <1>1, <1>3, <1>5 DEF K8sInv, Controllers, Same, Still
<1>11. TypeOK'
  BY <1>1, <1>7 DEF K8sInv, TypeOK, Same, Still
<1> QED
  BY <1>8, <1>9, <1>10, <1>11 DEF K8sInv

\* wait_nodes_ready().
LEMMA ReadyStep == ASSUME K8sInv, WaitNodesReady PROVE K8sInv'
<1>1. UNCHANGED <<node, clusters>> /\ Same /\ Busy /\ At("ready?")
  BY DEF WaitNodesReady, At
<1>2. work \in [todo : Seq(Ops), done : 0..Len(NodeSeq), token : 0..Len(clusters),
                   end : {"none", "ok", "failed", "crashed"}]
  BY DEF K8sInv, Todo
<1>3. CASE Dies
  BY <1>1, <1>3, FailStep, SameStep DEF Dies
<1>4. CASE (\A n \in Nodes : Ready(n)) /\ Did(1)
  <2>1. Joined
    BY <1>4 DEF Joined, Ready
  <2>2. work' = [work EXCEPT !.todo = Tail(work.todo)]
    BY <1>1, <1>4, DidOne DEF K8sInv
  <2>3. \/ def.distro = "harvester" /\ Tail(work.todo) = <<"settings">>
        \/ def.distro # "harvester" /\ Tail(work.todo) = <<"add-ons">>
           /\ (work.token = 0 => work.done = 0) /\ work.done # 0
    <3>1. CASE work.todo = <<"ready?", "settings">> /\ def.distro = "harvester"
      <4>1. Tail(work.todo) = <<"settings">>
        BY <3>1
      <4> QED
        BY <3>1, <4>1
    <3>2. CASE work.todo = <<"ready?", "add-ons">> /\ def.distro # "harvester"
      <4>1. Tail(work.todo) = <<"add-ons">>
        BY <3>2
      <4>2. work.todo # <<"node">> /\ work.todo \notin NodeTodo
        BY <3>2, NodeTodoIsNot
      <4> QED
        BY <1>1, <3>2, <4>1, <4>2 DEF K8sInv, Todo
    <3> QED
      BY <1>1, <3>1, <3>2, AtOther DEF K8sInv
  <2>4. work'.todo = Tail(work.todo) /\ work'.end = "none" /\ work'.done = work.done /\ work'.token = work.token
    BY <1>1, <1>2, <2>2 DEF K8sInv, Todo, Busy
  <2>5. work'.todo \in Seq(Ops) /\ work'.todo # <<>> /\ work'.todo \notin {<<"node">>} \cup NodeTodo
    <3>1. {"add-ons", "settings"} \subseteq Ops
      BY DEF Ops
    <3>2. <<"add-ons">> \in Seq(Ops) /\ <<"settings">> \in Seq(Ops)
      BY <3>1
    <3>3. work'.todo \notin NodeTodo
      BY <2>3, <2>4, NodeTodoIsNot
    <3>4. PICK s : s = work'.todo
      OBVIOUS
    <3>5. work'.todo # <<>> /\ work'.todo # <<"node">>
      <4>1. CASE s = <<"add-ons">>
        BY <3>4, <4>1
      <4>2. CASE s = <<"settings">>
        BY <3>4, <4>2
      <4> QED
        BY <2>3, <2>4, <3>4, <4>1, <4>2
    <3> QED
      BY <2>3, <2>4, <3>2, <3>3, <3>5
  <2>6. work' \in [todo : Seq(Ops), done : 0..Len(NodeSeq), token : 0..Len(clusters'),
                   end : {"none", "ok", "failed", "crashed"}]
    BY <1>1, <1>2, <2>2, <2>4, <2>5
  <2>7. Todo'
    BY <1>1, <2>3, <2>4, <2>5, <2>6 DEF Todo, Plans, HarvesterTails, Same, Still
  <2>8. Members'
    BY <1>1, <2>1, <2>4 DEF K8sInv, Members, Joined
  <2>9. Controllers'
    BY <1>1, <2>4 DEF K8sInv, Controllers, Same, Still, Base, Disabled, Bundled, Choice
  <2>10. TypeOK'
    BY <1>1, <2>6 DEF K8sInv, TypeOK, Same, Still
  <2> QED
    BY <2>7, <2>8, <2>9, <2>10 DEF K8sInv
<1> QED
  BY <1>3, <1>4 DEF WaitNodesReady

\* The settings of a Harvester cluster.
LEMMA SettingsStep == ASSUME K8sInv, ApplySettings PROVE K8sInv'
<1>1. /\ UNCHANGED <<node, clusters>> /\ Same /\ Busy /\ At("settings")
      /\ work' = [work EXCEPT !.todo = <<>>, !.end = "ok"]
  BY DEF ApplySettings, At
<1>2. work \in [todo : Seq(Ops), done : 0..Len(NodeSeq), token : 0..Len(clusters),
                   end : {"none", "ok", "failed", "crashed"}]
  BY DEF K8sInv, Todo
<1>3. Joined /\ def.distro = "harvester"
  BY <1>1, AtOther DEF K8sInv, Members
<1>4. work'.todo = <<>> /\ work'.token = work.token
  BY <1>1, <1>2
<1>5. <<>> # <<"node">> /\ <<>> \notin NodeTodo
  BY DEF NodeTodo
<1>6. work' \in [todo : Seq(Ops), done : 0..Len(NodeSeq), token : 0..Len(clusters'),
                 end : {"none", "ok", "failed", "crashed"}]
  BY <1>1, <1>2, EmptySeq
<1>7. Todo'
  BY <1>4, <1>5, <1>6 DEF Todo, Plans, Busy
<1>8. Members'
  BY <1>1, <1>3, <1>4 DEF K8sInv, Members, Joined
<1>9. Controllers'
  BY <1>1, <1>3 DEF K8sInv, Controllers, Same, Still
<1>10. TypeOK'
  BY <1>1, <1>6 DEF K8sInv, TypeOK, Same, Still
<1> QED
  BY <1>7, <1>8, <1>9, <1>10 DEF K8sInv

\* The ingress controller of the plan is installed.
LEMMA AddonsStep == ASSUME K8sInv, InstallAddons PROVE K8sInv'
<1> DEFINE C == [net : BOOLEAN, ingress : SUBSET Ingresses]
<1>1. /\ UNCHANGED node /\ Same /\ Busy /\ At("add-ons")
      /\ work' = [work EXCEPT !.todo = <<>>, !.end = "ok"]
      /\ clusters' = [clusters EXCEPT ![work.token].ingress = @ \cup Plan(def)]
  BY DEF InstallAddons, At
<1>2. /\ work \in [todo : Seq(Ops), done : 0..Len(NodeSeq), token : 0..Len(clusters),
                   end : {"none", "ok", "failed", "crashed"}]
      /\ First \in Nodes /\ def \in Defs
  BY CurIsNode DEF K8sInv, Todo, TypeOK
<1>3. Joined /\ def.distro # "harvester"
  BY <1>1, AtOther DEF K8sInv, Members
<1>4. work'.todo = <<>> /\ work'.token = work.token /\ work'.end = "ok"
  BY <1>1, <1>2
<1>5. work.token # 0
  BY <1>2, <1>3 DEF Joined, K8sInv, Members
<1>6. clusters \in Seq(C) /\ clusters \in [1..Len(clusters) -> C] /\ Len(clusters) \in Nat
      /\ work.token \in 1..Len(clusters)
  <2>1. clusters \in Seq(C)
    BY DEF K8sInv, TypeOK
  <2>2. Len(clusters) \in Nat /\ clusters \in [1..Len(clusters) -> C]
    BY <2>1, LenProperties
  <2>3. work.token \in 1..Len(clusters)
    BY <1>2, <1>5, <2>2
  <2> QED
    BY <2>1, <2>2, <2>3
<1>7. /\ clusters' \in Seq(C) /\ Len(clusters') = Len(clusters)
      /\ clusters'[work.token].ingress = clusters[work.token].ingress \cup Plan(def)
  <2> DEFINE e == [clusters[work.token] EXCEPT !.ingress = @ \cup Plan(def)]
  <2>1. Plan(def) \subseteq Ingresses
    BY <1>2, Controller
  <2>2. e \in C /\ e.ingress = clusters[work.token].ingress \cup Plan(def)
    BY <1>6, <2>1
  <2>3. clusters' = [clusters EXCEPT ![work.token] = e]
    BY <1>1
  <2> HIDE DEF e, C
  <2> QED
    BY <1>6, <2>2, <2>3, ExceptSeq DEF C
<1>8. <<>> # <<"node">> /\ <<>> \notin NodeTodo
  BY DEF NodeTodo
<1>9. work' \in [todo : Seq(Ops), done : 0..Len(NodeSeq), token : 0..Len(clusters'),
                 end : {"none", "ok", "failed", "crashed"}]
  BY <1>1, <1>2, <1>7, EmptySeq
<1>10. Todo'
  BY <1>4, <1>8, <1>9 DEF Todo, Plans, Busy
<1>11. Members'
  BY <1>1, <1>3, <1>4 DEF K8sInv, Members, Joined
<1>12. Controllers'
  <2>1. Base' = Base /\ Plan(def') = Plan(def)
    BY <1>1 DEF Base, Same, Still, Disabled, Bundled, Choice
  <2>2. First \in fresh => clusters[work.token].ingress = Base
    BY <1>1, <1>3, <1>5 DEF K8sInv, Controllers
  <2> QED
    BY <1>1, <1>3, <1>4, <1>5, <1>7, <2>1, <2>2 DEF Controllers, Same, Still, Busy
<1>13. TypeOK'
  BY <1>1, <1>7, <1>9, NodeTypes DEF K8sInv, TypeOK, Same, Still, NodeType, Packages
<1> QED
  BY <1>10, <1>11, <1>12, <1>13 DEF K8sInv

\* A command that fails.
LEMMA CallFailsStep == ASSUME K8sInv, CallFails PROVE K8sInv'
<1>1. /\ Busy /\ faults < MaxFaults /\ faults' = faults + 1 /\ MaxFaults \in Nat
      /\ UNCHANGED <<def, file, node, clusters, fresh, starts>>
  BY K8sInstallAssumption DEF CallFails
<1>2. Quantities'
  <2>1. ASSUME SettleIsLost PROVE Cur \in Nodes
    <3>1. At("settle") /\ "settle" \in NodeOps
      BY <2>1 DEF SettleIsLost, NodeOps
    <3> QED
      BY <3>1, AtNode, CurIsNode DEF K8sInv
  <2>2. unseen' \subseteq Nodes
    BY <2>1 DEF CallFails, SettleIsLost, K8sInv, TypeOK
  <2> QED
    BY <1>1, <2>2 DEF K8sInv, TypeOK, Quantities
<1>3. CASE (At("kernel") \/ At("policy?") \/ At("settle")) /\ Did(1)
  <2>1. {"kernel", "policy?", "settle"} \subseteq NodeOps \ (Founding \cup {"node-done", "config"})
    BY DEF NodeOps, Founding, Scripts
  <2> QED
    BY <1>1, <1>2, <1>3, <2>1, PassStep
<1>4. CASE Dies \/ work' = [work EXCEPT !.todo = <<>>, !.end = "crashed"]
  BY <1>1, <1>2, <1>4, FailStep DEF Dies
<1> QED
  BY <1>3, <1>4 DEF CallFails, SettleIsLost

\* A node reboots that was not waited for.
LEMMA LateRebootStep == ASSUME K8sInv, NEW n \in Nodes, LateReboot(n) PROVE K8sInv'
<1>1. /\ node' = [node EXCEPT ![n].run = @ \cup node[n].next, ![n].next = {}] /\ unseen' = unseen \ {n}
      /\ UNCHANGED <<def, file, fresh, starts, faults, clusters, work>>
  BY DEF LateReboot, Still
<1>2. node \in [Nodes -> NodeType] /\ node[n] \in NodeType
  BY NodeTypes DEF K8sInv
<1>3. \A k \in Nodes : node'[k].svc = node[k].svc /\ node'[k].in = node[k].in
  BY <1>1, <1>2 DEF NodeType
<1>4. node' \in [Nodes -> NodeType]
  <2>1. PICK x : x = [node[n] EXCEPT !.run = @ \cup node[n].next, !.next = {}]
    OBVIOUS
  <2>2. x \in NodeType
    BY <1>2, <2>1 DEF NodeType
  <2>3. node' = [node EXCEPT ![n] = x]
    BY <1>1, <1>2, <2>1
  <2> QED
    BY <1>2, <2>2, <2>3
<1>5. TypeOK'
  BY <1>1, <1>4, NodeTypes DEF K8sInv, TypeOK, Quantities, NodeType, Packages
<1>6. Todo'
  BY <1>1 DEF K8sInv, Todo, Busy
<1>7. First \in Nodes
  BY CurIsNode
<1>8. Members' /\ Controllers'
  BY <1>1, <1>3, <1>7 DEF K8sInv, Members, Joined, Controllers, Busy, Base, Disabled, Bundled, Choice
<1> QED
  BY <1>5, <1>6, <1>8 DEF K8sInv

(***************************************************************************)
(* The theorems                                                            *)
(***************************************************************************)
\* Before the first run there is no cluster.
LEMMA InitK8s == ASSUME Init PROVE K8sInv
<1>1. /\ def \in Defs /\ file = "absent" /\ node = [n \in Nodes |-> New] /\ clusters = <<>>
      /\ work = [todo |-> <<>>, done |-> 0, token |-> 0, end |-> "none"] /\ fresh = {} /\ unseen = {}
      /\ starts = 0 /\ faults = 0
  BY DEF Init, Idle
<1>2. Len(NodeSeq) \in Nat /\ Len(clusters) = 0 /\ First \in Nodes
  BY <1>1, CurIsNode, EmptySeq
<1>3. <<>> # <<"node">> /\ <<>> \notin NodeTodo \cup {<<"add-ons">>, <<"settings">>}
  BY DEF NodeTodo
<1>4. <<>> \in Seq(Ops) /\ <<>> \in Seq([net : BOOLEAN, ingress : SUBSET Ingresses])
      /\ 0 \in 0..0 /\ 0 \in 0..Len(NodeSeq)
  BY <1>2, EmptySeq
<1>5. Todo
  BY <1>1, <1>2, <1>3, <1>4 DEF Todo, Plans, Busy
<1>6. \A n \in Nodes : node[n].svc = "none" /\ node[n] \in NodeType
  BY <1>1, <1>2, <1>4 DEF New, NodeType
<1>7. Members
  BY <1>1, <1>2, <1>3, <1>6 DEF Members
<1>8. Controllers
  BY <1>1 DEF Controllers
<1>9. Quantities
  <2>1. MaxStarts \in Nat /\ MaxFaults \in Nat
    BY K8sInstallAssumption
  <2> QED
    BY <1>1, <2>1 DEF Quantities
<1>10. TypeOK
  BY <1>1, <1>2, <1>4, <1>6, <1>9, NodeTypes
<1> QED
  BY <1>5, <1>7, <1>8, <1>10 DEF K8sInv

\* Every step of an installation, and of the nodes, keeps it.
LEMMA StepK8s == ASSUME K8sInv, [Next]_vars PROVE K8sInv'
<1>1. CASE Begin
  BY <1>1, BeginStep
<1>2. CASE NextNode \/ NodeDone \/ Settle
  BY <1>2, NextNodeStep, NodeDoneStep, SettleStep
<1>3. CASE UpdateKernel \/ K3sScript \/ Rke2Script \/ InstallPackages
  BY <1>3, InstallStep DEF UpdateKernel, K3sScript, Rke2Script, InstallPackages, Scripts, Packages
<1>4. CASE CheckPolicy \/ ContainerdConfig \/ MissingBinaries \/ EnableContainerd
  <2>1. {"policy?", "containerd-config", "missing?", "enable"} \subseteq NodeOps \ (Founding \cup {"node-done", "config"})
    BY DEF NodeOps, Founding, Scripts
  <2>2. CASE PolicyNotAsked
    BY <2>1, <2>2, PassStep, SameStep DEF PolicyNotAsked
  <2> QED
    BY <1>4, <2>1, <2>2, RequiresStep DEF CheckPolicy, ContainerdConfig, MissingBinaries, EnableContainerd
<1>5. CASE WriteNodeConfig \/ StartFirst \/ StartOther \/ KubeadmInits \/ ApplyCni \/ KubeadmJoins
  BY <1>5, ConfigStep, StartFirstStep, StartOtherStep, InitStep, CniStep, KubeadmJoinStep
<1>6. CASE CreateToken
  <2>1. "token" \in NodeOps \ (Founding \cup {"node-done", "config"})
    BY DEF NodeOps, Founding, Scripts
  <2> QED
    BY <1>6, <2>1, PassStep, SameStep DEF CreateToken
<1>7. CASE WaitHttps \/ FetchKubeconfig \/ ApplySettings \/ WaitNodesReady \/ InstallAddons
  BY <1>7, HarvesterWaitStep, SettingsStep, ReadyStep, AddonsStep
<1>8. CASE CallFails
  BY <1>8, CallFailsStep
<1>9. CASE \E n \in Nodes : HarvesterNode(n) \/ LateReboot(n)
  BY <1>9, HarvesterNodeStep, LateRebootStep
<1>10. CASE UNCHANGED vars
  <2>1. UNCHANGED <<def, file, node, clusters, work, fresh, unseen, starts, faults>>
    BY <1>10 DEF vars
  <2>2. TypeOK'
    BY <2>1 DEF K8sInv, TypeOK
  <2>3. Todo'
    BY <2>1 DEF K8sInv, Todo, Busy
  <2>4. Members' /\ Controllers'
    BY <2>1 DEF K8sInv, Members, Joined, Controllers, Busy, Base, Disabled, Bundled, Choice
  <2> QED
    BY <2>2, <2>3, <2>4 DEF K8sInv
<1> QED
  BY <1>1, <1>2, <1>3, <1>4, <1>5, <1>6, <1>7, <1>8, <1>9, <1>10 DEF Next, Step

\* It holds in every reachable state.
LEMMA K8sInvariant == Spec => []K8sInv
<1>1. Init => K8sInv
  BY InitK8s
<1>2. K8sInv /\ [Next]_vars => K8sInv'
  BY StepK8s
<1> QED
  BY <1>1, <1>2, PTL DEF Spec

\* Every variable keeps its type: in particular no cluster gets a controller there is not.
THEOREM K8sTypeCorrect == Spec => []TypeOK
<1>1. K8sInv => TypeOK
  BY DEF K8sInv
<1> QED
  BY <1>1, K8sInvariant, PTL

\* install_cluster(): for every number of nodes, of runs over kept and new nodes and of calls that
\* fail, a cluster that is reported as installed is one cluster of all its nodes.
THEOREM ClusterIsOne == Spec => []OneCluster
<1>1. K8sInv => OneCluster
  <2> SUFFICES ASSUME K8sInv, work.end = "ok"
               PROVE  /\ node[First].svc = "server"
                      /\ \A n \in Nodes : node[n].svc # "none" /\ node[n].in = node[First].in
    BY DEF OneCluster
  <2>1. Joined /\ First \in Nodes /\ node[First].svc # "agent" /\ node[First].svc \in {"none", "server", "agent"}
    BY CurIsNode, NodeTypes DEF K8sInv, Members, NodeType
  <2> QED
    BY <2>1 DEF Joined
<1> QED
  BY <1>1, K8sInvariant, PTL

\* cluster_plan() and cluster_disabled(): for every definition, a cluster founded in this run has
\* the controller that was asked for and no other, unless it is an RKE2 cluster whose configuration file was
\* kept from an older definition that asked otherwise.
THEOREM IngressIsAsAsked == Spec => []IngressAsAsked
<1>1. K8sInv => IngressAsAsked
  <2> SUFFICES ASSUME K8sInv, work.end = "ok", First \in fresh,
                      def.distro = "rke2" => file = IF Disabled(def) THEN "no-nginx" ELSE "all"
               PROVE  clusters[work.token].ingress =
                        IF def.ingress = "" /\ Bundled(def) = {} /\ ~def.needs THEN {} ELSE Choice(def)
    BY DEF IngressAsAsked, K8sInv
  <2>1. def \in Defs /\ def.distro \in {"k3s", "rke2", "kubeadm", "harvester"} /\ First \in Nodes
        /\ def.ingress \in {"nginx", "traefik", "", "none"}
    BY CurIsNode, K8sInstallAssumption DEF K8sInv, TypeOK, Distros, Ingresses
  <2>2. CASE def.distro = "harvester"
    <3>1. work.token = node[First].in /\ node[First].svc # "none"
      BY <2>1 DEF K8sInv, Members, Joined
    <3>2. clusters[work.token].ingress = {"nginx"}
      BY <2>2, <3>1 DEF K8sInv, Controllers
    <3>3. def.ingress \in {"", "nginx"}
      BY <2>1, <2>2, K8sInstallAssumption
    <3> QED
      BY <2>2, <3>2, <3>3 DEF Choice, Bundled
  <2>3. CASE def.distro # "harvester"
    <3>1. clusters[work.token].ingress = Base \cup Plan(def)
      BY <2>3 DEF K8sInv, Controllers
    <3>2. Base = IF def.distro \in {"k3s", "rke2"} /\ Disabled(def) THEN {} ELSE Bundled(def)
      BY <2>1, <2>3 DEF Base
    <3>3. CASE def.distro = "k3s"
      BY <2>1, <3>1, <3>2, <3>3 DEF Plan, Disabled, Choice, Bundled
    <3>4. CASE def.distro = "rke2"
      BY <2>1, <3>1, <3>2, <3>4 DEF Plan, Disabled, Choice, Bundled
    <3>5. CASE def.distro = "kubeadm"
      BY <2>1, <3>1, <3>2, <3>5 DEF Plan, Disabled, Choice, Bundled
    <3> QED
      BY <2>1, <2>3, <3>3, <3>4, <3>5
  <2> QED
    BY <2>2, <2>3
<1> QED
  BY <1>1, K8sInvariant, PTL

(***************************************************************************)
(* The snapshot that is pending                                            *)
(***************************************************************************)
\* K3s and RKE2 run no package manager on a node while a snapshot of another one is pending there,
\* unless the last look for a pending snapshot failed.
Clear == It.next = {} \/ Cur \in unseen
SettledInv == def.distro # "kubeadm" /\ work.todo \in NodeTodo => Settled(work.todo, Clear)

\* A program that settles before each package manager keeps them apart, whatever is pending at first.
LEMMA SettledAtFirst ==
    ASSUME NEW s \in NodeTodo, SettlesFirst(s), NEW clear \in BOOLEAN PROVE Settled(s, clear)
<1>1. Len(s) \in Nat
  BY Rest DEF NodeTodo
<1> SUFFICES ASSUME NEW i \in 1..Len(s), s[i] \in Scripts
             PROVE  \E j \in 1..i : s[j] = "settle" /\ \A k \in j..i : s[k] \in Scripts => k = i
  BY DEF Settled
<1>2. i - 1 \in 1..i /\ s[i - 1] = "settle" /\ s[i - 1] \notin Scripts
  BY <1>1 DEF SettlesFirst, Scripts
<1>3. \A k \in (i - 1)..i : k = i - 1 \/ k = i
  BY <1>1
<1> QED
  BY <1>2, <1>3

\* What is left of them after a call keeps them apart too.
LEMMA SettledRest ==
    ASSUME NEW s \in NodeTodo, NEW clear \in BOOLEAN, NEW c \in BOOLEAN, Settled(s, clear),
           IF s[1] = "settle" THEN c ELSE s[1] \in Scripts \/ c = clear
    PROVE  Settled(Tail(s), c)
<1>1. /\ Len(s) \in Nat /\ Len(s) >= 1 /\ Len(Tail(s)) = Len(s) - 1
      /\ \A i \in 1..Len(s) - 1 : Tail(s)[i] = s[i + 1]
  BY Rest DEF NodeTodo
<1> SUFFICES ASSUME NEW i \in 1..Len(Tail(s)), Tail(s)[i] \in Scripts
             PROVE  \/ \E j \in 1..i : Tail(s)[j] = "settle" /\ \A k \in j..i : Tail(s)[k] \in Scripts => k = i
                    \/ c /\ \A k \in 1..i : Tail(s)[k] \in Scripts => k = i
  BY DEF Settled
<1>2. i \in 1..Len(s) - 1 /\ i + 1 \in 1..Len(s) /\ s[i + 1] \in Scripts
  BY <1>1
<1>3. \A k \in 1..i : k + 1 \in 2..i + 1 /\ Tail(s)[k] = s[k + 1]
  BY <1>1
<1>4. CASE \E j \in 1..i + 1 : s[j] = "settle" /\ \A k \in j..i + 1 : s[k] \in Scripts => k = i + 1
  <2>1. PICK j \in 1..i + 1 : s[j] = "settle" /\ \A k \in j..i + 1 : s[k] \in Scripts => k = i + 1
    BY <1>4
  <2>2. CASE j = 1
    <3>1. \A k \in 1..i : k + 1 \in j..i + 1
      BY <2>2
    <3>2. \A k \in 1..i : Tail(s)[k] \in Scripts => k = i
      BY <1>3, <2>1, <3>1
    <3> QED
      BY <2>1, <2>2, <3>2
  <2>3. CASE j # 1
    <3>1. j # i + 1
      BY <1>2, <2>1 DEF Scripts
    <3>2. j - 1 \in 1..i /\ (j - 1) + 1 = j
      BY <1>2, <2>3, <3>1
    <3>3. Tail(s)[j - 1] = "settle"
      BY <1>3, <2>1, <3>2
    <3>4. ASSUME NEW k \in (j - 1)..i, Tail(s)[k] \in Scripts PROVE k = i
      <4>1. k \in 1..i /\ k + 1 \in j..i + 1
        BY <3>2
      <4> QED
        BY <1>3, <2>1, <3>4, <4>1
    <3> QED
      BY <3>2, <3>3, <3>4
  <2> QED
    BY <2>2, <2>3
<1>5. CASE clear /\ \A k \in 1..i + 1 : s[k] \in Scripts => k = i + 1
  <2>1. s[1] \notin Scripts
    BY <1>2, <1>5
  <2>2. \A k \in 1..i : Tail(s)[k] \in Scripts => k = i
    <3> SUFFICES ASSUME NEW k \in 1..i, Tail(s)[k] \in Scripts PROVE k = i
      OBVIOUS
    <3>1. k + 1 \in 1..i + 1 /\ s[k + 1] \in Scripts
      BY <1>3
    <3> QED
      BY <1>5, <3>1
  <2> QED
    BY <1>5, <2>1, <2>2
<1> QED
  BY <1>2, <1>4, <1>5 DEF Settled

\* A call for a node that returns.
LEMMA TailSettled ==
    ASSUME K8sInv, SettledInv, NEW op \in NodeOps, At(op), work'.todo = Tail(work.todo), UNCHANGED def,
           IF op = "settle" THEN Clear' ELSE op \in Scripts \/ Clear' = Clear
    PROVE  SettledInv'
<1>1. work.todo \in NodeTodo /\ work.todo[1] = op
  BY AtNode DEF K8sInv
<1> SUFFICES ASSUME def.distro # "kubeadm" PROVE Settled(Tail(work.todo), Clear')
  BY DEF SettledInv
<1>2. Settled(work.todo, Clear)
  BY <1>1 DEF SettledInv
<1>3. Clear \in BOOLEAN /\ Clear' \in BOOLEAN
  BY DEF Clear
<1> QED
  BY <1>1, <1>2, <1>3, SettledRest

\* A call for a node that returns, and changes nothing in what is pending there.
LEMMA QuietSettled ==
    ASSUME K8sInv, SettledInv, NEW op \in NodeOps \ {"settle"}, At(op),
           work'.todo = Tail(work.todo), work'.done = work.done, UNCHANGED <<def, unseen>>,
           \A n \in Nodes : node'[n].next = node[n].next
    PROVE  SettledInv'
<1>1. Cur \in Nodes /\ Cur' = Cur
  BY AtNode, CurIsNode DEF K8sInv, Cur
<1>2. Clear' = Clear
  BY <1>1 DEF It, Clear
<1> QED
  BY <1>2, TailSettled

\* reboot_into_pending_snapshot() leaves nothing pending on its node, and the others as they are.
LEMMA SettleClears ==
    ASSUME K8sInv, Settle
    PROVE  /\ work'.todo = Tail(work.todo) /\ UNCHANGED <<def, starts>> /\ Clear'
           /\ Cur \in Nodes /\ It'.next = {} /\ node'[Cur].next = {}
           /\ \A n \in Nodes \ {Cur} : node'[n] = node[n]
<1>1. At("settle") /\ Did(1) /\ Still /\ Put([It EXCEPT !.run = @ \cup It.next, !.next = {}]) /\ "settle" \in NodeOps
  BY DEF Settle, NodeOps
<1>2. work' = [work EXCEPT !.todo = Tail(work.todo)] /\ Cur \in Nodes
  BY <1>1, AtNode, CurIsNode, DidOne DEF K8sInv
<1>3. work'.todo = Tail(work.todo) /\ work'.done = work.done
  BY <1>2 DEF K8sInv, Todo
<1>4. Cur' = Cur
  BY <1>3 DEF Cur
<1>5. It \in NodeType /\ node \in [Nodes -> NodeType]
  BY <1>2, NodeTypes DEF K8sInv, It
<1> DEFINE x == [It EXCEPT !.run = @ \cup It.next, !.next = {}]
<1>6. x.next = {}
  BY <1>5 DEF NodeType
<1>7. node' = [node EXCEPT ![Cur] = x]
  BY <1>1 DEF Put
<1> HIDE DEF x
<1>8. node'[Cur] = x /\ \A n \in Nodes \ {Cur} : node'[n] = node[n]
  BY <1>2, <1>5, <1>7
<1> QED
  BY <1>1, <1>2, <1>3, <1>4, <1>6, <1>8 DEF It, Still, Clear

\* A package manager makes a snapshot of its node pending only where nothing is, or where that could not be seen.
LEMMA PackageAdds ==
    ASSUME K8sInv, SettledInv, NEW op \in Scripts, NEW p \in Packages, Package(op, p)
    PROVE  /\ SettledInv' /\ UNCHANGED <<def, starts>>
           /\ \A n \in Nodes : \/ node'[n].next = node[n].next
                               \/ def.distro # "kubeadm" => node[n].next = {} \/ n \in unseen
<1>1. At(op) /\ Did(1) /\ Same /\ Put(Installed(It, p)) /\ op \in NodeOps
  BY DEF Package, NodeOps
<1>2. work' = [work EXCEPT !.todo = Tail(work.todo)] /\ Cur \in Nodes /\ work.todo \in NodeTodo /\ work.todo[1] = op
  BY <1>1, AtNode, CurIsNode, DidOne DEF K8sInv
<1>3. work'.todo = Tail(work.todo) /\ work'.done = work.done
  BY <1>2 DEF K8sInv, Todo
<1>4. SettledInv'
  BY <1>1, <1>3, TailSettled DEF Same, Still, Scripts
<1>5. \A n \in Nodes \ {Cur} : node'[n] = node[n]
  BY <1>1, <1>2, NodeTypes DEF K8sInv, Put
<1>6. def.distro # "kubeadm" => Clear
  <2> SUFFICES ASSUME def.distro # "kubeadm" PROVE Clear
    OBVIOUS
  <2>1. Settled(work.todo, Clear) /\ 1 \in 1..Len(work.todo) /\ op # "settle"
    BY <1>2, Rest DEF SettledInv, NodeTodo, Scripts
  <2> QED
    BY <1>2, <2>1 DEF Settled
<1> QED
  BY <1>1, <1>2, <1>4, <1>5, <1>6 DEF It, Clear, Same, Still

\* The other steps change nothing in what is pending, unless setup_lab starts anew.
LEMMA OthersLeavePending ==
    ASSUME K8sInv, SettledInv,
           \/ NextNode \/ NodeDone \/ CheckPolicy \/ ContainerdConfig \/ MissingBinaries \/ EnableContainerd
           \/ WriteNodeConfig \/ ApplyCni \/ CreateToken \/ WaitHttps \/ FetchKubeconfig \/ ApplySettings
           \/ WaitNodesReady \/ InstallAddons \/ CallFails \/ StartFirst \/ StartOther \/ KubeadmInits
           \/ KubeadmJoins \/ \E n \in Nodes : HarvesterNode(n)
    PROVE  UNCHANGED def /\ \A n \in Nodes : node'[n].next = node[n].next
<1>1. node \in [Nodes -> NodeType]
  BY NodeTypes DEF K8sInv
<1>2. CASE UNCHANGED <<node, def>>
  BY <1>2
<1>3. CASE \E n \in Nodes : \E v, c : UNCHANGED def /\ node' = [node EXCEPT ![n] = [node[n] EXCEPT !.svc = v, !.in = c]]
  BY <1>1, <1>3 DEF NodeType
<1>4. CASE NextNode \/ NodeDone \/ CheckPolicy \/ ContainerdConfig \/ MissingBinaries \/ EnableContainerd
  BY <1>2, <1>4
     DEF NextNode, NodeDone, CheckPolicy, ContainerdConfig, MissingBinaries, EnableContainerd, Requires, PolicyNotAsked,
         Same, Still
<1>5. CASE WriteNodeConfig \/ ApplyCni \/ CreateToken \/ WaitHttps \/ FetchKubeconfig \/ ApplySettings
  BY <1>2, <1>5 DEF WriteNodeConfig, ApplyCni, CreateToken, WaitHttps, FetchKubeconfig, ApplySettings, Same, Still
<1>6. CASE WaitNodesReady \/ InstallAddons \/ CallFails
  BY <1>2, <1>6 DEF WaitNodesReady, InstallAddons, CallFails, Same, Still
<1>7. ASSUME At("start") \/ At("init") \/ At("join") PROVE Cur \in Nodes
  <2>1. {"start", "init", "join"} \subseteq NodeOps
    BY DEF NodeOps, Founding
  <2> QED
    BY <1>7, <2>1, AtNode, CurIsNode DEF K8sInv
<1>8. CASE StartFirst
  <2>1. At("start") /\ UNCHANGED def
    BY <1>8 DEF StartFirst, Same, Still
  <2>2. UNCHANGED node \/ Put([It EXCEPT !.svc = "server", !.in = Founded])
    BY <1>8 DEF StartFirst
  <2> QED
    BY <1>2, <1>3, <1>7, <2>1, <2>2 DEF Put, It
<1>9. CASE StartOther
  <2>1. At("start") /\ UNCHANGED def
    BY <1>9 DEF StartOther, Same, Still
  <2>2. \/ UNCHANGED node
        \/ Put([It EXCEPT !.svc = IF def.distro = "k3s" THEN "agent" ELSE def.type[Cur], !.in = work.token])
    BY <1>9 DEF StartOther
  <2> QED
    BY <1>2, <1>3, <1>7, <2>1, <2>2 DEF Put, It
<1>10. CASE KubeadmInits \/ KubeadmJoins
  <2>1. (At("init") \/ At("join")) /\ UNCHANGED def
    BY <1>10 DEF KubeadmInits, KubeadmJoins, Same, Still
  <2>2. \/ UNCHANGED node
        \/ Put([It EXCEPT !.svc = "server", !.in = Founded])
        \/ Put([It EXCEPT !.svc = def.type[Cur], !.in = work.token])
    BY <1>10 DEF KubeadmInits, KubeadmJoins
  <2> QED
    BY <1>2, <1>3, <1>7, <2>1, <2>2 DEF Put, It
<1>11. CASE \E n \in Nodes : HarvesterNode(n)
  <2>1. PICK n \in Nodes : HarvesterNode(n)
    BY <1>11
  <2>2. UNCHANGED def
    BY <2>1 DEF HarvesterNode, Same, Still
  <2>3. \/ node' = [node EXCEPT ![n].svc = "server", ![n].in = Founded]
        \/ node' = [node EXCEPT ![n].svc = "server", ![n].in = node[First].in]
    BY <2>1 DEF HarvesterNode
  <2>4. \E v, c : node' = [node EXCEPT ![n].svc = v, ![n].in = c]
    BY <2>3
  <2> PICK v, c : node' = [node EXCEPT ![n].svc = v, ![n].in = c]
    BY <2>4
  <2>5. \A k \in Nodes : node'[k].next = node[k].next
    BY <1>1 DEF NodeType
  <2> QED
    BY <2>2, <2>5
<1> QED
  BY <1>4, <1>5, <1>6, <1>8, <1>9, <1>10, <1>11

\* Nor do they look at the node.
LEMMA OthersDoNotLook ==
    ASSUME \/ CheckPolicy \/ ContainerdConfig \/ MissingBinaries \/ EnableContainerd \/ WriteNodeConfig \/ ApplyCni
           \/ CreateToken \/ StartFirst \/ StartOther \/ KubeadmInits \/ KubeadmJoins
           \/ \E n \in Nodes : HarvesterNode(n)
    PROVE  UNCHANGED unseen
<1>1. CASE CheckPolicy \/ ContainerdConfig \/ MissingBinaries \/ EnableContainerd
  BY <1>1 DEF CheckPolicy, ContainerdConfig, MissingBinaries, EnableContainerd, Requires, PolicyNotAsked, Same
<1>2. CASE WriteNodeConfig \/ ApplyCni \/ CreateToken \/ StartFirst \/ StartOther
  BY <1>2 DEF WriteNodeConfig, ApplyCni, CreateToken, StartFirst, StartOther, Same
<1>3. CASE KubeadmInits \/ KubeadmJoins \/ \E n \in Nodes : HarvesterNode(n)
  BY <1>3 DEF KubeadmInits, KubeadmJoins, HarvesterNode, Same
<1> QED
  BY <1>1, <1>2, <1>3

\* Whatever the step.
LEMMA StepSettled == ASSUME K8sInv, SettledInv, [Next]_vars PROVE SettledInv'
<1>0. \A s \in NodeTodo :
        s \notin HarvesterTails \cup {<<>>, <<"node">>, <<"ready?", "add-ons">>, <<"add-ons">>, <<"settings">>}
  BY NodeTodoIsNot
<1>1. CASE Begin
  <2>1. work'.todo \in {HarvesterCluster, <<"node">>}
    BY <1>1 DEF Begin, Idle
  <2> QED
    BY <1>0, <2>1 DEF SettledInv, HarvesterCluster, HarvesterTails
<1>2. CASE NextNode
  <2>1. /\ At("node") /\ UNCHANGED def
        /\ work \in [todo : Seq(Ops), done : 0..Len(NodeSeq), token : 0..Len(clusters),
                     end : {"none", "ok", "failed", "crashed"}]
        /\ work.token \in Nat /\ def \in Defs /\ def.distro # "harvester"
    BY <1>2, AtOther DEF NextNode, Same, Still, K8sInv, Todo, TypeOK
  <2>2. CASE work' = [work EXCEPT !.todo = <<>>, !.end = "crashed"]
    BY <1>0, <2>1, <2>2 DEF SettledInv
  <2>3. CASE work' = [work EXCEPT !.todo = NodeProgram(def, work.token = 0) \o <<"node-done">>]
    <3>1. PICK q : q = NodeProgram(def, work.token = 0) \o <<"node-done">>
      OBVIOUS
    <3>2. work'.todo = q
      BY <2>1, <2>3, <3>1
    <3>3. q \in NodeTodo /\ (def.distro # "kubeadm" => SettlesFirst(q))
      BY <2>1, <3>1, Programs
    <3>4. def.distro # "kubeadm" => Settled(q, Clear')
      BY <3>3, SettledAtFirst DEF Clear
    <3> QED
      BY <2>1, <3>2, <3>4 DEF SettledInv
  <2> QED
    BY <1>2, <2>2, <2>3 DEF NextNode
<1>3. CASE NodeDone
  <2>1. work'.todo \in {<<"node">>, <<"ready?", "add-ons">>}
    BY <1>3 DEF NodeDone, K8sInv, Todo
  <2> QED
    BY <1>0, <2>1 DEF SettledInv
<1>4. CASE Settle
  <2>1. "settle" \in NodeOps /\ At("settle")
    BY <1>4 DEF Settle, NodeOps
  <2> QED
    BY <1>4, <2>1, SettleClears, TailSettled
<1>5. CASE UpdateKernel \/ K3sScript \/ Rke2Script \/ InstallPackages
  BY <1>5, PackageAdds DEF UpdateKernel, K3sScript, Rke2Script, InstallPackages, Scripts, Packages
<1>6. ASSUME work'.todo = <<>> PROVE SettledInv'
  BY <1>0, <1>6 DEF SettledInv
<1>7. ASSUME NEW op \in NodeOps \ {"settle"}, At(op), \/ Did(1)
                                                       \/ \E t : Token(t),
             UNCHANGED <<def, unseen>>, \A n \in Nodes : node'[n].next = node[n].next
      PROVE  SettledInv'
  <2>1. CASE Did(1)
    <3>1. work' = [work EXCEPT !.todo = Tail(work.todo)]
      BY <1>7, <2>1, DidOne DEF K8sInv, At
    <3>2. work'.todo = Tail(work.todo) /\ work'.done = work.done
      BY <3>1 DEF K8sInv, Todo
    <3> QED
      BY <1>7, <3>2, QuietSettled
  <2>2. CASE \E t : Token(t)
    <3>1. work'.todo = Tail(work.todo) /\ work'.done = work.done
      BY <2>2 DEF Token, K8sInv, Todo
    <3> QED
      BY <1>7, <3>1, QuietSettled
  <2> QED
    BY <1>7, <2>1, <2>2
<1>8. ASSUME Dies \/ work' = [work EXCEPT !.todo = <<>>, !.end = "crashed"] PROVE work'.todo = <<>>
  BY <1>8 DEF Dies, K8sInv, Todo
<1>9. {"kernel", "policy?", "containerd-config", "missing?", "enable", "config", "cni", "token", "start", "init", "join"}
        \subseteq NodeOps \ {"settle"}
  BY DEF NodeOps, Scripts, Founding
<1>10. CASE CheckPolicy \/ ContainerdConfig \/ MissingBinaries \/ EnableContainerd
  BY <1>6, <1>7, <1>8, <1>9, <1>10, OthersLeavePending, OthersDoNotLook
     DEF CheckPolicy, ContainerdConfig, MissingBinaries, EnableContainerd, Requires, PolicyNotAsked
<1>11. CASE WriteNodeConfig \/ ApplyCni \/ CreateToken
  BY <1>7, <1>9, <1>11, OthersLeavePending, OthersDoNotLook DEF WriteNodeConfig, ApplyCni, CreateToken
<1>12. CASE StartFirst \/ StartOther
  <2>1. At("start") /\ (Did(1) \/ (\E t : Token(t)) \/ Dies)
    BY <1>12 DEF StartFirst, StartOther
  <2> QED
    BY <1>6, <1>7, <1>8, <1>9, <1>12, <2>1, OthersLeavePending, OthersDoNotLook
<1>13. CASE KubeadmInits \/ KubeadmJoins
  <2>1. (At("init") \/ At("join")) /\ (Did(1) \/ (\E t : Token(t)) \/ Dies)
    BY <1>13 DEF KubeadmInits, KubeadmJoins
  <2> QED
    BY <1>6, <1>7, <1>8, <1>9, <1>13, <2>1, OthersLeavePending, OthersDoNotLook
<1>14. CASE WaitHttps \/ FetchKubeconfig \/ ApplySettings \/ WaitNodesReady \/ InstallAddons
  <2>1. At("https?") \/ At("kubeconfig") \/ At("settings") \/ At("ready?") \/ At("add-ons")
    BY <1>14 DEF WaitHttps, FetchKubeconfig, ApplySettings, WaitNodesReady, InstallAddons
  <2>2. \/ work'.todo = <<>>
        \/ work'.todo = Tail(work.todo)
    <3>1. ASSUME Did(1) PROVE work'.todo = Tail(work.todo)
      <4>1. work' = [work EXCEPT !.todo = Tail(work.todo)]
        BY <2>1, <3>1, DidOne DEF K8sInv, At
      <4> QED
        BY <4>1 DEF K8sInv, Todo
    <3>2. ASSUME NEW t, Token(t) PROVE work'.todo = Tail(work.todo)
      BY <3>2 DEF Token, K8sInv, Todo
    <3>3. \/ Did(1) \/ (\E t : Token(t)) \/ Dies \/ work' = [work EXCEPT !.todo = <<>>, !.end = "ok"]
      BY <1>14 DEF WaitHttps, FetchKubeconfig, ApplySettings, WaitNodesReady, InstallAddons
    <3> QED
      BY <1>8, <3>1, <3>2, <3>3 DEF K8sInv, Todo
  <2>3. work.todo \notin NodeTodo /\ Tail(work.todo) \notin NodeTodo
    <3>1. work.todo \in HarvesterTails \cup {<<"ready?", "add-ons">>, <<"add-ons">>}
      BY <2>1, AtOther DEF K8sInv, HarvesterTails
    <3>2. PICK s \in HarvesterTails \cup {<<"ready?", "add-ons">>, <<"add-ons">>} : s = work.todo
      BY <3>1
    <3>3. Tail(s) \in HarvesterTails \cup {<<"add-ons">>, <<>>}
      <4>1. CASE s = <<"https?", "kubeconfig", "ready?", "settings">>
        BY <4>1 DEF HarvesterTails
      <4>2. CASE s = <<"kubeconfig", "ready?", "settings">>
        BY <4>2 DEF HarvesterTails
      <4>3. CASE s = <<"ready?", "settings">>
        BY <4>3 DEF HarvesterTails
      <4>4. CASE s = <<"ready?", "add-ons">>
        BY <4>4
      <4>5. CASE s = <<"settings">>
        BY <4>5
      <4>6. CASE s = <<"add-ons">>
        BY <4>6
      <4>7. s \in {<<"https?", "kubeconfig", "ready?", "settings">>, <<"kubeconfig", "ready?", "settings">>,
                  <<"ready?", "settings">>, <<"settings">>, <<"ready?", "add-ons">>, <<"add-ons">>}
        BY DEF HarvesterTails
      <4> QED
        BY <4>1, <4>2, <4>3, <4>4, <4>5, <4>6, <4>7
    <3> QED
      BY <1>0, <3>1, <3>2, <3>3
  <2> QED
    BY <1>6, <2>2, <2>3 DEF SettledInv
<1>15. CASE CallFails
  <2>1. CASE (At("kernel") \/ At("policy?")) /\ Did(1) /\ UNCHANGED unseen
    BY <1>7, <1>9, <1>15, <2>1, OthersLeavePending
  <2>2. CASE SettleIsLost
    <3>1. At("settle") /\ Did(1) /\ Cur \in unseen' /\ "settle" \in NodeOps /\ UNCHANGED def
      BY <1>15, <2>2 DEF SettleIsLost, NodeOps, CallFails
    <3>2. work' = [work EXCEPT !.todo = Tail(work.todo)]
      BY <3>1, DidOne DEF K8sInv, At
    <3>3. work'.todo = Tail(work.todo) /\ work'.done = work.done
      BY <3>2 DEF K8sInv, Todo
    <3>4. Clear'
      BY <3>1, <3>3 DEF Clear, Cur
    <3> QED
      BY <3>1, <3>3, <3>4, TailSettled
  <2>3. CASE Dies \/ work' = [work EXCEPT !.todo = <<>>, !.end = "crashed"]
    BY <1>6, <1>8, <2>3
  <2> QED
    BY <1>15, <2>1, <2>2, <2>3 DEF CallFails
<1>18. CASE \E n \in Nodes : LateReboot(n)
  <2>1. PICK n \in Nodes : LateReboot(n)
    BY <1>18
  <2>2. /\ UNCHANGED <<work, def>> /\ unseen' = unseen \ {n} /\ n \in unseen
        /\ node' = [node EXCEPT ![n].run = @ \cup node[n].next, ![n].next = {}]
    BY <2>1 DEF LateReboot, Still
  <2>3. node \in [Nodes -> NodeType]
    BY NodeTypes DEF K8sInv
  <2>4. node'[n].next = {} /\ \A k \in Nodes \ {n} : node'[k] = node[k]
    BY <2>2, <2>3 DEF NodeType
  <2>5. ASSUME work.todo \in NodeTodo PROVE Cur \in Nodes
    <3>1. work.done < Len(NodeSeq)
      BY <2>5 DEF K8sInv, Todo
    <3> QED
      BY <3>1, CurIsNode DEF K8sInv
  <2>6. work.todo \in NodeTodo => Clear' = Clear
    BY <2>2, <2>4, <2>5 DEF Clear, It, Cur
  <2> QED
    BY <2>2, <2>6 DEF SettledInv
<1>16. CASE \E n \in Nodes : HarvesterNode(n)
  <2>1. def.distro = "harvester" /\ UNCHANGED <<work, def>>
    BY <1>16 DEF HarvesterNode, Same, Still
  <2>2. work.todo \in {<<>>} \cup HarvesterTails
    BY <2>1 DEF K8sInv, Todo, Plans
  <2> QED
    BY <1>0, <2>1, <2>2 DEF SettledInv
<1>17. CASE UNCHANGED vars
  BY <1>17 DEF vars, SettledInv, Clear, It, Cur
<1> QED
  BY <1>1, <1>2, <1>3, <1>4, <1>5, <1>10, <1>11, <1>12, <1>13, <1>14, <1>15, <1>16, <1>17, <1>18 DEF Next, Step

\* reboot_into_pending_snapshot() and _before_installer(): for every number of nodes, of runs and of calls
\* that fail, no transaction of K3s or RKE2 discards a snapshot that is pending, except on a node where the
\* last look for a pending snapshot failed.
THEOREM PendingIsKept == Spec => PendingKept
<1>1. Init => K8sInv /\ SettledInv
  <2>1. <<>> \notin NodeTodo
    BY DEF NodeTodo
  <2> QED
    BY <2>1, InitK8s DEF Init, Idle, SettledInv
<1>2. K8sInv /\ SettledInv /\ [Next]_vars => (K8sInv /\ SettledInv)'
  BY StepK8s, StepSettled
<1> DEFINE Keeps ==
             \A n \in Nodes \ unseen :
               def.distro # "kubeadm" /\ n \notin fresh' \ fresh /\ starts' = starts /\ node[n].next # {}
                 => node'[n].next = {} \/ node[n].next \subseteq node'[n].next
<1>3. ASSUME K8sInv, SettledInv, [Next]_vars PROVE Keeps
  <2> SUFFICES ASSUME NEW n \in Nodes \ unseen, def.distro # "kubeadm", starts' = starts, node[n].next # {}
               PROVE  node'[n].next = {} \/ node[n].next \subseteq node'[n].next
    OBVIOUS
  <2>1. ~Begin
    <3>1. starts \in 0..MaxStarts /\ MaxStarts \in Nat
      BY <1>3, K8sInstallAssumption DEF K8sInv, TypeOK
    <3>2. starts + 1 # starts
      BY <3>1
    <3> QED
      BY <3>2 DEF Begin
  <2>2. CASE Settle
    BY <1>3, <2>2, SettleClears
  <2>3. CASE UpdateKernel \/ K3sScript \/ Rke2Script \/ InstallPackages
    BY <1>3, <2>3, PackageAdds DEF UpdateKernel, K3sScript, Rke2Script, InstallPackages, Scripts, Packages
  <2>4. CASE UNCHANGED vars
    BY <2>4 DEF vars
  <2>5. CASE \E k \in Nodes : LateReboot(k)
    <3>1. PICK k \in Nodes : LateReboot(k)
      BY <2>5
    <3>2. n # k /\ node' = [node EXCEPT ![k].run = @ \cup node[k].next, ![k].next = {}]
      BY <3>1 DEF LateReboot
    <3>3. node'[n] = node[n]
      BY <1>3, <3>2, NodeTypes DEF K8sInv
    <3> QED
      BY <3>3
  <2> QED
    BY <1>3, <2>1, <2>2, <2>3, <2>4, <2>5, OthersLeavePending DEF Next, Step
<1>4. K8sInv /\ SettledInv /\ [Next]_vars => [Keeps]_vars
  BY <1>3
<1> HIDE DEF Keeps
<1> QED
  BY <1>1, <1>2, <1>4, PTL DEF Spec, PendingKept, Keeps

(***************************************************************************)
(* Nodes that are new become a cluster when nothing fails                  *)
(***************************************************************************)
\* The packages a call installs, and those it has to find in the running system.
Gives(op) ==
    CASE op = "kernel" -> {"kernel"} [] op = "k3s-script" -> {"k3s"} [] op = "rke2-script" -> {"rke2"}
      [] op = "install-containerd" -> {"containerd"} [] op = "install-kubeadm" -> {"kubeadm"} [] OTHER -> {}
Wants(d, op) ==
    CASE op = "policy?" -> {"k3s"} [] op \in {"containerd-config", "enable"} -> {"containerd"}
      [] op = "missing?" -> {"kubeadm"} [] op = "start" /\ d.distro = "rke2" -> {"rke2"} [] OTHER -> {}

\* Whatever a call has to find runs already, or was or will be installed, and settled on a transactional system.
Supplied(s, d, run, next) ==
    \A i \in 1..Len(s) : \A p \in Wants(d, s[i]) :
        \/ p \in run
        \/ p \in next /\ \E j \in 1..i : s[j] = "settle"
        \/ \E k \in 1..i : p \in Gives(s[k]) /\ (d.trans => \E j \in k..i : s[j] = "settle")

\* A node enters its cluster once, and gets a network plugin after kubeadm init.
Entries == {"start", "init", "join"}
Enters(s) == \E i \in 1..Len(s) : s[i] \in Entries
Entering(s) == /\ \A i, j \in 1..Len(s) : s[i] \in Entries /\ s[j] \in Entries => i = j
               /\ \A i \in 1..Len(s) : s[i] = "init" => \E j \in i..Len(s) : s[j] = "cni"

\* The nodes that are done are of the cluster, those to come have none.
Served(n) == node[n].svc # "none" /\ node[n].in = work.token
InOrder ==
    /\ \A i \in DOMAIN NodeSeq : /\ i <= work.done => Served(NodeSeq[i])
                                 /\ i > work.done + 1 => node[NodeSeq[i]].svc = "none"
    /\ work.todo = <<"node">> => It.svc = "none"
    /\ work.todo \in NodeTodo => /\ IF Enters(work.todo) THEN It.svc = "none" ELSE Served(Cur)
                                 /\ Entering(work.todo) /\ Supplied(work.todo, def, It.run, It.next)
    /\ work.todo \notin NodeTodo \cup {<<"node">>} => work.done = Len(NodeSeq)
    /\ work.token # 0 /\ ~Has(work.todo, "cni") => clusters[work.token].net

\* The nodes of Harvester are of the cluster the first of them founded.
Together ==
    /\ \A n \in Nodes : IF node[n].svc = "none" THEN node[n].in = 0
                        ELSE node[First].svc # "none" /\ node[n].in = node[First].in
    /\ node[First].svc # "none" => clusters[node[First].in].net
    /\ Busy /\ ~At("https?") => node[First].svc # "none" /\ work.token = node[First].in

\* No look at a node was lost while nothing failed.
Seen == faults = 0 => unseen = {}

\* What InstallsOnNewNodes is about: nothing failed, all nodes are new, and the definition can work.
Asked == /\ faults = 0 /\ fresh = Nodes /\ def.cni /\ def.type[First] = "server"
         /\ ~(def.distro = "kubeadm" /\ def.trans)
Smooth == Asked => /\ work.end \notin {"failed", "crashed"}
                   /\ def.distro = "harvester" => Together
                   /\ def.distro # "harvester" /\ Busy => InOrder

\* What is left of the calls after one of them is supplied still, with what it settled or installed.
LEMMA SuppliedRest ==
    ASSUME NEW s \in NodeTodo, NEW d, NEW r, NEW x, NEW r2, NEW x2, Supplied(s, d, r, x), r \subseteq r2,
           IF s[1] = "settle" THEN x \subseteq r2
           ELSE x \subseteq x2 /\ Gives(s[1]) \subseteq IF d.trans THEN x2 ELSE r2
    PROVE  Supplied(Tail(s), d, r2, x2)
<1> DEFINE t == Tail(s)
<1>1. /\ Len(s) \in Nat /\ Len(s) >= 1 /\ Len(t) = Len(s) - 1
      /\ \A i \in 1..Len(s) - 1 : t[i] = s[i + 1]
      /\ \A i \in 2..Len(s) : s[i] = t[i - 1]
  BY Rest DEF NodeTodo
<1> HIDE DEF t
<1> SUFFICES ASSUME NEW i \in 1..Len(t), NEW p \in Wants(d, t[i])
             PROVE  \/ p \in r2
                    \/ p \in x2 /\ \E j \in 1..i : t[j] = "settle"
                    \/ \E k \in 1..i : p \in Gives(t[k]) /\ (d.trans => \E j \in k..i : t[j] = "settle")
  BY DEF Supplied, t
<1>2. i + 1 \in 1..Len(s) /\ p \in Wants(d, s[i + 1]) /\ \A j \in 2..(i + 1) : j - 1 \in 1..i /\ t[j - 1] = s[j]
  BY <1>1
<1>3. CASE p \in r
  BY <1>3
<1>4. CASE p \in x /\ \E j \in 1..(i + 1) : s[j] = "settle"
  <2>1. PICK j \in 1..(i + 1) : s[j] = "settle"
    BY <1>4
  <2>2. CASE s[1] = "settle"
    BY <1>4, <2>2
  <2>3. CASE s[1] # "settle"
    <3>1. j \in 2..(i + 1)
      BY <2>1, <2>3
    <3> QED
      BY <1>2, <1>4, <2>1, <2>3, <3>1
  <2> QED
    BY <2>2, <2>3
<1>5. CASE \E k \in 1..(i + 1) : p \in Gives(s[k]) /\ (d.trans => \E j \in k..(i + 1) : s[j] = "settle")
  <2>1. PICK k \in 1..(i + 1) : p \in Gives(s[k]) /\ (d.trans => \E j \in k..(i + 1) : s[j] = "settle")
    BY <1>5
  <2>2. s[k] # "settle"
    BY <2>1 DEF Gives
  <2>3. ASSUME d.trans PROVE \E j \in 2..(i + 1) : j >= k /\ s[j] = "settle"
    <3>1. PICK j \in k..(i + 1) : s[j] = "settle"
      BY <2>1, <2>3
    <3>2. j # k
      BY <2>2, <3>1
    <3> QED
      BY <3>1, <3>2
  <2>4. CASE k = 1
    <3>1. CASE d.trans
      <4>1. p \in x2
        BY <2>1, <2>2, <2>4, <3>1
      <4>2. PICK j \in 2..(i + 1) : s[j] = "settle"
        BY <2>3, <3>1
      <4>3. j - 1 \in 1..i /\ t[j - 1] = "settle"
        BY <1>2, <4>2
      <4> QED
        BY <4>1, <4>3
    <3>2. CASE ~d.trans
      BY <2>1, <2>2, <2>4, <3>2
    <3> QED
      BY <3>1, <3>2
  <2>5. CASE k # 1
    <3>1. k - 1 \in 1..i /\ p \in Gives(t[k - 1])
      BY <1>2, <2>1, <2>5
    <3>2. ASSUME d.trans PROVE \E j \in (k - 1)..i : t[j] = "settle"
      <4>1. PICK j \in 2..(i + 1) : j >= k /\ s[j] = "settle"
        BY <2>3, <3>2
      <4>2. j - 1 \in (k - 1)..i /\ t[j - 1] = "settle"
        BY <1>2, <2>5, <4>1
      <4> QED
        BY <4>2
    <3> QED
      BY <3>1, <3>2
  <2> QED
    BY <2>4, <2>5
<1> QED
  BY <1>2, <1>3, <1>4, <1>5 DEF Supplied

\* A node enters its cluster once with what is left, too, and not at all when it just did.
LEMMA EnteringRest ==
    ASSUME NEW s \in NodeTodo, Entering(s)
    PROVE  /\ Entering(Tail(s))
           /\ s[1] \notin Entries => (Enters(Tail(s)) <=> Enters(s))
           /\ s[1] \in Entries => Enters(s) /\ ~Enters(Tail(s))
           /\ s[1] = "init" => Has(Tail(s), "cni")
           /\ s[1] # "cni" /\ Has(s, "cni") => Has(Tail(s), "cni")
<1> DEFINE t == Tail(s)
<1>1. /\ Len(s) \in Nat /\ Len(s) >= 1 /\ Len(t) = Len(s) - 1 /\ 1 \in 1..Len(s)
      /\ \A i \in 1..Len(s) - 1 : t[i] = s[i + 1]
      /\ \A i \in 2..Len(s) : s[i] = t[i - 1]
  BY Rest DEF NodeTodo
<1> HIDE DEF t
<1>2. \A i \in 1..Len(t) : i + 1 \in 1..Len(s) /\ i + 1 # 1 /\ t[i] = s[i + 1]
  BY <1>1
<1>3. \A i \in 1..Len(s) : i # 1 => i - 1 \in 1..Len(t) /\ t[i - 1] = s[i] /\ (i - 1) + 1 = i
  BY <1>1
<1>4. Entering(t)
  <2>1. ASSUME NEW i \in 1..Len(t), NEW j \in 1..Len(t), t[i] \in Entries, t[j] \in Entries PROVE i = j
    <3>1. i + 1 = j + 1
      BY <1>2, <2>1 DEF Entering
    <3> QED
      BY <3>1
  <2>2. ASSUME NEW i \in 1..Len(t), t[i] = "init" PROVE \E j \in i..Len(t) : t[j] = "cni"
    <3>1. PICK j \in (i + 1)..Len(s) : s[j] = "cni"
      BY <1>2, <2>2 DEF Entering
    <3>2. j - 1 \in i..Len(t) /\ t[j - 1] = "cni"
      BY <1>1, <1>3, <3>1
    <3> QED
      BY <3>2
  <2> QED
    BY <2>1, <2>2 DEF Entering
<1>5. ASSUME s[1] \notin Entries PROVE Enters(t) <=> Enters(s)
  BY <1>2, <1>3, <1>5 DEF Enters
<1>6. ASSUME s[1] \in Entries PROVE Enters(s) /\ ~Enters(t)
  <2>1. \A i \in 1..Len(t) : t[i] \notin Entries
    BY <1>1, <1>2, <1>6 DEF Entering
  <2> QED
    BY <1>1, <1>6, <2>1 DEF Enters
<1>7. ASSUME s[1] # "cni", Has(s, "cni") PROVE Has(t, "cni")
  BY <1>3, <1>7 DEF Has
<1>8. ASSUME s[1] = "init" PROVE Has(t, "cni")
  <2>1. Has(s, "cni")
    BY <1>1, <1>8 DEF Entering, Has
  <2> QED
    BY <1>7, <1>8, <2>1
<1> QED
  BY <1>4, <1>5, <1>6, <1>7, <1>8 DEF t

\* The calls for a node, whatever is on it at first.
Works(s, d) == Entering(s) /\ Enters(s) /\ \A r, x : Supplied(s, d, r, x)

\* K3s.
LEMMA K3sWorks ==
    ASSUME NEW d, d.distro = "k3s", NEW p,
           \/ p = (K3sNode \o <<"token">>) \o <<"node-done">>
           \/ p = (K3sNode \o <<>>) \o <<"node-done">>
    PROVE  Works(p, d)
<1>1. /\ Len(p) \in {7, 6}
      /\ p[1] = "settle" /\ p[2] = "k3s-script" /\ p[3] = "settle" /\ p[4] = "policy?"
      /\ p[5] = "start"
      /\ \A i \in 1..Len(p) : i > 5 => p[i] \in {"token", "node-done"}
  <2>1. CASE p = (K3sNode \o <<"token">>) \o <<"node-done">>
    <3>1. /\ Len(p) = 7
          /\ p[1] = "settle" /\ p[2] = "k3s-script" /\ p[3] = "settle" /\ p[4] = "policy?"
          /\ p[5] = "start" /\ p[6] = "token" /\ p[7] = "node-done"
      BY <2>1 DEF K3sNode
    <3> QED
      BY <3>1
  <2>2. CASE p = (K3sNode \o <<>>) \o <<"node-done">>
    <3>1. /\ Len(p) = 6
          /\ p[1] = "settle" /\ p[2] = "k3s-script" /\ p[3] = "settle" /\ p[4] = "policy?"
          /\ p[5] = "start" /\ p[6] = "node-done"
      BY <2>2 DEF K3sNode
    <3> QED
      BY <3>1
  <2> QED
    BY <2>1, <2>2
<1>2. \A i \in 1..Len(p) : i > 5 \/ i \in {1, 2, 3, 4, 5}
  BY <1>1
<1>3. \A i \in 1..Len(p) : p[i] # "init" /\ (p[i] \in Entries => i = 5)
  BY <1>1, <1>2 DEF Entries
<1>4. \A i \in 1..Len(p) : Wants(d, p[i]) # {} => i = 4
  BY <1>1, <1>2 DEF Wants
<1>5. Wants(d, p[4]) = {"k3s"} /\ Gives(p[2]) = {"k3s"} /\ 5 \in 1..Len(p) /\ p[5] \in Entries
  BY <1>1 DEF Wants, Gives, Entries
<1>6. \A r, x : Supplied(p, d, r, x)
  <2> SUFFICES ASSUME NEW i \in 1..Len(p), NEW q \in Wants(d, p[i])
               PROVE  \E k \in 1..i : q \in Gives(p[k]) /\ \E j \in k..i : p[j] = "settle"
    BY DEF Supplied
  <2>1. i = 4 /\ q = "k3s"
    BY <1>4, <1>5
  <2>2. 2 \in 1..4 /\ 3 \in 2..4
    OBVIOUS
  <2> QED
    BY <1>1, <1>5, <2>1, <2>2
<1> QED
  BY <1>3, <1>5, <1>6 DEF Works, Entering, Enters

\* RKE2.
LEMMA Rke2Works ==
    ASSUME NEW d, d.distro = "rke2", NEW p,
           \/ p = ((<<"settle">> \o <<>>
                    \o <<"rke2-script", "config", "settle", "start">>) \o <<"token">>) \o <<"node-done">>
           \/ p = ((<<"settle">> \o <<>>
                    \o <<"rke2-script", "config", "settle", "start">>) \o <<>>) \o <<"node-done">>
    PROVE  Works(p, d)
<1>1. /\ Len(p) \in {7, 6}
      /\ p[1] = "settle" /\ p[2] = "rke2-script" /\ p[3] = "config" /\ p[4] = "settle"
      /\ p[5] = "start"
      /\ \A i \in 1..Len(p) : i > 5 => p[i] \in {"token", "node-done"}
  <2>1. CASE p = ((<<"settle">> \o <<>>
                   \o <<"rke2-script", "config", "settle", "start">>) \o <<"token">>) \o <<"node-done">>
    <3>1. /\ Len(p) = 7
          /\ p[1] = "settle" /\ p[2] = "rke2-script" /\ p[3] = "config" /\ p[4] = "settle"
          /\ p[5] = "start" /\ p[6] = "token" /\ p[7] = "node-done"
      BY <2>1, SMT
    <3> QED
      BY <3>1
  <2>2. CASE p = ((<<"settle">> \o <<>>
                   \o <<"rke2-script", "config", "settle", "start">>) \o <<>>) \o <<"node-done">>
    <3>1. /\ Len(p) = 6
          /\ p[1] = "settle" /\ p[2] = "rke2-script" /\ p[3] = "config" /\ p[4] = "settle"
          /\ p[5] = "start" /\ p[6] = "node-done"
      BY <2>2, SMT
    <3> QED
      BY <3>1
  <2> QED
    BY <2>1, <2>2
<1>2. \A i \in 1..Len(p) : i > 5 \/ i \in {1, 2, 3, 4, 5}
  BY <1>1
<1>3. \A i \in 1..Len(p) : p[i] # "init" /\ (p[i] \in Entries => i = 5)
  BY <1>1, <1>2 DEF Entries
<1>4. \A i \in 1..Len(p) : Wants(d, p[i]) # {} => i = 5
  BY <1>1, <1>2 DEF Wants
<1>5. Wants(d, p[5]) = {"rke2"} /\ Gives(p[2]) = {"rke2"} /\ 5 \in 1..Len(p) /\ p[5] \in Entries
  BY <1>1 DEF Wants, Gives, Entries
<1>6. \A r, x : Supplied(p, d, r, x)
  <2> SUFFICES ASSUME NEW i \in 1..Len(p), NEW q \in Wants(d, p[i])
               PROVE  \E k \in 1..i : q \in Gives(p[k]) /\ \E j \in k..i : p[j] = "settle"
    BY DEF Supplied
  <2>1. i = 5 /\ q = "rke2"
    BY <1>4, <1>5
  <2>2. 2 \in 1..5 /\ 4 \in 2..5
    OBVIOUS
  <2> QED
    BY <1>1, <1>5, <2>1, <2>2
<1> QED
  BY <1>3, <1>5, <1>6 DEF Works, Entering, Enters

\* RKE2 on a transactional system.
LEMMA Rke2KernelWorks ==
    ASSUME NEW d, d.distro = "rke2", NEW p,
           \/ p = ((<<"settle">> \o <<"kernel", "settle">>
                    \o <<"rke2-script", "config", "settle", "start">>) \o <<"token">>) \o <<"node-done">>
           \/ p = ((<<"settle">> \o <<"kernel", "settle">>
                    \o <<"rke2-script", "config", "settle", "start">>) \o <<>>) \o <<"node-done">>
    PROVE  Works(p, d)
<1>1. /\ Len(p) \in {9, 8}
      /\ p[1] = "settle" /\ p[2] = "kernel" /\ p[3] = "settle" /\ p[4] = "rke2-script"
      /\ p[5] = "config" /\ p[6] = "settle" /\ p[7] = "start"
      /\ \A i \in 1..Len(p) : i > 7 => p[i] \in {"token", "node-done"}
  <2>1. CASE p = ((<<"settle">> \o <<"kernel", "settle">>
                   \o <<"rke2-script", "config", "settle", "start">>) \o <<"token">>) \o <<"node-done">>
    <3>1. /\ Len(p) = 9
          /\ p[1] = "settle" /\ p[2] = "kernel" /\ p[3] = "settle" /\ p[4] = "rke2-script"
          /\ p[5] = "config" /\ p[6] = "settle" /\ p[7] = "start" /\ p[8] = "token"
          /\ p[9] = "node-done"
      BY <2>1, SMT
    <3> QED
      BY <3>1
  <2>2. CASE p = ((<<"settle">> \o <<"kernel", "settle">>
                   \o <<"rke2-script", "config", "settle", "start">>) \o <<>>) \o <<"node-done">>
    <3>1. /\ Len(p) = 8
          /\ p[1] = "settle" /\ p[2] = "kernel" /\ p[3] = "settle" /\ p[4] = "rke2-script"
          /\ p[5] = "config" /\ p[6] = "settle" /\ p[7] = "start" /\ p[8] = "node-done"
      BY <2>2, SMT
    <3> QED
      BY <3>1
  <2> QED
    BY <2>1, <2>2
<1>2. \A i \in 1..Len(p) : i > 7 \/ i \in {1, 2, 3, 4, 5, 6, 7}
  BY <1>1
<1>3. \A i \in 1..Len(p) : p[i] # "init" /\ (p[i] \in Entries => i = 7)
  BY <1>1, <1>2 DEF Entries
<1>4. \A i \in 1..Len(p) : Wants(d, p[i]) # {} => i = 7
  BY <1>1, <1>2 DEF Wants
<1>5. Wants(d, p[7]) = {"rke2"} /\ Gives(p[4]) = {"rke2"} /\ 7 \in 1..Len(p) /\ p[7] \in Entries
  BY <1>1 DEF Wants, Gives, Entries
<1>6. \A r, x : Supplied(p, d, r, x)
  <2> SUFFICES ASSUME NEW i \in 1..Len(p), NEW q \in Wants(d, p[i])
               PROVE  \E k \in 1..i : q \in Gives(p[k]) /\ \E j \in k..i : p[j] = "settle"
    BY DEF Supplied
  <2>1. i = 7 /\ q = "rke2"
    BY <1>4, <1>5
  <2>2. 4 \in 1..7 /\ 6 \in 4..7
    OBVIOUS
  <2> QED
    BY <1>1, <1>5, <2>1, <2>2
<1> QED
  BY <1>3, <1>5, <1>6 DEF Works, Entering, Enters

\* kubeadm.
LEMMA KubeadmWorks ==
    ASSUME NEW d, d.distro = "kubeadm", ~d.trans, NEW p,
           \/ p = ((<<"install-containerd", "containerd-config", "install-kubeadm", "missing?">> \o <<>> \o <<"enable">>)
                   \o KubeadmInit) \o <<"node-done">>
           \/ p = ((<<"install-containerd", "containerd-config", "install-kubeadm", "missing?">> \o <<>> \o <<"enable">>)
                   \o <<"join">>) \o <<"node-done">>
    PROVE  Works(p, d)
<1>1. /\ Len(p) \in {9, 7}
      /\ p[1] = "install-containerd" /\ p[2] = "containerd-config" /\ p[3] = "install-kubeadm"
      /\ p[4] = "missing?" /\ p[5] = "enable"
      /\ \A i \in 1..Len(p) : i > 5 =>
           \/ i = 6 /\ p[i] = (IF Len(p) = 9 THEN "init" ELSE "join")
           \/ i > 6 /\ p[i] \in {"cni", "token", "node-done"} /\ (i = 7 /\ Len(p) = 9 => p[i] = "cni")
  <2>1. CASE p = ((<<"install-containerd", "containerd-config", "install-kubeadm", "missing?">> \o <<>> \o <<"enable">>)
                   \o KubeadmInit) \o <<"node-done">>
    <3>1. /\ Len(p) = 9
          /\ p[1] = "install-containerd" /\ p[2] = "containerd-config" /\ p[3] = "install-kubeadm"
          /\ p[4] = "missing?" /\ p[5] = "enable" /\ p[6] = "init" /\ p[7] = "cni" /\ p[8] = "token"
          /\ p[9] = "node-done"
      BY <2>1 DEF KubeadmInit
    <3> QED
      BY <3>1
  <2>2. CASE p = ((<<"install-containerd", "containerd-config", "install-kubeadm", "missing?">> \o <<>> \o <<"enable">>)
                   \o <<"join">>) \o <<"node-done">>
    <3>1. /\ Len(p) = 7
          /\ p[1] = "install-containerd" /\ p[2] = "containerd-config" /\ p[3] = "install-kubeadm"
          /\ p[4] = "missing?" /\ p[5] = "enable" /\ p[6] = "join" /\ p[7] = "node-done"
      BY <2>2 DEF KubeadmInit
    <3> QED
      BY <3>1
  <2> QED
    BY <2>1, <2>2
<1>2. \A i \in 1..Len(p) : i > 5 \/ i \in {1, 2, 3, 4, 5}
  BY <1>1
<1>3. \A i \in 1..Len(p) : p[i] \in Entries => i = 6
  BY <1>1, <1>2 DEF Entries
<1>4. \A i \in 1..Len(p) : p[i] = "init" => \E j \in i..Len(p) : p[j] = "cni"
  <2> SUFFICES ASSUME NEW i \in 1..Len(p), p[i] = "init" PROVE \E j \in i..Len(p) : p[j] = "cni"
    OBVIOUS
  <2>1. i = 6
    BY <1>3 DEF Entries
  <2>2. Len(p) = 9 /\ 7 \in 6..9 /\ p[7] = "cni"
    BY <1>1, <2>1
  <2> QED
    BY <2>1, <2>2
<1>5. \A i \in 1..Len(p) : Wants(d, p[i]) # {} => i \in {2, 4, 5}
  BY <1>1, <1>2 DEF Wants
<1>6. /\ Wants(d, p[2]) = {"containerd"} /\ Wants(d, p[5]) = {"containerd"} /\ Gives(p[1]) = {"containerd"}
      /\ Wants(d, p[4]) = {"kubeadm"} /\ Gives(p[3]) = {"kubeadm"}
      /\ 6 \in 1..Len(p) /\ p[6] \in Entries
  <2>1. 6 \in 1..Len(p) /\ p[6] \in {"init", "join"}
    BY <1>1
  <2>2. /\ Wants(d, "containerd-config") = {"containerd"} /\ Wants(d, "enable") = {"containerd"}
        /\ Gives("install-containerd") = {"containerd"} /\ Wants(d, "missing?") = {"kubeadm"}
        /\ Gives("install-kubeadm") = {"kubeadm"}
    BY DEF Wants, Gives
  <2> QED
    BY <1>1, <2>1, <2>2 DEF Entries
<1>7. \A r, x : Supplied(p, d, r, x)
  <2> SUFFICES ASSUME NEW i \in 1..Len(p), NEW q \in Wants(d, p[i]) PROVE \E k \in 1..i : q \in Gives(p[k])
    BY DEF Supplied
  <2>1. i \in {2, 4, 5}
    BY <1>5
  <2>2. 1 \in 1..2 /\ 3 \in 1..4 /\ 1 \in 1..5
    OBVIOUS
  <2> QED
    BY <1>6, <2>1, <2>2
<1> QED
  BY <1>3, <1>4, <1>6, <1>7 DEF Works, Entering, Enters

\* Whatever the distribution, but kubeadm on a transactional system.
LEMMA ProgramsWork ==
    ASSUME NEW d \in Defs, d.distro # "harvester", ~(d.distro = "kubeadm" /\ d.trans), NEW founds \in BOOLEAN,
           NEW p, p = NodeProgram(d, founds) \o <<"node-done">>
    PROVE  Works(p, d)
<1>1. d.distro \in {"k3s", "rke2", "kubeadm"} /\ d.trans \in BOOLEAN
  BY K8sInstallAssumption DEF Distros
<1>2. CASE d.distro = "k3s"
  BY <1>2, K3sWorks DEF NodeProgram
<1>3. CASE d.distro = "rke2" /\ d.trans
  BY <1>3, Rke2KernelWorks DEF NodeProgram, Rke2Node
<1>4. CASE d.distro = "rke2" /\ ~d.trans
  BY <1>4, Rke2Works DEF NodeProgram, Rke2Node
<1>5. CASE d.distro = "kubeadm"
  BY <1>5, KubeadmWorks DEF NodeProgram, KubeadmNode, PrepareNode
<1> QED
  BY <1>1, <1>2, <1>3, <1>4, <1>5

(***************************************************************************)
(* The steps                                                               *)
(***************************************************************************)
\* Each node has one place in the definition.
LEMMA Places ==
    ASSUME Todo
    PROVE  /\ DOMAIN NodeSeq = 1..Len(NodeSeq) /\ Len(NodeSeq) \in Nat /\ work.done \in 0..Len(NodeSeq)
           /\ \A i \in DOMAIN NodeSeq : NodeSeq[i] \in Nodes
           /\ \A n \in Nodes : \E i \in DOMAIN NodeSeq : NodeSeq[i] = n
           /\ work.done < Len(NodeSeq) => /\ work.done + 1 \in DOMAIN NodeSeq
                                          /\ \A i \in DOMAIN NodeSeq : NodeSeq[i] = Cur <=> i = work.done + 1
<1>1. NodeSeq \in Seq(Nodes) /\ {NodeSeq[i] : i \in DOMAIN NodeSeq} = Nodes
      /\ \A i, j \in DOMAIN NodeSeq : NodeSeq[i] = NodeSeq[j] => i = j
  BY K8sInstallAssumption
<1>2. DOMAIN NodeSeq = 1..Len(NodeSeq) /\ Len(NodeSeq) \in Nat /\ work.done \in 0..Len(NodeSeq)
  BY <1>1 DEF Todo
<1> QED
  BY <1>1, <1>2 DEF Cur

\* A call for a node that returns, neither the one with which it enters its cluster nor the last.
LEMMA CallInOrder ==
    ASSUME K8sInv, InOrder, NEW op \in NodeOps \ (Entries \cup {"node-done"}), At(op),
           work' = [work EXCEPT !.todo = Tail(work.todo)], UNCHANGED def,
           \A n \in Nodes : node'[n].svc = node[n].svc /\ node'[n].in = node[n].in,
           It.run \subseteq node'[Cur].run,
           IF op = "settle" THEN It.next \subseteq node'[Cur].run
           ELSE /\ It.next \subseteq node'[Cur].next
                /\ Gives(op) \subseteq IF def.trans THEN node'[Cur].next ELSE node'[Cur].run,
           work.token # 0 => IF op = "cni" THEN clusters'[work.token].net ELSE UNCHANGED clusters
    PROVE  InOrder'
<1>1. /\ work.todo \in NodeTodo /\ work.todo[1] = op /\ work.done < Len(NodeSeq)
      /\ Founds(work.todo, def, work.token, work.done = 0)
  BY AtNode DEF K8sInv
<1>2. /\ work \in [todo : Seq(Ops), done : 0..Len(NodeSeq), token : 0..Len(clusters),
                   end : {"none", "ok", "failed", "crashed"}]
      /\ work.token \in Nat
  BY DEF K8sInv, Todo, TypeOK
<1>3. work'.todo = Tail(work.todo) /\ work'.done = work.done /\ work'.token = work.token
  BY <1>2
<1>4. Cur' = Cur /\ Cur \in Nodes /\ It' = node'[Cur]
  BY <1>1, <1>3, CurIsNode DEF K8sInv, Cur, It
<1>5. op \notin Founding
  BY DEF Entries, Founding
<1>6. Tail(work.todo) \in NodeTodo
  BY <1>1, <1>2, <1>5, RestOfCalls
<1>7. Tail(work.todo) # <<"node">>
  BY <1>6, NodeTodoIsNot
<1>8. /\ Entering(Tail(work.todo)) /\ (Enters(Tail(work.todo)) <=> Enters(work.todo))
      /\ op # "cni" /\ Has(work.todo, "cni") => Has(Tail(work.todo), "cni")
  BY <1>1, EnteringRest DEF InOrder
<1>9. Supplied(Tail(work.todo), def, It'.run, It'.next)
  <2>1. Supplied(work.todo, def, It.run, It.next)
    BY <1>1 DEF InOrder
  <2> QED
    BY <1>1, <1>4, <2>1, SuppliedRest
<1>10. It'.svc = It.svc /\ It'.in = It.in
  BY <1>4 DEF It
<1>11. \A n \in Nodes : Served(n)' <=> Served(n)
  BY <1>3 DEF Served
<1>12. \A i \in DOMAIN NodeSeq : NodeSeq[i] \in Nodes
  BY Places DEF K8sInv
<1>13. work'.token # 0 /\ ~Has(work'.todo, "cni") => clusters'[work'.token].net
  BY <1>3, <1>8 DEF InOrder
<1> QED
  <2>1. IF Enters(work'.todo) THEN It'.svc = "none" ELSE Served(Cur)'
    BY <1>1, <1>3, <1>4, <1>8, <1>10, <1>11 DEF InOrder
  <2>2. \A i \in DOMAIN NodeSeq : /\ i <= work'.done => Served(NodeSeq[i])'
                                  /\ i > work'.done + 1 => node'[NodeSeq[i]].svc = "none"
    BY <1>3, <1>11, <1>12 DEF InOrder
  <2> QED
    BY <1>3, <1>4, <1>6, <1>7, <1>8, <1>9, <1>13, <2>1, <2>2 DEF InOrder

\* The call with which a node enters its cluster.
LEMMA EntryInOrder ==
    ASSUME K8sInv, InOrder, NEW op \in Entries, At(op), work'.todo = Tail(work.todo), work'.done = work.done,
           UNCHANGED def, work'.token # 0, work.token \in {0, work'.token},
           node'[Cur].svc # "none", node'[Cur].in = work'.token, node'[Cur].run = It.run, node'[Cur].next = It.next,
           \A n \in Nodes \ {Cur} : node'[n] = node[n],
           IF work.token = 0 THEN op = "init" \/ clusters'[work'.token].net ELSE op # "init" /\ UNCHANGED clusters
    PROVE  InOrder'
<1>0. op \in NodeOps
  BY DEF Entries, NodeOps, Founding
<1>1. /\ work.todo \in NodeTodo /\ work.todo[1] = op /\ work.done < Len(NodeSeq) /\ Busy
      /\ def.distro # "harvester" /\ Founds(work.todo, def, work.token, work.done = 0)
  BY <1>0, AtNode DEF K8sInv
<1>2. Cur' = Cur /\ Cur \in Nodes /\ It' = node'[Cur]
  BY <1>1, CurIsNode DEF K8sInv, Cur, It
<1>3. Tail(work.todo) \in NodeTodo /\ Tail(work.todo) # <<"node">>
  <2>1. \E i \in 1..Len(work.todo) : i = 1 /\ i # Len(work.todo)
    <3>1. 1 \in 1..Len(work.todo)
      BY <1>1, Rest DEF NodeTodo
    <3>2. work.todo[1] # "node-done"
      BY <1>1 DEF Entries
    <3> QED
      BY <1>1, <3>1, <3>2 DEF Founds
  <2>2. Tail(work.todo) \in Seq(NodeOps) /\ Tail(work.todo) # <<>>
    <3>1. /\ Tail(work.todo) \in Seq(NodeOps) /\ Len(work.todo) \in Nat
          /\ Len(Tail(work.todo)) = Len(work.todo) - 1
      BY <1>1, Rest DEF NodeTodo
    <3>2. Len(Tail(work.todo)) # 0
      BY <2>1, <3>1
    <3> QED
      BY <3>1, <3>2, EmptySeq
  <2>3. Tail(work.todo) \in NodeTodo
    BY <2>2 DEF NodeTodo
  <2> QED
    BY <2>3, NodeTodoIsNot
<1>4. /\ Entering(Tail(work.todo)) /\ ~Enters(Tail(work.todo))
      /\ op = "init" => Has(Tail(work.todo), "cni")
      /\ Has(work.todo, "cni") => Has(Tail(work.todo), "cni")
  BY <1>1, EnteringRest DEF InOrder, Entries
<1>5. Supplied(Tail(work.todo), def, It'.run, It'.next)
  <2>1. Supplied(work.todo, def, It.run, It.next)
    BY <1>1 DEF InOrder
  <2>2. Gives(op) = {} /\ op # "settle"
    BY DEF Gives, Entries
  <2> QED
    BY <1>1, <1>2, <2>1, <2>2, SuppliedRest
<1>6. Served(Cur)'
  BY <1>2 DEF Served
<1>7. \A i \in DOMAIN NodeSeq : /\ i <= work.done => Served(NodeSeq[i])'
                                /\ i > work.done + 1 => node'[NodeSeq[i]].svc = "none"
  <2> SUFFICES ASSUME NEW i \in DOMAIN NodeSeq
               PROVE  /\ i <= work.done => Served(NodeSeq[i])'
                      /\ i > work.done + 1 => node'[NodeSeq[i]].svc = "none"
    OBVIOUS
  <2>1. NodeSeq[i] \in Nodes /\ i \in Nat /\ work.done \in Nat /\ (NodeSeq[i] = Cur <=> i = work.done + 1)
    BY <1>1, Places DEF K8sInv
  <2>2. i <= work.done \/ i > work.done + 1 => node'[NodeSeq[i]] = node[NodeSeq[i]]
    BY <2>1
  <2>3. ASSUME i <= work.done PROVE Served(NodeSeq[i])'
    <3>1. work.token = work'.token
      BY <1>1, <2>1, <2>3 DEF K8sInv, Todo
    <3>2. Served(NodeSeq[i])
      BY <2>3 DEF InOrder
    <3> QED
      BY <2>2, <2>3, <3>1, <3>2 DEF Served
  <2> QED
    BY <2>2, <2>3 DEF InOrder
<1>8. ~Has(work'.todo, "cni") => clusters'[work'.token].net
  BY <1>4 DEF InOrder
<1>9. work'.todo \in NodeTodo /\ work'.todo # <<"node">> /\ ~Enters(work'.todo) /\ Entering(work'.todo)
      /\ Supplied(work'.todo, def', It'.run, It'.next)
  BY <1>3, <1>4, <1>5
<1>10. \A i \in DOMAIN NodeSeq : /\ i <= work'.done => Served(NodeSeq[i])'
                                 /\ i > work'.done + 1 => node'[NodeSeq[i]].svc = "none"
  BY <1>7
<1> QED
  BY <1>6, <1>8, <1>9, <1>10 DEF InOrder

\* A call for a node that returns keeps it.
LEMMA CallSmooth ==
    ASSUME K8sInv, Smooth, Asked, NEW op \in NodeOps, At(op), InOrder', UNCHANGED def, work'.end = work.end
    PROVE  Smooth'
<1>1. def.distro # "harvester" /\ work.end = "none" /\ Busy
  BY AtNode DEF K8sInv
<1> QED
  BY <1>1 DEF Smooth

\* What the worker knows of the node it is at, when nothing failed.
LEMMA AtSmooth ==
    ASSUME K8sInv, Smooth, Asked, NEW op \in NodeOps, At(op)
    PROVE  /\ InOrder /\ Busy /\ def.distro # "harvester" /\ work.todo \in NodeTodo /\ work.todo[1] = op
           /\ Cur \in Nodes /\ It \in NodeType /\ node \in [Nodes -> NodeType] /\ work.done < Len(NodeSeq)
           /\ 1 \in 1..Len(work.todo) /\ Founds(work.todo, def, work.token, work.done = 0)
           /\ work \in [todo : Seq(Ops), done : 0..Len(NodeSeq), token : 0..Len(clusters),
                        end : {"none", "ok", "failed", "crashed"}]
           /\ Wants(def, op) \subseteq It.run
           /\ op \in Entries => It.svc = "none"
<1>1. /\ Busy /\ def.distro # "harvester" /\ work.todo \in NodeTodo /\ work.todo[1] = op
      /\ work.done < Len(NodeSeq) /\ Founds(work.todo, def, work.token, work.done = 0)
  BY AtNode DEF K8sInv
<1>2. InOrder
  BY <1>1 DEF Smooth
<1>3. Cur \in Nodes /\ It \in NodeType /\ node \in [Nodes -> NodeType] /\ 1 \in 1..Len(work.todo)
  BY <1>1, CurIsNode, NodeTypes, Rest DEF K8sInv, It, NodeTodo
<1>4. Wants(def, op) \subseteq It.run
  <2> SUFFICES ASSUME NEW p \in Wants(def, work.todo[1]) PROVE p \in It.run
    BY <1>1
  <2>1. \A i \in 1..1 : i = 1
    OBVIOUS
  <2>2. Gives(work.todo[1]) = {} /\ work.todo[1] # "settle"
    BY DEF Wants, Gives
  <2>3. Supplied(work.todo, def, It.run, It.next)
    BY <1>1, <1>2 DEF InOrder
  <2> QED
    BY <1>3, <2>1, <2>2, <2>3 DEF Supplied
<1>5. op \in Entries => It.svc = "none"
  BY <1>1, <1>2, <1>3 DEF InOrder, Enters
<1>6. work \in [todo : Seq(Ops), done : 0..Len(NodeSeq), token : 0..Len(clusters),
                        end : {"none", "ok", "failed", "crashed"}]
  BY DEF K8sInv, Todo
<1> QED
  BY <1>1, <1>2, <1>3, <1>4, <1>5, <1>6

\* Calls that change at most the packages of their node.
LEMMA QuietSmooth ==
    ASSUME K8sInv, Smooth, Asked, NEW op \in NodeOps \ (Entries \cup {"node-done", "cni"}), At(op), Did(1),
           NEW x \in NodeType, Put(x), x.svc = It.svc, x.in = It.in, It.run \subseteq x.run,
           IF op = "settle" THEN It.next \subseteq x.run
           ELSE It.next \subseteq x.next /\ Gives(op) \subseteq IF def.trans THEN x.next ELSE x.run,
           UNCHANGED <<clusters, def>>
    PROVE  Smooth'
<1>1. /\ InOrder /\ Busy /\ Cur \in Nodes
      /\ work \in [todo : Seq(Ops), done : 0..Len(NodeSeq), token : 0..Len(clusters),
                   end : {"none", "ok", "failed", "crashed"}]
  BY AtSmooth
<1>2. work' = [work EXCEPT !.todo = Tail(work.todo)] /\ work'.end = work.end
  BY <1>1, DidOne DEF K8sInv
<1>3. node'[Cur] = x /\ \A n \in Nodes : node'[n].svc = node[n].svc /\ node'[n].in = node[n].in
  BY <1>1, NodeChanged DEF K8sInv, It
<1>4. InOrder'
  BY <1>1, <1>2, <1>3, CallInOrder
<1> QED
  BY <1>2, <1>4, CallSmooth

\* reboot_into_pending_snapshot() returns.
LEMMA SettleSmooth == ASSUME K8sInv, Smooth, Asked, Settle PROVE Smooth'
<1> DEFINE x == [It EXCEPT !.run = @ \cup It.next, !.next = {}]
<1>1. At("settle") /\ Did(1) /\ Put(x) /\ UNCHANGED clusters /\ Still
  BY DEF Settle
<1>2. "settle" \in NodeOps \ (Entries \cup {"node-done", "cni"})
  BY DEF NodeOps, Entries
<1>3. It \in NodeType
  BY <1>1, <1>2, AtSmooth
<1>4. x \in NodeType /\ x.svc = It.svc /\ x.in = It.in /\ It.run \subseteq x.run /\ It.next \subseteq x.run
  BY <1>3 DEF NodeType
<1> HIDE DEF x
<1> QED
  BY <1>1, <1>2, <1>4, QuietSmooth DEF Same, Still

\* On a transactional system nothing is pending when a package manager runs, so that nothing is discarded.
LEMMA InstallSmooth ==
    ASSUME K8sInv, SettledInv, Seen, Smooth, Asked, NEW op \in Scripts, NEW p \in Packages, Gives(op) = {p}, Package(op, p)
    PROVE  Smooth'
<1> DEFINE x == Installed(It, p)
<1>1. At(op) /\ Did(1) /\ Put(x) /\ UNCHANGED clusters /\ Same
  BY DEF Package
<1>2. op \in NodeOps \ (Entries \cup {"node-done", "cni", "settle"})
  BY DEF NodeOps, Entries, Scripts
<1>3. It \in NodeType /\ work.todo \in NodeTodo /\ work.todo[1] = op /\ 1 \in 1..Len(work.todo)
  BY <1>1, <1>2, AtSmooth
<1>4. def.trans => It.next = {}
  <2> SUFFICES ASSUME def.trans PROVE It.next = {}
    OBVIOUS
  <2>1. Settled(work.todo, Clear)
    BY <1>3 DEF SettledInv, Asked
  <2>2. unseen = {}
    BY DEF Seen, Asked
  <2> QED
    BY <1>2, <1>3, <2>1, <2>2 DEF Settled, Clear
<1>5. /\ x \in NodeType /\ x.svc = It.svc /\ x.in = It.in /\ It.run \subseteq x.run
      /\ It.next \subseteq x.next /\ Gives(op) \subseteq IF def.trans THEN x.next ELSE x.run
  BY <1>3, <1>4 DEF NodeType, Installed
<1> HIDE DEF x
<1> QED
  BY <1>1, <1>2, <1>5, QuietSmooth DEF Same, Still

\* A call that changes nothing on its node.
LEMMA PassSmooth ==
    ASSUME K8sInv, Smooth, Asked, NEW op \in NodeOps \ (Entries \cup Scripts \cup {"node-done", "cni", "settle"}),
           At(op), Did(1), UNCHANGED <<node, clusters, def>>
    PROVE  Smooth'
<1>1. It \in NodeType /\ Cur \in Nodes /\ node \in [Nodes -> NodeType]
  BY AtSmooth
<1>2. Put(It)
  BY <1>1 DEF Put, It
<1>3. Gives(op) = {}
  BY DEF Gives, Scripts
<1> QED
  BY <1>1, <1>2, <1>3, QuietSmooth

\* What has to be there is there.
LEMMA RequiresSmooth ==
    ASSUME K8sInv, Smooth, Asked, NEW op \in {"policy?", "containerd-config", "missing?", "enable"}, NEW p,
           p \in Wants(def, op), Requires(op, p)
    PROVE  Smooth'
<1>1. op \in NodeOps \ (Entries \cup Scripts \cup {"node-done", "cni", "settle"})
  BY DEF NodeOps, Entries, Scripts
<1>2. At(op) /\ UNCHANGED <<node, clusters>> /\ Same
  BY DEF Requires
<1>3. p \in It.run
  BY <1>1, <1>2, AtSmooth
<1>4. Did(1)
  BY <1>3 DEF Requires
<1> QED
  BY <1>1, <1>2, <1>4, PassSmooth DEF Same, Still

\* kubectl apply of the network plugin.
LEMMA CniSmooth == ASSUME K8sInv, Smooth, Asked, ApplyCni PROVE Smooth'
<1>1. At("cni") /\ Did(1) /\ UNCHANGED node /\ Same /\ clusters' = [clusters EXCEPT ![work.token].net = def.cni]
  BY DEF ApplyCni
<1>2. "cni" \in NodeOps \ (Entries \cup {"node-done"})
  BY DEF NodeOps, Entries
<1>3. /\ InOrder /\ Busy /\ Cur \in Nodes
      /\ work \in [todo : Seq(Ops), done : 0..Len(NodeSeq), token : 0..Len(clusters),
                   end : {"none", "ok", "failed", "crashed"}]
  BY <1>1, <1>2, AtSmooth
<1>4. work' = [work EXCEPT !.todo = Tail(work.todo)] /\ work'.end = work.end
  BY <1>1, <1>3, DidOne DEF K8sInv
<1>5. work.token # 0 => clusters'[work.token].net
  <2> SUFFICES ASSUME work.token # 0 PROVE clusters'[work.token].net
    OBVIOUS
  <2> DEFINE C == [net : BOOLEAN, ingress : SUBSET Ingresses]
  <2>1. clusters \in [1..Len(clusters) -> C] /\ work.token \in 1..Len(clusters)
    <3>1. clusters \in Seq(C)
      BY DEF K8sInv, TypeOK
    <3>2. clusters \in [1..Len(clusters) -> C] /\ Len(clusters) \in Nat
      BY <3>1, LenProperties
    <3> QED
      BY <1>3, <3>2
  <2>2. clusters[work.token] \in C /\ clusters'[work.token] = [clusters[work.token] EXCEPT !.net = def.cni]
    BY <1>1, <2>1
  <2>3. clusters'[work.token].net = def.cni
    BY <2>2
  <2> QED
    BY <2>3 DEF Asked
<1>6. Gives("cni") = {}
  BY DEF Gives
<1>7. InOrder'
  BY <1>1, <1>2, <1>3, <1>4, <1>5, <1>6, CallInOrder DEF Same, Still, It
<1> QED
  BY <1>1, <1>2, <1>4, <1>7, CallSmooth DEF Same, Still

\* A node enters its cluster.
LEMMA EntrySmooth ==
    ASSUME K8sInv, Smooth, Asked, NEW op \in Entries, At(op), NEW t \in Nat \ {0},
           (Did(1) /\ work.token = t) \/ Token(t),
           NEW v \in {"server", "agent"}, Put([It EXCEPT !.svc = v, !.in = t]), work.token \in {0, t}, UNCHANGED def,
           IF work.token = 0 THEN op = "init" \/ clusters'[t].net ELSE op # "init" /\ UNCHANGED clusters
    PROVE  Smooth'
<1>0. op \in NodeOps
  BY DEF NodeOps, Entries, Founding
<1>1. /\ InOrder /\ Busy /\ Cur \in Nodes /\ It \in NodeType /\ node \in [Nodes -> NodeType]
      /\ work \in [todo : Seq(Ops), done : 0..Len(NodeSeq), token : 0..Len(clusters),
                   end : {"none", "ok", "failed", "crashed"}]
  BY <1>0, AtSmooth
<1>2. work'.todo = Tail(work.todo) /\ work'.done = work.done /\ work'.token = t /\ work'.end = work.end
  <2>1. CASE Did(1) /\ work.token = t
    <3>1. work' = [work EXCEPT !.todo = Tail(work.todo)]
      BY <1>1, <2>1, DidOne DEF K8sInv
    <3> QED
      BY <1>1, <2>1, <3>1
  <2>2. CASE Token(t)
    BY <1>1, <2>2 DEF Token
  <2> QED
    BY <2>1, <2>2
<1> DEFINE x == [It EXCEPT !.svc = v, !.in = t]
<1>3. x.svc = v /\ x.in = t /\ x.run = It.run /\ x.next = It.next
  BY <1>1 DEF NodeType
<1>4. node'[Cur] = x /\ \A n \in Nodes \ {Cur} : node'[n] = node[n]
  <2>1. node' = [node EXCEPT ![Cur] = x]
    BY DEF Put
  <2> HIDE DEF x
  <2> QED
    BY <1>1, <2>1
<1> HIDE DEF x
<1>5. InOrder'
  <2>1. v # "none"
    OBVIOUS
  <2> QED
    BY <1>1, <1>2, <1>3, <1>4, <2>1, EntryInOrder
<1> QED
  BY <1>0, <1>2, <1>5, CallSmooth

\* The first node is new, and founds the cluster.
LEMMA StartFirstSmooth == ASSUME K8sInv, Smooth, Asked, StartFirst PROVE Smooth'
<1>1. At("start") /\ "start" \in Entries /\ "start" \in Founding /\ "start" \in NodeOps /\ work.token = 0 /\ Same
  BY DEF StartFirst, Entries, Founding, NodeOps
<1>2. Cur = First /\ It.svc = "none" /\ Wants(def, "start") \subseteq It.run
  BY <1>1, AtFirst, AtSmooth
<1>3. def.distro = "rke2" => "rke2" \in It.run
  BY <1>2 DEF Wants
<1>4. PICK c : Token(Founded) /\ Put([It EXCEPT !.svc = "server", !.in = Founded]) /\ Found(c, TRUE)
  BY <1>2, <1>3 DEF StartFirst, Asked
<1>5. Founded \in Nat \ {0} /\ clusters'[Founded].net
  <2>1. clusters \in Seq([net : BOOLEAN, ingress : SUBSET Ingresses])
    BY DEF K8sInv, TypeOK
  <2>2. clusters' = Append(clusters, [net |-> TRUE, ingress |-> c]) /\ Founded = Len(clusters) + 1
    BY <1>4 DEF Found, Founded
  <2>3. clusters'[Founded] = [net |-> TRUE, ingress |-> c] /\ Founded \in Nat \ {0}
    BY <2>1, <2>2
  <2> QED
    BY <2>3
<1> QED
  BY <1>1, <1>4, <1>5, EntrySmooth DEF Same, Still

\* kubeadm init on a new node founds the cluster whose token the worker then holds.
LEMMA InitSmooth == ASSUME K8sInv, Smooth, Asked, KubeadmInits PROVE Smooth'
<1>1. At("init") /\ "init" \in Entries /\ "init" \in NodeOps /\ Same
  BY DEF KubeadmInits, Entries, Founding, NodeOps
<1>2. It.svc = "none" /\ Founds(work.todo, def, work.token, work.done = 0) /\ work.todo[1] = "init"
      /\ 1 \in 1..Len(work.todo)
  BY <1>1, AtSmooth
<1>3. work.token = 0
  BY <1>2 DEF Founds, Has
<1>4. Token(Founded) /\ Put([It EXCEPT !.svc = "server", !.in = Founded])
  BY <1>2 DEF KubeadmInits
<1>5. Founded \in Nat \ {0}
  BY DEF K8sInv, TypeOK, Founded
<1> QED
  BY <1>1, <1>3, <1>4, <1>5, EntrySmooth DEF Same, Still

\* The others are new too, and join it.
LEMMA JoinSmooth == ASSUME K8sInv, Smooth, Asked, StartOther \/ KubeadmJoins PROVE Smooth'
<1>1. PICK op \in {"start", "join"} : /\ At(op) /\ (op = "start" => StartOther) /\ (op = "join" => KubeadmJoins)
  BY DEF StartOther, KubeadmJoins
<1>2. op \in Entries /\ op \in NodeOps /\ op # "init"
  BY DEF Entries, Founding, NodeOps
<1>3. /\ It.svc = "none" /\ Wants(def, op) \subseteq It.run /\ Cur \in Nodes /\ def.distro # "harvester"
      /\ Founds(work.todo, def, work.token, work.done = 0) /\ work.todo[1] = op /\ 1 \in 1..Len(work.todo) /\ Busy
      /\ work \in [todo : Seq(Ops), done : 0..Len(NodeSeq), token : 0..Len(clusters),
                   end : {"none", "ok", "failed", "crashed"}]
  BY <1>1, <1>2, AtSmooth
<1>4. UNCHANGED clusters /\ Same
  BY <1>1 DEF StartOther, KubeadmJoins
<1>5. def.type[Cur] \in {"server", "agent"}
  <2>1. def \in Defs
    BY DEF K8sInv, TypeOK
  <2>2. def.type \in [Nodes -> {"server", "agent"}]
    BY <2>1, K8sInstallAssumption
  <2> QED
    BY <1>3, <2>2
<1>6. work.token \in Nat \ {0}
  <2>1. CASE op = "start"
    BY <1>1, <1>3, <2>1 DEF StartOther, K8sInv, TypeOK
  <2>2. CASE op = "join"
    <3>1. work.done # 0
      BY <1>3, <2>2 DEF Founds, Has
    <3> QED
      BY <1>3, <3>1 DEF K8sInv, Todo, TypeOK
  <2> QED
    BY <2>1, <2>2
<1>7. PICK v \in {"server", "agent"} : Did(1) /\ Put([It EXCEPT !.svc = v, !.in = work.token])
  <2>1. CASE op = "start"
    <3>1. def.distro = "rke2" => "rke2" \in It.run
      BY <1>3, <2>1 DEF Wants
    <3>2. Did(1) /\ Put([It EXCEPT !.svc = IF def.distro = "k3s" THEN "agent" ELSE def.type[Cur], !.in = work.token])
      BY <1>1, <1>3, <2>1, <3>1 DEF StartOther
    <3> QED
      BY <1>5, <3>2
  <2>2. CASE op = "join"
    <3>1. Did(1) /\ Put([It EXCEPT !.svc = def.type[Cur], !.in = work.token])
      BY <1>1, <1>3, <2>2 DEF KubeadmJoins
    <3> QED
      BY <1>5, <3>1
  <2> QED
    BY <2>1, <2>2
<1> QED
  BY <1>1, <1>2, <1>4, <1>6, <1>7, EntrySmooth DEF Same, Still

\* The next node, which is new: the first is a server.
LEMMA NextNodeSmooth == ASSUME K8sInv, Smooth, Asked, NextNode PROVE Smooth'
<1>1. At("node") /\ Busy /\ UNCHANGED <<node, clusters>> /\ Same
  BY DEF NextNode, At
<1>2. work.todo = <<"node">> /\ def.distro # "harvester" /\ work.end = "none" /\ work.done < Len(NodeSeq)
      /\ work \in [todo : Seq(Ops), done : 0..Len(NodeSeq), token : 0..Len(clusters),
                   end : {"none", "ok", "failed", "crashed"}]
      /\ (work.token = 0 => work.done = 0) /\ work.token \in Nat /\ def \in Defs
  BY <1>1, AtOther DEF K8sInv, Todo, Busy, TypeOK
<1>3. InOrder
  BY <1>1, <1>2 DEF Smooth
<1>4. work.token = 0 => def.type[Cur] = "server"
  BY <1>2, CurIsNode DEF K8sInv, Asked
<1>5. work' = [work EXCEPT !.todo = NodeProgram(def, work.token = 0) \o <<"node-done">>]
  BY <1>4 DEF NextNode
<1>6. PICK p : p = NodeProgram(def, work.token = 0) \o <<"node-done">>
  OBVIOUS
<1>7. p \in NodeTodo /\ p # <<"node">> /\ Works(p, def)
  BY <1>2, <1>6, Programs, ProgramsWork, NodeTodoIsNot DEF Asked
<1>8. work'.todo = p /\ work'.done = work.done /\ work'.token = work.token /\ work'.end = "none"
  BY <1>2, <1>5, <1>6
<1>9. It' = It /\ It.svc = "none"
  BY <1>1, <1>2, <1>3, <1>8 DEF It, Cur, InOrder
<1>10. work.token # 0 => clusters[work.token].net
  <2>1. ~Has(work.todo, "cni")
    BY <1>2 DEF Has
  <2> QED
    BY <1>3, <2>1 DEF InOrder
<1>11. \A i \in DOMAIN NodeSeq : Served(NodeSeq[i])' <=> Served(NodeSeq[i])
  BY <1>1, <1>8 DEF Served
<1>12. InOrder'
  BY <1>1, <1>3, <1>7, <1>8, <1>9, <1>10, <1>11 DEF InOrder, Works, Same, Still
<1> QED
  BY <1>1, <1>2, <1>8, <1>12 DEF Smooth, Same, Still

\* The node is done.
LEMMA NodeDoneSmooth == ASSUME K8sInv, Smooth, Asked, NodeDone PROVE Smooth'
<1>1. At("node-done") /\ Busy /\ UNCHANGED <<node, clusters>> /\ Same /\ "node-done" \in NodeOps
  BY DEF NodeDone, At, NodeOps
<1>2. /\ InOrder /\ def.distro # "harvester" /\ work.todo \in NodeTodo /\ work.todo[1] = "node-done"
      /\ work.done < Len(NodeSeq) /\ 1 \in 1..Len(work.todo) /\ Founds(work.todo, def, work.token, work.done = 0)
      /\ work \in [todo : Seq(Ops), done : 0..Len(NodeSeq), token : 0..Len(clusters),
                   end : {"none", "ok", "failed", "crashed"}]
  BY <1>1, AtSmooth
<1>3. work.end = "none"
  BY <1>1 DEF K8sInv, Todo, Busy
<1>4. \A i \in 1..Len(work.todo) : work.todo[i] = "node-done"
  <2>1. Len(work.todo) = 1
    BY <1>2 DEF Founds
  <2> QED
    BY <1>2, <2>1
<1>5. ~Enters(work.todo) /\ ~Has(work.todo, "cni")
  BY <1>4 DEF Enters, Entries, Has
<1>6. Served(Cur) /\ (work.token # 0 => clusters[work.token].net)
  BY <1>2, <1>5 DEF InOrder
<1>7. PICK s : /\ s = IF work.done + 1 = Len(NodeSeq) THEN <<"ready?", "add-ons">> ELSE <<"node">>
               /\ work' = [work EXCEPT !.done = work.done + 1, !.todo = s]
  BY DEF NodeDone
<1>8. work'.todo = s /\ work'.done = work.done + 1 /\ work'.token = work.token /\ work'.end = "none"
  BY <1>2, <1>3, <1>7
<1>9. s \notin NodeTodo /\ (s = <<"node">> <=> work.done + 1 # Len(NodeSeq))
  <2>1. <<"ready?", "add-ons">> # <<"node">>
    OBVIOUS
  <2> QED
    BY <1>7, <2>1, NodeTodoIsNot
<1>10. \A i \in DOMAIN NodeSeq : /\ i <= work'.done => Served(NodeSeq[i])'
                                 /\ i > work'.done + 1 => node'[NodeSeq[i]].svc = "none"
  <2> SUFFICES ASSUME NEW i \in DOMAIN NodeSeq
               PROVE  /\ i <= work.done + 1 => Served(NodeSeq[i])
                      /\ i > work.done + 1 + 1 => node[NodeSeq[i]].svc = "none"
    BY <1>1, <1>8 DEF Served
  <2>1. i \in Nat /\ work.done \in Nat /\ (NodeSeq[i] = Cur <=> i = work.done + 1)
    BY <1>2, Places DEF K8sInv
  <2>2. CASE i <= work.done
    BY <1>2, <2>1, <2>2 DEF InOrder
  <2>3. CASE i > work.done
    BY <1>2, <1>6, <2>1, <2>3 DEF InOrder
  <2> QED
    BY <2>1, <2>2, <2>3
<1>11. s = <<"node">> => It'.svc = "none"
  <2> SUFFICES ASSUME s = <<"node">> PROVE node[NodeSeq[(work.done + 1) + 1]].svc = "none"
    BY <1>1, <1>8 DEF It, Cur
  <2>1. (work.done + 1) + 1 \in DOMAIN NodeSeq /\ (work.done + 1) + 1 > work.done + 1
    BY <1>2, <1>9, Places DEF K8sInv
  <2> QED
    BY <1>2, <2>1 DEF InOrder
<1>12. InOrder'
  BY <1>1, <1>6, <1>8, <1>9, <1>10, <1>11 DEF InOrder
<1> QED
  BY <1>1, <1>2, <1>8, <1>12 DEF Smooth, Same, Still

\* All nodes are of the cluster, and get ready.
LEMMA ReadySmooth == ASSUME K8sInv, Smooth, Asked, WaitNodesReady PROVE Smooth'
<1>1. At("ready?") /\ Busy /\ UNCHANGED <<node, clusters>> /\ Same
  BY DEF WaitNodesReady, At
<1>2. /\ work \in [todo : Seq(Ops), done : 0..Len(NodeSeq), token : 0..Len(clusters),
                   end : {"none", "ok", "failed", "crashed"}]
      /\ work.end = "none"
  BY <1>1 DEF K8sInv, Todo, Busy
<1>3. CASE def.distro = "harvester"
  <2>1. Together /\ ~At("https?") /\ First \in Nodes
    BY <1>1, <1>3, CurIsNode DEF Smooth, At
  <2>2. \A n \in Nodes : node[n].svc # "none" => Ready(n)
    BY <1>1, <2>1 DEF Together, Ready
  <2>3. Did(1)
    BY <2>2 DEF WaitNodesReady
  <2>4. work' = [work EXCEPT !.todo = Tail(work.todo)]
    BY <1>1, <2>3, DidOne DEF K8sInv
  <2>5. work'.token = work.token /\ work'.end = "none"
    BY <1>2, <2>4
  <2>6. Together'
    BY <1>1, <2>1, <2>5 DEF Together
  <2> QED
    BY <1>1, <1>3, <2>5, <2>6 DEF Smooth, Same, Still
<1>4. CASE def.distro # "harvester"
  <2>1. InOrder /\ work.todo = <<"ready?", "add-ons">>
    BY <1>1, <1>4, AtOther DEF K8sInv, Smooth
  <2>2. work.done = Len(NodeSeq) /\ ~Has(work.todo, "cni") /\ (work.token # 0 => clusters[work.token].net)
    <3>1. work.todo \notin NodeTodo \cup {<<"node">>}
      BY <2>1, NodeTodoIsNot
    <3>2. Len(work.todo) = 2 /\ work.todo[1] # "cni" /\ work.todo[2] # "cni"
      BY <2>1
    <3>3. ~Has(work.todo, "cni")
      BY <3>2 DEF Has
    <3> QED
      BY <2>1, <3>1, <3>3 DEF InOrder
  <2>3. \A n \in Nodes : Served(n)
    <3> SUFFICES ASSUME NEW n \in Nodes PROVE Served(n)
      OBVIOUS
    <3>1. PICK i \in DOMAIN NodeSeq : NodeSeq[i] = n
      BY Places DEF K8sInv
    <3>2. i <= Len(NodeSeq)
      BY Places DEF K8sInv
    <3> QED
      BY <2>1, <2>2, <3>1, <3>2 DEF InOrder
  <2>4. \A n \in Nodes : Ready(n)
    <3>1. First \in Nodes /\ node[First].in # 0
      BY <2>3, CurIsNode DEF K8sInv, Members, Served
    <3> QED
      BY <2>2, <2>3, <3>1 DEF Ready, Served
  <2>5. Did(1)
    BY <2>4 DEF WaitNodesReady
  <2>6. work' = [work EXCEPT !.todo = Tail(work.todo)] /\ Tail(work.todo) = <<"add-ons">>
    BY <1>1, <2>1, <2>5, DidOne DEF K8sInv
  <2>7. work'.todo = <<"add-ons">> /\ work'.done = work.done /\ work'.token = work.token /\ work'.end = "none"
    BY <1>2, <2>6
  <2>8. <<"add-ons">> \notin NodeTodo \cup {<<"node">>}
    BY NodeTodoIsNot
  <2>9. \A i \in DOMAIN NodeSeq : Served(NodeSeq[i])' <=> Served(NodeSeq[i])
    BY <1>1, <2>7 DEF Served
  <2>10. InOrder'
    BY <1>1, <2>1, <2>2, <2>7, <2>8, <2>9 DEF InOrder
  <2> QED
    BY <1>1, <1>4, <2>7, <2>10 DEF Smooth, Same, Still
<1> QED
  BY <1>3, <1>4

\* The nodes of Harvester: the first founds the cluster, the others join it, and the worker finds it there.
LEMMA HarvesterSmooth ==
    ASSUME K8sInv, Smooth, Asked, (\E n \in Nodes : HarvesterNode(n)) \/ WaitHttps \/ FetchKubeconfig PROVE Smooth'
<1>0. /\ work \in [todo : Seq(Ops), done : 0..Len(NodeSeq), token : 0..Len(clusters),
                   end : {"none", "ok", "failed", "crashed"}]
      /\ First \in Nodes /\ node \in [Nodes -> NodeType] /\ (Busy => work.end = "none")
  BY CurIsNode, NodeTypes DEF K8sInv, Todo, Busy
<1>1. CASE WaitHttps \/ FetchKubeconfig
  <2>1. def.distro = "harvester" /\ Together /\ Busy /\ UNCHANGED <<node, clusters>> /\ Same
    BY <1>1, AtOther DEF WaitHttps, FetchKubeconfig, At, K8sInv, Smooth
  <2>2. work'.token = node[First].in /\ work'.end = "none" /\ node[First].svc # "none"
    <3>1. CASE WaitHttps
      BY <1>0, <2>1, <3>1 DEF WaitHttps, Token
    <3>2. CASE FetchKubeconfig
      <4>1. work' = [work EXCEPT !.todo = Tail(work.todo)]
        BY <2>1, <3>2, DidOne DEF FetchKubeconfig, K8sInv
      <4>2. ~At("https?")
        BY <3>2 DEF FetchKubeconfig, At
      <4> QED
        BY <1>0, <2>1, <4>1, <4>2 DEF Together
    <3> QED
      BY <1>1, <3>1, <3>2
  <2>3. Together'
    BY <2>1, <2>2 DEF Together
  <2> QED
    BY <2>1, <2>2, <2>3 DEF Smooth, Same, Still
<1>2. CASE \E n \in Nodes : HarvesterNode(n)
  <2>1. PICK n \in Nodes : HarvesterNode(n)
    BY <1>2
  <2>2. def.distro = "harvester" /\ Together /\ UNCHANGED work /\ Same /\ node[n].svc = "none"
    BY <2>1 DEF HarvesterNode, Smooth
  <2>3. Founded \in Nat \ {0} /\ Len(clusters) \in Nat /\ \A k \in Nodes : node[k].in \in 0..Len(clusters)
    BY <1>0 DEF K8sInv, TypeOK, Founded, NodeType
  <2>4. CASE n = First /\ Found(Bundled(def), TRUE) /\ node' = [node EXCEPT ![n].svc = "server", ![n].in = Founded]
    <3>1. /\ node'[First].svc = "server" /\ node'[First].in = Founded
          /\ \A k \in Nodes \ {First} : node'[k] = node[k]
      BY <1>0, <2>4 DEF NodeType
    <3>2. \A k \in Nodes : node[k].svc = "none" /\ node[k].in = 0
      BY <1>0, <2>2, <2>4 DEF Together
    <3>3. clusters'[Founded].net
      <4>1. clusters \in Seq([net : BOOLEAN, ingress : SUBSET Ingresses])
        BY DEF K8sInv, TypeOK
      <4>2. clusters' = Append(clusters, [net |-> TRUE, ingress |-> Bundled(def)]) /\ Founded = Len(clusters) + 1
        BY <2>4 DEF Found, Founded
      <4>3. clusters'[Founded] = [net |-> TRUE, ingress |-> Bundled(def)]
        BY <4>1, <4>2
      <4> QED
        BY <4>3
    <3>4. Busy => At("https?")
      BY <2>2, <3>2, <1>0 DEF Together
    <3>5. \A k \in Nodes : IF node'[k].svc = "none" THEN node'[k].in = 0
                           ELSE node'[First].svc # "none" /\ node'[k].in = node'[First].in
      BY <3>1, <3>2
    <3>6. Together'
      BY <2>2, <3>1, <3>3, <3>4, <3>5 DEF Together, Busy, At
    <3> QED
      BY <2>2, <3>6 DEF Smooth, Same, Still
  <2>5. CASE n # First /\ node[First].in # 0 /\ UNCHANGED clusters
             /\ node' = [node EXCEPT ![n].svc = "server", ![n].in = node[First].in]
    <3>1. /\ node'[n].svc = "server" /\ node'[n].in = node[First].in
          /\ \A k \in Nodes \ {n} : node'[k] = node[k]
      BY <1>0, <2>5 DEF NodeType
    <3>2. node[First].svc # "none" /\ node'[First] = node[First]
      BY <1>0, <2>2, <2>5, <3>1 DEF Together
    <3>3. Together'
      BY <1>0, <2>2, <2>5, <3>1, <3>2 DEF Together, Busy, At
    <3> QED
      BY <2>2, <3>3 DEF Smooth, Same, Still
  <2> QED
    BY <2>1, <2>4, <2>5 DEF HarvesterNode
<1> QED
  BY <1>1, <1>2

\* setup_lab reaches the cluster: when all nodes are new, nothing is on them.
LEMMA BeginSmooth == ASSUME K8sInv, Begin, Asked' PROVE Smooth'
<1>1. /\ fresh' = Nodes
      /\ node' = [n \in Nodes |-> IF n \in fresh' THEN New
                                  ELSE [node[n] EXCEPT !.run = @ \cup node[n].next, !.next = {}]]
      /\ work' = [Idle EXCEPT !.todo = IF def.distro = "harvester" THEN HarvesterCluster ELSE <<"node">>]
  BY DEF Begin, Asked
<1>2. \A n \in Nodes : node'[n].svc = "none" /\ node'[n].in = 0
  BY <1>1 DEF New
<1>3. def' \in Defs /\ def'.distro = def.distro
  <2>1. PICK d \in Defs : def' = d /\ [d EXCEPT !.ingress = def.ingress] = def
    BY DEF Begin
  <2>2. [d EXCEPT !.ingress = def.ingress].distro = d.distro
    BY <2>1, K8sInstallAssumption
  <2> QED
    BY <2>1, <2>2
<1>4. /\ work'.todo = IF def.distro = "harvester" THEN HarvesterCluster ELSE <<"node">>
      /\ work'.done = 0 /\ work'.token = 0 /\ work'.end = "none"
  BY <1>1 DEF Idle
<1>5. First \in Nodes /\ 1 \in DOMAIN NodeSeq /\ DOMAIN NodeSeq = 1..Len(NodeSeq) /\ Len(NodeSeq) \in Nat
      /\ \A i \in DOMAIN NodeSeq : NodeSeq[i] \in Nodes
  BY CurIsNode, Places DEF K8sInv
<1>6. CASE def.distro = "harvester"
  <2>1. At("https?")'
    BY <1>4, <1>6 DEF At, Busy, HarvesterCluster
  <2>2. Together'
    BY <1>2, <1>5, <2>1 DEF Together
  <2> QED
    BY <1>3, <1>4, <1>6, <2>2 DEF Smooth
<1>7. CASE def.distro # "harvester"
  <2>1. work'.todo = <<"node">> /\ <<"node">> \notin NodeTodo
    BY <1>4, <1>7, NodeTodoIsNot
  <2>2. It'.svc = "none"
    <3>1. It' = node'[NodeSeq[1]]
      BY <1>4 DEF It, Cur
    <3> QED
      BY <1>2, <1>5, <3>1
  <2>3. \A i \in DOMAIN NodeSeq : /\ ~(i <= work'.done)
                                  /\ i > work'.done + 1 => node'[NodeSeq[i]].svc = "none"
    BY <1>2, <1>4, <1>5
  <2>4. InOrder'
    BY <1>4, <2>1, <2>2, <2>3 DEF InOrder
  <2> QED
    BY <1>3, <1>4, <1>7, <2>4 DEF Smooth
<1> QED
  BY <1>6, <1>7

\* The end of an installation.
LEMMA EndSmooth == ASSUME K8sInv, Smooth, Asked, ApplySettings \/ InstallAddons PROVE Smooth'
<1>1. work \in [todo : Seq(Ops), done : 0..Len(NodeSeq), token : 0..Len(clusters),
                end : {"none", "ok", "failed", "crashed"}]
  BY DEF K8sInv, Todo
<1>2. work' = [work EXCEPT !.todo = <<>>, !.end = "ok"] /\ UNCHANGED node /\ Same
  BY DEF ApplySettings, InstallAddons
<1>3. work'.todo = <<>> /\ work'.end = "ok" /\ ~Busy'
  BY <1>1, <1>2 DEF Busy
<1>4. def.distro = "harvester" => UNCHANGED clusters
  BY AtOther DEF ApplySettings, InstallAddons, K8sInv
<1>5. def.distro = "harvester" => Together'
  BY <1>2, <1>3, <1>4 DEF Smooth, Together
<1> QED
  BY <1>2, <1>3, <1>5 DEF Smooth, Same, Still

\* Whatever the step.
LEMMA StepSmooth == ASSUME K8sInv, SettledInv, Seen, Smooth, [Next]_vars PROVE Smooth'
<1> SUFFICES ASSUME Asked' PROVE Smooth'
  BY DEF Smooth
<1>1. CASE Begin
  BY <1>1, BeginSmooth
<1>2. ASSUME UNCHANGED <<def, fresh, faults>> PROVE Asked
  BY <1>2 DEF Asked
<1>3. ASSUME Still PROVE Asked
  BY <1>2, <1>3 DEF Still
<1>4. CASE Settle \/ ApplyCni
  <2>1. Still
    BY <1>4 DEF Settle, ApplyCni, Same
  <2> QED
    BY <1>3, <1>4, <2>1, SettleSmooth, CniSmooth
<1>5. CASE UpdateKernel \/ K3sScript \/ Rke2Script \/ InstallPackages
  <2>1. PICK op \in Scripts, p \in Packages : Package(op, p) /\ Gives(op) = {p}
    BY <1>5 DEF UpdateKernel, K3sScript, Rke2Script, InstallPackages, Scripts, Packages, Gives
  <2>2. Still
    BY <2>1 DEF Package, Same
  <2> QED
    BY <1>3, <2>1, <2>2, InstallSmooth
<1>6. CASE CheckPolicy \/ ContainerdConfig \/ MissingBinaries \/ EnableContainerd
  <2>0. CASE PolicyNotAsked
    <3>1. "policy?" \in NodeOps \ (Entries \cup Scripts \cup {"node-done", "cni", "settle"})
      BY DEF NodeOps, Entries, Scripts
    <3> QED
      BY <1>3, <2>0, <3>1, PassSmooth DEF PolicyNotAsked, Same, Still
  <2> SUFFICES ASSUME ~PolicyNotAsked PROVE Smooth'
    BY <2>0
  <2>1. PICK op \in {"policy?", "containerd-config", "missing?", "enable"}, p \in Packages :
          Requires(op, p) /\ p \in Wants(def, op)
    BY <1>6 DEF CheckPolicy, ContainerdConfig, MissingBinaries, EnableContainerd, Packages, Wants
  <2>2. Still
    BY <2>1 DEF Requires, Same
  <2> QED
    BY <1>3, <2>1, <2>2, RequiresSmooth
<1>7. CASE WriteNodeConfig \/ CreateToken
  <2>1. {"config", "token"} \subseteq NodeOps \ (Entries \cup Scripts \cup {"node-done", "cni", "settle"})
    BY DEF NodeOps, Entries, Scripts
  <2>2. Asked /\ (At("config") \/ At("token")) /\ Did(1) /\ UNCHANGED <<node, clusters, def>>
    BY <1>2, <1>7 DEF WriteNodeConfig, CreateToken, Same, Still
  <2> QED
    BY <2>1, <2>2, PassSmooth
<1>8. CASE StartFirst \/ StartOther \/ KubeadmInits \/ KubeadmJoins
  <2>1. Still
    BY <1>8 DEF StartFirst, StartOther, KubeadmInits, KubeadmJoins, Same
  <2> QED
    BY <1>3, <1>8, <2>1, StartFirstSmooth, InitSmooth, JoinSmooth
<1>9. CASE NextNode \/ NodeDone \/ WaitNodesReady
  <2>1. Still
    BY <1>9 DEF NextNode, NodeDone, WaitNodesReady, Same
  <2> QED
    BY <1>3, <1>9, <2>1, NextNodeSmooth, NodeDoneSmooth, ReadySmooth
<1>10. CASE ApplySettings \/ InstallAddons
  <2>1. Still
    BY <1>10 DEF ApplySettings, InstallAddons, Same
  <2> QED
    BY <1>3, <1>10, <2>1, EndSmooth
<1>11. CASE (\E n \in Nodes : HarvesterNode(n)) \/ WaitHttps \/ FetchKubeconfig
  <2>1. Still
    BY <1>11 DEF HarvesterNode, WaitHttps, FetchKubeconfig, Same
  <2> QED
    BY <1>3, <1>11, <2>1, HarvesterSmooth
<1>12. ~CallFails
  <2>1. faults \in Nat
    <3>1. faults \in 0..MaxFaults /\ MaxFaults \in Nat
      BY K8sInstallAssumption DEF K8sInv, TypeOK
    <3> QED
      BY <3>1
  <2> QED
    BY <2>1 DEF CallFails, Asked
<1>14. ASSUME NEW n \in Nodes PROVE ~LateReboot(n)
  BY DEF LateReboot, Seen, Asked, Still
<1>13. CASE UNCHANGED vars
  <2>1. UNCHANGED <<def, file, node, clusters, work, fresh, starts, faults>>
    BY <1>13 DEF vars
  <2>2. Together' <=> Together
    BY <2>1 DEF Together, Busy, At
  <2>3. InOrder' <=> InOrder
    BY <2>1 DEF InOrder, It, Cur, Served
  <2> QED
    BY <1>2, <2>1, <2>2, <2>3 DEF Smooth, Busy
<1> QED
  BY <1>1, <1>4, <1>5, <1>6, <1>7, <1>8, <1>9, <1>10, <1>11, <1>12, <1>13, <1>14 DEF Next, Step

\* Whatever the step, too.
LEMMA StepSeen == ASSUME K8sInv, Seen, [Next]_vars PROVE Seen'
<1> SUFFICES ASSUME faults' = 0, unseen' # {} PROVE FALSE
  BY DEF Seen
<1>0. faults \in Nat
  <2>1. faults \in 0..MaxFaults /\ MaxFaults \in Nat
    BY K8sInstallAssumption DEF K8sInv, TypeOK
  <2> QED
    BY <2>1
<1>1. ~CallFails /\ ~Begin
  <2>1. ~CallFails
    <3>1. CallFails => faults' = faults + 1
      BY DEF CallFails
    <3> QED
      BY <1>0, <3>1
  <2>2. ~Begin
    <3>1. Begin => unseen' = {}
      BY DEF Begin
    <3> QED
      BY <3>1
  <2> QED
    BY <2>1, <2>2
<1>2. UNCHANGED faults /\ unseen' \subseteq unseen
  <2>1. CASE \E n \in Nodes : HarvesterNode(n) \/ LateReboot(n)
    BY <2>1 DEF HarvesterNode, LateReboot, Same, Still
  <2>2. CASE Settle \/ UNCHANGED vars
    BY <2>2 DEF Settle, Still, vars
  <2>3. CASE NextNode \/ NodeDone \/ CheckPolicy \/ ContainerdConfig \/ MissingBinaries \/ EnableContainerd
    BY <2>3 DEF NextNode, NodeDone, CheckPolicy, ContainerdConfig, MissingBinaries, EnableContainerd, Requires,
                PolicyNotAsked, Same, Still
  <2>4. CASE UpdateKernel \/ K3sScript \/ Rke2Script \/ InstallPackages
    BY <2>4 DEF UpdateKernel, K3sScript, Rke2Script, InstallPackages, Package, Same, Still
  <2>5. CASE WriteNodeConfig \/ StartFirst \/ StartOther \/ KubeadmInits \/ ApplyCni \/ CreateToken \/ KubeadmJoins
    BY <2>5 DEF WriteNodeConfig, StartFirst, StartOther, KubeadmInits, ApplyCni, CreateToken, KubeadmJoins, Same, Still
  <2>6. CASE WaitHttps \/ FetchKubeconfig \/ ApplySettings \/ WaitNodesReady \/ InstallAddons
    BY <2>6 DEF WaitHttps, FetchKubeconfig, ApplySettings, WaitNodesReady, InstallAddons, Same, Still
  <2> QED
    BY <1>1, <2>1, <2>2, <2>3, <2>4, <2>5, <2>6 DEF Next, Step
<1> QED
  BY <1>2 DEF Seen

\* install_cluster(), _install() and prepare_node(): for every number of nodes and every definition that can
\* work, nodes that were all made anew become a cluster when no call fails, also after runs that failed.
THEOREM NewNodesInstall == Spec => []InstallsOnNewNodes
<1>1. Init => K8sInv /\ SettledInv /\ Seen /\ Smooth
  <2>1. <<>> \notin NodeTodo
    BY DEF NodeTodo
  <2>2. Init => fresh = {} /\ Nodes # {}
    BY K8sInstallAssumption DEF Init
  <2> QED
    BY <2>1, <2>2, InitK8s DEF Init, Idle, SettledInv, Seen, Smooth, Asked
<1>2. K8sInv /\ SettledInv /\ Seen /\ Smooth /\ [Next]_vars => (K8sInv /\ SettledInv /\ Seen /\ Smooth)'
  BY StepK8s, StepSettled, StepSeen, StepSmooth
<1>3. Smooth => InstallsOnNewNodes
  BY DEF Smooth, Asked, InstallsOnNewNodes
<1> QED
  BY <1>1, <1>2, <1>3, PTL DEF Spec

=============================================================================
