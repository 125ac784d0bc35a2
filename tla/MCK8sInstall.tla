---------------------------- MODULE MCK8sInstall ----------------------------
(* Three nodes: two servers and an agent, or an agent first; every distribution, with and without *)
(* transactional updates, and with every ingress controller. *)
EXTENDS K8sInstall

MCNodes == {"n1", "n2", "n3"}
MCNodeSeq == <<"n1", "n2", "n3">>
Types == {[k \in MCNodes |-> IF k = "n3" THEN "agent" ELSE "server"],
          [k \in MCNodes |-> IF k = "n1" THEN "agent" ELSE "server"]}
AllDefs == [distro : Distros, type : Types, trans : BOOLEAN, cni : BOOLEAN,
            ingress : Ingresses \cup {"", "none"}, needs : {TRUE, FALSE}]
MCDefs == {d \in AllDefs : /\ d.distro # "kubeadm" => d.cni /\ d.needs
                           /\ d.distro = "harvester" => d.ingress \in {"", "nginx"} /\ ~d.trans
                           /\ d.type["n1"] = "agent" => d.ingress = "" /\ d.needs}
MCTransactional == {d \in MCDefs : d.distro = "kubeadm" /\ d.trans}
=============================================================================
