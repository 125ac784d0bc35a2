----------------------------- MODULE MCKvmVms -----------------------------
(* Two nodes on two hosts, of which one has room for one machine, in a network of three addresses. *)
EXTENDS KvmVms

MCNodes == {"n1", "n2"}
MCNodeSeq == <<"n1", "n2">>
MCHosts == {"h1", "h2"}
MCRoom == [h \in MCHosts |-> IF h = "h1" THEN 2 ELSE 1]
MCFirst == [k \in MCNodes |-> 2]

ALab(k, c, m, p, kept, s) ==
    [kind |-> k, caller |-> c, method |-> m, parallel |-> p, keep |-> kept, starts |-> s]

MCLabs == {ALab("libvirt", "setup_lab", "ignition", FALSE, TRUE, 2),
           ALab("libvirt", "setup_lab", "cloud-init", FALSE, FALSE, 1),
           ALab("libvirt", "setup_vm", "autoinstall", FALSE, FALSE, 2),
           ALab("libvirt", "setup_vm", "location", FALSE, FALSE, 2),
           ALab("libvirt", "setup_lab", "virt_customize", TRUE, FALSE, 1),
           ALab("harvester", "setup_lab", "cloud-init", TRUE, FALSE, 2)}

\* Cloud-init in the threads of one pool.
MCLabsSeeds == {ALab("libvirt", "setup_lab", "cloud-init", TRUE, FALSE, 1)}
=============================================================================
