------------------------------- MODULE KvmVms -------------------------------
(***************************************************************************)
(* The machines of a lab on KVM hosts (LibvirtBackend) or on a Harvester   *)
(* cluster (HarvesterBackend of libs/backends.py): where a machine is      *)
(* placed and found again (libs/lab_creation.py), which address it gets    *)
(* (libs/ipalloc.py), how its disk and its seed are made, and how it is    *)
(* rebooted.  A run is one setup_lab, or one setup_vm for each node: the   *)
(* locks of backends.py, and the definition in memory, are one run's own.  *)
(*                                                                         *)
(* A worker is the sequence of calls it has left.  A host is reachable or  *)
(* not; a command to one that is not fails.  A machine takes one unit of   *)
(* its host's room.  MAC addresses are left out: they come from the name.  *)
(***************************************************************************)
EXTENDS Integers, Sequences, FiniteSets

CONSTANTS
    Nodes, NodeSeq,      \* the nodes, and their order in the definition
    Hosts, Room,         \* KVM_HOSTS, and the machines that fit on each
    Size, First,         \* addresses of the lab's network, and where a node's search begins
    Labs,                \* how the lab is built, see below
    MaxFaults            \* bound: things that go wrong

\* Harvester's machines are made by cloud-init and no other method (_require_cloud_init()).
ASSUME KvmVmsAssumption ==
    /\ NodeSeq \in Seq(Nodes) /\ Hosts # {} /\ Room \in [Hosts -> Nat]
    /\ Size \in Nat \ {0} /\ First \in [Nodes -> 1..Size] /\ MaxFaults \in Nat
    /\ Labs \subseteq [kind : {"libvirt", "harvester"}, caller : {"setup_lab", "setup_vm"},
                       method : {"ignition", "virt_customize", "autoinstall", "location", "cloud-init"},
                       parallel : BOOLEAN, keep : BOOLEAN, starts : Nat]
    /\ \A l \in Labs : l.kind = "harvester" => l.method = "cloud-init"

NoHost == "nowhere"

(***************************************************************************)
(* The calls of a worker                                                   *)
(***************************************************************************)
\* destroy_vm(), with the delete_vm() of the backend.
LibvirtDelete == <<"locate", "unregister", "destroy", "undefine">>
HarvesterDelete == <<"unregister", "stop", "delete">>

\* The disk image and the files of create_vm(), by config_method.
LibvirtFiles(method) ==
    CASE method = "ignition"       -> <<"copy", "push">>
      [] method = "virt_customize" -> <<"copy", "customize", "push">>
      [] method = "cloud-init"     -> <<"copy", "push", "stage", "seed">>
      [] OTHER                     -> <<"answer", "push">>

\* virt-install, and what follows it: an installer leaves the machine off, Ubuntu's with the
\* installer's kernel still in its definition.
ImageInstall == <<"install">>
CloudInitInstall == <<"install", "virsh-reboot">>
IsoInstall(method) == IF method = "autoinstall" THEN <<"install-iso", "virsh-destroy", "edit", "virsh-start">>
                                                ELSE <<"install-iso", "virsh-start">>
LibvirtCreate(method) ==
    CASE method = "cloud-init"                  -> CloudInitInstall
      [] method \in {"autoinstall", "location"} -> IsoInstall(method)
      [] OTHER                                  -> ImageInstall

\* HarvesterBackend: the image is imported beforehand; secret and machine are applied.
HarvesterCreate == <<"push", "apply">>

\* LibvirtBackend.reboot_vm(): the guest itself, else ACPI reboot, ACPI shutdown, reset.
LibvirtReboot == <<"probe", "virsh-reboot", "listen", "rebooted?", "virsh-shutdown", "listen", "stopped?",
                   "start-again", "reset">>
HarvesterReboot == <<"restart">>

\* provision_vm().
Provision(l) ==
    (IF l.kind = "libvirt" THEN <<"select", "allocate">> \o LibvirtFiles(l.method) \o LibvirtCreate(l.method)
                           ELSE <<"allocate">> \o HarvesterCreate)
    \o <<"register", "online">> \o (IF l.kind = "libvirt" THEN LibvirtReboot ELSE HarvesterReboot) \o <<"online">>

Program(l) == (IF l.keep THEN <<"keep?">> ELSE <<>>)
              \o (IF l.kind = "libvirt" THEN LibvirtDelete ELSE HarvesterDelete) \o Provision(l)

(***************************************************************************)
(* State                                                                   *)
(***************************************************************************)
VARIABLES
    lab,          \* the member of Labs
    reach,        \* hosts that answer
    domains,      \* [host, name, addr, seed, boot, on, up, pend, ev]: whose seed it has, what it boots
                  \* from, ACPI requests it has not acted on, an event since the last "listen"
    disks,        \* <<host, node>> -> "none", "image", or whose configuration is in the disk
    tmp,          \* whose files are in /tmp/user-data of each host
    isos,         \* <<host, node>> -> whose files are in <node>_ci.iso
    dns,          \* the addresses of the lab's zone, 0 for none
    past,         \* addresses machines have had
    def,          \* myip of each node, in the definition in memory of its run
    queue, work,  \* nodes of the run that have not begun, and the worker of each node
    starts, faults,   \* runs that may still be started, and what went wrong so far
    missed,       \* nodes with a machine that destroy_vm() could not find or remove
    upset         \* nodes whose guest did not reboot in time, or whose host or call failed

vars == <<lab, reach, domains, disks, tmp, isos, dns, past, def, queue, work, starts, faults, missed, upset>>
net == <<dns, def>>
files == <<disks, tmp, isos>>
run == <<lab, queue, starts>>
env == <<reach, past, faults, missed, upset>>

Idle == [todo |-> <<>>, host |-> NoHost, end |-> "none"]
Busy(n) == work[n].todo # <<>>
At(n, op) == Busy(n) /\ work[n].todo[1] = op
On(n) == work[n].host                           \* the host the worker's backend talks to
Cluster == CHOOSE h \in Hosts : TRUE            \* Harvester: one API for all its hosts
Has(h, n) == {d \in domains : d.host = h /\ d.name = n}
Mine(n) == Has(On(n), n)
Ups == {d \in domains : d.up /\ d.host \in reach}

Init ==
    /\ lab \in Labs /\ starts = lab.starts
    /\ reach = Hosts /\ domains = {} /\ disks = [x \in Hosts \X Nodes |-> "none"]
    /\ tmp = [h \in Hosts |-> "nobody"] /\ isos = [x \in Hosts \X Nodes |-> "nobody"]
    /\ dns = [n \in Nodes |-> 0] /\ past = {} /\ def = [n \in Nodes |-> 0]
    /\ queue = {} /\ work = [n \in Nodes |-> Idle]
    /\ faults = 0 /\ missed = {} /\ upset = {}

Did(n, k) == work' = [work EXCEPT ![n].todo = SubSeq(@, k + 1, Len(@)),
                                  ![n].end = IF Len(work[n].todo) = k THEN "ok" ELSE @]
Dies(n) == work' = [work EXCEPT ![n] = [Idle EXCEPT !.end = "failed"]]
\* The number of calls left up to and including the first op.
Upto(n, op) == CHOOSE i \in DOMAIN work[n].todo :
                   work[n].todo[i] = op /\ \A j \in 1..(i - 1) : work[n].todo[j] # op
Change(old, new) == domains' = (domains \ {old}) \cup {new}

(***************************************************************************)
(* Addresses                                                               *)
(***************************************************************************)
\* candidates(): every address, from the node's own onwards and around.
Candidate(n, i) == ((First[n] + i - 2) % Size) + 1

\* allocate(), with the addresses d of the definition and those seen in the neighbour table and
\* the leases of a host; 0 when there is none.  A machine that is up answers to ping.
Allocate(n, d, seen) ==
    LET taken == seen \cup {d[k] : k \in Nodes \ {n}} \cup {dns[k] : k \in Nodes} \cup {x.addr : x \in Ups}
        free == {i \in 1..Size : Candidate(n, i) \notin taken}
    IN  IF dns[n] # 0 THEN dns[n]
        ELSE IF free = {} THEN 0
        ELSE Candidate(n, CHOOSE i \in free : \A j \in free : i <= j)

\* list_used_ips() of one host: any of the addresses there have been.  Harvester has none.
Seen == IF lab.kind = "libvirt" THEN SUBSET past ELSE {{}}

\* MUTANT of AllocateAll: an address is not written into the definition before the next.
AllocateAllBlind(seen) ==
    [n \in Nodes |-> Allocate(n, [k \in Nodes |-> 0], seen[n])]

\* phase_allocate_ips(): one node after the other, each with those before it.
AllocateAll(seen) ==
    LET upto[i \in 0..Len(NodeSeq)] ==
          IF i = 0 THEN [n \in Nodes |-> 0]
          ELSE LET n == NodeSeq[i] IN [upto[i - 1] EXCEPT ![n] = Allocate(n, upto[i - 1], seen[n])]
    IN  upto[Len(NodeSeq)]

(***************************************************************************)
(* A run begins, and its workers                                           *)
(***************************************************************************)
Quiet == queue = {} /\ \A n \in Nodes : ~Busy(n)

\* select_kvm_host(): the hosts that answer and have room, counting what runs on them.
Free(h) == Room[h] - Cardinality({d \in domains : d.host = h /\ d.on})
Fitting == {h \in reach : Free(h) > 0}

\* setup_lab: the definition is read anew, and every node without an address gets one before
\* any VM is made.  Each allocation asks for a host; without one the run ends there.
StartLab ==
    /\ lab.caller = "setup_lab" /\ Quiet /\ starts > 0 /\ starts' = starts - 1
    /\ \E seen \in [Nodes -> Seen] :
         LET d == AllocateAll(seen)
         IN  IF (lab.kind = "libvirt" /\ Fitting = {}) \/ \E n \in Nodes : d[n] = 0
               THEN UNCHANGED <<def, queue>>
               ELSE def' = d /\ queue' = Nodes
    /\ UNCHANGED <<lab, domains, dns, files, work, env>>

\* setup_vm: one node, the addresses of the others are not in the file.
StartVm(n) ==
    /\ lab.caller = "setup_vm" /\ starts > 0 /\ starts' = starts - 1
    /\ IF lab.parallel THEN n \notin queue /\ ~Busy(n) ELSE Quiet
    /\ def' = [def EXCEPT ![n] = 0] /\ queue' = queue \cup {n}
    /\ UNCHANGED <<lab, domains, dns, files, work, env>>

\* _create_one_vm() of a node, one at a time or in the pool's threads.
Take(n) ==
    /\ n \in queue /\ queue' = queue \ {n}
    /\ lab.parallel \/ (\A k \in Nodes : ~Busy(k) /\ (k \in queue =>
          \E i \in 1..Len(NodeSeq) : NodeSeq[i] = n /\ \A j \in 1..(i - 1) : NodeSeq[j] # k))
    /\ work' = [work EXCEPT ![n] = [todo |-> Program(lab), end |-> "none",
                                    host |-> IF lab.kind = "libvirt" THEN NoHost ELSE Cluster]]
    /\ UNCHANGED <<lab, starts, domains, net, files, env>>

\* A query that a host does not answer, while it answers others.
Unanswered == faults < MaxFaults /\ faults' = faults + 1

\* vm_is_reusable() with --keep, on a host that says it has the VM.  A host that does not answer
\* is one that does not have it, and so is a query that fails.
Reusable(h, n) == /\ h \in reach /\ \E d \in Has(h, n) : d.on
                  /\ dns[n] = def[n] /\ \E x \in Ups : x.addr = dns[n]
\* MUTANT of Keep: a VM of the name is enough.
KeepByName(n) ==
    /\ At(n, "keep?")
    /\ \/ \E h \in reach : /\ Has(h, n) # {} /\ upset' = upset \ {n}
                           /\ work' = [work EXCEPT ![n] = [todo |-> <<>>, host |-> h, end |-> "ok"]]
       \/ (\A h \in reach : Has(h, n) = {}) /\ Did(n, 1) /\ UNCHANGED upset
    /\ UNCHANGED <<run, domains, net, files, reach, past, faults, missed>>

Keep(n) ==
    /\ At(n, "keep?")
    /\ \/ \E h \in Hosts :
            /\ Reusable(h, n) /\ work' = [work EXCEPT ![n] = [todo |-> <<>>, host |-> h, end |-> "ok"]]
            /\ upset' = IF \E d \in Has(h, n) : "shutdown" \in d.pend THEN upset ELSE upset \ {n}
            /\ UNCHANGED faults
       \/ /\ Did(n, 1) /\ UNCHANGED upset
          /\ \/ (\A h \in Hosts : ~Reusable(h, n)) /\ UNCHANGED faults
             \/ (\E h \in Hosts : Reusable(h, n)) /\ Unanswered
    /\ UNCHANGED <<run, domains, net, files, reach, past, missed>>

(***************************************************************************)
(* Commands: on a host that answers they take effect                       *)
(***************************************************************************)
Command(n, op) == At(n, op) /\ On(n) \in reach /\ UNCHANGED run
Quietly(n, op, k) == Command(n, op) /\ Did(n, k) /\ UNCHANGED <<domains, net, files, env>>
ToDomain(n, op, new(_)) ==
    /\ Command(n, op) /\ Did(n, 1) /\ UNCHANGED <<net, files, env>>
    /\ IF Mine(n) = {} THEN UNCHANGED domains ELSE \E d \in Mine(n) : Change(d, new(d))

\* MUTANT of Locate: the host of a node is where a VM would be placed now.
LocatePlaced(n) ==
    /\ At(n, "locate") /\ UNCHANGED <<run, domains, net, files, env>>
    /\ IF Fitting = {} THEN Did(n, Upto(n, "undefine"))
       ELSE \E h \in Fitting : work' = [work EXCEPT ![n].todo = Tail(@), ![n].host = h]

\* locate_kvm_host(): a host, of those that answered, with a domain of the name.  With none,
\* die(), which ends destroy_vm() and not the node.  (A single host is not asked: there the
\* commands that follow fail in its place.)
LocateAmong(n, answered) ==
    LET found == {h \in answered : Has(h, n) # {}}
    IN  /\ missed' = missed \cup {k \in {n} : \E h \in Hosts \ answered : Has(h, n) # {}}
        /\ IF found = {} THEN Did(n, Upto(n, "undefine"))
           ELSE \E h \in found : work' = [work EXCEPT ![n].todo = Tail(@), ![n].host = h]

Locate(n) ==
    /\ At(n, "locate") /\ UNCHANGED <<run, domains, net, files, reach, past, upset>>
    /\ \/ LocateAmong(n, reach) /\ UNCHANGED faults
       \/ \E h \in reach : Has(h, n) # {} /\ LocateAmong(n, reach \ {h}) /\ Unanswered

\* del_from_dns(), with the address of the definition or of the zone.
Unregister(n) == /\ At(n, "unregister") /\ Did(n, 1) /\ dns' = [dns EXCEPT ![n] = 0]
                 /\ UNCHANGED <<run, domains, def, files, env>>

\* The worker of the node waits for an event.
Heard(d) == At(d.name, "rebooted?") \/ At(d.name, "stopped?")
Off(d) == [d EXCEPT !.on = FALSE, !.up = FALSE, !.pend = {}, !.ev = Heard(d)]
Destroy(n) == ToDomain(n, "destroy", Off) \/ ToDomain(n, "stop", Off) \/ ToDomain(n, "virsh-destroy", Off)

\* virsh undefine --remove-all-storage, which refuses a domain that is running.
Undefine(n) ==
    /\ Command(n, "undefine") /\ Did(n, 1) /\ UNCHANGED <<net, tmp, isos, env>>
    /\ LET gone == {d \in Mine(n) : ~d.on}
       IN  /\ domains' = domains \ gone
           /\ disks' = IF gone = {} THEN disks ELSE [disks EXCEPT ![<<On(n), n>>] = "none"]
Delete(n) == /\ Command(n, "delete") /\ Did(n, 1) /\ domains' = domains \ Mine(n)
             /\ UNCHANGED <<net, files, env>>

\* MUTANT of Select: the room of a host is not asked for.
SelectAny(n) ==
    /\ At(n, "select") /\ UNCHANGED <<run, domains, net, files, env>>
    /\ IF reach = {} THEN Dies(n) ELSE \E h \in reach : work' = [work EXCEPT ![n].todo = Tail(@), ![n].host = h]

\* resolve_kvm_host(): of the hosts with room one with the most.
Select(n) ==
    /\ At(n, "select") /\ UNCHANGED <<run, domains, net, files, env>>
    /\ IF Fitting = {} THEN Dies(n)
       ELSE \E h \in Fitting : /\ \A g \in Fitting : Free(g) <= Free(h)
                               /\ work' = [work EXCEPT ![n].todo = Tail(@), ![n].host = h]

\* check_or_generate_ip(): only setup_vm still has an address to find.
AllocateIp(n) ==
    /\ At(n, "allocate") /\ UNCHANGED <<run, domains, dns, files, env>>
    /\ IF def[n] # 0 THEN Did(n, 1) /\ UNCHANGED def
       ELSE \E seen \in Seen :
              LET a == Allocate(n, [k \in Nodes |-> 0], seen)
              IN  def' = [def EXCEPT ![n] = a] /\ IF a = 0 THEN Dies(n) ELSE Did(n, 1)

(***************************************************************************)
(* Disk and seed                                                           *)
(***************************************************************************)
CopyImage(n) == /\ Command(n, "copy") /\ Did(n, 1) /\ disks' = [disks EXCEPT ![<<On(n), n>>] = "image"]
                /\ UNCHANGED <<domains, net, tmp, isos, env>>

\* prepare_virt_customize(): name, address and network configuration go into the disk.
Customize(n) == /\ Command(n, "customize") /\ Did(n, 1)
                /\ disks' = [disks EXCEPT ![<<On(n), n>>] = IF @ = "none" THEN @ ELSE n]
                /\ UNCHANGED <<domains, net, tmp, isos, env>>

\* The prepare_...() of the other methods write files of the node's own name, which are copied
\* to the host; a VM image of Harvester was imported, and its secret is of the node's name.
PushFiles(n) == Quietly(n, "push", 1)

\* prepare_install_iso(): the answer file of the installer, from a template that has to exist.
AnswerFile(n) == Quietly(n, "answer", 1)

\* The cloud-init files of the node are copied to names without the node's, then put in an ISO.
Stage(n) == /\ Command(n, "stage") /\ Did(n, 1) /\ tmp' = [tmp EXCEPT ![On(n)] = n]
            /\ UNCHANGED <<domains, net, disks, isos, env>>

Seed(n) == /\ Command(n, "seed") /\ Did(n, 1) /\ isos' = [isos EXCEPT ![<<On(n), n>>] = tmp[On(n)]]
           /\ UNCHANGED <<domains, net, disks, tmp, env>>

(***************************************************************************)
(* The domain                                                              *)
(***************************************************************************)
\* Whose configuration a new machine comes up with.
SeedOf(n) == CASE lab.method = "cloud-init" /\ lab.kind = "libvirt" -> isos[<<On(n), n>>]
               [] lab.method = "virt_customize"                     -> disks[<<On(n), n>>]
               [] OTHER                                             -> n
Domain(n, from, running) ==
    [host |-> On(n), name |-> n, seed |-> SeedOf(n), addr |-> IF SeedOf(n) \in Nodes THEN def[SeedOf(n)] ELSE 0,
     boot |-> from, on |-> running, up |-> FALSE, pend |-> {}, ev |-> FALSE]

\* virt-install refuses a name the host has.
Install(n) ==
    /\ Command(n, "install") /\ UNCHANGED <<net, files, env>>
    /\ IF Mine(n) # {} THEN Dies(n) /\ UNCHANGED domains
       ELSE Did(n, 1) /\ domains' = domains \cup {Domain(n, "disk", TRUE)}

\* virt-install --wait -1: the installer has run.  It ends with the machine off, or on again;
\* Ubuntu's would then start a second time.
InstallIso(n) ==
    /\ Command(n, "install-iso") /\ UNCHANGED <<net, tmp, isos, env>>
    /\ IF Mine(n) # {} THEN Dies(n) /\ UNCHANGED <<domains, disks>>
       ELSE /\ Did(n, 1) /\ disks' = [disks EXCEPT ![<<On(n), n>>] = n]
            /\ \E running \in BOOLEAN :
                 domains' = domains \cup {Domain(n, IF lab.method = "autoinstall" THEN "installer" ELSE "disk", running)}

\* MUTANT of EditBoot: the kernel and the command line of the installer stay.
EditBootNothing(n) == LET Same(d) == d IN ToDomain(n, "edit", Same)
EditBoot(n) == LET New(d) == [d EXCEPT !.boot = "disk"] IN ToDomain(n, "edit", New)

\* kubectl apply: a machine that is there is changed, and keeps running as it was.
Apply(n) ==
    /\ Command(n, "apply") /\ Did(n, 1) /\ UNCHANGED <<net, files, env>>
    /\ domains' = IF Mine(n) = {} THEN domains \cup {Domain(n, "disk", TRUE)} ELSE domains

StartDomain(n) ==
    LET New(d) == IF d.on THEN d ELSE [d EXCEPT !.on = TRUE]
    IN  ToDomain(n, "virsh-start", New) \/ ToDomain(n, "start-again", New)

\* add_to_dns().
Register(n) == /\ At(n, "register") /\ Did(n, 1) /\ dns' = [dns EXCEPT ![n] = def[n]]
               /\ UNCHANGED <<run, domains, def, files, env>>

\* check_ssh_conn(): port 22 of the address answers, or the limit is reached.
Online(n) == /\ At(n, "online") /\ UNCHANGED <<run, domains, net, files, env>>
             /\ IF \E x \in Ups : x.addr = def[n] THEN Did(n, 1) ELSE Dies(n)

(***************************************************************************)
(* Rebooting                                                               *)
(***************************************************************************)
Ask(d, what) == IF d.on THEN [d EXCEPT !.pend = @ \cup {what}] ELSE d

\* A guest that answers at its name is told to reboot itself.
Probe(n) ==
    LET there == {x \in Ups : x.addr = dns[n]}
    IN  /\ At(n, "probe") /\ UNCHANGED <<run, net, files, env>>
        /\ IF there = {} THEN Did(n, 1) /\ UNCHANGED domains
           ELSE Did(n, Upto(n, "reset")) /\ \E x \in there : Change(x, Ask(x, "reboot"))

AskReboot(n) == LET New(d) == Ask(d, "reboot") IN ToDomain(n, "virsh-reboot", New)
AskShutdown(n) ==
    /\ Command(n, "virsh-shutdown") /\ Did(n, 1) /\ upset' = upset \cup {n}
    /\ IF Mine(n) = {} THEN UNCHANGED domains ELSE \E d \in Mine(n) : Change(d, Ask(d, "shutdown"))
    /\ UNCHANGED <<net, files, reach, past, faults, missed>>

\* virsh event: only what happens from here on.
Listen(n) == LET New(d) == [d EXCEPT !.ev = FALSE] IN ToDomain(n, "listen", New)
Event(n) == \E d \in Mine(n) : d.ev
Rebooted(n) == Quietly(n, "rebooted?", IF Event(n) THEN Upto(n, "reset") ELSE 1)

\* Stopped, or taken for stopped: started again, without the reset.
Stopped(n) ==
    /\ Command(n, "stopped?") /\ UNCHANGED <<domains, net, files, env>>
    /\ IF Event(n) \/ \E d \in Mine(n) : ~d.on
         THEN work' = [work EXCEPT ![n].todo = <<"start-again">> \o SubSeq(@, Upto(n, "reset") + 1, Len(@))]
         ELSE Did(n, Upto(n, "start-again"))

Reset(n) == LET New(d) == [d EXCEPT !.up = FALSE]
            IN  ToDomain(n, "reset", New) \/ ToDomain(n, "restart", New)

(***************************************************************************)
(* What fails                                                              *)
(***************************************************************************)
\* A failure the code answers with die(), and one it does not look at; the die() of Harvester's
\* delete_vm() only ends destroy_vm().
Fatal == {"answer", "copy", "customize", "push", "stage", "seed", "install", "install-iso", "edit", "apply", "restart"}
Ignored == {"destroy", "undefine", "stop", "delete", "virsh-destroy", "virsh-start", "virsh-reboot", "virsh-shutdown",
            "listen", "rebooted?", "stopped?", "start-again", "reset"}

\* A command on a host that does not answer, or any other that fails.
CallFails(n) ==
    /\ \/ On(n) \notin reach /\ UNCHANGED faults
       \/ faults < MaxFaults /\ faults' = faults + 1
    /\ \/ \E op \in Fatal : At(n, op) /\ Dies(n)
       \/ \E op \in Ignored : At(n, op) /\ Did(n, 1)
    /\ upset' = upset \cup {n}
    /\ missed' = missed \cup {k \in {n} : At(n, "destroy") \/ At(n, "undefine") \/ At(n, "delete")}
    /\ UNCHANGED <<run, domains, net, files, reach, past>>

\* virtctl stop has a timeout nobody catches: the machine stays, and the run of setup_lab ends.
StopTimesOut(n) ==
    /\ At(n, "stop") /\ faults < MaxFaults /\ faults' = faults + 1
    /\ Dies(n) /\ queue' = IF lab.parallel THEN queue ELSE {}
    /\ missed' = missed \cup {n}
    /\ UNCHANGED <<lab, starts, domains, net, files, reach, past, upset>>

HostDown(h) == /\ h \in reach /\ faults < MaxFaults /\ faults' = faults + 1 /\ reach' = reach \ {h}
               /\ upset' = upset \cup {n \in Nodes : Has(h, n) # {} \/ On(n) = h}
               /\ UNCHANGED <<run, domains, net, files, past, work, missed>>
HostUp(h) == /\ h \notin reach /\ reach' = reach \cup {h}
             /\ UNCHANGED <<run, domains, net, files, past, work, faults, missed, upset>>

(***************************************************************************)
(* The guests                                                              *)
(***************************************************************************)
Guest(d, new) == Change(d, new) /\ UNCHANGED <<run, net, files, reach, work, missed>>

Boots(d) == /\ d.on /\ d.boot = "disk" /\ d.addr # 0 /\ ~d.up
            /\ Guest(d, [d EXCEPT !.up = TRUE]) /\ past' = past \cup {d.addr} /\ UNCHANGED <<faults, upset>>
Hangs(d) == /\ d.up /\ faults < MaxFaults /\ faults' = faults + 1 /\ upset' = upset \cup {d.name}
            /\ Guest(d, [d EXCEPT !.up = FALSE]) /\ UNCHANGED past
\* An ACPI request is acted on, at once or long after it was made.
Acts(d) == \/ /\ d.on /\ "reboot" \in d.pend
              /\ Guest(d, [d EXCEPT !.up = FALSE, !.pend = @ \ {"reboot"}, !.ev = Heard(d)])
              /\ UNCHANGED <<past, faults, upset>>
           \/ /\ d.on /\ "shutdown" \in d.pend
              /\ Guest(d, Off(d)) /\ UNCHANGED <<past, faults, upset>>

\* The calls a worker makes.
Step(n) ==
    \/ Keep(n) \/ Locate(n) \/ Unregister(n) \/ Destroy(n) \/ Undefine(n) \/ Delete(n)
    \/ Select(n) \/ AllocateIp(n) \/ CopyImage(n) \/ Customize(n) \/ AnswerFile(n) \/ PushFiles(n) \/ Stage(n) \/ Seed(n)
    \/ Install(n) \/ InstallIso(n) \/ EditBoot(n) \/ Apply(n) \/ StartDomain(n) \/ Register(n) \/ Online(n)
    \/ Probe(n) \/ AskReboot(n) \/ AskShutdown(n) \/ Listen(n) \/ Rebooted(n) \/ Stopped(n) \/ Reset(n)
    \/ CallFails(n)

Next ==
    \/ StartLab
    \/ \E n \in Nodes : StartVm(n) \/ Take(n) \/ Step(n) \/ StopTimesOut(n)
    \/ \E h \in Hosts : HostDown(h) \/ HostUp(h)
    \/ \E d \in domains : Boots(d) \/ Hangs(d) \/ Acts(d)

Spec == Init /\ [][Next]_vars

(***************************************************************************)
(* Properties                                                              *)
(***************************************************************************)
TypeOK ==
    /\ lab \in Labs /\ reach \subseteq Hosts /\ queue \subseteq Nodes /\ missed \cup upset \subseteq Nodes
    /\ domains \subseteq [host : Hosts, name : Nodes, addr : 0..Size, seed : Nodes \cup {"image", "none", "nobody"},
                          boot : {"disk", "installer"}, on : BOOLEAN, up : BOOLEAN,
                          pend : SUBSET {"reboot", "shutdown"}, ev : BOOLEAN]
    /\ disks \in [Hosts \X Nodes -> Nodes \cup {"none", "image"}]
    /\ tmp \in [Hosts -> Nodes \cup {"nobody"}] /\ isos \in [Hosts \X Nodes -> Nodes \cup {"nobody"}]
    /\ dns \in [Nodes -> 0..Size] /\ def \in [Nodes -> 0..Size] /\ past \subseteq 1..Size
    /\ \A n \in Nodes : /\ work[n].host \in Hosts \cup {NoHost} /\ work[n].end \in {"none", "ok", "failed"}
                        /\ \A i \in DOMAIN work[n].todo : work[n].todo[i] \in
                               {Program(lab)[j] : j \in DOMAIN Program(lab)}
    /\ starts \in 0..lab.starts /\ faults \in 0..MaxFaults

\* The cloud-init files of a node stay its own until they are in its ISO.
OwnFiles == ~lab.parallel \/ lab.method # "cloud-init" \/ lab.kind = "harvester"

\* No two nodes of a lab have an address in common, in its definition and on the machines that boot
\* from disk, through failures and rebuilds (phase_allocate_ips(), allocate()); and addresses,
\* machines and files are those of the lab (TypeOK).
AddressesDistinct == TypeOK /\
    (lab.caller = "setup_lab" =>
      /\ \A m, n \in Nodes : m # n /\ def[m] # 0 => def[m] # def[n]
      /\ OwnFiles => \A d, e \in {x \in domains : x.boot = "disk" /\ x.name \notin missed} :
                        d.name # e.name => d.addr # e.addr \/ d.addr = 0)

\* A machine comes up with its own configuration: the files of push_provisioning_files() and the
\* disk of prepare_virt_customize() are the node's.
OwnConfiguration == OwnFiles => \A d \in domains : d.seed = d.name

\* The same with workers in parallel: "The shared state that the workers touch is protected"
\* (phase_create_vms()).
OwnSeed == \A d \in domains : d.seed = d.name

\* The machines that run on a host fit on it, wherever nodes are placed and rebuilt
\* (select_kvm_host()); with workers in parallel this does not hold.
Fits == ~lab.parallel /\ lab.kind = "libvirt" => \A h \in Hosts : Free(h) >= 0

\* A node that was provisioned has its machine on the host that was chosen, from its own disk, at the
\* address that is in the DNS (provision_vm()), and every machine has its own configuration.
OkRunning == OwnConfiguration /\
    (OwnFiles => \A n \in Nodes \ (upset \cup missed \cup queue) : work[n].end = "ok" =>
      \E d \in Mine(n) : d.on /\ d.boot = "disk" /\ d.addr = def[n] /\ dns[n] = def[n])

\* The machines of the nodes, except those that destroy_vm() could not get at, are a registry
\* of machines: at most one of a name, and it is the one provision_vm() ended with.
Registry == INSTANCE MachineRegistry WITH
    Names <- Nodes, Ids <- Hosts \X Nodes, None <- <<>>,
    at <- [n \in Nodes |-> IF n \in missed THEN {} ELSE {<<d.host, n>> : d \in {x \in domains : x.name = n}}],
    told <- [n \in Nodes |-> IF n \in missed \/ work[n].end # "ok" THEN <<>> ELSE <<On(n), n>>]
IsRegistry == Registry!Spec
=============================================================================
