------------------------------ MODULE CloudVms ------------------------------
(***************************************************************************)
(* The machines of a lab on a cloud (libs/backends.py: HetznerBackend ...  *)
(* ExoscaleBackend), as destroy_vm.py and provision_vm() of setup_vm.py    *)
(* make and remove them: a worker destroys its node's machine, launches a  *)
(* new one, opens its ports, finds or makes the account's DNS machine and, *)
(* with an overlay, the site's gateway, and registers the node.            *)
(*                                                                         *)
(* A worker is the sequence of calls it has left.  What differs between    *)
(* the providers is their sequences: a machine is launched by one call or  *)
(* by three, looked up by name or by the id create_vm() kept, its ports    *)
(* are opened in a group of all machines, in one of its own or nowhere.    *)
(* A machine's address stands for the machine.  No name is unique, but on  *)
(* Hetzner and GCP the provider refuses a second machine of a name.        *)
(***************************************************************************)
EXTENDS Naturals, Sequences, FiniteSets

CONSTANTS
    Nodes,        \* the nodes of the lab, each with its worker
    Labs,         \* labs: provider, mode of the run ("turn": one worker at a time, "parallel":
                  \* setup_lab --parallel), overlay or not, and the bound on workers started
    MaxFaults     \* bound: calls that fail

Shared == {"dns", "gw"}            \* machines that every lab of the account uses
Providers == {"hetzner", "aws", "gcp", "alibaba", "scaleway", "upcloud", "ovhcloud", "exoscale"}

\* The names of the shared machines ("lab-dns-<backend>"), and that of the rule for SSH, are no node's.
ASSUME CloudVmsAssumption ==
    /\ Labs \subseteq [cloud : Providers, mode : {"turn", "parallel"}, overlay : BOOLEAN, starts : Nat]
    /\ Nodes \cap (Shared \cup {"ssh"}) = {} /\ MaxFaults \in Nat

Call(op, x) == [op |-> op, name |-> x]

(***************************************************************************)
(* The providers                                                           *)
(***************************************************************************)
\* MUTANT of AWSFind: look-ups go by the name alone.
AWSFindByName == [kept |-> FALSE, refused |-> FALSE]

\* _find_server() or _find_instance(): whether the id of create_vm() is kept, and
\* whether the provider refuses a second machine of a name.
HetznerFind == [kept |-> FALSE, refused |-> TRUE]
AWSFind == [kept |-> TRUE,  refused |-> FALSE]
GCPFind == [kept |-> FALSE, refused |-> TRUE]
AlibabaFind == [kept |-> FALSE, refused |-> FALSE]
ScalewayFind == [kept |-> FALSE, refused |-> FALSE]
UpCloudFind == [kept |-> FALSE, refused |-> FALSE]
OVHcloudFind == [kept |-> FALSE, refused |-> FALSE]
ExoscaleFind == [kept |-> FALSE, refused |-> FALSE]

\* MUTANT of Delete: the machine is looked up and left.
DeleteNothing(x) == <<Call("find", x)>>

\* delete_vm() looks the machine up, and is done when there is none.
Delete(x) == <<Call("find", x), Call("delete", x)>>

\* reboot_vm(): GCP reboots by name, without a look-up.
HetznerPower(x) == <<Call("find", x), Call("reboot", x)>>
AWSPower(x) == <<Call("find", x), Call("reboot", x)>>
GCPPower(x) == <<Call("reboot", x)>>
AlibabaPower(x) == <<Call("find", x), Call("reboot", x)>>
ScalewayPower(x) == <<Call("find", x), Call("reboot", x)>>
UpCloudPower(x) == <<Call("find", x), Call("reboot", x)>>
OVHcloudPower(x) == <<Call("find", x), Call("reboot", x)>>
ExoscalePower(x) == <<Call("find", x), Call("reboot", x)>>

\* AWS: the VPC gets an Internet Gateway and a route to it.
InternetGateway == <<Call("gateway?", "vpc"), Call("make-gateway", "vpc"), Call("attach-gateway", "vpc"),
                     Call("route?", "vpc"), Call("add-route", "vpc")>>
\* AWS: one group has the rules of all machines; those it lacks are added one by one.
SecurityGroup(x) == <<Call("rules?", x), Call("rule", "ssh"), Call("rule", x)>>

\* create_vm(), up to the address.
HetznerCreate(x) == <<Call("create", x), Call("address", x)>>
AWSCreate(x) == InternetGateway \o SecurityGroup(x) \o <<Call("create", x), Call("address", x)>>
GCPCreate(x) == <<Call("create", x), Call("address", x)>>
AlibabaCreate(x) == <<Call("create", x), Call("address", x)>>
ScalewayCreate(x) == <<Call("create-off", x), Call("user-data", x), Call("power-on", x), Call("address", x)>>
UpCloudCreate(x) == <<Call("create", x), Call("address", x)>>
OVHcloudCreate(x) == <<Call("create", x), Call("address", x)>>
ExoscaleCreate(x) == <<Call("create", x), Call("address", x)>>

\* MUTANT of GCPPorts: the new machine does not get the tag of the rule.
GCPPortsUntagged(x) == <<Call("put-rule", x)>>

\* open_vm_ports(): the other four providers let everything in.
AWSPorts(x) == SecurityGroup(x)
GCPPorts(x) == <<Call("put-rule", x), Call("tag", x)>>
AlibabaPorts(x) == <<Call("put-rule", x)>>
ExoscalePorts(x) == <<Call("put-rule", x), Call("tag", x)>>

\* use_dns_server(), on AWS: the DHCP options of the VPC name the DNS machine.
UseDnsServer == <<Call("dhcp?", "dns"), Call("make-options", "dns"), Call("dhcp", "dns")>>
\* disable_source_dest_check() and allow_internal_traffic(), on AWS.
Forwarding == <<Call("find", "gw"), Call("forward", "gw")>>
InternalTraffic == <<Call("rules?", "internal"), Call("rule", "internal")>>

Find == [hetzner |-> HetznerFind, aws |-> AWSFind, gcp |-> GCPFind, alibaba |-> AlibabaFind,
         scaleway |-> ScalewayFind, upcloud |-> UpCloudFind, ovhcloud |-> OVHcloudFind,
         exoscale |-> ExoscaleFind]
Create(c, x) ==
    CASE c = "hetzner"  -> HetznerCreate(x)  [] c = "aws"      -> AWSCreate(x)
      [] c = "gcp"      -> GCPCreate(x)      [] c = "alibaba"  -> AlibabaCreate(x)
      [] c = "scaleway" -> ScalewayCreate(x) [] c = "upcloud"  -> UpCloudCreate(x)
      [] c = "ovhcloud" -> OVHcloudCreate(x) [] c = "exoscale" -> ExoscaleCreate(x)
Reboot(c, x) ==
    CASE c = "hetzner"  -> HetznerPower(x)  [] c = "aws"      -> AWSPower(x)
      [] c = "gcp"      -> GCPPower(x)      [] c = "alibaba"  -> AlibabaPower(x)
      [] c = "scaleway" -> ScalewayPower(x) [] c = "upcloud"  -> UpCloudPower(x)
      [] c = "ovhcloud" -> OVHcloudPower(x) [] c = "exoscale" -> ExoscalePower(x)
OpenPorts(c, x) ==
    CASE c = "aws" -> AWSPorts(x) [] c = "gcp" -> GCPPorts(x) [] c = "alibaba" -> AlibabaPorts(x)
      [] c = "exoscale" -> ExoscalePorts(x) [] OTHER -> <<>>

\* MUTANT of EnsureShared: a machine is made whether there is one or not.
EnsureSharedAnew(c, s) == Create(c, s) \o <<Call("ready", s)>>

\* ensure_cloud_dns_vm(), ensure_overlay_hub(), ensure_site_gateway_vm(): a machine of
\* the name is used as it is; else one is made, and has to come up.
EnsureShared(c, s) == <<Call("reuse", s)>> \o Create(c, s) \o <<Call("ready", s)>>

\* The gateway of the site, or the hub of the overlay.
EnsureGateway(c) == EnsureShared(c, "gw") \o (IF c = "aws" THEN Forwarding \o InternalTraffic ELSE <<>>)

\* provision_vm() of node n on cloud c.
Provision(c, n, withGw) ==
    Create(c, n) \o OpenPorts(c, n) \o EnsureShared(c, "dns") \o (IF c = "aws" THEN UseDnsServer ELSE <<>>)
    \o <<Call("register", n), Call("online", n)>> \o Reboot(c, n) \o <<Call("online", n)>>
    \o (IF withGw THEN EnsureGateway(c) ELSE <<>>)

(***************************************************************************)
(* State                                                                   *)
(***************************************************************************)
VARIABLES
    cloud, mode, overlay,   \* of the lab
    machines,     \* [id, name, on, data, addr, up]: on, given its user data, with an address, ready
    net,          \* AWS: Internet Gateway attached, default route, DNS machine the DHCP options name
    rules,        \* owners of rules that let traffic in
    groups,       \* <<machine, owner of the rule>>
    records,      \* <<DNS machine, node, machine>>
    work,         \* each worker
    starts, faults,   \* workers that may still be started, and calls that failed
    made,         \* machines made so far
    undeleted,    \* nodes whose destruction failed at some time
    unsure        \* a shared machine was not made to the end or stopped, or a record was lost

vars == <<cloud, mode, overlay, machines, net, rules, groups, records, work, starts, faults, made,
          undeleted, unsure>>
lab == <<cloud, mode, overlay>>
account == <<net, rules, groups, records>>
ghosts == <<undeleted, unsure>>

\* A worker: the calls left, the machine last looked up, the rules its group lacked, the
\* machines it made, its node's and the DNS machine as it knows them, and how it ended.
Idle == [todo |-> <<>>, seen |-> 0, lack |-> {}, mine |-> {}, own |-> 0, got |-> 0, dns |-> 0, end |-> "none"]
Busy(n) == work[n].todo # <<>>
At(n, op) == Busy(n) /\ work[n].todo[1].op = op
Name(n) == work[n].todo[1].name
Destroying(n) == Busy(n) /\ \E i \in DOMAIN work[n].todo : work[n].todo[i].op = "delete"

\* The machines that a look-up of worker n for x can return.
Lookup(n, x) ==
    LET all == {m \in machines : m.name = x}
        own == {m \in all : m.id \in work[n].mine}
    IN  IF Find[cloud].kept /\ own # {} THEN own ELSE all

Init ==
    /\ \E l \in Labs : cloud = l.cloud /\ mode = l.mode /\ overlay = l.overlay /\ starts = l.starts
    /\ machines = {} /\ made = 0
    /\ net = [attached |-> FALSE, routed |-> FALSE, dhcp |-> 0]
    /\ rules = {} /\ groups = {} /\ records = {}
    /\ work = [n \in Nodes |-> Idle]
    /\ faults = 0
    /\ undeleted = {} /\ unsure = FALSE

\* Worker n, now w, has done its first k calls.
DidWith(n, k, w) ==
    work' = [work EXCEPT ![n] = IF Len(w.todo) = k
                                THEN [Idle EXCEPT !.own = w.own, !.got = w.got, !.end = "ok"]
                                ELSE [w EXCEPT !.todo = SubSeq(@, k + 1, Len(@))]]
Did(n, k) == DidWith(n, k, work[n])
\* die() or an exception: the node has failed, perhaps with a shared machine half made.
Dies(n) == /\ work' = [work EXCEPT ![n] = [Idle EXCEPT !.end = "failed"]]
           /\ unsure' = (unsure \/ \E i \in DOMAIN work[n].todo :
                                     /\ work[n].todo[i].op = "ready"
                                     /\ \A j \in 1..i : work[n].todo[j].op # "reuse")

(***************************************************************************)
(* The calls                                                               *)
(***************************************************************************)
\* setup_lab or setup_vm comes to node n: its records and machine go first.
Start(n) ==
    /\ ~Busy(n) /\ starts > 0
    /\ mode = "turn" => \A k \in Nodes : ~Busy(k)
    /\ starts' = starts - 1
    /\ work' = [work EXCEPT ![n] = [Idle EXCEPT !.todo = <<Call("unregister", n)>> \o Delete(n)
                                                          \o Provision(cloud, n, overlay)]]
    /\ UNCHANGED <<lab, account, machines, faults, made, ghosts>>

\* destroy_vm(): the record goes from the DNS machine that a look-up returns.
Unregister(n) ==
    /\ At(n, "unregister")
    /\ \/ Lookup(n, "dns") = {} /\ UNCHANGED records
       \/ \E d \in Lookup(n, "dns") : records' = {r \in records : ~(r[1] = d.id /\ r[2] = n)}
    /\ Did(n, 1)
    /\ UNCHANGED <<lab, net, rules, groups, machines, starts, faults, made, ghosts>>

\* A look-up before a call: delete_vm() and disable_source_dest_check() return when there is
\* nothing, reboot_vm() dies.
FindCall(n) ==
    /\ At(n, "find")
    /\ \/ \E m \in Lookup(n, Name(n)) : DidWith(n, 1, [work[n] EXCEPT !.seen = m.id]) /\ UNCHANGED unsure
       \/ Lookup(n, Name(n)) = {} /\ work[n].todo[2].op # "reboot" /\ Did(n, 2) /\ UNCHANGED unsure
       \/ Lookup(n, Name(n)) = {} /\ work[n].todo[2].op = "reboot" /\ Dies(n)
    /\ UNCHANGED <<lab, account, machines, starts, faults, made, undeleted>>

\* The machine goes, and the provider may report a failure all the same.
DeleteCall(n) ==
    /\ At(n, "delete")
    /\ machines' = {m \in machines : m.id # work[n].seen}
    /\ groups' = {g \in groups : g[1] # work[n].seen}
    /\ Did(n, 1)
    /\ \/ UNCHANGED <<faults, undeleted>>
       \/ faults < MaxFaults /\ faults' = faults + 1 /\ undeleted' = undeleted \cup {n}
    /\ UNCHANGED <<lab, net, rules, records, starts, made, unsure>>

\* destroy_vm() fails, and the node is provisioned all the same.
DestroyFails(n) ==
    /\ Destroying(n) /\ faults < MaxFaults
    /\ faults' = faults + 1
    /\ undeleted' = undeleted \cup {n}
    /\ Did(n, CHOOSE i \in 1..3 : work[n].todo[i].op = "delete")
    /\ UNCHANGED <<lab, account, machines, starts, made, unsure>>

\* The provider makes a machine of the name that worker n is at.
Making(n, on) ==
    /\ machines' = machines \cup {[id |-> made + 1, name |-> Name(n), on |-> on, data |-> on,
                                   addr |-> FALSE, up |-> FALSE]}
    /\ made' = made + 1

CreateCall(n) ==
    /\ At(n, "create") \/ At(n, "create-off")
    /\ IF Find[cloud].refused /\ \E m \in machines : m.name = Name(n)
       THEN Dies(n) /\ UNCHANGED <<machines, made>>
       ELSE /\ Making(n, At(n, "create"))
            /\ DidWith(n, 1, [work[n] EXCEPT !.seen = made + 1, !.mine = @ \cup {made + 1},
                                             !.own = IF Name(n) = n THEN made + 1 ELSE @])
            /\ UNCHANGED unsure
    /\ UNCHANGED <<lab, account, starts, faults, undeleted>>

\* Scaleway: the user data of a machine that is off, and its power.
SetUp(n) ==
    /\ At(n, "user-data") \/ At(n, "power-on")
    /\ machines' = {IF m.id # work[n].seen THEN m
                    ELSE [m EXCEPT !.data = TRUE, !.on = At(n, "power-on")] : m \in machines}
    /\ Did(n, 1)
    /\ UNCHANGED <<lab, account, starts, faults, made, ghosts>>

\* The machine m that a look-up for x returned, as worker w knows it from now on.
Knows(w, n, x, m) == [w EXCEPT !.seen = m.id, !.got = IF x = n THEN m.id ELSE @,
                               !.dns = IF x = "dns" THEN m.id ELSE @]

\* MUTANT of Address: without a timeout.
AddressForever(n) ==
    /\ At(n, "address")
    /\ \E m \in Lookup(n, Name(n)) : m.addr /\ DidWith(n, 1, Knows(work[n], n, Name(n), m))
    /\ UNCHANGED <<lab, account, machines, starts, faults, made, ghosts>>

\* _poll_for_ip(): the address of a machine of the name, or a timeout.
Address(n) ==
    /\ At(n, "address")
    /\ \/ \E m \in Lookup(n, Name(n)) :
            m.addr /\ DidWith(n, 1, Knows(work[n], n, Name(n), m)) /\ UNCHANGED unsure
       \/ (\A m \in Lookup(n, Name(n)) : ~m.addr) /\ Dies(n)
    /\ UNCHANGED <<lab, account, machines, starts, faults, made, undeleted>>

\* wait_for_ssh_command() for a shared machine, check_ssh_conn() for the node: it answers,
\* or a timeout.
Ready(n) ==
    /\ At(n, "ready") \/ At(n, "online")
    /\ LET i == IF At(n, "ready") THEN work[n].seen ELSE work[n].got
       IN  \/ (\E m \in machines : m.id = i /\ m.up) /\ Did(n, 1) /\ UNCHANGED unsure
           \/ (\A m \in machines : m.id = i => ~m.up) /\ Dies(n)
    /\ UNCHANGED <<lab, account, machines, starts, faults, made, undeleted>>

\* A shared machine that is there needs an address, and no more.  (vm_exists() and get_ip(), as
\* one step: no lab deletes a shared machine, so one that exists still does when it is asked.)
Reuse(n) ==
    /\ At(n, "reuse")
    /\ \/ Lookup(n, Name(n)) = {} /\ Did(n, 1) /\ UNCHANGED unsure
       \/ \E m \in Lookup(n, Name(n)) :
            /\ m.addr /\ UNCHANGED unsure
            /\ DidWith(n, CHOOSE i \in DOMAIN work[n].todo : work[n].todo[i] = Call("ready", Name(n)),
                       Knows(work[n], n, Name(n), m))
       \/ (\E m \in Lookup(n, Name(n)) : ~m.addr) /\ Dies(n)
    /\ UNCHANGED <<lab, account, machines, starts, faults, made, undeleted>>

\* add_to_dns() with replace, on the DNS machine: one without its zone, or stopped, takes no
\* record, and nobody is told.
Register(n) ==
    /\ At(n, "register")
    /\ records' = IF \E d \in machines : d.id = work[n].dns /\ d.up
                  THEN {r \in records : ~(r[1] = work[n].dns /\ r[2] = n)} \cup {<<work[n].dns, n, work[n].got>>}
                  ELSE records
    /\ Did(n, 1)
    /\ UNCHANGED <<lab, net, rules, groups, machines, starts, faults, made, ghosts>>

\* A reboot or the check of forwarding changes nothing here.
NoEffect(n) ==
    /\ At(n, "reboot") \/ At(n, "forward")
    /\ Did(n, 1)
    /\ UNCHANGED <<lab, account, machines, starts, faults, made, ghosts>>

(***************************************************************************)
(* The network of the account                                              *)
(***************************************************************************)
NetLook(n) ==
    /\ \/ At(n, "gateway?") /\ Did(n, IF net.attached THEN 3 ELSE 1)
       \/ At(n, "route?")   /\ Did(n, IF net.routed THEN 2 ELSE 1)
       \/ At(n, "dhcp?")    /\ Did(n, IF net.dhcp = work[n].dns THEN 3 ELSE 1)
       \/ At(n, "make-gateway") /\ Did(n, 1)
       \/ At(n, "make-options") /\ Did(n, 1)
    /\ UNCHANGED <<lab, account, machines, starts, faults, made, ghosts>>

\* A VPC has one gateway, and a table one default route: the second is refused.
NetCall(n) ==
    /\ \/ /\ At(n, "attach-gateway") /\ ~net.attached
          /\ net' = [net EXCEPT !.attached = TRUE] /\ Did(n, 1) /\ UNCHANGED unsure
       \/ /\ At(n, "add-route") /\ ~net.routed
          /\ net' = [net EXCEPT !.routed = TRUE] /\ Did(n, 1) /\ UNCHANGED unsure
       \/ /\ (At(n, "attach-gateway") /\ net.attached) \/ (At(n, "add-route") /\ net.routed)
          /\ Dies(n) /\ UNCHANGED net
       \/ /\ At(n, "dhcp") /\ net' = [net EXCEPT !.dhcp = work[n].dns]
          /\ Did(n, 1) /\ UNCHANGED unsure
    /\ UNCHANGED <<lab, rules, groups, records, machines, starts, faults, made, undeleted>>

\* AWS adds the rules its group lacked; one that another worker has added since is refused.
AddRules(n) ==
    /\ \/ /\ At(n, "rules?") /\ UNCHANGED <<rules, unsure>>
          /\ DidWith(n, 1, [work[n] EXCEPT !.lack = {"ssh", Name(n)} \ rules])
       \/ /\ At(n, "rule") /\ Name(n) \notin work[n].lack
          /\ Did(n, 1) /\ UNCHANGED <<rules, unsure>>
       \/ /\ At(n, "rule") /\ Name(n) \in work[n].lack \ rules
          /\ rules' = rules \cup {Name(n)} /\ Did(n, 1) /\ UNCHANGED unsure
       \/ /\ At(n, "rule") /\ Name(n) \in work[n].lack \cap rules
          /\ Dies(n) /\ UNCHANGED rules
    /\ UNCHANGED <<lab, net, groups, records, machines, starts, faults, made, undeleted>>

\* The others take a rule that is there for success; a machine of the name joins it.  (GCP lists
\* the rules and then creates or updates one: the rule has the node's name and no other worker's.)
PutRules(n) ==
    /\ \/ At(n, "put-rule") /\ rules' = rules \cup {Name(n)} /\ UNCHANGED groups
       \/ /\ At(n, "tag") /\ UNCHANGED rules
          /\ \E m \in Lookup(n, n) : groups' = groups \cup {<<m.id, n>>}
    /\ Did(n, 1)
    /\ UNCHANGED <<lab, net, records, machines, starts, faults, made, ghosts>>

(***************************************************************************)
(* Failures, the operator, and the machines                                *)
(***************************************************************************)
\* A call that fails ends the node's run; a machine may have been made all the same.
CallFails(n) ==
    /\ Busy(n) /\ ~At(n, "delete") /\ ~At(n, "register") /\ faults < MaxFaults
    /\ faults' = faults + 1
    /\ Dies(n)
    /\ \/ UNCHANGED <<machines, made>>
       \/ /\ At(n, "create") \/ At(n, "create-off")
          /\ ~(Find[cloud].refused /\ \E m \in machines : m.name = Name(n))
          /\ Making(n, At(n, "create"))
    /\ UNCHANGED <<lab, account, starts, undeleted>>

\* The record is sent with check=False: a failure is not noticed.
RecordLost(n) ==
    /\ At(n, "register") /\ faults < MaxFaults
    /\ faults' = faults + 1
    /\ Did(n, 1) /\ unsure' = TRUE
    /\ UNCHANGED <<lab, account, machines, starts, made, undeleted>>

\* vm_power.py: stop_vm() and start_vm() of a machine of name x.
PowerOff(x) ==
    /\ faults < MaxFaults /\ faults' = faults + 1
    /\ \E m \in machines : /\ m.name = x /\ m.on
                           /\ machines' = (machines \ {m}) \cup {[m EXCEPT !.on = FALSE, !.up = FALSE]}
    /\ unsure' = (unsure \/ x \in Shared)
    /\ UNCHANGED <<lab, account, work, starts, made, undeleted>>
PowerOn(x) ==
    /\ \E m \in machines : /\ m.name = x /\ ~m.on /\ m.addr
                           /\ machines' = (machines \ {m}) \cup {[m EXCEPT !.on = TRUE]}
    /\ UNCHANGED <<lab, account, work, starts, faults, made, ghosts>>

\* A machine that is on gets its address; cloud-init then does what its user data says.
Boots(m) ==
    /\ m.on /\ ~m.up /\ (m.addr => m.data)
    /\ machines' = (machines \ {m}) \cup {[m EXCEPT !.addr = TRUE, !.up = m.addr]}
    /\ UNCHANGED <<lab, account, work, starts, faults, made, ghosts>>

Step(n) == Unregister(n) \/ FindCall(n) \/ DeleteCall(n) \/ CreateCall(n) \/ SetUp(n) \/ Address(n)
           \/ Ready(n) \/ Reuse(n) \/ Register(n) \/ NoEffect(n) \/ NetLook(n) \/ NetCall(n)
           \/ AddRules(n) \/ PutRules(n)

Next == \/ \E n \in Nodes : Start(n) \/ Step(n) \/ DestroyFails(n) \/ CallFails(n) \/ RecordLost(n)
        \/ \E x \in Nodes \cup Shared : PowerOff(x) \/ PowerOn(x)
        \/ \E m \in machines : Boots(m)

\* A worker goes on by itself: every wait of the code has a timeout.
Spec == Init /\ [][Next]_vars /\ \A n \in Nodes : WF_vars(Step(n))

(***************************************************************************)
(* Properties                                                              *)
(***************************************************************************)
TypeOK ==
    /\ \E l \in Labs : cloud = l.cloud /\ mode = l.mode /\ overlay = l.overlay /\ starts \in 0..l.starts
    /\ \A m \in machines : m.id \in 1..made /\ m.name \in Nodes \cup Shared
    /\ \A m1, m2 \in machines : m1.id = m2.id => m1 = m2
    /\ \A n \in Nodes : /\ work[n].end \in {"none", "ok", "failed"}
                        /\ {work[n].seen, work[n].own, work[n].got, work[n].dns} \cup work[n].mine \subseteq 0..made
    /\ \A r \in records : r[1] \in 1..made /\ r[2] \in Nodes /\ r[3] \in 1..made
    /\ net.dhcp \in 0..made /\ undeleted \subseteq Nodes /\ unsure \in BOOLEAN
    /\ faults \in 0..MaxFaults

\* provision_vm() (setup_vm.py:205-209) puts into the lab definition, and into DNS, the
\* address of the machine it made: always on AWS, whose look-ups use the id of create_vm(),
\* elsewhere unless a machine of the name outlived its destruction; and no two machines are one (TypeOK).
OwnAddress == TypeOK /\
    \A n \in Nodes : work[n].got # 0 /\ (cloud = "aws" \/ n \notin undeleted) =>
        work[n].got = work[n].own /\ \A k \in Nodes \ {n} : work[k].got # work[n].got

\* ensure_cloud_dns_vm() (backends.py:4177-4254) and its twins in overlay.py leave one
\* machine of a shared name, when workers take turns, or when the provider refuses two.
OneSharedVm ==
    mode = "turn" \/ Find[cloud].refused =>
        \A m1, m2 \in machines : m1.name = m2.name /\ m1.name \in Shared => m1 = m2

PortsOpen ==
    \A n \in Nodes : work[n].end = "ok" /\ n \notin undeleted =>
        /\ cloud \in {"aws", "gcp", "alibaba", "exoscale"} => n \in rules
        /\ cloud \in {"gcp", "exoscale"} => <<work[n].got, n>> \in groups
Resolves ==
    mode = "turn" /\ ~unsure => \A n \in Nodes : work[n].end = "ok" =>
        \E d \in machines : /\ d.name = "dns" /\ d.up
                            /\ <<d.id, n, work[n].got>> \in records
                            /\ cloud = "aws" => net.dhcp = d.id

\* A node that was provisioned has its record on a running DNS machine, and on AWS the
\* network's DHCP options name that machine (setup_vm.py:230-258), when workers take turns
\* and no shared machine was left half made or stopped and no record lost.  Its ports are open,
\* in the rules of its own machine and not of one that is gone (open_vm_ports() of each backend).
Reachable == PortsOpen /\ Resolves

\* A worker comes to an end, whatever fails: no wait is without a timeout.
Ends == \A n \in Nodes : Busy(n) ~> ~Busy(n)

\* The machines of the nodes are a registry: a name has one machine, made when there was
\* none, and a provisioned node is told its own (backends.py, VMBackend).  A node whose
\* destruction failed is left out from then on.
Sure(n) == n \notin undeleted
Registry == INSTANCE MachineRegistry WITH
    Names <- Nodes, Ids <- Nat \ {0}, None <- 0,
    at <- [n \in Nodes |-> IF Sure(n) THEN {m.id : m \in {k \in machines : k.name = n}} ELSE {}],
    told <- [n \in Nodes |-> IF Sure(n) /\ work[n].end = "ok" THEN work[n].got ELSE 0]
IsRegistry == Registry!Spec
=============================================================================
