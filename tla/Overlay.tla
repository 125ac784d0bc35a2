------------------------------- MODULE Overlay -------------------------------
(***************************************************************************)
(* The WireGuard overlay between sites (libs/overlay.py), as setup_vm.py   *)
(* and overlay_ctl.py drive it.  Every site but the hub's has a gateway    *)
(* that is a peer of the hub; the hub's registries are text files that a   *)
(* process reads over ssh and writes back; an ordinary node has a script   *)
(* of routes and a unit that runs it at boot.                              *)
(*                                                                         *)
(* A site's subnet is the site itself, and the hub's route to a gateway's  *)
(* overlay address is left out.  A registry is the set of its lines.       *)
(* Gateways are recreated with a new key, the hub and the nodes restart,   *)
(* nodes stop answering, and a process can die or lose a command at any    *)
(* step: each command sent to the hub is a step of its own.  The look-up   *)
(* and creation of the gateways' machines is in                            *)
(* CloudVms.                                                               *)
(***************************************************************************)
EXTENDS Naturals, FiniteSets, Sequences, FiniteSetsExt

CONSTANTS
    Hub,          \* the site whose gateway is the hub
    Spokes,       \* the other sites
    Nodes,        \* ordinary lab nodes
    SiteOf,       \* each node's site
    Cidrs,        \* the values OVERLAY_CIDR takes, as sets of addresses; the hub has their first
    Procs,        \* processes (or threads of one run) at a time
    MaxOps, MaxFaults, MaxKeys   \* bounds: operations, faults, gateway rebuilds

Sites == {Hub} \cup Spokes
Addresses == UNION Cidrs
HubAddress == Min(Addresses)
None == 0
Keys == 1..MaxKeys

ASSUME OverlayAssumption ==
    /\ Hub \notin Spokes
    /\ SiteOf \in [Nodes -> Sites]
    /\ Addresses \subseteq Nat /\ Addresses # {} /\ IsFiniteSet(Addresses)
    /\ \A cidr \in Cidrs : HubAddress \in cidr
    /\ MaxOps \in Nat /\ MaxFaults \in Nat /\ MaxKeys \in Nat \ {0}

VARIABLES
    alloc, sites, nodereg, dnsreg,  \* the four registries on the hub
    conf, live, hubRoutes,          \* each site: its blocks in wg0.conf, the key wg0 serves; kernel routes
    key, allowed,                   \* each gateway: its key, and the sites its tunnel admits
    script, routes, active,         \* each node: its route script, kernel routes, and its unit
    up,                             \* the nodes that answer
    pc, op, seen, todo, addr, pub,  \* each process
    started, faults,                \* the bounds
    joined, retired, clean, twice   \* the past, for the properties

registries == <<alloc, sites, nodereg, dnsreg>>
hub     == <<registries, conf, live, hubRoutes>>
gateway == <<key, allowed>>
node    == <<script, routes, active>>
process == <<pc, op, seen, todo, addr, pub>>
history == <<joined, retired, clean, twice>>
vars == <<hub, gateway, node, up, process, started, faults, history>>

Others(S, s) == S \ {s}
At(p, c) == pc' = [pc EXCEPT ![p] = c]
Idle == \A p \in Procs : pc[p] = "idle"
Site(p) == op[p].site
NoOp == [kind |-> "none", site |-> Hub, node |-> CHOOSE n \in Nodes : TRUE]

Init ==
    /\ alloc = {} /\ sites = {} /\ nodereg = {} /\ dnsreg = {}
    /\ conf = [s \in Spokes |-> <<>>] /\ live = [s \in Spokes |-> None] /\ hubRoutes = {}
    /\ key = [s \in Spokes |-> 1] /\ allowed = [s \in Spokes |-> {}]
    /\ script = [n \in Nodes |-> {}] /\ routes = [n \in Nodes |-> {}]
    /\ active = [n \in Nodes |-> FALSE]
    /\ up = Nodes
    /\ pc = [p \in Procs |-> "idle"] /\ op = [p \in Procs |-> NoOp]
    /\ seen = [p \in Procs |-> {}] /\ todo = [p \in Procs |-> {}]
    /\ addr = [p \in Procs |-> HubAddress] /\ pub = [p \in Procs |-> 1]
    /\ started = 0 /\ faults = 0
    /\ joined = {} /\ retired = {} /\ clean = TRUE /\ twice = {}

(***************************************************************************)
(* Starting an operation                                                   *)
(***************************************************************************)
\* provision_vm() with the overlay enabled: ensure_overlay_hub() finds a hub
\* or makes one; the hub's own site is registered without a gateway, and a gateway's
\* key is read first.
Provision(p, n) ==
    /\ pc[p] = "idle" /\ started < MaxOps
    /\ started' = started + 1
    /\ op' = [op EXCEPT ![p] = [kind |-> "provision", site |-> SiteOf[n], node |-> n]]
    /\ pub' = IF SiteOf[n] = Hub THEN pub ELSE [pub EXCEPT ![p] = key[SiteOf[n]]]
    /\ At(p, IF SiteOf[n] = Hub THEN "site_read" ELSE "alloc_read")
    /\ clean' = (up = Nodes)
    /\ retired' = retired \ {SiteOf[n]}
    /\ UNCHANGED <<hub, gateway, node, up, seen, todo, addr, faults, joined, twice>>

\* Nobody knows the subnet of the node's site: a warning, and nothing is done.
NoSubnet(p) ==
    /\ pc[p] = "idle" /\ started < MaxOps
    /\ started' = started + 1
    /\ UNCHANGED <<hub, gateway, node, up, process, faults, history>>

\* overlay_ctl.py refresh
Refresh(p) ==
    /\ pc[p] = "idle" /\ started < MaxOps
    /\ started' = started + 1
    /\ op' = [op EXCEPT ![p] = [NoOp EXCEPT !.kind = "refresh"]]
    /\ At(p, "list")
    /\ clean' = (up = Nodes)
    /\ UNCHANGED <<hub, gateway, node, up, seen, todo, addr, pub, faults, joined, retired, twice>>

\* overlay_ctl.py retire: a site the hub does not have is an error.
Retire(p, s) ==
    /\ pc[p] = "idle" /\ started < MaxOps /\ s \in sites
    /\ started' = started + 1
    /\ op' = [op EXCEPT ![p] = [NoOp EXCEPT !.kind = "retire", !.site = s]]
    /\ At(p, "unpeer")
    /\ clean' = (up = Nodes)
    /\ joined' = joined \ {s}
    /\ UNCHANGED <<hub, gateway, node, up, seen, todo, addr, pub, faults, retired, twice>>

\* overlay_ctl.py forget: one sed on the hub.
Forget(p, n) ==
    /\ pc[p] = "idle" /\ started < MaxOps
    /\ started' = started + 1
    /\ nodereg' = {l \in nodereg : l[2] # n}
    /\ UNCHANGED <<alloc, sites, dnsreg, conf, live, hubRoutes, gateway, node, up, process, faults, history>>

(***************************************************************************)
(* provision_vm(), step by step                                            *)
(***************************************************************************)
\* _allocate_overlay_ip(): the file is read whole ...
AllocRead(p) ==
    /\ pc[p] = "alloc_read"
    /\ seen' = [seen EXCEPT ![p] = alloc]
    /\ At(p, "alloc_write")
    /\ UNCHANGED <<hub, gateway, node, up, op, todo, addr, pub, started, faults, history>>

\* MUTANT of FreeAddresses: the hub's own address is not reserved.
FreeAddressesWithHub(cidr, lines) == cidr \ {l[2] : l \in lines}

\* Addresses of the CIDR that no line of the file has, the hub's aside.
FreeAddresses(cidr, lines) == cidr \ ({HubAddress} \cup {l[2] : l \in lines})

\* ... then the site's own line answers, or the first free address is appended.
AllocWrite(p) ==
    /\ pc[p] = "alloc_write"
    /\ LET mine == {l[2] : l \in {k \in seen[p] : k[1] = Site(p)}} IN
       \/ /\ mine # {}
          /\ \E a \in mine : addr' = [addr EXCEPT ![p] = a]
          /\ UNCHANGED alloc
       \/ /\ mine = {}
          /\ \E free \in {FreeAddresses(cidr, seen[p]) : cidr \in Cidrs} :
               /\ free # {}
               /\ addr' = [addr EXCEPT ![p] = Min(free)]
               /\ alloc' = alloc \cup {<<Site(p), Min(free)>>}
    /\ At(p, "site_read")
    /\ UNCHANGED <<sites, nodereg, dnsreg, conf, live, hubRoutes, gateway, node, up, op, seen, todo, pub, started, faults, history>>

\* The CIDR is exhausted: die().
AllocDies(p) ==
    /\ pc[p] = "alloc_write"
    /\ Site(p) \notin {l[1] : l \in seen[p]}
    /\ \E cidr \in Cidrs : FreeAddresses(cidr, seen[p]) = {}
    /\ At(p, "idle")
    /\ clean' = FALSE
    /\ UNCHANGED <<hub, gateway, node, up, op, seen, todo, addr, pub, started, faults, joined, retired, twice>>

\* _register_site(): read the file, drop the site's line, write it back with
\* the new one.
SiteRead(p) ==
    /\ pc[p] = "site_read"
    /\ seen' = [seen EXCEPT ![p] = sites]
    /\ At(p, "site_write")
    /\ UNCHANGED <<hub, gateway, node, up, op, todo, addr, pub, started, faults, history>>

SiteWrite(p) ==
    /\ pc[p] = "site_write"
    /\ sites' = seen[p] \cup {Site(p)}
    /\ At(p, IF Site(p) = Hub THEN "route" ELSE "gateway")
    /\ UNCHANGED <<alloc, nodereg, dnsreg, conf, live, hubRoutes, gateway, node, up, op, seen, todo, addr, pub, started, faults, history>>

\* ensure_overlay_site_gateway(): the tunnel admits the sites known by now.
Gateway(p) ==
    /\ pc[p] = "gateway"
    /\ allowed' = [allowed EXCEPT ![Site(p)] = Others(sites, Site(p))]
    /\ At(p, "peer")
    /\ UNCHANGED <<hub, key, node, up, op, seen, todo, addr, pub, started, faults, history>>

\* MUTANT of FindBlock: the marker that is looked for does not name the site.
FindBlockOfAny(p) ==
    /\ pc[p] = "peer"
    /\ At(p, IF \A s \in Spokes : conf[s] = <<>> THEN "peer_add" ELSE "peer_set")
    /\ UNCHANGED <<hub, gateway, node, up, op, seen, todo, addr, pub, started, faults, history>>

\* add_peer_to_hub(): wg0.conf is searched for a block of the site, whatever its key, ...
FindBlock(p) ==
    /\ pc[p] = "peer"
    /\ At(p, IF conf[Site(p)] = <<>> THEN "peer_add" ELSE "peer_set")
    /\ UNCHANGED <<hub, gateway, node, up, op, seen, todo, addr, pub, started, faults, history>>

\* ... and a search that is lost finds none.
FindIsLost(p) ==
    /\ pc[p] = "peer" /\ faults < MaxFaults
    /\ faults' = faults + 1
    /\ At(p, "peer_add")
    /\ twice' = IF conf[Site(p)] = <<>> THEN twice ELSE twice \cup {Site(p)}
    /\ UNCHANGED <<hub, gateway, node, up, op, seen, todo, addr, pub, started, joined, retired, clean>>

\* A block is appended, ...
AddBlock(p) ==
    /\ pc[p] = "peer_add"
    /\ conf' = [conf EXCEPT ![Site(p)] = Append(@, pub[p])]
    /\ At(p, "peer_set")
    /\ UNCHANGED <<registries, live, hubRoutes, gateway, node, up, op, seen, todo, addr, pub, started, faults, history>>

\* ... wg set moves the subnet to the key, ...
SetPeer(p) ==
    /\ pc[p] = "peer_set"
    /\ live' = [live EXCEPT ![Site(p)] = pub[p]]
    /\ At(p, "peer_route")
    /\ UNCHANGED <<registries, conf, hubRoutes, gateway, node, up, op, seen, todo, addr, pub, started, faults, history>>

\* ... and the kernel routes it to wg0.
RoutePeer(p) ==
    /\ pc[p] = "peer_route"
    /\ hubRoutes' = hubRoutes \cup {Site(p)}
    /\ joined' = joined \cup {Site(p)}
    /\ At(p, "route")
    /\ UNCHANGED <<registries, conf, live, gateway, node, up, op, seen, todo, addr, pub, started, faults, retired, clean, twice>>

\* ensure_route_via_site_gateway(): the script is rewritten, and its unit is
\* started, which does nothing when the unit is active (RemainAfterExit).
Routed(n, R) ==
    /\ script' = [script EXCEPT ![n] = R]
    /\ active' = [active EXCEPT ![n] = TRUE]
    /\ routes' = [routes EXCEPT ![n] = IF active[n] THEN @ ELSE @ \cup R]

\* The node's own routes.  With no other site there is nothing to write.
Route(p) ==
    /\ pc[p] = "route" /\ op[p].node \in up
    /\ IF Others(sites, Site(p)) = {} THEN UNCHANGED node
                                      ELSE Routed(op[p].node, Others(sites, Site(p)))
    /\ At(p, "node_read")
    /\ UNCHANGED <<hub, gateway, up, op, seen, todo, addr, pub, started, faults, history>>

\* The node does not answer: ssh_run() raises, and the run of this node ends.
RouteFails(p) ==
    /\ pc[p] = "route" /\ op[p].node \notin up
    /\ At(p, "idle")
    /\ clean' = FALSE
    /\ UNCHANGED <<hub, gateway, node, up, op, seen, todo, addr, pub, started, faults, joined, retired, twice>>

\* The gateway has no address on its site: the node is not routed, and no node is told of the site.
NoGateway(p) ==
    /\ pc[p] = "route"
    /\ At(p, "idle")
    /\ clean' = FALSE
    /\ UNCHANGED <<hub, gateway, node, up, op, seen, todo, addr, pub, started, faults, joined, retired, twice>>

\* register_node(): one line per node, by read and rewrite.
NodeRead(p) ==
    /\ pc[p] = "node_read"
    /\ seen' = [seen EXCEPT ![p] = nodereg]
    /\ At(p, "node_write")
    /\ UNCHANGED <<hub, gateway, node, up, op, todo, addr, pub, started, faults, history>>

NodeWrite(p) ==
    /\ pc[p] = "node_write"
    /\ nodereg' = {l \in seen[p] : l[2] # op[p].node} \cup {<<Site(p), op[p].node>>}
    /\ At(p, "list")
    /\ UNCHANGED <<alloc, sites, dnsreg, conf, live, hubRoutes, gateway, node, up, op, seen, todo, addr, pub, started, faults, history>>

(***************************************************************************)
(* refresh_routes()                                                        *)
(***************************************************************************)
\* The nodes and the sites are listed once.
ListAll(p) ==
    /\ pc[p] = "list"
    /\ todo' = [todo EXCEPT ![p] = nodereg]
    /\ seen' = [seen EXCEPT ![p] = sites]
    /\ At(p, "push")
    /\ UNCHANGED <<hub, gateway, node, up, op, addr, pub, started, faults, history>>

\* MUTANT of Push: a node with no other site left is passed over.
PushKeepsLast(p, l) ==
    /\ pc[p] = "push" /\ l \in todo[p]
    /\ todo' = [todo EXCEPT ![p] = @ \ {l}]
    /\ IF l[2] \in up /\ Others(seen[p], l[1]) # {} THEN Routed(l[2], Others(seen[p], l[1]))
                                                   ELSE UNCHANGED node
    /\ UNCHANGED <<hub, gateway, up, pc, op, seen, addr, pub, started, faults, history>>

\* One node: skipped when it does not answer; without another site the script
\* and the unit are removed, and the kernel keeps the routes it has.
Push(p, l) ==
    /\ pc[p] = "push" /\ l \in todo[p]
    /\ todo' = [todo EXCEPT ![p] = @ \ {l}]
    /\ LET R == Others(seen[p], l[1]) IN
       \/ l[2] \notin up /\ UNCHANGED node
       \/ l[2] \in up /\ R # {} /\ Routed(l[2], R)
       \/ /\ l[2] \in up /\ R = {}
          /\ script' = [script EXCEPT ![l[2]] = {}]
          /\ active' = [active EXCEPT ![l[2]] = FALSE]
          /\ UNCHANGED routes
    /\ UNCHANGED <<hub, gateway, up, pc, op, seen, addr, pub, started, faults, history>>

\* The probe of a node, or the removal of its script, is lost: the node is left as it is.
PushIsLost(p, l) ==
    /\ pc[p] = "push" /\ l \in todo[p] /\ faults < MaxFaults
    /\ faults' = faults + 1
    /\ todo' = [todo EXCEPT ![p] = @ \ {l}]
    /\ clean' = FALSE
    /\ UNCHANGED <<hub, gateway, node, up, pc, op, seen, addr, pub, started, joined, retired, twice>>

\* The loop is over: a provisioning run goes on to the DNS registry.
Pushed(p) ==
    /\ pc[p] = "push" /\ todo[p] = {}
    /\ At(p, IF op[p].kind = "provision" THEN "dns_read" ELSE "idle")
    /\ retired' = IF op[p].kind = "retire" /\ clean THEN retired \cup {Site(p)} ELSE retired
    /\ UNCHANGED <<hub, gateway, node, up, op, seen, todo, addr, pub, started, faults, joined, clean, twice>>

\* register_dns_server(), by read and rewrite.
DnsRead(p) ==
    /\ pc[p] = "dns_read"
    /\ seen' = [seen EXCEPT ![p] = dnsreg]
    /\ At(p, "dns_write")
    /\ UNCHANGED <<hub, gateway, node, up, op, todo, addr, pub, started, faults, history>>

DnsWrite(p) ==
    /\ pc[p] = "dns_write"
    /\ dnsreg' = seen[p] \cup {Site(p)}
    /\ At(p, "idle")
    /\ UNCHANGED <<alloc, sites, nodereg, conf, live, hubRoutes, gateway, node, up, op, seen, todo, addr, pub, started, faults, history>>

(***************************************************************************)
(* retire_site(): each command is best effort, and may be lost             *)
(***************************************************************************)
\* The commands of retire_site(), in their order.
Commands == {"unpeer", "unroute", "unsite", "unalloc", "unnode", "undns"}
Then(c) == CASE c = "unpeer" -> "unroute" [] c = "unroute" -> "unsite" [] c = "unsite" -> "unalloc"
             [] c = "unalloc" -> "unnode" [] c = "unnode" -> "undns" [] OTHER -> "list"

\* remove_peer_from_hub(), one script: it takes the site's first block from wg0.conf, and its key from wg0.
Unpeer(p) ==
    /\ pc[p] = "unpeer"
    /\ LET s == Site(p) IN
       IF s = Hub \/ conf[s] = <<>> THEN UNCHANGED <<conf, live>>
       ELSE /\ conf' = [conf EXCEPT ![s] = Tail(@)]
            /\ live' = [live EXCEPT ![s] = IF @ = Head(conf[s]) THEN None ELSE @]
    /\ At(p, "unroute")
    /\ UNCHANGED <<registries, hubRoutes, gateway, node, up, op, seen, todo, addr, pub, started, faults, history>>

\* The hub's route to the site.
Unroute(p) ==
    /\ pc[p] = "unroute"
    /\ hubRoutes' = hubRoutes \ {Site(p)}
    /\ At(p, "unsite")
    /\ UNCHANGED <<registries, conf, live, gateway, node, up, op, seen, todo, addr, pub, started, faults, history>>

\* MUTANT of Registries: the nodes of the site stay registered.
RegistriesKeepNodes(c, s) ==
    /\ sites' = IF c = "unsite" THEN sites \ {s} ELSE sites
    /\ alloc' = IF c = "unalloc" THEN {l \in alloc : l[1] # s} ELSE alloc
    /\ nodereg' = nodereg
    /\ dnsreg' = IF c = "undns" THEN dnsreg \ {s} ELSE dnsreg

\* The lines of site s go from one of the four registries, by a sed on the hub.
Registries(c, s) ==
    /\ sites' = IF c = "unsite" THEN sites \ {s} ELSE sites
    /\ alloc' = IF c = "unalloc" THEN {l \in alloc : l[1] # s} ELSE alloc
    /\ nodereg' = IF c = "unnode" THEN {l \in nodereg : l[1] # s} ELSE nodereg
    /\ dnsreg' = IF c = "undns" THEN dnsreg \ {s} ELSE dnsreg

CleanRegistries(p) ==
    /\ pc[p] \in Commands \ {"unpeer", "unroute"}
    /\ Registries(pc[p], Site(p))
    /\ At(p, Then(pc[p]))
    /\ UNCHANGED <<conf, live, hubRoutes, gateway, node, up, op, seen, todo, addr, pub, started, faults, history>>

\* A command of retire_site() that never reaches the hub.
LostCommand(p) ==
    /\ pc[p] \in Commands /\ faults < MaxFaults
    /\ faults' = faults + 1
    /\ At(p, Then(pc[p]))
    /\ clean' = FALSE
    /\ UNCHANGED <<hub, gateway, node, up, op, seen, todo, addr, pub, started, joined, retired, twice>>

(***************************************************************************)
(* The environment                                                         *)
(***************************************************************************)
\* A process dies where it is: killed, or an ssh command failed.
Dies(p) ==
    /\ pc[p] # "idle" /\ faults < MaxFaults
    /\ faults' = faults + 1
    /\ At(p, "idle")
    /\ clean' = FALSE
    /\ UNCHANGED <<hub, gateway, node, up, op, seen, todo, addr, pub, started, joined, retired, twice>>

NodeDown(n) ==
    /\ n \in up /\ faults < MaxFaults
    /\ faults' = faults + 1
    /\ up' = up \ {n}
    /\ clean' = FALSE
    /\ UNCHANGED <<hub, gateway, node, process, started, joined, retired, twice>>

\* A node boots: its unit runs the script over a clean routing table.
NodeBoots(n) ==
    /\ n \notin up
    /\ up' = up \cup {n}
    /\ routes' = [routes EXCEPT ![n] = script[n]]
    /\ UNCHANGED <<hub, gateway, script, active, process, started, faults, history>>

\* The hub boots, or its wg-quick restarts: wg0 is what wg0.conf says, of two blocks for a subnet the last.
HubRestarts ==
    /\ faults < MaxFaults
    /\ faults' = faults + 1
    /\ live' = [s \in Spokes |-> IF conf[s] = <<>> THEN None ELSE conf[s][Len(conf[s])]]
    /\ hubRoutes' = {s \in Spokes : conf[s] # <<>>}
    /\ UNCHANGED <<registries, conf, gateway, node, up, process, started, history>>

\* A gateway's machine is made again: a new key, and no tunnel.
GatewayRebuilt(s) ==
    /\ key[s] < MaxKeys
    /\ key' = [key EXCEPT ![s] = @ + 1]
    /\ allowed' = [allowed EXCEPT ![s] = {}]
    /\ joined' = joined \ {s}
    /\ UNCHANGED <<hub, node, up, process, started, faults, retired, clean, twice>>

Step(p) ==
    \/ AllocRead(p) \/ AllocWrite(p) \/ AllocDies(p) \/ SiteRead(p) \/ SiteWrite(p)
    \/ Gateway(p) \/ FindBlock(p) \/ AddBlock(p) \/ SetPeer(p) \/ RoutePeer(p)
    \/ Route(p) \/ RouteFails(p) \/ NoGateway(p) \/ NodeRead(p) \/ NodeWrite(p)
    \/ ListAll(p) \/ (\E l \in todo[p] : Push(p, l)) \/ Pushed(p) \/ DnsRead(p) \/ DnsWrite(p)
    \/ Unpeer(p) \/ Unroute(p) \/ CleanRegistries(p)

Next ==
    \/ \E p \in Procs :
         \/ Step(p) \/ Refresh(p) \/ NoSubnet(p) \/ FindIsLost(p) \/ LostCommand(p) \/ Dies(p)
         \/ \E l \in todo[p] : PushIsLost(p, l)
         \/ \E n \in Nodes : Provision(p, n) \/ Forget(p, n)
         \/ \E s \in Sites : Retire(p, s)
    \/ \E n \in Nodes : NodeDown(n) \/ NodeBoots(n)
    \/ HubRestarts
    \/ \E s \in Spokes : GatewayRebuilt(s)

Spec == Init /\ [][Next]_vars

(***************************************************************************)
(* Properties                                                              *)
(***************************************************************************)
TypeOK ==
    /\ alloc \subseteq Spokes \X Addresses
    /\ sites \subseteq Sites /\ dnsreg \subseteq Sites
    /\ nodereg \subseteq Sites \X Nodes
    /\ conf \in [Spokes -> Seq(Keys)] /\ live \in [Spokes -> Keys \cup {None}]
    /\ hubRoutes \subseteq Spokes
    /\ key \in [Spokes -> Keys] /\ allowed \in [Spokes -> SUBSET Sites]
    /\ script \in [Nodes -> SUBSET Sites] /\ routes \in [Nodes -> SUBSET Sites]
    /\ active \in [Nodes -> BOOLEAN]
    /\ up \subseteq Nodes /\ joined \subseteq Spokes /\ retired \subseteq Sites /\ twice \subseteq Spokes

\* _allocate_overlay_ip(): no two sites have the same overlay address, and none
\* has the hub's, whatever retirements and interrupted joins came before; and
\* the registries, peers and routes are well formed.
AddressesDistinct ==
    /\ TypeOK
    /\ \A k, l \in alloc : k[2] = l[2] => k = l
    /\ \A l \in alloc : l[2] # HubAddress

\* refresh_routes(): when an operation has ended with every node answering, the
\* route script of each registered node has exactly the other sites' subnets,
\* however the operations before it ended.
SettledRoutes ==
    Idle /\ clean => \A l \in nodereg : script[l[2]] = Others(sites, l[1])

\* add_peer_to_hub(): a site that has joined stays a peer of the hub, in wg0 and
\* in wg0.conf, through other sites' joins and retirements, interrupted runs
\* and restarts of the hub, as long as its gateway is the one it joined with.
JoinedServed ==
    \A s \in joined : key[s] = 1 =>
        conf[s] # <<>> /\ (\A i \in DOMAIN conf[s] : conf[s][i] = 1) /\ live[s] = 1 /\ s \in hubRoutes

\* retire_site(): a site that was retired with every command delivered and every
\* node answering is in no registry until it joins again; and it is no peer, in wg0.conf and in wg0, and
\* has no route on the hub, if no search for its block was ever lost.
RetiredGone ==
    \A s \in retired :
      /\ s \notin sites \cup dnsreg
      /\ \A l \in alloc \cup nodereg : l[1] # s
      /\ s \notin twice => /\ s \notin hubRoutes
                           /\ s \in Spokes => conf[s] = <<>> /\ (key[s] = 1 => live[s] = None)
=============================================================================
