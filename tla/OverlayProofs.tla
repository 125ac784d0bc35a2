--------------------------- MODULE OverlayProofs ---------------------------
(***************************************************************************)
(* The overlay of one process at a time, for any number of sites, nodes,   *)
(* operations and faults: addresses differ, the routes settle, who joined  *)
(* is served and who was retired is gone.  The hypothesis is needed: two   *)
(* processes that read and rewrite the hub's files lose each other's lines.*)
(***************************************************************************)
EXTENDS Overlay, WellFoundedInduction, TLAPS

\* Min() of a non-empty set of naturals is one of its elements.
LEMMA MinIsMember ==
  ASSUME NEW S \in SUBSET Nat, S # {}
  PROVE  Min(S) \in S /\ \A y \in S : Min(S) =< y
<1> DEFINE Less == OpToRel(<, Nat)
<1>1. IsWellFoundedOn(Less, Nat)
  BY NatLessThanWellFounded
<1> HIDE DEF Less
<1>2. PICK x \in S : \A y \in S : ~(<<y, x>> \in Less)
  BY <1>1, WFMin
<1>3. \A y \in S : <<y, x>> \notin Less => ~(y < x)
  BY DEF Less, OpToRel
<1>4. \A y \in S : ~(y < x)
  BY <1>2, <1>3
<1>5. \A y \in S : x =< y
  BY <1>4
<1> QED
  BY <1>2, <1>5 DEF Min

(***************************************************************************)
(* The inductive invariant                                                 *)
(***************************************************************************)
PeerSteps == {"peer", "peer_add", "peer_set", "peer_route"}
JoinSteps == {"alloc_read", "alloc_write", "gateway"} \cup PeerSteps
ProvisionSteps == JoinSteps \cup {"site_read", "site_write", "route", "node_read", "node_write", "dns_read", "dns_write"}
Steps == ProvisionSteps \cup Commands \cup {"idle", "list", "push"}
Lines == Sites \cup (Spokes \X Addresses) \cup (Sites \X Nodes)
Operations == [kind : {"none", "provision", "refresh", "retire"}, site : Sites, node : Nodes \cup {NoOp.node}]

ProcessType ==
    /\ pc \in [Procs -> Steps] /\ op \in [Procs -> Operations]
    /\ seen \in [Procs -> SUBSET Lines] /\ todo \in [Procs -> SUBSET (Sites \X Nodes)]
    /\ addr \in [Procs -> Addresses] /\ pub \in [Procs -> Keys] /\ clean \in BOOLEAN

\* What a process is about fits where it is.
Located == \A p \in Procs :
    /\ pc[p] \in ProvisionSteps => op[p].kind = "provision"
    /\ pc[p] \in Commands => op[p].kind = "retire"
    /\ op[p].kind = "provision" => op[p].node \in Nodes /\ op[p].site = SiteOf[op[p].node]
    /\ pc[p] \in JoinSteps => Site(p) \in Spokes

\* What a process has read of the hub's files is still what they say: this is what the
\* second process of a parallel run would break.
ReadsHold == \A p \in Procs :
    /\ pc[p] = "alloc_write" => seen[p] = alloc
    /\ pc[p] \in {"site_write", "push"} => seen[p] = sites
    /\ pc[p] = "node_write" => seen[p] = nodereg
    /\ pc[p] = "dns_write" => seen[p] = dnsreg
    /\ pc[p] = "push" => todo[p] \subseteq nodereg

Allocated ==
    /\ \A k, l \in alloc : k[2] = l[2] => k = l
    /\ \A l \in alloc : l[2] # HubAddress

\* The route script is right for the nodes the loop is done with.
Settling ==
    /\ nodereg \subseteq {<<SiteOf[n], n>> : n \in Nodes}
    /\ clean => up = Nodes
    /\ \A p \in Procs : clean /\ pc[p] \in {"push", "dns_read", "dns_write", "idle"} =>
         \A l \in nodereg : (pc[p] = "push" /\ l \in todo[p]) \/ script[l[2]] = Others(sites, l[1])

\* The blocks of a site have keys it had; as long as it has its first one, wg0 serves no other, and
\* none without a block.
Blocks == \A s \in Spokes :
    /\ \A i \in DOMAIN conf[s] : conf[s][i] =< key[s]
    /\ key[s] = 1 => live[s] \in {None, 1} /\ (conf[s] = <<>> => live[s] = None)
    /\ s \notin twice => Len(conf[s]) =< 1

\* wg0.conf, wg0 and the kernel of the hub have a site that has joined; of one that is joining they
\* have what was done.
PeersAgree ==
    /\ \A s \in joined : conf[s] # <<>> /\ s \in hubRoutes /\ (key[s] = 1 => live[s] = 1)
    /\ \A p \in Procs :
         /\ pc[p] \in Commands => Site(p) \notin joined
         /\ op[p].kind = "provision" /\ Site(p) \in Spokes => pub[p] =< key[Site(p)]
         /\ pc[p] = "peer_add" => Site(p) \in twice \/ conf[Site(p)] = <<>>
         /\ pc[p] \in {"peer_set", "peer_route"} => conf[Site(p)] # <<>>
         /\ pc[p] = "peer_route" => (key[Site(p)] = 1 => live[Site(p)] = 1)

\* A site is no peer, and nothing is left of it.
NoPeer(s) == s \in Spokes /\ s \notin twice => conf[s] = <<>> /\ (key[s] = 1 => live[s] = None)
NoRoute(s) == s \notin twice => s \notin hubRoutes
Absent(s) ==
    /\ s \notin sites \cup dnsreg
    /\ \A l \in alloc \cup nodereg : l[1] # s
    /\ NoPeer(s) /\ NoRoute(s)

\* What a retirement that has lost nothing has done by now.
Undone(c, s) ==
    /\ c # "unpeer" => NoPeer(s)
    /\ c \notin {"unpeer", "unroute"} => NoRoute(s)
    /\ c \in {"unalloc", "unnode", "undns"} => s \notin sites
    /\ c \in {"unnode", "undns"} => \A l \in alloc : l[1] # s
    /\ c = "undns" => \A l \in nodereg : l[1] # s
    /\ c \in {"list", "push"} => Absent(s)

Retiring ==
    /\ \A s \in retired : Absent(s)
    /\ \A p \in Procs :
         /\ op[p].kind = "provision" => Site(p) \notin retired
         /\ clean /\ op[p].kind = "retire" /\ pc[p] # "idle" => Undone(pc[p], Site(p))

OverlayInv == TypeOK /\ ProcessType /\ Located /\ ReadsHold /\ Allocated /\ Settling /\ Blocks /\ PeersAgree /\ Retiring

\* The allocation file is read.
LEMMA AllocReadInv == ASSUME OverlayInv, NEW P, Procs = {P}, AllocRead(P) PROVE OverlayInv'
<1> USE OverlayAssumption
<1>1. TypeOK' /\ ProcessType'
  BY DEF OverlayInv, TypeOK, ProcessType, Located, AllocRead, At, Sites, Steps, JoinSteps, PeerSteps, Commands, ProvisionSteps, Operations,
         NoOp, Lines, hub, registries, gateway, node, history
<1>2. Located' /\ ReadsHold'
  BY DEF OverlayInv, ProcessType, Located, ReadsHold, AllocRead, At, Site, Steps, JoinSteps, PeerSteps, Commands, ProvisionSteps, hub,
         registries, gateway, node, history
<1>3. Allocated' /\ Settling'
  BY DEF OverlayInv, ProcessType, Located, ReadsHold, Allocated, Settling, AllocRead, At, Steps, JoinSteps, PeerSteps, Commands,
         ProvisionSteps, Others, hub, registries, gateway, node, history
<1>4. Blocks' /\ PeersAgree' /\ Retiring'
  BY DEF OverlayInv, TypeOK, ProcessType, Located, Blocks, PeersAgree, Retiring, Undone, Absent, NoPeer, NoRoute, AllocRead, At, Site, Steps, JoinSteps, PeerSteps, Commands,
         ProvisionSteps, hub, registries, gateway, node, history
<1> QED
  BY <1>1, <1>2, <1>3, <1>4 DEF OverlayInv

\* The new address is free in the file as it is now, and not the hub's.
LEMMA AllocWriteInv == ASSUME OverlayInv, NEW P, Procs = {P}, AllocWrite(P) PROVE OverlayInv'
<1> USE OverlayAssumption
<1>0. /\ pc[P] = "alloc_write" /\ seen[P] = alloc /\ Site(P) \in Spokes /\ alloc \subseteq Spokes \X Addresses
      /\ pc' = [pc EXCEPT ![P] = "site_read"]
      /\ UNCHANGED <<sites, nodereg, dnsreg, conf, live, hubRoutes, gateway, node, up, op, seen, todo,
                     pub, started, faults, history>>
  BY DEF OverlayInv, TypeOK, ProcessType, Located, ReadsHold, AllocWrite, At, JoinSteps
<1>a. \/ alloc' = alloc /\ \E a \in Addresses : addr' = [addr EXCEPT ![P] = a]
      \/ \E a \in Addresses : /\ addr' = [addr EXCEPT ![P] = a] /\ alloc' = alloc \cup {<<Site(P), a>>}
                              /\ a # HubAddress /\ \A l \in alloc : l[2] # a
  <2>1. CASE \E free \in {FreeAddresses(cidr, seen[P]) : cidr \in Cidrs} :
               /\ free # {} /\ addr' = [addr EXCEPT ![P] = Min(free)]
               /\ alloc' = alloc \cup {<<Site(P), Min(free)>>}
    <3>1. PICK cidr \in Cidrs : /\ FreeAddresses(cidr, alloc) # {}
                                /\ addr' = [addr EXCEPT ![P] = Min(FreeAddresses(cidr, alloc))]
                                /\ alloc' = alloc \cup {<<Site(P), Min(FreeAddresses(cidr, alloc))>>}
      BY <1>0, <2>1
    <3>2. FreeAddresses(cidr, alloc) \in SUBSET Nat
      BY DEF FreeAddresses, Addresses
    <3>3. Min(FreeAddresses(cidr, alloc)) \in FreeAddresses(cidr, alloc)
      BY <3>1, <3>2, MinIsMember
    <3>4. /\ Min(FreeAddresses(cidr, alloc)) \in Addresses \ {HubAddress}
          /\ \A l \in alloc : l[2] # Min(FreeAddresses(cidr, alloc))
      BY <3>3 DEF FreeAddresses, Addresses
    <3> QED
      BY <3>1, <3>4
  <2>2. CASE ~ \E free \in {FreeAddresses(cidr, seen[P]) : cidr \in Cidrs} :
               /\ free # {} /\ addr' = [addr EXCEPT ![P] = Min(free)]
               /\ alloc' = alloc \cup {<<Site(P), Min(free)>>}
    <3>1. PICK a \in {l[2] : l \in {k \in alloc : k[1] = Site(P)}} : addr' = [addr EXCEPT ![P] = a]
      BY <1>0, <2>2 DEF AllocWrite
    <3>2. alloc' = alloc
      BY <1>0, <2>2 DEF AllocWrite
    <3>3. a \in Addresses
      BY <1>0, <3>1
    <3> QED
      BY <3>1, <3>2, <3>3
  <2> QED
    BY <2>1, <2>2
<1>1. TypeOK' /\ ProcessType'
  <2>1. alloc' \subseteq Spokes \X Addresses /\ addr' \in [Procs -> Addresses]
    BY <1>0, <1>a DEF OverlayInv, ProcessType
  <2>2. pub' = pub
    BY DEF AllocWrite
  <2> QED
    BY <1>0, <2>1, <2>2 DEF OverlayInv, TypeOK, ProcessType, Steps, JoinSteps, ProvisionSteps, gateway, node, history
<1>2. Located' /\ ReadsHold'
  BY <1>0, <1>a DEF OverlayInv, ProcessType, Located, ReadsHold, ProvisionSteps, JoinSteps, PeerSteps, Commands, Site
<1>3. Allocated'
  BY <1>0, <1>a DEF OverlayInv, Allocated
<1>4. Settling'
  BY <1>0, <1>a DEF OverlayInv, ProcessType, Settling, node, history
<1>5. Blocks' /\ PeersAgree'
  BY <1>0 DEF OverlayInv, ProcessType, Blocks, PeersAgree, ProvisionSteps, JoinSteps, PeerSteps, Commands, Site, gateway, history
<1>6. Retiring'
  <2>1. op[P].kind = "provision" /\ Site(P) \notin retired
    BY <1>0 DEF OverlayInv, Located, Retiring, ProvisionSteps, JoinSteps
  <2>2. \A l \in alloc' : l \in alloc \/ l[1] = Site(P)
    BY <1>a
  <2>3. \A s \in retired : \A l \in alloc' : l[1] # s
    BY <2>1, <2>2 DEF OverlayInv, Retiring, Absent
  <2> QED
    BY <1>0, <2>1, <2>3 DEF OverlayInv, ProcessType, Retiring, Undone, Absent, NoPeer, NoRoute, Site, gateway, history
<1> QED
  BY <1>1, <1>2, <1>3, <1>4, <1>5, <1>6 DEF OverlayInv

\* The CIDR is exhausted.
LEMMA AllocDiesInv == ASSUME OverlayInv, NEW P, Procs = {P}, AllocDies(P) PROVE OverlayInv'
<1> USE OverlayAssumption
<1>1. TypeOK' /\ ProcessType'
  BY DEF OverlayInv, TypeOK, ProcessType, Located, AllocDies, At, Site, Sites, Steps, JoinSteps, PeerSteps, Commands, ProvisionSteps,
         Operations, NoOp, Lines, hub, registries, gateway, node, FreeAddresses
<1>2. Located' /\ ReadsHold'
  BY DEF OverlayInv, ProcessType, Located, ReadsHold, AllocDies, At, Site, Steps, JoinSteps, PeerSteps, Commands, ProvisionSteps, hub,
         registries, gateway, node, FreeAddresses
<1>3. Allocated' /\ Settling'
  BY DEF OverlayInv, ProcessType, Located, ReadsHold, Allocated, Settling, AllocDies, At, Site, Steps, JoinSteps, PeerSteps, Commands,
         ProvisionSteps, Others, hub, registries, gateway, node, FreeAddresses
<1>4. Blocks' /\ PeersAgree' /\ Retiring'
  BY DEF OverlayInv, TypeOK, ProcessType, Located, Blocks, PeersAgree, Retiring, Undone, Absent, NoPeer, NoRoute, AllocDies, At, Site, Steps, JoinSteps, PeerSteps, Commands,
         ProvisionSteps, hub, registries, gateway, node, FreeAddresses
<1> QED
  BY <1>1, <1>2, <1>3, <1>4 DEF OverlayInv

\* The sites are read.
LEMMA SiteReadInv == ASSUME OverlayInv, NEW P, Procs = {P}, SiteRead(P) PROVE OverlayInv'
<1> USE OverlayAssumption
<1>1. TypeOK' /\ ProcessType'
  BY DEF OverlayInv, TypeOK, ProcessType, Located, SiteRead, At, Sites, Steps, JoinSteps, PeerSteps, Commands, ProvisionSteps, Operations,
         NoOp, Lines, hub, registries, gateway, node, history
<1>2. Located' /\ ReadsHold'
  BY DEF OverlayInv, ProcessType, Located, ReadsHold, SiteRead, At, Site, Steps, JoinSteps, PeerSteps, Commands, ProvisionSteps, hub,
         registries, gateway, node, history
<1>3. Allocated' /\ Settling'
  BY DEF OverlayInv, ProcessType, Located, ReadsHold, Allocated, Settling, SiteRead, At, Steps, JoinSteps, PeerSteps, Commands,
         ProvisionSteps, Others, hub, registries, gateway, node, history
<1>4. Blocks' /\ PeersAgree' /\ Retiring'
  BY DEF OverlayInv, TypeOK, ProcessType, Located, Blocks, PeersAgree, Retiring, Undone, Absent, NoPeer, NoRoute, SiteRead, At, Site, Steps, JoinSteps, PeerSteps, Commands,
         ProvisionSteps, hub, registries, gateway, node, history
<1> QED
  BY <1>1, <1>2, <1>3, <1>4 DEF OverlayInv

\* What is written back has every site that was there, and this one, which is not retired.
LEMMA SiteWriteInv == ASSUME OverlayInv, NEW P, Procs = {P}, SiteWrite(P) PROVE OverlayInv'
<1> USE OverlayAssumption
<1>1. TypeOK' /\ ProcessType'
  BY DEF OverlayInv, TypeOK, ProcessType, Located, ReadsHold, SiteWrite, At, Site, Sites, Steps, JoinSteps, PeerSteps, Commands,
         ProvisionSteps, Operations, NoOp, Lines, gateway, node, history
<1>2. Located' /\ ReadsHold'
  BY DEF OverlayInv, TypeOK, ProcessType, Located, ReadsHold, SiteWrite, At, Site, Sites, Steps, JoinSteps, PeerSteps, Commands,
         ProvisionSteps, Operations, NoOp, Lines, gateway, node, history
<1>3. Allocated' /\ Settling'
  BY DEF OverlayInv, ProcessType, Located, ReadsHold, Allocated, Settling, SiteWrite, At, Site, Steps, JoinSteps, PeerSteps, Commands,
         ProvisionSteps, Others, gateway, node, history
<1>4. Blocks' /\ PeersAgree' /\ Retiring'
  BY DEF OverlayInv, TypeOK, ProcessType, Located, ReadsHold, Blocks, PeersAgree, Retiring, Undone, Absent, NoPeer, NoRoute, SiteWrite, At,
         Site, Sites, Steps, JoinSteps, PeerSteps, Commands, ProvisionSteps, Operations, NoOp, Lines, gateway, node, history
<1> QED
  BY <1>1, <1>2, <1>3, <1>4 DEF OverlayInv

\* The gateway's tunnel.
LEMMA GatewayInv == ASSUME OverlayInv, NEW P, Procs = {P}, Gateway(P) PROVE OverlayInv'
<1> USE OverlayAssumption
<1>1. TypeOK' /\ ProcessType'
  BY DEF OverlayInv, TypeOK, ProcessType, Located, Gateway, At, Site, Sites, Steps, JoinSteps, PeerSteps, Commands, ProvisionSteps,
         Operations, NoOp, Lines, Others, hub, registries, gateway, node, history
<1>2. Located' /\ ReadsHold'
  BY DEF OverlayInv, ProcessType, Located, ReadsHold, Gateway, At, Site, Steps, JoinSteps, PeerSteps, Commands, ProvisionSteps, Others, hub,
         registries, gateway, node, history
<1>3. Allocated' /\ Settling'
  BY DEF OverlayInv, ProcessType, Located, ReadsHold, Allocated, Settling, Gateway, At, Site, Steps, JoinSteps, PeerSteps, Commands,
         ProvisionSteps, Others, hub, registries, gateway, node, history
<1>4. Blocks' /\ PeersAgree' /\ Retiring'
  BY DEF OverlayInv, TypeOK, ProcessType, Located, Blocks, PeersAgree, Retiring, Undone, Absent, NoPeer, NoRoute, Gateway, At, Site, Steps, JoinSteps, PeerSteps, Commands,
         ProvisionSteps, Others, hub, registries, gateway, node, history
<1> QED
  BY <1>1, <1>2, <1>3, <1>4 DEF OverlayInv

\* The site has no block, or one to leave alone.
LEMMA FindBlockInv == ASSUME OverlayInv, NEW P, Procs = {P}, FindBlock(P) PROVE OverlayInv'
<1> USE OverlayAssumption
<1>1. TypeOK' /\ ProcessType'
  BY DEF OverlayInv, TypeOK, ProcessType, Located, ReadsHold, FindBlock, At, Site, Sites, Steps, JoinSteps, PeerSteps, Commands, ProvisionSteps,
         Operations, NoOp, Lines, Keys, None, hub, registries, gateway, node, history
<1>2. Located' /\ ReadsHold'
  BY DEF OverlayInv, TypeOK, ProcessType, Located, ReadsHold, FindBlock, At, Site, Sites, Steps, JoinSteps, PeerSteps, Commands, ProvisionSteps, hub, registries, gateway, node, history
<1>3. Allocated' /\ Settling'
  BY DEF OverlayInv, TypeOK, ProcessType, Located, ReadsHold, Allocated, Settling, FindBlock, At, Site, Steps, JoinSteps, PeerSteps, Commands, ProvisionSteps,
         Others, hub, registries, gateway, node, history
<1>4. Blocks' /\ PeersAgree' /\ Retiring'
  BY DEF OverlayInv, TypeOK, ProcessType, Located, ReadsHold, Blocks, PeersAgree, Retiring, Undone, Absent, NoPeer, NoRoute, FindBlock, At,
         Site, Sites, Steps, JoinSteps, PeerSteps, Commands, ProvisionSteps, None, Keys, hub, registries, gateway, node, history
<1> QED
  BY <1>1, <1>2, <1>3, <1>4 DEF OverlayInv

\* A site with a block will have another, and is noted.
LEMMA FindIsLostInv == ASSUME OverlayInv, NEW P, Procs = {P}, FindIsLost(P) PROVE OverlayInv'
<1> USE OverlayAssumption
<1>1. TypeOK' /\ ProcessType'
  BY DEF OverlayInv, TypeOK, ProcessType, Located, ReadsHold, FindIsLost, At, Site, Sites, Steps, JoinSteps, PeerSteps, Commands, ProvisionSteps,
         Operations, NoOp, Lines, Keys, None, hub, registries, gateway, node, history
<1>2. Located' /\ ReadsHold'
  BY DEF OverlayInv, TypeOK, ProcessType, Located, ReadsHold, FindIsLost, At, Site, Sites, Steps, JoinSteps, PeerSteps, Commands, ProvisionSteps, hub, registries, gateway, node, history
<1>3. Allocated' /\ Settling'
  BY DEF OverlayInv, TypeOK, ProcessType, Located, ReadsHold, Allocated, Settling, FindIsLost, At, Site, Steps, JoinSteps, PeerSteps, Commands, ProvisionSteps,
         Others, hub, registries, gateway, node, history
<1>4. Blocks' /\ PeersAgree' /\ Retiring'
  BY DEF OverlayInv, TypeOK, ProcessType, Located, ReadsHold, Blocks, PeersAgree, Retiring, Undone, Absent, NoPeer, NoRoute, FindIsLost, At,
         Site, Sites, Steps, JoinSteps, PeerSteps, Commands, ProvisionSteps, None, Keys, hub, registries, gateway, node, history
<1> QED
  BY <1>1, <1>2, <1>3, <1>4 DEF OverlayInv

\* The new block has the key that was read.
LEMMA AddBlockInv == ASSUME OverlayInv, NEW P, Procs = {P}, AddBlock(P) PROVE OverlayInv'
<1> USE OverlayAssumption
<1>1. TypeOK' /\ ProcessType'
  BY DEF OverlayInv, TypeOK, ProcessType, Located, ReadsHold, AddBlock, At, Site, Sites, Steps, JoinSteps, PeerSteps, Commands, ProvisionSteps,
         Operations, NoOp, Lines, Keys, None, hub, registries, gateway, node, history
<1>2. Located' /\ ReadsHold'
  BY DEF OverlayInv, TypeOK, ProcessType, Located, ReadsHold, AddBlock, At, Site, Sites, Steps, JoinSteps, PeerSteps, Commands, ProvisionSteps, hub, registries, gateway, node, history
<1>3. Allocated' /\ Settling'
  BY DEF OverlayInv, TypeOK, ProcessType, Located, ReadsHold, Allocated, Settling, AddBlock, At, Site, Steps, JoinSteps, PeerSteps, Commands, ProvisionSteps,
         Others, hub, registries, gateway, node, history
<1>a. /\ pc[P] = "peer_add" /\ Site(P) \in Spokes /\ op[P].kind = "provision"
      /\ pub[P] \in Keys /\ pub[P] =< key[Site(P)] /\ conf[Site(P)] \in Seq(Keys)
      /\ conf' = [conf EXCEPT ![Site(P)] = Append(conf[Site(P)], pub[P])]
      /\ pc' = [pc EXCEPT ![P] = "peer_set"]
      /\ UNCHANGED <<alloc, sites, nodereg, dnsreg, live, hubRoutes, key, op, pub, joined, retired, clean, twice>>
  BY DEF OverlayInv, TypeOK, ProcessType, Located, PeersAgree, AddBlock, At, JoinSteps, PeerSteps, ProvisionSteps,
         Site, registries, gateway, history
<1>x. \A b \in Seq(Keys), k \in Keys :
        /\ Append(b, k) \in Seq(Keys) /\ Append(b, k) # <<>> /\ Len(Append(b, k)) = Len(b) + 1
        /\ \A i \in DOMAIN Append(b, k) : (i \in DOMAIN b /\ Append(b, k)[i] = b[i]) \/ Append(b, k)[i] = k
  OBVIOUS
<1>y. PICK b \in Seq(Keys), k \in Keys : b = conf[Site(P)] /\ k = pub[P]
  BY <1>a
<1>b. PICK c \in Seq(Keys) : /\ c = Append(b, k) /\ c # <<>> /\ Len(c) = Len(b) + 1
                             /\ \A i \in DOMAIN c : (i \in DOMAIN b /\ c[i] = b[i]) \/ c[i] = k
  BY <1>x
<1>c. conf' = [conf EXCEPT ![Site(P)] = c]
  BY <1>a, <1>b, <1>y
<1>d. \A i \in DOMAIN c : c[i] =< key[Site(P)]
  BY <1>a, <1>b, <1>y DEF OverlayInv, Blocks
<1>e. Site(P) \notin twice => Len(c) = 1
  <2>1. Site(P) \notin twice => conf[Site(P)] = <<>>
    BY <1>a DEF OverlayInv, PeersAgree
  <2> QED
    BY <2>1, <1>b, <1>y
<1>f. Site(P)' = Site(P)
  BY <1>a DEF Site
<1>g. Blocks'
  BY <1>a, <1>b, <1>c, <1>d, <1>e DEF OverlayInv, TypeOK, Blocks
<1>h. PeersAgree'
  BY <1>a, <1>b, <1>c, <1>f DEF OverlayInv, TypeOK, ProcessType, PeersAgree, ProvisionSteps, JoinSteps, PeerSteps, Commands, Site
<1>i. Retiring'
  BY <1>a, <1>c, <1>f DEF OverlayInv, TypeOK, ProcessType, Retiring, Absent, NoPeer, NoRoute, Site
<1>4. Blocks' /\ PeersAgree' /\ Retiring'
  BY <1>g, <1>h, <1>i
<1> QED
  BY <1>1, <1>2, <1>3, <1>4 DEF OverlayInv

\* wg0 gets the key that was read.
LEMMA SetPeerInv == ASSUME OverlayInv, NEW P, Procs = {P}, SetPeer(P) PROVE OverlayInv'
<1> USE OverlayAssumption
<1>1. TypeOK' /\ ProcessType'
  BY DEF OverlayInv, TypeOK, ProcessType, Located, ReadsHold, SetPeer, At, Site, Sites, Steps, JoinSteps, PeerSteps, Commands, ProvisionSteps,
         Operations, NoOp, Lines, Keys, None, hub, registries, gateway, node, history
<1>2. Located' /\ ReadsHold'
  BY DEF OverlayInv, TypeOK, ProcessType, Located, ReadsHold, SetPeer, At, Site, Sites, Steps, JoinSteps, PeerSteps, Commands, ProvisionSteps, hub, registries, gateway, node, history
<1>3. Allocated' /\ Settling'
  BY DEF OverlayInv, TypeOK, ProcessType, Located, ReadsHold, Allocated, Settling, SetPeer, At, Site, Steps, JoinSteps, PeerSteps, Commands, ProvisionSteps,
         Others, hub, registries, gateway, node, history
<1>4. Blocks' /\ PeersAgree' /\ Retiring'
  BY DEF OverlayInv, TypeOK, ProcessType, Located, ReadsHold, Blocks, PeersAgree, Retiring, Undone, Absent, NoPeer, NoRoute, SetPeer, At,
         Site, Sites, Steps, JoinSteps, PeerSteps, Commands, ProvisionSteps, None, Keys, hub, registries, gateway, node, history
<1> QED
  BY <1>1, <1>2, <1>3, <1>4 DEF OverlayInv

\* The site has joined: it has a block, and wg0 and the kernel have it.
LEMMA RoutePeerInv == ASSUME OverlayInv, NEW P, Procs = {P}, RoutePeer(P) PROVE OverlayInv'
<1> USE OverlayAssumption
<1>1. TypeOK' /\ ProcessType'
  BY DEF OverlayInv, TypeOK, ProcessType, Located, ReadsHold, RoutePeer, At, Site, Sites, Steps, JoinSteps, PeerSteps, Commands, ProvisionSteps,
         Operations, NoOp, Lines, Keys, None, hub, registries, gateway, node, history
<1>2. Located' /\ ReadsHold'
  BY DEF OverlayInv, TypeOK, ProcessType, Located, ReadsHold, RoutePeer, At, Site, Sites, Steps, JoinSteps, PeerSteps, Commands, ProvisionSteps, hub, registries, gateway, node, history
<1>3. Allocated' /\ Settling'
  BY DEF OverlayInv, TypeOK, ProcessType, Located, ReadsHold, Allocated, Settling, RoutePeer, At, Site, Steps, JoinSteps, PeerSteps, Commands, ProvisionSteps,
         Others, hub, registries, gateway, node, history
<1>4. Blocks' /\ PeersAgree' /\ Retiring'
  BY DEF OverlayInv, TypeOK, ProcessType, Located, ReadsHold, Blocks, PeersAgree, Retiring, Undone, Absent, NoPeer, NoRoute, RoutePeer, At,
         Site, Sites, Steps, JoinSteps, PeerSteps, Commands, ProvisionSteps, None, Keys, hub, registries, gateway, node, history
<1> QED
  BY <1>1, <1>2, <1>3, <1>4 DEF OverlayInv

\* The files and the routing table of a node stay sets of subnets.
LEMMA RoutedType ==
  ASSUME TypeOK, NEW n \in Nodes, NEW R \in SUBSET Sites, Routed(n, R)
  PROVE  /\ script' \in [Nodes -> SUBSET Sites] /\ routes' \in [Nodes -> SUBSET Sites]
         /\ active' \in [Nodes -> BOOLEAN]
<1>1. script \in [Nodes -> SUBSET Sites] /\ routes \in [Nodes -> SUBSET Sites] /\ active \in [Nodes -> BOOLEAN]
  BY DEF TypeOK
<1>2. script' \in [Nodes -> SUBSET Sites]
  BY <1>1 DEF Routed
<1>3. PICK Q \in SUBSET Sites : routes' = [routes EXCEPT ![n] = Q]
  <2>1. CASE active[n]
    BY <1>1, <2>1 DEF Routed
  <2>2. CASE ~active[n]
    <3>1. routes' = [routes EXCEPT ![n] = routes[n] \cup R] /\ routes[n] \cup R \in SUBSET Sites
      BY <1>1, <2>2 DEF Routed
    <3> QED
      BY <3>1
  <2> QED
    BY <2>1, <2>2
<1>4. routes' \in [Nodes -> SUBSET Sites]
  BY <1>1, <1>3
<1>5. active' \in [Nodes -> BOOLEAN]
  BY <1>1 DEF Routed
<1> QED
  BY <1>2, <1>4, <1>5

\* The node's own route script: refresh_routes() follows, so nothing is settled yet.
LEMMA RouteInv == ASSUME OverlayInv, NEW P, Procs = {P}, Route(P) PROVE OverlayInv'
<1> USE OverlayAssumption
<1>0. /\ script' \in [Nodes -> SUBSET Sites] /\ routes' \in [Nodes -> SUBSET Sites]
      /\ active' \in [Nodes -> BOOLEAN]
  <2>1. op[P].node \in Nodes /\ Others(sites, Site(P)) \in SUBSET Sites /\ TypeOK
    BY DEF OverlayInv, TypeOK, Located, Route, Others, ProvisionSteps
  <2>2. UNCHANGED node \/ Routed(op[P].node, Others(sites, Site(P)))
    BY DEF Route
  <2>3. CASE UNCHANGED node
    BY <2>1, <2>3 DEF TypeOK, node
  <2> QED
    BY <2>1, <2>2, <2>3, RoutedType
<1>1. TypeOK' /\ ProcessType'
  <2>1. UNCHANGED <<hub, gateway, up, seen, todo, addr, pub, joined, retired, clean, twice, op>>
    BY DEF Route, history
  <2>2. pc' \in [Procs -> Steps]
    BY DEF OverlayInv, TypeOK, ProcessType, Route, At, Steps, ProvisionSteps
  <2> QED
    BY <1>0, <2>1, <2>2 DEF OverlayInv, TypeOK, ProcessType, hub, registries, gateway
<1>2. Located' /\ ReadsHold'
  BY DEF OverlayInv, ProcessType, Located, ReadsHold, Route, At, Site, Steps, JoinSteps, PeerSteps, Commands, ProvisionSteps, Others, hub,
         registries, gateway, node, history, Routed
<1>3. Allocated' /\ Settling'
  BY DEF OverlayInv, ProcessType, Located, ReadsHold, Allocated, Settling, Route, At, Site, Steps, JoinSteps, PeerSteps, Commands,
         ProvisionSteps, Others, hub, registries, gateway, node, history, Routed
<1>4. Blocks' /\ PeersAgree' /\ Retiring'
  BY DEF OverlayInv, TypeOK, ProcessType, Located, Blocks, PeersAgree, Retiring, Undone, Absent, NoPeer, NoRoute, Route, At, Site, Steps, JoinSteps, PeerSteps, Commands,
         ProvisionSteps, Others, hub, registries, gateway, node, history, Routed
<1> QED
  BY <1>1, <1>2, <1>3, <1>4 DEF OverlayInv

\* The node does not answer, and the operation is not clean.
LEMMA RouteFailsInv == ASSUME OverlayInv, NEW P, Procs = {P}, RouteFails(P) PROVE OverlayInv'
<1> USE OverlayAssumption
<1>1. TypeOK' /\ ProcessType'
  BY DEF OverlayInv, TypeOK, ProcessType, Located, RouteFails, At, Sites, Steps, JoinSteps, PeerSteps, Commands, ProvisionSteps, Operations,
         NoOp, Lines, hub, registries, gateway, node
<1>2. Located' /\ ReadsHold'
  BY DEF OverlayInv, ProcessType, Located, ReadsHold, RouteFails, At, Site, Steps, JoinSteps, PeerSteps, Commands, ProvisionSteps, hub,
         registries, gateway, node
<1>3. Allocated' /\ Settling'
  BY DEF OverlayInv, ProcessType, Located, ReadsHold, Allocated, Settling, RouteFails, At, Steps, JoinSteps, PeerSteps, Commands,
         ProvisionSteps, Others, hub, registries, gateway, node
<1>4. Blocks' /\ PeersAgree' /\ Retiring'
  BY DEF OverlayInv, TypeOK, ProcessType, Located, Blocks, PeersAgree, Retiring, Undone, Absent, NoPeer, NoRoute, RouteFails, At, Site,
         Steps, JoinSteps, PeerSteps, Commands, ProvisionSteps, hub, registries, gateway, node
<1> QED
  BY <1>1, <1>2, <1>3, <1>4 DEF OverlayInv

\* The gateway has no address, and the operation is not clean.
LEMMA NoGatewayInv == ASSUME OverlayInv, NEW P, Procs = {P}, NoGateway(P) PROVE OverlayInv'
<1> USE OverlayAssumption
<1>1. TypeOK' /\ ProcessType'
  BY DEF OverlayInv, TypeOK, ProcessType, Located, ReadsHold, NoGateway, At, Site, Sites, Steps, JoinSteps, PeerSteps, Commands, ProvisionSteps,
         Operations, NoOp, Lines, Keys, None, hub, registries, gateway, node, history
<1>2. Located' /\ ReadsHold'
  BY DEF OverlayInv, TypeOK, ProcessType, Located, ReadsHold, NoGateway, At, Site, Sites, Steps, JoinSteps, PeerSteps, Commands, ProvisionSteps, hub, registries, gateway, node, history
<1>3. Allocated' /\ Settling'
  BY DEF OverlayInv, TypeOK, ProcessType, Located, ReadsHold, Allocated, Settling, NoGateway, At, Site, Steps, JoinSteps, PeerSteps, Commands, ProvisionSteps,
         Others, hub, registries, gateway, node, history
<1>4. Blocks' /\ PeersAgree' /\ Retiring'
  BY DEF OverlayInv, TypeOK, ProcessType, Located, ReadsHold, Blocks, PeersAgree, Retiring, Undone, Absent, NoPeer, NoRoute, NoGateway, At,
         Site, Sites, Steps, JoinSteps, PeerSteps, Commands, ProvisionSteps, None, Keys, hub, registries, gateway, node, history
<1> QED
  BY <1>1, <1>2, <1>3, <1>4 DEF OverlayInv

\* The nodes are read.
LEMMA NodeReadInv == ASSUME OverlayInv, NEW P, Procs = {P}, NodeRead(P) PROVE OverlayInv'
<1> USE OverlayAssumption
<1>1. TypeOK' /\ ProcessType'
  BY DEF OverlayInv, TypeOK, ProcessType, Located, NodeRead, At, Sites, Steps, JoinSteps, PeerSteps, Commands, ProvisionSteps, Operations,
         NoOp, Lines, hub, registries, gateway, node, history
<1>2. Located' /\ ReadsHold'
  BY DEF OverlayInv, ProcessType, Located, ReadsHold, NodeRead, At, Site, Steps, JoinSteps, PeerSteps, Commands, ProvisionSteps, hub,
         registries, gateway, node, history
<1>3. Allocated' /\ Settling'
  BY DEF OverlayInv, ProcessType, Located, ReadsHold, Allocated, Settling, NodeRead, At, Steps, JoinSteps, PeerSteps, Commands,
         ProvisionSteps, Others, hub, registries, gateway, node, history
<1>4. Blocks' /\ PeersAgree' /\ Retiring'
  BY DEF OverlayInv, TypeOK, ProcessType, Located, Blocks, PeersAgree, Retiring, Undone, Absent, NoPeer, NoRoute, NodeRead, At, Site, Steps, JoinSteps, PeerSteps, Commands,
         ProvisionSteps, hub, registries, gateway, node, history
<1> QED
  BY <1>1, <1>2, <1>3, <1>4 DEF OverlayInv

\* The node's line replaces the one it had.
LEMMA NodeWriteInv == ASSUME OverlayInv, NEW P, Procs = {P}, NodeWrite(P) PROVE OverlayInv'
<1> USE OverlayAssumption
<1>1. TypeOK' /\ ProcessType'
  BY DEF OverlayInv, TypeOK, ProcessType, Located, ReadsHold, NodeWrite, At, Site, Sites, Steps, JoinSteps, PeerSteps, Commands,
         ProvisionSteps, Operations, NoOp, Lines, gateway, node, history
<1>2. Located' /\ ReadsHold'
  BY DEF OverlayInv, ProcessType, Located, ReadsHold, NodeWrite, At, Site, Steps, JoinSteps, PeerSteps, Commands, ProvisionSteps, gateway,
         node, history
<1>3. Allocated' /\ Settling'
  BY DEF OverlayInv, ProcessType, Located, ReadsHold, Allocated, Settling, NodeWrite, At, Site, Steps, JoinSteps, PeerSteps, Commands,
         ProvisionSteps, Others, gateway, node, history
<1>4. Blocks' /\ PeersAgree' /\ Retiring'
  BY DEF OverlayInv, TypeOK, ProcessType, Located, ReadsHold, Blocks, PeersAgree, Retiring, Undone, Absent, NoPeer, NoRoute, NodeWrite, At,
         Site, Sites, Steps, JoinSteps, PeerSteps, Commands, ProvisionSteps, Operations, NoOp, Lines, gateway, node, history
<1> QED
  BY <1>1, <1>2, <1>3, <1>4 DEF OverlayInv

\* No node is done yet.
LEMMA ListAllInv == ASSUME OverlayInv, NEW P, Procs = {P}, ListAll(P) PROVE OverlayInv'
<1> USE OverlayAssumption
<1>1. TypeOK' /\ ProcessType'
  BY DEF OverlayInv, TypeOK, ProcessType, Located, ListAll, At, Sites, Steps, JoinSteps, PeerSteps, Commands, ProvisionSteps, Operations,
         NoOp, Lines, hub, registries, gateway, node, history
<1>2. Located' /\ ReadsHold'
  BY DEF OverlayInv, ProcessType, Located, ReadsHold, ListAll, At, Site, Steps, JoinSteps, PeerSteps, Commands, ProvisionSteps, hub,
         registries, gateway, node, history
<1>3. Allocated' /\ Settling'
  BY DEF OverlayInv, ProcessType, Located, ReadsHold, Allocated, Settling, ListAll, At, Steps, JoinSteps, PeerSteps, Commands,
         ProvisionSteps, Others, hub, registries, gateway, node, history
<1>4. Blocks' /\ PeersAgree' /\ Retiring'
  BY DEF OverlayInv, TypeOK, ProcessType, Located, Blocks, PeersAgree, Retiring, Undone, Absent, NoPeer, NoRoute, ListAll, At, Site, Steps, JoinSteps, PeerSteps, Commands,
         ProvisionSteps, hub, registries, gateway, node, history
<1> QED
  BY <1>1, <1>2, <1>3, <1>4 DEF OverlayInv

\* One node's script becomes right, when it answers; when it does not, the operation is not clean.
LEMMA PushInv ==
  ASSUME OverlayInv, NEW P, Procs = {P}, NEW l \in Sites \X Nodes, Push(P, l)
  PROVE OverlayInv'
<1> USE OverlayAssumption
<1>0. /\ script' \in [Nodes -> SUBSET Sites] /\ routes' \in [Nodes -> SUBSET Sites]
      /\ active' \in [Nodes -> BOOLEAN]
  <2>1. /\ l[2] \in Nodes /\ Others(seen[P], l[1]) \in SUBSET Sites /\ TypeOK
        /\ script \in [Nodes -> SUBSET Sites] /\ routes \in [Nodes -> SUBSET Sites] /\ active \in [Nodes -> BOOLEAN]
    BY DEF OverlayInv, TypeOK, ReadsHold, Push, Others
  <2>2. CASE UNCHANGED node
    BY <2>1, <2>2 DEF node
  <2>3. CASE Routed(l[2], Others(seen[P], l[1]))
    BY <2>1, <2>3, RoutedType
  <2>4. CASE /\ script' = [script EXCEPT ![l[2]] = {}] /\ active' = [active EXCEPT ![l[2]] = FALSE]
             /\ UNCHANGED routes
    BY <2>1, <2>4
  <2> QED
    BY <2>2, <2>3, <2>4 DEF Push
<1>1. TypeOK' /\ ProcessType'
  <2>1. UNCHANGED <<hub, gateway, up, pc, seen, addr, pub, joined, retired, clean, twice, op>>
    BY DEF Push, history
  <2>2. todo' \in [Procs -> SUBSET (Sites \X Nodes)]
    BY DEF OverlayInv, TypeOK, ProcessType, Push
  <2> QED
    BY <1>0, <2>1, <2>2 DEF OverlayInv, TypeOK, ProcessType, hub, registries, gateway
<1>2. Located' /\ ReadsHold'
  BY DEF OverlayInv, ProcessType, Located, ReadsHold, Push, Site, Steps, JoinSteps, PeerSteps, Commands, ProvisionSteps, Others, hub,
         registries, gateway, node, history, Routed
<1>3. Allocated' /\ Settling'
  <2>1. /\ pc[P] = "push" /\ l \in todo[P] /\ todo[P] \subseteq nodereg /\ seen[P] = sites
        /\ todo' = [todo EXCEPT ![P] = @ \ {l}] /\ UNCHANGED <<hub, up, pc, clean>>
    BY DEF OverlayInv, ReadsHold, Push, history
  <2>2. /\ clean => up = Nodes
        /\ nodereg \subseteq {<<SiteOf[n], n>> : n \in Nodes} /\ script \in [Nodes -> SUBSET Sites]
    BY DEF OverlayInv, Settling, TypeOK
  <2>3. l[2] \in up => script' = [script EXCEPT ![l[2]] = Others(sites, l[1])]
    BY <2>1 DEF Push, Routed
  <2>4. \A k \in nodereg : k[2] = l[2] => k = l
    BY <2>1, <2>2
  <2>5. ASSUME clean, NEW k \in nodereg, k \notin todo'[P] PROVE script'[k[2]] = Others(sites, k[1])
    <3>1. l[2] \in up /\ l[2] \in Nodes /\ k[2] \in Nodes
      BY <2>5, <2>2
    <3>2. CASE k = l
      BY <3>1, <3>2, <2>2, <2>3
    <3>3. CASE k # l
      <4>1. k \notin todo[P] /\ k[2] # l[2]
        BY <2>1, <2>4, <2>5, <3>3 DEF OverlayInv, ProcessType
      <4>2. script[k[2]] = Others(sites, k[1])
        BY <4>1, <2>1, <2>5 DEF OverlayInv, Settling
      <4> QED
        BY <4>1, <4>2, <3>1, <2>2, <2>3
    <3> QED
      BY <3>2, <3>3
  <2>6. UNCHANGED <<alloc, nodereg, sites>>
    BY <2>1 DEF hub, registries
  <2> QED
    BY <2>1, <2>2, <2>5, <2>6 DEF OverlayInv, Allocated, Settling
<1>4. Blocks' /\ PeersAgree' /\ Retiring'
  BY DEF OverlayInv, TypeOK, ProcessType, Located, Blocks, PeersAgree, Retiring, Undone, Absent, NoPeer, NoRoute, Push, Site, Steps, JoinSteps, PeerSteps, Commands,
         ProvisionSteps, Others, hub, registries, gateway, node, history, Routed
<1> QED
  BY <1>1, <1>2, <1>3, <1>4 DEF OverlayInv

\* A node is passed over, and the operation is not clean.
LEMMA PushIsLostInv ==
  ASSUME OverlayInv, NEW P, Procs = {P}, NEW l \in Sites \X Nodes, PushIsLost(P, l)
  PROVE OverlayInv'
<1> USE OverlayAssumption
<1>1. TypeOK' /\ ProcessType'
  BY DEF OverlayInv, TypeOK, ProcessType, Located, ReadsHold, PushIsLost, At, Site, Sites, Steps, JoinSteps, PeerSteps, Commands, ProvisionSteps,
         Operations, NoOp, Lines, Keys, None, hub, registries, gateway, node, history
<1>2. Located' /\ ReadsHold'
  BY DEF OverlayInv, TypeOK, ProcessType, Located, ReadsHold, PushIsLost, At, Site, Sites, Steps, JoinSteps, PeerSteps, Commands, ProvisionSteps, hub, registries, gateway, node, history
<1>3. Allocated' /\ Settling'
  BY DEF OverlayInv, TypeOK, ProcessType, Located, ReadsHold, Allocated, Settling, PushIsLost, At, Site, Steps, JoinSteps, PeerSteps, Commands, ProvisionSteps,
         Others, hub, registries, gateway, node, history
<1>4. Blocks' /\ PeersAgree' /\ Retiring'
  BY DEF OverlayInv, TypeOK, ProcessType, Located, ReadsHold, Blocks, PeersAgree, Retiring, Undone, Absent, NoPeer, NoRoute, PushIsLost, At,
         Site, Sites, Steps, JoinSteps, PeerSteps, Commands, ProvisionSteps, None, Keys, hub, registries, gateway, node, history
<1> QED
  BY <1>1, <1>2, <1>3, <1>4 DEF OverlayInv

\* Every registered node is done; a retirement is complete.
LEMMA PushedInv == ASSUME OverlayInv, NEW P, Procs = {P}, Pushed(P) PROVE OverlayInv'
<1> USE OverlayAssumption
<1>1. TypeOK' /\ ProcessType'
  BY DEF OverlayInv, TypeOK, ProcessType, Located, Pushed, At, Site, Sites, Steps, JoinSteps, PeerSteps, Commands, ProvisionSteps,
         Operations, NoOp, Lines, hub, registries, gateway, node
<1>2. Located' /\ ReadsHold'
  BY DEF OverlayInv, ProcessType, Located, ReadsHold, Pushed, At, Site, Steps, JoinSteps, PeerSteps, Commands, ProvisionSteps, hub,
         registries, gateway, node
<1>3. Allocated' /\ Settling'
  BY DEF OverlayInv, ProcessType, Located, ReadsHold, Allocated, Settling, Pushed, At, Site, Steps, JoinSteps, PeerSteps, Commands,
         ProvisionSteps, Others, hub, registries, gateway, node
<1>a. /\ pc' = [pc EXCEPT ![P] = IF op[P].kind = "provision" THEN "dns_read" ELSE "idle"]
      /\ UNCHANGED <<hub, gateway, op, pub, joined, twice>> /\ pc[P] = "push"
  BY DEF Pushed, At
<1>b. Blocks'
  BY <1>a DEF OverlayInv, Blocks, hub, gateway
<1>c. PeersAgree'
  BY <1>a DEF OverlayInv, ProcessType, PeersAgree, Site, JoinSteps, PeerSteps, Commands, ProvisionSteps, hub, gateway
<1>4. Blocks' /\ PeersAgree'
  BY <1>b, <1>c
<1>5. Retiring'
  BY DEF OverlayInv, TypeOK, ProcessType, Located, Retiring, Undone, Absent, NoPeer, NoRoute, Pushed, At, Site,
         hub, registries, gateway, node
<1> QED
  BY <1>1, <1>2, <1>3, <1>4, <1>5 DEF OverlayInv

\* The DNS servers are read.
LEMMA DnsReadInv == ASSUME OverlayInv, NEW P, Procs = {P}, DnsRead(P) PROVE OverlayInv'
<1> USE OverlayAssumption
<1>1. TypeOK' /\ ProcessType'
  BY DEF OverlayInv, TypeOK, ProcessType, Located, DnsRead, At, Sites, Steps, JoinSteps, PeerSteps, Commands, ProvisionSteps, Operations,
         NoOp, Lines, hub, registries, gateway, node, history
<1>2. Located' /\ ReadsHold'
  BY DEF OverlayInv, ProcessType, Located, ReadsHold, DnsRead, At, Site, Steps, JoinSteps, PeerSteps, Commands, ProvisionSteps, hub,
         registries, gateway, node, history
<1>3. Allocated' /\ Settling'
  BY DEF OverlayInv, ProcessType, Located, ReadsHold, Allocated, Settling, DnsRead, At, Steps, JoinSteps, PeerSteps, Commands,
         ProvisionSteps, Others, hub, registries, gateway, node, history
<1>4. Blocks' /\ PeersAgree' /\ Retiring'
  BY DEF OverlayInv, TypeOK, ProcessType, Located, Blocks, PeersAgree, Retiring, Undone, Absent, NoPeer, NoRoute, DnsRead, At, Site, Steps, JoinSteps, PeerSteps, Commands,
         ProvisionSteps, hub, registries, gateway, node, history
<1> QED
  BY <1>1, <1>2, <1>3, <1>4 DEF OverlayInv

\* The site's DNS server is written.
LEMMA DnsWriteInv == ASSUME OverlayInv, NEW P, Procs = {P}, DnsWrite(P) PROVE OverlayInv'
<1> USE OverlayAssumption
<1>1. TypeOK' /\ ProcessType'
  BY DEF OverlayInv, TypeOK, ProcessType, Located, ReadsHold, DnsWrite, At, Site, Sites, Steps, JoinSteps, PeerSteps, Commands,
         ProvisionSteps, Operations, NoOp, Lines, gateway, node, history
<1>2. Located' /\ ReadsHold'
  BY DEF OverlayInv, ProcessType, Located, ReadsHold, DnsWrite, At, Site, Steps, JoinSteps, PeerSteps, Commands, ProvisionSteps, gateway,
         node, history
<1>3. Allocated' /\ Settling'
  BY DEF OverlayInv, ProcessType, Located, ReadsHold, Allocated, Settling, DnsWrite, At, Site, Steps, JoinSteps, PeerSteps, Commands,
         ProvisionSteps, Others, gateway, node, history
<1>4. Blocks' /\ PeersAgree' /\ Retiring'
  BY DEF OverlayInv, TypeOK, ProcessType, Located, ReadsHold, Blocks, PeersAgree, Retiring, Undone, Absent, NoPeer, NoRoute, DnsWrite, At,
         Site, Sites, Steps, JoinSteps, PeerSteps, Commands, ProvisionSteps, Operations, NoOp, Lines, gateway, node, history
<1> QED
  BY <1>1, <1>2, <1>3, <1>4 DEF OverlayInv

\* The site loses its first block, which is its only one unless a search was lost.
LEMMA UnpeerInv == ASSUME OverlayInv, NEW P, Procs = {P}, Unpeer(P) PROVE OverlayInv'
<1> USE OverlayAssumption
<1>a. /\ pc[P] = "unpeer" /\ op[P].kind = "retire" /\ Site(P) \in Sites
      /\ conf \in [Spokes -> Seq(Keys)] /\ live \in [Spokes -> Keys \cup {None}] /\ key \in [Spokes -> Keys]
      /\ pc' = [pc EXCEPT ![P] = "unroute"]
      /\ UNCHANGED <<registries, hubRoutes, gateway, node, up, op, seen, todo, addr, pub, started, faults, history>>
  BY DEF OverlayInv, TypeOK, ProcessType, Located, Unpeer, At, Commands, Site, Operations
<1>b. \/ UNCHANGED <<conf, live>> /\ (Site(P) \in Spokes => conf[Site(P)] = <<>>)
      \/ /\ Site(P) \in Spokes /\ conf[Site(P)] # <<>>
         /\ conf' = [conf EXCEPT ![Site(P)] = Tail(conf[Site(P)])]
         /\ live' = [live EXCEPT ![Site(P)] = IF live[Site(P)] = Head(conf[Site(P)]) THEN None ELSE live[Site(P)]]
  BY <1>a DEF Unpeer, Sites
<1>c. \A c \in Seq(Keys) : c # <<>> =>
        /\ Tail(c) \in Seq(Keys) /\ Len(Tail(c)) = Len(c) - 1 /\ Head(c) = c[1] /\ 1 \in DOMAIN c
        /\ \A i \in DOMAIN Tail(c) : i + 1 \in DOMAIN c /\ Tail(c)[i] = c[i + 1]
  OBVIOUS
<1>d. \A c \in Seq(Keys) : Len(c) = 0 => c = <<>>
  OBVIOUS
<1>e. Site(P)' = Site(P)
  BY <1>a DEF Site
<1>1. TypeOK' /\ ProcessType'
  <2>1. conf' \in [Spokes -> Seq(Keys)]
    <3>1. CASE UNCHANGED conf
      BY <1>a, <3>1
    <3>2. CASE ~ UNCHANGED conf
      <4>1. PICK d \in Seq(Keys) : d = Tail(conf[Site(P)])
        BY <1>a, <1>b, <1>c, <3>2
      <4>2. conf' = [conf EXCEPT ![Site(P)] = d]
        BY <1>b, <3>2, <4>1
      <4> QED
        BY <1>a, <4>2
    <3> QED
      BY <3>1, <3>2
  <2>2. live' \in [Spokes -> Keys \cup {None}]
    BY <1>a, <1>b
  <2> QED
    BY <1>a, <2>1, <2>2 DEF OverlayInv, TypeOK, ProcessType, Steps, Commands, registries, gateway, node, history
<1>2. Located' /\ ReadsHold'
  BY DEF OverlayInv, TypeOK, ProcessType, Located, ReadsHold, Unpeer, At, Site, Sites, Steps, JoinSteps, PeerSteps, Commands, ProvisionSteps, hub, registries, gateway, node, history
<1>3. Allocated' /\ Settling'
  BY DEF OverlayInv, TypeOK, ProcessType, Located, ReadsHold, Allocated, Settling, Unpeer, At, Site, Steps, JoinSteps, PeerSteps, Commands, ProvisionSteps,
         Others, hub, registries, gateway, node, history
<1>4. Blocks'
  <2>1. CASE UNCHANGED <<conf, live>>
    BY <1>a, <2>1 DEF OverlayInv, Blocks, gateway, history
  <2>2. CASE ~ UNCHANGED <<conf, live>>
    <3>1. PICK c \in Seq(Keys) : c = conf[Site(P)] /\ c # <<>>
      BY <1>a, <1>b, <2>2
    <3>2. PICK d \in Seq(Keys) : d = Tail(c) /\ Len(d) = Len(c) - 1 /\ \A i \in DOMAIN d : i + 1 \in DOMAIN c /\ d[i] = c[i + 1]
      BY <1>c, <3>1
    <3>3. \A i \in DOMAIN c : c[i] =< key[Site(P)]
      BY <1>b, <2>2, <3>1 DEF OverlayInv, Blocks
    <3>4. \A i \in DOMAIN d : d[i] =< key[Site(P)]
      BY <3>2, <3>3
    <3>5. Len(c) =< 1 => Len(d) =< 1
      BY <3>2
    <3>6. c[1] \in Keys /\ c[1] =< key[Site(P)] /\ Head(c) = c[1]
      BY <1>c, <3>1, <3>3
    <3>7. conf' = [conf EXCEPT ![Site(P)] = d] /\ Site(P) \in Spokes
      BY <1>b, <2>2, <3>1, <3>2
    <3>8. /\ live' = [live EXCEPT ![Site(P)] = IF live[Site(P)] = c[1] THEN None ELSE live[Site(P)]]
          /\ key[Site(P)] = 1 => c[1] = 1 /\ live[Site(P)] \in {None, 1}
      BY <1>b, <2>2, <3>1, <3>6, <3>7 DEF Keys, OverlayInv, Blocks
    <3>9. key[Site(P)] = 1 => live'[Site(P)] = None
      BY <1>a, <3>7, <3>8
    <3> QED
      BY <1>a, <3>1, <3>4, <3>5, <3>7, <3>8, <3>9 DEF OverlayInv, Blocks, gateway, history
  <2> QED
    BY <2>1, <2>2
<1>5. PeersAgree'
  <2>1. Site(P) \notin joined
    BY <1>a DEF OverlayInv, PeersAgree, Commands
  <2>2. \A s \in joined : s \in Spokes /\ conf'[s] = conf[s] /\ live'[s] = live[s]
    BY <1>a, <1>b, <2>1 DEF OverlayInv, TypeOK
  <2> QED
    BY <1>a, <1>e, <2>1, <2>2 DEF OverlayInv, PeersAgree, ProcessType, PeerSteps, JoinSteps, ProvisionSteps, Commands, gateway, history
<1>6. NoPeer(Site(P))'
  <2>1. CASE UNCHANGED <<conf, live>>
    BY <1>a, <1>b, <1>e, <2>1 DEF OverlayInv, Blocks, NoPeer, gateway, history
  <2>2. CASE ~ UNCHANGED <<conf, live>>
    <3>1. PICK c \in Seq(Keys) : c = conf[Site(P)] /\ c # <<>> /\ Site(P) \in Spokes
      BY <1>a, <1>b, <2>2
    <3>2. Site(P) \notin twice => Len(c) =< 1
      BY <3>1 DEF OverlayInv, Blocks
    <3>3. Site(P) \notin twice => Tail(c) = <<>>
      BY <3>1, <3>2, <1>c, <1>d
    <3>4. Site(P) \notin twice => conf'[Site(P)] = <<>>
      BY <1>a, <1>b, <2>2, <3>1, <3>3
    <3> QED
      BY <1>4, <1>a, <1>e, <3>4 DEF Blocks, NoPeer, gateway, history
  <2> QED
    BY <2>1, <2>2
<1>7. \A s : NoPeer(s) => NoPeer(s)'
  BY <1>a, <1>b, <1>6 DEF NoPeer, gateway, history
<1>8. Retiring'
  <2>1. \A s \in retired' : Absent(s)'
    BY <1>a, <1>7 DEF OverlayInv, Retiring, Absent, NoRoute, registries, history
  <2> QED
    BY <1>a, <1>e, <1>6, <2>1 DEF OverlayInv, ProcessType, Retiring, Undone, Located, Commands, history
<1> QED
  BY <1>1, <1>2, <1>3, <1>4, <1>5, <1>8 DEF OverlayInv

\* The site loses its route.
LEMMA UnrouteInv == ASSUME OverlayInv, NEW P, Procs = {P}, Unroute(P) PROVE OverlayInv'
<1> USE OverlayAssumption
<1>1. TypeOK' /\ ProcessType'
  BY DEF OverlayInv, TypeOK, ProcessType, Located, ReadsHold, Unroute, At, Site, Sites, Steps, JoinSteps, PeerSteps, Commands, ProvisionSteps,
         Operations, NoOp, Lines, Keys, None, hub, registries, gateway, node, history
<1>2. Located' /\ ReadsHold'
  BY DEF OverlayInv, TypeOK, ProcessType, Located, ReadsHold, Unroute, At, Site, Sites, Steps, JoinSteps, PeerSteps, Commands, ProvisionSteps, hub, registries, gateway, node, history
<1>3. Allocated' /\ Settling'
  BY DEF OverlayInv, TypeOK, ProcessType, Located, ReadsHold, Allocated, Settling, Unroute, At, Site, Steps, JoinSteps, PeerSteps, Commands, ProvisionSteps,
         Others, hub, registries, gateway, node, history
<1>4. Blocks' /\ PeersAgree' /\ Retiring'
  BY DEF OverlayInv, TypeOK, ProcessType, Located, ReadsHold, Blocks, PeersAgree, Retiring, Undone, Absent, NoPeer, NoRoute, Unroute, At,
         Site, Sites, Steps, JoinSteps, PeerSteps, Commands, ProvisionSteps, None, Keys, hub, registries, gateway, node, history
<1> QED
  BY <1>1, <1>2, <1>3, <1>4 DEF OverlayInv

\* One registry loses the site.
LEMMA CleanRegistriesInv == ASSUME OverlayInv, NEW P, Procs = {P}, CleanRegistries(P) PROVE OverlayInv'
<1> USE OverlayAssumption
<1>1. TypeOK' /\ ProcessType'
  BY DEF OverlayInv, TypeOK, ProcessType, Located, ReadsHold, CleanRegistries, At, Site, Sites, Steps, JoinSteps, PeerSteps, Commands, ProvisionSteps,
         Operations, NoOp, Lines, Keys, None, hub, registries, gateway, node, history, Registries, Then
<1>2. Located' /\ ReadsHold'
  BY DEF OverlayInv, TypeOK, ProcessType, Located, ReadsHold, CleanRegistries, At, Site, Sites, Steps, JoinSteps, PeerSteps, Commands, ProvisionSteps, hub, registries, gateway, node, history, Registries, Then
<1>3. Allocated' /\ Settling'
  BY DEF OverlayInv, TypeOK, ProcessType, Located, ReadsHold, Allocated, Settling, CleanRegistries, At, Site, Steps, JoinSteps, PeerSteps, Commands, ProvisionSteps,
         Others, hub, registries, gateway, node, history, Registries, Then
<1>4. Blocks' /\ PeersAgree' /\ Retiring'
  BY DEF OverlayInv, TypeOK, ProcessType, Located, ReadsHold, Blocks, PeersAgree, Retiring, Undone, Absent, NoPeer, NoRoute, CleanRegistries, At,
         Site, Sites, Steps, JoinSteps, PeerSteps, Commands, ProvisionSteps, None, Keys, hub, registries, gateway, node, history, Registries, Then
<1> QED
  BY <1>1, <1>2, <1>3, <1>4 DEF OverlayInv

\* Nothing but the count of operations changes.
LEMMA NoSubnetInv == ASSUME OverlayInv, NEW P, Procs = {P}, NoSubnet(P) PROVE OverlayInv'
<1> USE OverlayAssumption
<1>1. TypeOK' /\ ProcessType'
  BY DEF OverlayInv, TypeOK, ProcessType, Located, ReadsHold, NoSubnet, At, Site, Sites, Steps, JoinSteps, PeerSteps, Commands, ProvisionSteps,
         Operations, NoOp, Lines, Keys, None, hub, registries, gateway, node, history, process
<1>2. Located' /\ ReadsHold'
  BY DEF OverlayInv, TypeOK, ProcessType, Located, ReadsHold, NoSubnet, At, Site, Sites, Steps, JoinSteps, PeerSteps, Commands, ProvisionSteps, hub, registries, gateway, node, history, process
<1>3. Allocated' /\ Settling'
  BY DEF OverlayInv, TypeOK, ProcessType, Located, ReadsHold, Allocated, Settling, NoSubnet, At, Site, Steps, JoinSteps, PeerSteps, Commands, ProvisionSteps,
         Others, hub, registries, gateway, node, history, process
<1>4. Blocks' /\ PeersAgree' /\ Retiring'
  BY DEF OverlayInv, TypeOK, ProcessType, Located, ReadsHold, Blocks, PeersAgree, Retiring, Undone, Absent, NoPeer, NoRoute, NoSubnet, At,
         Site, Sites, Steps, JoinSteps, PeerSteps, Commands, ProvisionSteps, None, Keys, hub, registries, gateway, node, history, process
<1> QED
  BY <1>1, <1>2, <1>3, <1>4 DEF OverlayInv

\* overlay_ctl.py refresh begins.
LEMMA RefreshInv == ASSUME OverlayInv, NEW P, Procs = {P}, Refresh(P) PROVE OverlayInv'
<1> USE OverlayAssumption
<1>1. TypeOK' /\ ProcessType'
  BY DEF OverlayInv, TypeOK, ProcessType, Located, Refresh, At, Sites, Steps, JoinSteps, PeerSteps, Commands, ProvisionSteps, Operations,
         NoOp, Lines, hub, registries, gateway, node
<1>2. Located' /\ ReadsHold'
  BY DEF OverlayInv, ProcessType, Located, ReadsHold, Refresh, At, Site, Steps, JoinSteps, PeerSteps, Commands, ProvisionSteps, NoOp, hub,
         registries, gateway, node
<1>3. Allocated' /\ Settling'
  BY DEF OverlayInv, ProcessType, Located, ReadsHold, Allocated, Settling, Refresh, At, Steps, JoinSteps, PeerSteps, Commands,
         ProvisionSteps, NoOp, Others, hub, registries, gateway, node
<1>4. Blocks' /\ PeersAgree' /\ Retiring'
  BY DEF OverlayInv, TypeOK, ProcessType, Located, Blocks, PeersAgree, Retiring, Undone, Absent, NoPeer, NoRoute, Refresh, At, Site, Steps, JoinSteps, PeerSteps, Commands,
         ProvisionSteps, NoOp, hub, registries, gateway, node
<1> QED
  BY <1>1, <1>2, <1>3, <1>4 DEF OverlayInv

\* A command is lost, and the operation is not clean.
LEMMA LostCommandInv == ASSUME OverlayInv, NEW P, Procs = {P}, LostCommand(P) PROVE OverlayInv'
<1> USE OverlayAssumption
<1>1. TypeOK' /\ ProcessType'
  BY DEF OverlayInv, TypeOK, ProcessType, Located, ReadsHold, LostCommand, At, Site, Sites, Steps, JoinSteps, PeerSteps, Commands, ProvisionSteps,
         Operations, NoOp, Lines, Keys, None, hub, registries, gateway, node, history, Then
<1>2. Located' /\ ReadsHold'
  BY DEF OverlayInv, TypeOK, ProcessType, Located, ReadsHold, LostCommand, At, Site, Sites, Steps, JoinSteps, PeerSteps, Commands, ProvisionSteps, hub, registries, gateway, node, history, Then
<1>3. Allocated' /\ Settling'
  BY DEF OverlayInv, TypeOK, ProcessType, Located, ReadsHold, Allocated, Settling, LostCommand, At, Site, Steps, JoinSteps, PeerSteps, Commands, ProvisionSteps,
         Others, hub, registries, gateway, node, history, Then
<1>4. Blocks' /\ PeersAgree' /\ Retiring'
  BY DEF OverlayInv, TypeOK, ProcessType, Located, ReadsHold, Blocks, PeersAgree, Retiring, Undone, Absent, NoPeer, NoRoute, LostCommand, At,
         Site, Sites, Steps, JoinSteps, PeerSteps, Commands, ProvisionSteps, None, Keys, hub, registries, gateway, node, history, Then
<1> QED
  BY <1>1, <1>2, <1>3, <1>4 DEF OverlayInv

\* The process dies, and the operation is not clean.
LEMMA DiesInv == ASSUME OverlayInv, NEW P, Procs = {P}, Dies(P) PROVE OverlayInv'
<1> USE OverlayAssumption
<1>1. TypeOK' /\ ProcessType'
  BY DEF OverlayInv, TypeOK, ProcessType, Located, Dies, At, Sites, Steps, JoinSteps, PeerSteps, Commands, ProvisionSteps, Operations, NoOp,
         Lines, hub, registries, gateway, node
<1>2. Located' /\ ReadsHold'
  BY DEF OverlayInv, ProcessType, Located, ReadsHold, Dies, At, Site, Steps, JoinSteps, PeerSteps, Commands, ProvisionSteps, hub,
         registries, gateway, node
<1>3. Allocated' /\ Settling'
  BY DEF OverlayInv, ProcessType, Located, ReadsHold, Allocated, Settling, Dies, At, Steps, JoinSteps, PeerSteps, Commands, ProvisionSteps,
         Others, hub, registries, gateway, node
<1>4. Blocks' /\ PeersAgree' /\ Retiring'
  BY DEF OverlayInv, TypeOK, ProcessType, Located, Blocks, PeersAgree, Retiring, Undone, Absent, NoPeer, NoRoute, Dies, At, Site, Steps, JoinSteps, PeerSteps, Commands,
         ProvisionSteps, hub, registries, gateway, node
<1> QED
  BY <1>1, <1>2, <1>3, <1>4 DEF OverlayInv

\* A join begins, and its site is no longer a retired one.
LEMMA ProvisionInv ==
  ASSUME OverlayInv, NEW P, Procs = {P}, NEW n \in Nodes, Provision(P, n)
  PROVE OverlayInv'
<1> USE OverlayAssumption
<1>1. TypeOK' /\ ProcessType'
  BY DEF OverlayInv, TypeOK, ProcessType, Located, Provision, At, Sites, Steps, JoinSteps, PeerSteps, Commands, ProvisionSteps, Operations,
         NoOp, Lines, hub, registries, gateway, node
<1>2. Located' /\ ReadsHold'
  BY DEF OverlayInv, TypeOK, ProcessType, Located, ReadsHold, Provision, At, Site, Sites, Steps, JoinSteps, PeerSteps, Commands,
         ProvisionSteps, Operations, NoOp, Lines, hub, registries, gateway, node
<1>3. Allocated' /\ Settling'
  BY DEF OverlayInv, ProcessType, Located, ReadsHold, Allocated, Settling, Provision, At, Steps, JoinSteps, PeerSteps, Commands,
         ProvisionSteps, Others, hub, registries, gateway, node
<1>4. Blocks' /\ PeersAgree'
  BY DEF OverlayInv, TypeOK, ProcessType, Located, Blocks, PeersAgree, Provision, At, Site, Steps, JoinSteps, PeerSteps, Commands,
         ProvisionSteps, hub, registries, gateway, node, Keys
<1>5. Retiring'
  BY DEF OverlayInv, TypeOK, ProcessType, Located, Retiring, Undone, Absent, NoPeer, NoRoute, Provision, At, Site,
         hub, registries, gateway, node
<1> QED
  BY <1>1, <1>2, <1>3, <1>4, <1>5 DEF OverlayInv

\* A line less to keep settled.
LEMMA ForgetInv ==
  ASSUME OverlayInv, NEW P, Procs = {P}, NEW n \in Nodes, Forget(P, n)
  PROVE OverlayInv'
<1> USE OverlayAssumption
<1>1. TypeOK' /\ ProcessType'
  BY DEF OverlayInv, TypeOK, ProcessType, Located, Forget, Sites, Steps, JoinSteps, PeerSteps, Commands, ProvisionSteps, Operations, NoOp,
         Lines, gateway, node, process, history
<1>2. Located' /\ ReadsHold'
  BY DEF OverlayInv, ProcessType, Located, ReadsHold, Forget, Site, Steps, JoinSteps, PeerSteps, Commands, ProvisionSteps, gateway, node,
         process, history
<1>3. Allocated' /\ Settling'
  BY DEF OverlayInv, ProcessType, Located, ReadsHold, Allocated, Settling, Forget, Steps, JoinSteps, PeerSteps, Commands, ProvisionSteps,
         Others, gateway, node, process, history
<1>4. Blocks' /\ PeersAgree' /\ Retiring'
  BY DEF OverlayInv, TypeOK, ProcessType, Located, Blocks, PeersAgree, Retiring, Undone, Absent, NoPeer, NoRoute, Forget, Site, Steps, JoinSteps, PeerSteps, Commands,
         ProvisionSteps, gateway, node, process, history
<1> QED
  BY <1>1, <1>2, <1>3, <1>4 DEF OverlayInv

\* A retirement begins, and its site is no longer one that has joined.
LEMMA RetireInv ==
  ASSUME OverlayInv, NEW P, Procs = {P}, NEW s \in Sites, Retire(P, s)
  PROVE OverlayInv'
<1> USE OverlayAssumption
<1>1. TypeOK' /\ ProcessType'
  BY DEF OverlayInv, TypeOK, ProcessType, Located, Retire, At, Sites, Steps, JoinSteps, PeerSteps, Commands, ProvisionSteps, Operations,
         NoOp, Lines, hub, registries, gateway, node
<1>2. Located' /\ ReadsHold'
  BY DEF OverlayInv, ProcessType, Located, ReadsHold, Retire, At, Site, Steps, JoinSteps, PeerSteps, Commands, ProvisionSteps, NoOp, hub,
         registries, gateway, node
<1>3. Allocated' /\ Settling'
  BY DEF OverlayInv, ProcessType, Located, ReadsHold, Allocated, Settling, Retire, At, Steps, JoinSteps, PeerSteps, Commands,
         ProvisionSteps, NoOp, Others, hub, registries, gateway, node
<1>4. Blocks' /\ PeersAgree' /\ Retiring'
  BY DEF OverlayInv, TypeOK, ProcessType, Located, Blocks, PeersAgree, Retiring, Undone, Absent, NoPeer, NoRoute, Retire, At, Site, Steps, JoinSteps, PeerSteps, Commands,
         ProvisionSteps, NoOp, hub, registries, gateway, node
<1> QED
  BY <1>1, <1>2, <1>3, <1>4 DEF OverlayInv

\* A node goes down, and the operation is not clean.
LEMMA NodeDownInv ==
  ASSUME OverlayInv, NEW P, Procs = {P}, NEW n \in Nodes, NodeDown(n)
  PROVE OverlayInv'
<1> USE OverlayAssumption
<1>1. TypeOK' /\ ProcessType'
  BY DEF OverlayInv, TypeOK, ProcessType, Located, NodeDown, Sites, Steps, JoinSteps, PeerSteps, Commands, ProvisionSteps, Operations, NoOp,
         Lines, hub, registries, gateway, node, process, Keys, None
<1>2. Located' /\ ReadsHold'
  BY DEF OverlayInv, ProcessType, Located, ReadsHold, NodeDown, Site, Steps, JoinSteps, PeerSteps, Commands, ProvisionSteps, hub,
         registries, gateway, node, process
<1>3. Allocated' /\ Settling'
  BY DEF OverlayInv, ProcessType, Located, ReadsHold, Allocated, Settling, NodeDown, Steps, JoinSteps, PeerSteps, Commands, ProvisionSteps,
         Others, hub, registries, gateway, node, process
<1>4. Blocks' /\ PeersAgree' /\ Retiring'
  BY DEF OverlayInv, TypeOK, ProcessType, Located, Blocks, PeersAgree, Retiring, Undone, Absent, NoPeer, NoRoute, NodeDown, Site, Steps, JoinSteps, PeerSteps, Commands,
         ProvisionSteps, hub, registries, gateway, node, process, None
<1> QED
  BY <1>1, <1>2, <1>3, <1>4 DEF OverlayInv

\* A node's routes become what its script says.
LEMMA NodeBootsInv ==
  ASSUME OverlayInv, NEW P, Procs = {P}, NEW n \in Nodes, NodeBoots(n)
  PROVE OverlayInv'
<1> USE OverlayAssumption
<1>1. TypeOK' /\ ProcessType'
  BY DEF OverlayInv, TypeOK, ProcessType, Located, NodeBoots, Sites, Steps, JoinSteps, PeerSteps, Commands, ProvisionSteps, Operations,
         NoOp, Lines, hub, registries, gateway, node, process, history, Keys, None
<1>2. Located' /\ ReadsHold'
  BY DEF OverlayInv, ProcessType, Located, ReadsHold, NodeBoots, Site, Steps, JoinSteps, PeerSteps, Commands, ProvisionSteps, hub,
         registries, gateway, node, process, history
<1>3. Allocated' /\ Settling'
  BY DEF OverlayInv, ProcessType, Located, ReadsHold, Allocated, Settling, NodeBoots, Steps, JoinSteps, PeerSteps, Commands, ProvisionSteps,
         Others, hub, registries, gateway, process, history
<1>4. Blocks' /\ PeersAgree' /\ Retiring'
  BY DEF OverlayInv, TypeOK, ProcessType, Located, Blocks, PeersAgree, Retiring, Undone, Absent, NoPeer, NoRoute, NodeBoots, Site, Steps, JoinSteps, PeerSteps, Commands,
         ProvisionSteps, hub, registries, gateway, process, history, None
<1> QED
  BY <1>1, <1>2, <1>3, <1>4 DEF OverlayInv

\* wg0 and the kernel become what wg0.conf says.
LEMMA HubRestartsInv == ASSUME OverlayInv, NEW P, Procs = {P}, HubRestarts PROVE OverlayInv'
<1> USE OverlayAssumption
<1>a. \A s \in Spokes : conf[s] # <<>> =>
        /\ Len(conf[s]) \in DOMAIN conf[s] /\ conf[s][Len(conf[s])] \in Keys
        /\ conf[s][Len(conf[s])] =< key[s]
  <2>1. \A c \in Seq(Keys) : c # <<>> => Len(c) \in DOMAIN c /\ c[Len(c)] \in Keys
    OBVIOUS
  <2> QED
    BY <2>1 DEF OverlayInv, TypeOK, Blocks
<1>b. live' \in [Spokes -> Keys \cup {None}]
  BY <1>a DEF HubRestarts
<1>1. TypeOK' /\ ProcessType'
  BY <1>b DEF OverlayInv, TypeOK, ProcessType, HubRestarts, registries, gateway, node, process, history
<1>2. Located' /\ ReadsHold'
  BY DEF OverlayInv, ProcessType, Located, ReadsHold, HubRestarts, Site, Steps, JoinSteps, PeerSteps, Commands, ProvisionSteps, registries,
         gateway, node, process, history, None
<1>3. Allocated' /\ Settling'
  BY DEF OverlayInv, ProcessType, Located, ReadsHold, Allocated, Settling, HubRestarts, Steps, JoinSteps, PeerSteps, Commands,
         ProvisionSteps, Others, registries, gateway, node, process, history, None
<1>c. ASSUME NEW s \in Spokes
      PROVE  \/ live'[s] = None /\ conf[s] = <<>>
             \/ conf[s] # <<>> /\ live'[s] \in Keys /\ live'[s] =< key[s]
  <2>1. live'[s] = IF conf[s] = <<>> THEN None ELSE conf[s][Len(conf[s])]
    BY DEF HubRestarts
  <2>2. CASE conf[s] = <<>>
    BY <2>1, <2>2
  <2>3. CASE conf[s] # <<>>
    <3>1. live'[s] = conf[s][Len(conf[s])]
      BY <2>1, <2>3
    <3> QED
      BY <1>a, <2>3, <3>1
  <2> QED
    BY <2>2, <2>3
<1>d. ASSUME NEW s \in Spokes, key[s] = 1 PROVE live'[s] = IF conf[s] = <<>> THEN None ELSE 1
  BY <1>c, <1>d DEF Keys
<1>e. hubRoutes' = {s \in Spokes : conf[s] # <<>>}
      /\ UNCHANGED <<alloc, sites, nodereg, dnsreg, conf, key, pc, op, pub, joined, retired, clean, twice>>
  BY DEF HubRestarts, registries, gateway, process, history
<1>4. Blocks' /\ PeersAgree'
  BY <1>d, <1>e DEF OverlayInv, TypeOK, Located, Blocks, PeersAgree, Site, JoinSteps, PeerSteps
<1>f. \A s \in Sites : NoPeer(s) => NoPeer(s)' /\ NoRoute(s)'
  BY <1>d, <1>e DEF NoPeer, NoRoute
<1>5. Retiring'
  BY <1>e, <1>f DEF OverlayInv, TypeOK, ProcessType, Operations, Retiring, Undone, Absent, Site
<1> QED
  BY <1>1, <1>2, <1>3, <1>4, <1>5 DEF OverlayInv

\* The site's key is no longer its first one.
LEMMA GatewayRebuiltInv ==
  ASSUME OverlayInv, NEW P, Procs = {P}, NEW s \in Spokes, GatewayRebuilt(s)
  PROVE OverlayInv'
<1> USE OverlayAssumption
<1>a. key' \in [Spokes -> Keys]
  BY DEF OverlayInv, TypeOK, GatewayRebuilt, Keys
<1>1. TypeOK' /\ ProcessType'
  BY <1>a DEF OverlayInv, TypeOK, ProcessType, GatewayRebuilt, Sites, hub, registries, gateway, node, process
<1>2. Located' /\ ReadsHold'
  BY DEF OverlayInv, ProcessType, Located, ReadsHold, GatewayRebuilt, Site, Steps, JoinSteps, PeerSteps, Commands, ProvisionSteps, hub,
         registries, gateway, node, process
<1>3. Allocated' /\ Settling'
  BY DEF OverlayInv, ProcessType, Located, ReadsHold, Allocated, Settling, GatewayRebuilt, Steps, JoinSteps, PeerSteps, Commands,
         ProvisionSteps, Others, hub, registries, node, process
<1>4. Blocks' /\ PeersAgree' /\ Retiring'
  BY DEF OverlayInv, TypeOK, ProcessType, Located, ReadsHold, Blocks, PeersAgree, Retiring, Undone, Absent, NoPeer, NoRoute, GatewayRebuilt,
         Site, Sites, Steps, JoinSteps, PeerSteps, Commands, ProvisionSteps, Operations, NoOp, Lines, hub, registries, gateway, node, process, Keys, None
<1> QED
  BY <1>1, <1>2, <1>3, <1>4 DEF OverlayInv

\* No site, no registered node, nothing retired.
LEMMA InitInv == ASSUME Init, NEW P, Procs = {P} PROVE OverlayInv
<1> USE OverlayAssumption
<1>1. HubAddress \in Addresses
  BY MinIsMember DEF HubAddress
<1>2. TypeOK /\ ProcessType
  BY <1>1 DEF Init, TypeOK, ProcessType, Steps, Operations, NoOp, Sites, Keys, None
<1>3. Located /\ ReadsHold /\ Allocated /\ Settling
  BY DEF Init, Located, ReadsHold, Allocated, Settling, ProvisionSteps, JoinSteps, PeerSteps, Commands, NoOp
<1>4. Blocks /\ PeersAgree /\ Retiring
  BY DEF Init, Blocks, PeersAgree, Retiring, PeerSteps, JoinSteps, ProvisionSteps, Commands, NoOp, None
<1> QED
  BY <1>2, <1>3, <1>4 DEF OverlayInv

\* Every step of the process and of its environment preserves the invariant.
LEMMA StepInv == ASSUME OverlayInv, NEW P, Procs = {P}, [Next]_vars PROVE OverlayInv'
<1>1. CASE Step(P)
  <2>1. ASSUME NEW l \in todo[P], Push(P, l) PROVE OverlayInv'
    <3>1. l \in Sites \X Nodes
      BY <2>1 DEF OverlayInv, ProcessType
    <3> QED
      BY <2>1, <3>1, PushInv
  <2> QED
    BY <1>1, <2>1, AllocReadInv, AllocWriteInv, AllocDiesInv, SiteReadInv, SiteWriteInv, GatewayInv,
       FindBlockInv, AddBlockInv, SetPeerInv, RoutePeerInv, RouteInv, RouteFailsInv, NoGatewayInv, NodeReadInv, NodeWriteInv, ListAllInv, PushedInv, DnsReadInv,
       DnsWriteInv, UnpeerInv, UnrouteInv, CleanRegistriesInv DEF Step
<1>9. ASSUME NEW l \in todo[P], PushIsLost(P, l) PROVE OverlayInv'
  <2>1. l \in Sites \X Nodes
    BY <1>9 DEF OverlayInv, ProcessType
  <2> QED
    BY <1>9, <2>1, PushIsLostInv
<1>2. ASSUME NEW n \in Nodes, Provision(P, n) \/ Forget(P, n) PROVE OverlayInv'
  BY <1>2, ProvisionInv, ForgetInv
<1>3. ASSUME NEW s \in Sites, Retire(P, s) PROVE OverlayInv'
  BY <1>3, RetireInv
<1>4. CASE Refresh(P) \/ NoSubnet(P) \/ FindIsLost(P) \/ LostCommand(P) \/ Dies(P)
  BY <1>4, RefreshInv, NoSubnetInv, FindIsLostInv, LostCommandInv, DiesInv
<1>5. ASSUME NEW n \in Nodes, NodeDown(n) \/ NodeBoots(n) PROVE OverlayInv'
  BY <1>5, NodeDownInv, NodeBootsInv
<1>6. CASE HubRestarts
  BY <1>6, HubRestartsInv
<1>7. ASSUME NEW s \in Spokes, GatewayRebuilt(s) PROVE OverlayInv'
  BY <1>7, GatewayRebuiltInv
<1>8. CASE UNCHANGED vars
  BY <1>8 DEF OverlayInv, TypeOK, ProcessType, Located, ReadsHold, Allocated, Settling, Blocks, PeersAgree, Retiring,
              Undone, Absent, NoPeer, NoRoute, Site, vars, hub, registries, gateway, node, process, history
<1> QED
  BY <1>1, <1>2, <1>3, <1>4, <1>5, <1>6, <1>7, <1>8, <1>9 DEF Next

\* While one process at a time works on the overlay, what it read of the hub's files is what
\* they say, the route scripts of the nodes it is done with are right, a site that has joined
\* has its block, its peer and its route on the hub, and at each point of add_peer_to_hub()
\* and of retire_site() the hub has what was done by then, lost searches aside.
THEOREM OverlayInvariant == ASSUME NEW P, Procs = {P} PROVE Spec => []OverlayInv
<1>1. Init => OverlayInv
  BY InitInv
<1>2. OverlayInv /\ [Next]_vars => OverlayInv'
  BY StepInv
<1> QED
  BY <1>1, <1>2, PTL DEF Spec

\* _allocate_overlay_ip(): no two sites ever share an overlay address and none has the
\* hub's, after any history of joins, retirements, interrupted runs and changes of
\* OVERLAY_CIDR, while no two runs overlap.
THEOREM DistinctAddresses == ASSUME NEW P, Procs = {P} PROVE Spec => []AddressesDistinct
<1>1. OverlayInv => AddressesDistinct
  BY DEF OverlayInv, Allocated, AddressesDistinct
<1> QED
  BY <1>1, OverlayInvariant, PTL

\* refresh_routes(): after every operation during which each node answered, the route script
\* of every registered node has exactly the other sites, however many sites there are.  The
\* script only: what the node's kernel was told to route before stays until the node boots.
THEOREM RoutesSettle == ASSUME NEW P, Procs = {P} PROVE Spec => []SettledRoutes
<1>1. OverlayInv => SettledRoutes
  BY DEF OverlayInv, Settling, SettledRoutes, Idle
<1> QED
  BY <1>1, OverlayInvariant, PTL

\* add_peer_to_hub(): a site that has joined with its first gateway stays a peer, in wg0 and
\* in wg0.conf, through restarts of the hub and whatever is done to the other sites.
THEOREM JoinedStayServed == ASSUME NEW P, Procs = {P} PROVE Spec => []JoinedServed
<1>1. OverlayInv => JoinedServed
  <2> SUFFICES ASSUME OverlayInv, NEW s \in joined, key[s] = 1
               PROVE  /\ conf[s] # <<>> /\ live[s] = 1 /\ s \in hubRoutes
                      /\ \A i \in DOMAIN conf[s] : conf[s][i] = 1
    BY DEF JoinedServed
  <2>1. s \in Spokes /\ conf[s] \in Seq(Keys) /\ conf[s] # <<>> /\ live[s] = 1 /\ s \in hubRoutes
    BY DEF OverlayInv, TypeOK, PeersAgree
  <2>2. \A i \in DOMAIN conf[s] : conf[s][i] =< 1 /\ conf[s][i] \in Keys
    BY <2>1 DEF OverlayInv, Blocks
  <2> QED
    BY <2>1, <2>2 DEF Keys
<1> QED
  BY <1>1, OverlayInvariant, PTL

\* retire_site(): nothing of a site that was retired without a loss comes back to any registry
\* until the site joins again; nor, unless a search for the site's block was once lost, to
\* wg0.conf, to wg0 or to the kernel of the hub.
THEOREM RetiredStayGone == ASSUME NEW P, Procs = {P} PROVE Spec => []RetiredGone
<1>1. OverlayInv => RetiredGone
  BY DEF OverlayInv, Retiring, Absent, NoPeer, NoRoute, RetiredGone
<1> QED
  BY <1>1, OverlayInvariant, PTL
=============================================================================
