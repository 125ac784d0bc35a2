-------------------------- MODULE DnsMastersProofs --------------------------
(***************************************************************************)
(* Theorems about DnsMasters.  The types, and what a script is doing where *)
(* it is, hold for any number of scripts.  That this host keeps what was   *)
(* registered needs one script at a time, as the run has.  That the        *)
(* masters follow, and that nothing removed returns, needs that no record  *)
(* has another's text in it, and is proved with an invariant that holds    *)
(* until the first fault: the zone each master will have, once the edits   *)
(* it still lacks are made, is the one this host will have.                *)
(***************************************************************************)
EXTENDS DnsMasters, TLAPS, SequenceTheorems

EditKinds == {"add", "replace", "del", "service", "named_rr"}
Comparing == {"compare", "fill", "prunecompare", "prune"}
Edits     == [del : SUBSET Lines, add : SUBSET Lines, unless : SUBSET Lines]

-----------------------------------------------------------------------------
(* The servers *)

\* remote_dns_servers is a finite list, and this host is not on it.
LEMMA TheServers ==
    /\ Len(MasterSeq) \in Nat /\ MasterSeq \in Seq(Masters)
    /\ \A j \in 1..Len(MasterSeq) : MasterSeq[j] \in Masters /\ MasterSeq[j] # Here
    /\ \A m \in Masters : \E j \in 1..Len(MasterSeq) : MasterSeq[j] = m
    /\ Here \in Servers /\ Masters \subseteq Servers /\ Here \notin Masters
    /\ \A s \in Servers : s = Here \/ s \in Masters
  BY DnsAssumption DEF Servers, Masters

\* What ensure_zone() visits: this host, then the masters.
LEMMA TheVisited ==
    /\ Visited \in Seq(Servers) /\ Len(Visited) = Len(MasterSeq) + 1
    /\ Visited[1] = Here
    /\ \A j \in 1..Len(MasterSeq) : Visited[j + 1] = MasterSeq[j]
<1>1. <<Here>> \in Seq(Servers) /\ MasterSeq \in Seq(Servers)
  BY TheServers
<1>2. Len(<<Here>>) = 1 /\ <<Here>>[1] = Here
  OBVIOUS
<1>3. QED
  BY <1>1, <1>2, TheServers DEF Visited

-----------------------------------------------------------------------------
(* The edits *)

\* The lines an edit deletes are lines.
LEMMA TheCuts ==
  ASSUME NEW n \in Names, NEW i \in Ips
  PROVE  /\ A(n, i) \in Records /\ Ptr(n, i) \in Records /\ Svc(n, i) \in Records
         /\ PtrsOf(i) \subseteq Lines /\ OtherAs(n, i) \subseteq Lines /\ ServicesOf(i) \subseteq Lines
<1>1. \A m \in Names, j \in Ips : A(m, j) \in Records /\ Ptr(m, j) \in Records /\ Svc(m, j) \in Records
  BY DEF A, Ptr, Svc, Records
<1>2. \A R \in SUBSET Records : EitherForm(R) \subseteq Lines /\ Padded(R) \subseteq Lines
  BY DEF EitherForm, Padded, Lines, Forms
<1>3. {Ptr(m, i) : m \in Names} \subseteq Records /\ {A(n, j) : j \in Ips \ {i}} \subseteq Records
      /\ {Svc(m, i) : m \in Names} \subseteq Records
  BY <1>1
<1>4. QED
  BY <1>1, <1>2, <1>3 DEF PtrsOf, OtherAs, ServicesOf

\* An edit of one record, or a cut, is an edit.
LEMMA TheEdits ==
  /\ \A d \in SUBSET Lines : Cut(d) \in Edits
  /\ \A l \in Lines : Append_(l) \in Edits
  /\ \A r \in Records : <<r, "padded">> \in Lines /\ RemoteAdd(r) \in Edits /\ LocalAdd(r) \in Edits
                        /\ RemoteCut(r) \in Edits /\ LocalCut(r) \in Edits
<1>1. \A d \in SUBSET Lines : Cut(d) \in Edits
  BY DEF Cut, Edit, Edits
<1>2. \A l \in Lines : Append_(l) \in Edits
  BY DEF Append_, Edit, Edits
<1>3. ASSUME NEW r \in Records
      PROVE  <<r, "padded">> \in Lines /\ RemoteAdd(r) \in Edits /\ LocalAdd(r) \in Edits
             /\ RemoteCut(r) \in Edits /\ LocalCut(r) \in Edits
  <2>1. <<r, "padded">> \in Lines
    BY DEF Lines, Forms
  <2>2. {r} \cup Covers[r] \subseteq Records
    BY DnsAssumption
  <2>3. Padded({r} \cup Covers[r]) \subseteq Lines
    BY <2>2 DEF Padded, Lines, Forms
  <2>4. RemoteAdd(r) \in Edits /\ LocalAdd(r) \in Edits
    BY <2>1, <2>3 DEF RemoteAdd, LocalAdd, Edit, Edits
  <2>5. RemoteCut(r) \in Edits /\ LocalCut(r) \in Edits
    BY <2>1, <2>3, <1>1 DEF RemoteCut, LocalCut
  <2>6. QED
    BY <2>1, <2>4, <2>5
<1>4. QED
  BY <1>1, <1>2, <1>3

\* The number of edits of each operation.
EditCount(k) == CASE k = "add" -> 3 [] k = "replace" -> 4 [] k = "del" -> 3
                  [] k = "service" -> 2 [] k = "named_rr" -> 1 [] OTHER -> 0

\* An operation is sent as a short list of edits, as many to a master as to this host.
LEMMA EditsOfOp ==
  ASSUME NEW o \in Ops
  PROVE  /\ o[1] \in OpKinds /\ o[2] \in Names /\ o[3] \in Ips /\ o = <<o[1], o[2], o[3]>>
         /\ RemoteEdits(o) \in Seq(Edits) /\ Len(RemoteEdits(o)) = EditCount(o[1])
         /\ LocalEdits(o) \in Seq(Edits) /\ Len(LocalEdits(o)) = EditCount(o[1])
         /\ EditCount(o[1]) \in 0..4 /\ (o[1] \in EditKinds => EditCount(o[1]) > 0)
<1>1. PICK k \in OpKinds, n \in Names, i \in Ips : o = <<k, n, i>>
  BY DnsAssumption
<1>2. o[1] = k /\ o[2] = n /\ o[3] = i
  BY <1>1
<1>3. EditCount(k) \in 0..4 /\ (k \in EditKinds => EditCount(k) > 0)
  BY DEF EditCount, EditKinds, OpKinds
<1>4. Cut(PtrsOf(i)) \in Edits /\ Cut(OtherAs(n, i)) \in Edits /\ Cut(ServicesOf(i)) \in Edits
      /\ RemoteAdd(A(n, i)) \in Edits /\ RemoteAdd(Ptr(n, i)) \in Edits /\ RemoteAdd(Svc(n, i)) \in Edits
      /\ LocalAdd(A(n, i)) \in Edits /\ LocalAdd(Ptr(n, i)) \in Edits /\ LocalAdd(Svc(n, i)) \in Edits
      /\ RemoteCut(A(n, i)) \in Edits /\ RemoteCut(Ptr(n, i)) \in Edits /\ RemoteCut(Svc(n, i)) \in Edits
      /\ LocalCut(A(n, i)) \in Edits /\ LocalCut(Ptr(n, i)) \in Edits /\ LocalCut(Svc(n, i)) \in Edits
      /\ Append_(<<Svc(n, i), "padded">>) \in Edits
  BY TheCuts, TheEdits
<1>5. RemoteEdits(o) \in Seq(Edits) /\ Len(RemoteEdits(o)) = EditCount(k)
  <2>1. CASE k = "add"
    BY <2>1, <1>2, <1>4 DEF RemoteEdits, EditCount
  <2>2. CASE k = "replace"
    BY <2>2, <1>2, <1>4 DEF RemoteEdits, EditCount
  <2>3. CASE k = "del"
    BY <2>3, <1>2, <1>4 DEF RemoteEdits, EditCount
  <2>4. CASE k = "service"
    BY <2>4, <1>2, <1>4 DEF RemoteEdits, EditCount
  <2>5. CASE k = "named_rr"
    BY <2>5, <1>2, <1>4 DEF RemoteEdits, EditCount
  <2>6. CASE k \in {"sync", "prune"}
    BY <2>6, <1>2 DEF RemoteEdits, EditCount
  <2>7. QED
    BY <2>1, <2>2, <2>3, <2>4, <2>5, <2>6 DEF OpKinds
<1>6. LocalEdits(o) \in Seq(Edits) /\ Len(LocalEdits(o)) = EditCount(k)
  <2>1. CASE k = "add"
    BY <2>1, <1>2, <1>4 DEF LocalEdits, EditCount
  <2>2. CASE k = "replace"
    BY <2>2, <1>2, <1>4 DEF LocalEdits, EditCount
  <2>3. CASE k = "del"
    BY <2>3, <1>2, <1>4 DEF LocalEdits, EditCount
  <2>4. CASE k = "service"
    BY <2>4, <1>2, <1>4 DEF LocalEdits, EditCount
  <2>5. CASE k = "named_rr"
    BY <2>5, <1>2, <1>4 DEF LocalEdits, EditCount
  <2>6. CASE k \in {"sync", "prune"}
    BY <2>6, <1>2 DEF LocalEdits, EditCount
  <2>7. QED
    BY <2>1, <2>2, <2>3, <2>4, <2>5, <2>6 DEF OpKinds
<1>7. QED
  BY <1>1, <1>2, <1>3, <1>5, <1>6

-----------------------------------------------------------------------------
(* Where a script is *)

\* The lengths of a script's work, with the edits of its operation.
LEMMA TheWork ==
  ASSUME NEW p \in Procs, op[p] \in Ops, index[p] \in Nat \ {0}
  PROVE  /\ RemoteWork(p) \in Nat /\ WorkLength(p) \in Nat
         /\ WorkLength(p) = RemoteWork(p) + EditCount(op[p][1])
         /\ OnRemote(p) => WorkEdit(p) \in Edits /\ EditCount(op[p][1]) > 0
         /\ index[p] <= WorkLength(p) /\ ~OnRemote(p) =>
              /\ index[p] - RemoteWork(p) \in 1..EditCount(op[p][1])
              /\ WorkEdit(p) = LocalEdits(op[p])[index[p] - RemoteWork(p)]
              /\ WorkEdit(p) \in Edits
<1> DEFINE k == EditCount(op[p][1])
<1>1. /\ RemoteEdits(op[p]) \in Seq(Edits) /\ Len(RemoteEdits(op[p])) = k
      /\ LocalEdits(op[p]) \in Seq(Edits) /\ Len(LocalEdits(op[p])) = k /\ k \in 0..4
  BY EditsOfOp
<1>2. RemoteWork(p) = Len(MasterSeq) * k
  BY <1>1 DEF RemoteWork
<1> HIDE DEF k
<1>3. RemoteWork(p) \in Nat
  BY <1>2, <1>1, TheServers
<1>4. WorkLength(p) = RemoteWork(p) + k /\ WorkLength(p) \in Nat
  BY <1>1, <1>3 DEF WorkLength
<1>5. ASSUME OnRemote(p)
      PROVE  WorkEdit(p) \in Edits /\ k > 0
  <2>1. index[p] <= Len(MasterSeq) * k
    BY <1>5, <1>2 DEF OnRemote
  <2>2. k # 0
    BY ONLY <2>1, index[p] \in Nat \ {0}, Len(MasterSeq) \in Nat, TheServers
  <2>3. ((index[p] - 1) % k) + 1 \in 1..k
    BY ONLY <2>2, <1>1, index[p] \in Nat \ {0}
  <2>4. WorkEdit(p) = RemoteEdits(op[p])[((index[p] - 1) % k) + 1]
    BY <1>5, <1>1 DEF WorkEdit
  <2>5. QED
    BY <2>2, <2>3, <2>4, <1>1
<1>6. ASSUME index[p] <= WorkLength(p), ~OnRemote(p)
      PROVE  /\ index[p] - RemoteWork(p) \in 1..k
             /\ WorkEdit(p) = LocalEdits(op[p])[index[p] - RemoteWork(p)]
             /\ WorkEdit(p) \in Edits
  <2>1. index[p] - RemoteWork(p) \in 1..k
    BY <1>6, <1>3, <1>4, <1>1 DEF OnRemote
  <2>2. WorkEdit(p) = LocalEdits(op[p])[index[p] - RemoteWork(p)]
    BY <1>6 DEF WorkEdit
  <2>3. QED
    BY <2>1, <2>2, <1>1
<1>7. QED
  BY <1>3, <1>4, <1>5, <1>6 DEF k

\* A comparison's stop is a server and one of its files.
LEMMA TheStops ==
  ASSUME NEW p \in Procs
  PROVE  /\ Len(Stops(p)) \in Nat
         /\ \A j \in 1..Len(Stops(p)) : Stops(p)[j].file \in ZonesOf(op[p]) /\ Stops(p)[j].server \in Servers
         /\ \A s \in Servers, f \in ZonesOf(op[p]) :
              \E j \in 1..Len(Stops(p)) : Stops(p)[j] = [file |-> f, server |-> s]
<1> DEFINE T     == [file : ZonesOf(op[p]), server : Servers]
           on(f) == [i \in 1..Len(Visited) |-> [file |-> f, server |-> Visited[i]]]
           fwd   == on("fwd")
           rev   == on("rev")
<1>1. Len(Visited) \in Nat /\ \A i \in 1..Len(Visited) : Visited[i] \in Servers
  BY TheVisited, TheServers
<1>2. ASSUME NEW s \in Servers
      PROVE  \E i \in 1..Len(Visited) : Visited[i] = s
  <2>1. CASE s = Here
    BY <2>1, TheVisited, TheServers
  <2>2. CASE s # Here
    <3>1. PICK j \in 1..Len(MasterSeq) : MasterSeq[j] = s
      BY <2>2, TheServers
    <3>2. Visited[j + 1] = s
      BY <3>1, TheVisited
    <3>3. Len(Visited) = Len(MasterSeq) + 1 /\ Len(MasterSeq) \in Nat
      BY TheVisited, TheServers
    <3>4. j + 1 \in 1..Len(Visited)
      BY ONLY <3>1, <3>3
    <3>5. QED
      BY <3>2, <3>4
  <2>3. QED
    BY <2>1, <2>2
<1>3. ASSUME NEW f \in ZonesOf(op[p])
      PROVE  on(f) \in Seq(T) /\ Len(on(f)) = Len(Visited)
  BY <1>1
<1>4. /\ fwd \in Seq(T) /\ Len(fwd) = Len(Visited)
      /\ "rev" \in ZonesOf(op[p]) => rev \in Seq(T) /\ Len(rev) = Len(Visited)
  BY <1>3 DEF ZonesOf, ZoneFiles
<1>5. /\ \A i \in 1..Len(Visited) : fwd[i] = [file |-> "fwd", server |-> Visited[i]]
      /\ \A i \in 1..Len(Visited) : rev[i] = [file |-> "rev", server |-> Visited[i]]
  OBVIOUS
<1>6. Stops(p) = IF "rev" \in ZonesOf(op[p]) THEN fwd \o rev ELSE fwd
  BY DEF Stops
<1>7. "fwd" \in ZonesOf(op[p]) /\ ZonesOf(op[p]) \subseteq ZoneFiles
  BY DEF ZonesOf, ZoneFiles
<1> HIDE DEF fwd, rev, T
<1>8. CASE "rev" \in ZonesOf(op[p])
  <2> DEFINE all == fwd \o rev
  <2>files. rev \in Seq(T) /\ Len(rev) = Len(Visited) /\ fwd \in Seq(T) /\ Len(fwd) = Len(Visited)
    BY <1>8, <1>4
  <2>all. all \in Seq(T) /\ Len(all) = Len(Visited) + Len(Visited)
    BY ONLY <2>files, ConcatProperties
  <2>1. Stops(p) \in Seq(T) /\ Len(Stops(p)) = Len(Visited) + Len(Visited)
    BY <1>8, <1>6, <2>all
  <2>2. \A i \in 1..Len(Visited) : Stops(p)[i] = fwd[i] /\ Stops(p)[Len(Visited) + i] = rev[i]
    BY <1>8, <1>6, <1>4, <1>1, ConcatProperties
  <2>3. ASSUME NEW s \in Servers, NEW f \in ZonesOf(op[p])
        PROVE  \E j \in 1..Len(Stops(p)) : Stops(p)[j] = [file |-> f, server |-> s]
    <3>1. PICK i \in 1..Len(Visited) : Visited[i] = s
      BY <1>2
    <3>2. i \in 1..Len(Stops(p)) /\ Len(Visited) + i \in 1..Len(Stops(p))
      BY <2>1, <1>1
    <3>3. f = "fwd" \/ f = "rev"
      BY <1>7 DEF ZoneFiles
    <3>4. QED
      BY <3>1, <3>2, <3>3, <2>2, <1>5
  <2>4. \A j \in 1..Len(Stops(p)) : Stops(p)[j] \in T
    BY ONLY <2>1
  <2>5. QED
    BY <2>1, <2>3, <2>4, <1>1 DEF T
<1>9. CASE "rev" \notin ZonesOf(op[p])
  <2>1. Stops(p) = fwd
    BY <1>9, <1>6
  <2>2. \A f \in ZonesOf(op[p]) : f = "fwd"
    BY <1>7, <1>9 DEF ZoneFiles
  <2>3. \A j \in 1..Len(Stops(p)) : Stops(p)[j] \in T
    BY ONLY <2>1, <1>4
  <2>4. \A s \in Servers : \E j \in 1..Len(Stops(p)) : Stops(p)[j] = [file |-> "fwd", server |-> s]
    BY <2>1, <1>2, <1>4, <1>5
  <2>5. QED
    BY <2>1, <2>2, <2>3, <2>4, <1>1, <1>4 DEF T
<1>10. QED
  BY <1>8, <1>9

-----------------------------------------------------------------------------
(* Types *)

\* Where a script is: it runs one of its operations, writes a file for an edit of its
\* own host, prunes only when told to and a master answered, and has read the zones of
\* the others only while it compares.
Located(p) ==
    /\ pc[p] # "idle" => op[p] \in Ops
    /\ pc[p] \in {"zones", "edit", "write"} => op[p][1] \in EditKinds
    /\ pc[p] = "write" => index[p] <= WorkLength(p) /\ ~OnRemote(p)
    /\ pc[p] \in {"prune", "prunecompare"} => op[p][1] = "prune" /\ \E m \in Masters : Reached(p, m)
    /\ pc[p] \notin Comparing => held[p] = Unread

TypeInv == TypeOK /\ \A p \in Procs : Located(p)

\* A script whose operation and place are kept has the same work.
LEMMA WorkKept ==
  ASSUME NEW p \in Procs, op'[p] = op[p], index'[p] = index[p]
  PROVE  /\ OnRemote(p)' = OnRemote(p) /\ WorkLength(p)' = WorkLength(p)
         /\ WorkEdit(p)' = WorkEdit(p) /\ RemoteWork(p)' = RemoteWork(p)
  BY DEF OnRemote, WorkLength, RemoteWork, WorkEdit

\* Nothing is edited, read or registered at first.
LEMMA InitTyped == Init => TypeInv
<1> SUFFICES ASSUME Init PROVE TypeInv
  OBVIOUS
<1>1. TypeOK
  BY DnsAssumption DEF Init, TypeOK, Unread, Servers
<1>2. \A p \in Procs : Located(p)
  BY DEF Init, Located, Comparing
<1>3. QED
  BY <1>1, <1>2 DEF TypeInv

\* A script that stands still, or goes on to its next stop, stays where it is.
LEMMA LocatedKept ==
  ASSUME NEW p \in Procs, Located(p), pc'[p] = pc[p], op'[p] = op[p], cache'[p] = cache[p], held'[p] = held[p],
         index'[p] = index[p] \/ pc[p] # "write"
  PROVE  Located(p)'
<1>1. \A m \in Masters : Reached(p, m)' = Reached(p, m)
  BY DEF Reached
<1>2. CASE pc[p] = "write"
  BY <1>2, <1>1, WorkKept DEF Located, Comparing
<1>3. CASE pc[p] # "write"
  BY <1>3, <1>1 DEF Located, Comparing
<1>4. QED
  BY <1>2, <1>3

\* NewRun, which forgets what was probed.
LEMMA NewRunTyped ==
  ASSUME TypeInv, NEW p \in Procs, NewRun(p)
  PROVE  TypeInv'
<1>1. TypeOK'
  <2>1. cache' \in [Procs -> [Masters -> {"unknown", "yes", "no"}]]
    BY DEF TypeInv, TypeOK, NewRun
  <2>2. held[p] = Unread
    BY DEF TypeInv, NewRun, Located, Comparing
  <2>3. \A m \in Masters : held[p][m] = {}
    BY <2>2, TheServers DEF Unread
  <2>4. ASSUME NEW q \in Procs, NEW m \in Masters
        PROVE  held'[q][m] # {} => cache'[q][m] = "yes"
    BY <2>3 DEF TypeInv, TypeOK, NewRun
  <2>5. QED
    BY <2>1, <2>4 DEF TypeInv, TypeOK, NewRun, world, history
<1>2. ASSUME NEW q \in Procs
      PROVE  Located(q)'
  <2>1. CASE q # p
    BY <2>1, LocatedKept DEF TypeInv, TypeOK, NewRun
  <2>2. CASE q = p
    BY <2>2 DEF TypeInv, TypeOK, NewRun, Located, Comparing
  <2>3. QED
    BY <2>1, <2>2
<1>3. QED
  BY <1>1, <1>2 DEF TypeInv

\* Begin: the operation is one of the script's, and it goes where such operations go.
LEMMA BeginTyped ==
  ASSUME TypeInv, NEW p \in Procs, NEW o \in Ops, Begin(p, o)
  PROVE  TypeInv'
<1>1. o[1] \in OpKinds /\ o[2] \in Names /\ o[3] \in Ips
  BY EditsOfOp
<1>2. TypeOK'
  <2>1. /\ zone' \in [Servers -> SUBSET Lines] /\ declared' \in [Servers -> SUBSET ZoneFiles] /\ up' \subseteq Masters
        /\ resync' \in [Procs -> BOOLEAN] /\ seen' \in [Procs -> SUBSET Lines]
        /\ held' \in [Procs -> [Servers -> SUBSET Records]]
    BY DEF TypeInv, TypeOK, Begin, world
  <2>2. pc' \in [Procs -> {"idle", "zones", "edit", "write", "compare", "fill", "prunecompare", "prune"}]
    BY DEF TypeInv, TypeOK, Begin, At
  <2>3. op' \in [Procs -> Ops \cup {NoOp}] /\ index' \in [Procs -> Nat \ {0}]
    BY DEF TypeInv, TypeOK, Begin, First
  <2>4. cache' \in [Procs -> [Masters -> {"unknown", "yes", "no"}]]
    BY DEF TypeInv, TypeOK, Begin
  <2>5. started' \in 0..MaxOps /\ faults' \in 0..MaxFaults
    BY DnsAssumption DEF TypeInv, TypeOK, Begin
  <2>6. want' \subseteq Names \X Ips /\ dead' \subseteq Records
    BY DEF TypeInv, TypeOK, Begin
  <2>7. last' \in OpKinds \cup {"none"} /\ calm' \in BOOLEAN
    BY DEF TypeInv, TypeOK, Begin
  <2>8. ASSUME NEW q \in Procs
        PROVE  (pc'[q] # "write" => seen'[q] = {}) /\ \A m \in Masters : held'[q][m] # {} => cache'[q][m] = "yes"
    <3>1. CASE q # p
      BY <3>1 DEF TypeInv, TypeOK, Begin, At
    <3>2. CASE q = p
      <4>1. seen'[p] = {} /\ held'[p] = Unread
        BY DEF TypeInv, TypeOK, Begin, Located, Comparing
      <4>2. \A m \in Masters : held'[p][m] = {}
        BY <4>1, TheServers DEF Unread
      <4>3. QED
        BY <3>2, <4>1, <4>2
    <3>3. QED
      BY <3>1, <3>2
  <2>all. QED
    BY <2>1, <2>2, <2>3, <2>4, <2>5, <2>6, <2>7, <2>8 DEF TypeOK
<1>3. ASSUME NEW q \in Procs
      PROVE  Located(q)'
  <2>1. CASE q # p
    BY <2>1, LocatedKept DEF TypeInv, TypeOK, Begin, At, First
  <2>2. CASE q = p
    <3>1. op'[p] = o /\ held'[p] = Unread
      BY DEF TypeInv, TypeOK, Begin, Located, Comparing
    <3>2. pc'[p] = (CASE o[1] = "del" -> "edit" [] o[1] \in {"sync", "prune"} -> "compare" [] OTHER -> "zones")
      BY DEF TypeInv, TypeOK, Begin, At
    <3>3. pc'[p] \in {"edit", "zones", "compare"} /\ (pc'[p] # "compare" => o[1] \in EditKinds)
      BY <3>2, <1>1 DEF OpKinds, EditKinds
    <3>4. QED
      BY <2>2, <3>1, <3>3 DEF Located
  <2>3. QED
    BY <2>1, <2>2
<1>4. QED
  BY <1>2, <1>3 DEF TypeInv

\* EnsureZone.
LEMMA EnsureZoneTyped ==
  ASSUME TypeInv, NEW p \in Procs, EnsureZone(p)
  PROVE  TypeInv'
<1>1. TypeOK'
  <2>1. ZonesOf(op[p]) \subseteq ZoneFiles
    BY DEF ZonesOf, ZoneFiles
  <2>2. declared' \in [Servers -> SUBSET ZoneFiles]
    BY <2>1 DEF TypeInv, TypeOK, EnsureZone
  <2>3. resync' \in [Procs -> BOOLEAN]
    <3>1. PICK b \in BOOLEAN : resync' = [resync EXCEPT ![p] = @ \/ b]
      BY DEF EnsureZone
    <3>2. QED
      BY <3>1 DEF TypeInv, TypeOK
  <2>4. index' \in [Procs -> Nat \ {0}]
    BY DEF TypeInv, TypeOK, EnsureZone, Next_
  <2>5. QED
    BY <2>2, <2>3, <2>4 DEF TypeInv, TypeOK, EnsureZone, history
<1>2. ASSUME NEW q \in Procs
      PROVE  Located(q)'
  BY LocatedKept DEF TypeInv, TypeOK, EnsureZone, Next_
<1>3. QED
  BY <1>1, <1>2 DEF TypeInv

\* ZonesDone.
LEMMA ZonesDoneTyped ==
  ASSUME TypeInv, NEW p \in Procs, ZonesDone(p)
  PROVE  TypeInv'
<1>1. pc' \in [Procs -> {"idle", "zones", "edit", "write", "compare", "fill", "prunecompare", "prune"}]
      /\ pc'[p] \in {"idle", "edit"} /\ pc[p] = "zones" /\ \A q \in Procs \ {p} : pc'[q] = pc[q]
  BY DEF TypeInv, TypeOK, ZonesDone, At
<1>2. index' \in [Procs -> Nat \ {0}] /\ \A q \in Procs \ {p} : index'[q] = index[q]
  BY DEF TypeInv, TypeOK, ZonesDone, First
<1>3. /\ UNCHANGED <<zone, declared, up, op, cache, resync, seen, held, started, faults, want, dead, last, calm>>
  BY DEF ZonesDone, world, history
<1>4. TypeOK'
  BY <1>1, <1>2, <1>3 DEF TypeInv, TypeOK
<1>5. ASSUME NEW q \in Procs
      PROVE  Located(q)'
  <2>1. CASE q # p
    BY <2>1, <1>1, <1>2, <1>3, LocatedKept DEF TypeInv
  <2>2. CASE q = p
    BY <2>2, <1>1, <1>3 DEF TypeInv, Located, Comparing
  <2>3. QED
    BY <2>1, <2>2
<1>6. QED
  BY <1>4, <1>5 DEF TypeInv

\* An edit of lines leaves lines.
LEMMA ApplyTyped ==
  ASSUME NEW z \in SUBSET Lines, NEW e \in Edits
  PROVE  Apply(z, e) \in SUBSET Lines
  BY DEF Apply, Edits

\* RemoteStep.
LEMMA RemoteStepTyped ==
  ASSUME TypeInv, NEW p \in Procs, RemoteStep(p)
  PROVE  TypeInv'
<1>1. op[p] \in Ops /\ index[p] \in Nat \ {0} /\ pc[p] = "edit"
  BY DEF TypeInv, TypeOK, Located, RemoteStep
<1>2. WorkEdit(p) \in Edits
  BY <1>1, TheWork DEF RemoteStep
<1>3. zone' \in [Servers -> SUBSET Lines]
  BY <1>2, ApplyTyped DEF TypeInv, TypeOK, RemoteStep
<1>4. index' \in [Procs -> Nat \ {0}] /\ \A q \in Procs \ {p} : index'[q] = index[q]
  BY DEF TypeInv, TypeOK, RemoteStep, Next_
<1>5. UNCHANGED <<declared, up, pc, op, cache, resync, seen, held, started, faults, want, dead, last, calm>>
  BY DEF RemoteStep, history
<1>6. TypeOK'
  BY <1>3, <1>4, <1>5 DEF TypeInv, TypeOK
<1>7. ASSUME NEW q \in Procs
      PROVE  Located(q)'
  BY <1>1, <1>4, <1>5, LocatedKept DEF TypeInv
<1>8. QED
  BY <1>6, <1>7 DEF TypeInv

\* LocalRead, which a write follows unless the line is there.
LEMMA LocalReadTyped ==
  ASSUME TypeInv, NEW p \in Procs, LocalRead(p)
  PROVE  TypeInv'
<1>1. op[p] \in Ops /\ index[p] \in Nat \ {0} /\ pc[p] = "edit" /\ op[p][1] \in EditKinds
  BY DEF TypeInv, TypeOK, Located, LocalRead
<1>2. UNCHANGED <<zone, declared, up, op, cache, resync, held, started, faults, want, dead, last, calm>>
  BY DEF LocalRead, world, history
<1>3. \A q \in Procs \ {p} : pc'[q] = pc[q] /\ index'[q] = index[q]
  BY DEF TypeInv, TypeOK, LocalRead, At, Next_
<1>4. CASE zone[Here] \cap WorkEdit(p).unless = {}
  <2>1. /\ seen' = [seen EXCEPT ![p] = zone[Here] \cap FileOf(WorkEdit(p))]
        /\ pc' = [pc EXCEPT ![p] = "write"] /\ index' = index
    BY <1>4 DEF LocalRead, At
  <2>2. TypeOK'
    <3>1. seen' \in [Procs -> SUBSET Lines]
      BY <2>1, TheServers DEF TypeInv, TypeOK
    <3>2. \A q \in Procs : (pc'[q] # "write" => seen'[q] = {})
      BY <2>1 DEF TypeInv, TypeOK
    <3>3. pc' \in [Procs -> {"idle", "zones", "edit", "write", "compare", "fill", "prunecompare", "prune"}]
      BY <2>1 DEF TypeInv, TypeOK
    <3>4. QED
      BY <1>2, <2>1, <3>1, <3>2, <3>3 DEF TypeInv, TypeOK
  <2>3. Located(p)'
    <3>1. OnRemote(p)' = OnRemote(p) /\ WorkLength(p)' = WorkLength(p) /\ index'[p] = index[p]
      BY <1>2, <2>1, WorkKept
    <3>2. pc'[p] = "write" /\ op'[p] = op[p] /\ held'[p] = held[p]
      BY <1>2, <2>1 DEF TypeInv, TypeOK
    <3>3. held[p] = Unread
      BY <1>1 DEF TypeInv, Located, Comparing
    <3>4. QED
      BY <1>1, <3>1, <3>2, <3>3 DEF LocalRead, Located
  <2>4. ASSUME NEW q \in Procs \ {p}
        PROVE  Located(q)'
    BY <1>2, <1>3, LocatedKept DEF TypeInv
  <2>5. QED
    BY <2>2, <2>3, <2>4 DEF TypeInv
<1>5. CASE zone[Here] \cap WorkEdit(p).unless # {}
  <2>1. UNCHANGED <<seen, pc>> /\ index' = [index EXCEPT ![p] = @ + 1]
    BY <1>5 DEF LocalRead, Next_
  <2>2. TypeOK'
    BY <1>2, <2>1 DEF TypeInv, TypeOK
  <2>3. ASSUME NEW q \in Procs
        PROVE  Located(q)'
    BY <1>1, <1>2, <1>3, <2>1, LocatedKept DEF TypeInv
  <2>4. QED
    BY <2>2, <2>3 DEF TypeInv
<1>6. QED
  BY <1>4, <1>5

\* LocalWrite.
LEMMA LocalWriteTyped ==
  ASSUME TypeInv, NEW p \in Procs, LocalWrite(p)
  PROVE  TypeInv'
<1>1. op[p] \in Ops /\ index[p] \in Nat \ {0} /\ pc[p] \in {"edit", "write"} /\ op[p][1] \in EditKinds
      /\ held[p] = Unread
  BY DEF TypeInv, TypeOK, Located, LocalWrite, Comparing
<1>2. index[p] <= WorkLength(p) /\ ~OnRemote(p)
  BY DEF TypeInv, Located, LocalWrite
<1>3. WorkEdit(p) \in Edits
  BY <1>1, <1>2, TheWork
<1>4. zone' \in [Servers -> SUBSET Lines]
  <2>1. zone[Here] \in SUBSET Lines /\ seen[p] \in SUBSET Lines
    BY TheServers DEF TypeInv, TypeOK
  <2>2. Apply(zone[Here], WorkEdit(p)) \in SUBSET Lines /\ Apply(seen[p], WorkEdit(p)) \in SUBSET Lines
    BY <2>1, <1>3, ApplyTyped
  <2>3. QED
    BY <2>1, <2>2 DEF TypeInv, TypeOK, LocalWrite
<1>5. /\ UNCHANGED <<declared, up, op, cache, resync, held, started, faults, want, dead, last, calm>>
      /\ pc' = [pc EXCEPT ![p] = "edit"] /\ index' = [index EXCEPT ![p] = @ + 1]
      /\ seen' = [seen EXCEPT ![p] = {}]
  BY DEF LocalWrite, history, At, Next_
<1>6. TypeOK'
  BY <1>4, <1>5 DEF TypeInv, TypeOK
<1>7. ASSUME NEW q \in Procs
      PROVE  Located(q)'
  <2>1. CASE q # p
    BY <2>1, <1>5, LocatedKept DEF TypeInv, TypeOK
  <2>2. CASE q = p
    BY <2>2, <1>1, <1>5 DEF TypeInv, TypeOK, Located
  <2>3. QED
    BY <2>1, <2>2
<1>8. QED
  BY <1>6, <1>7 DEF TypeInv

\* What an operation leaves in the history when it returns.
LEMMA CompletedTyped ==
  ASSUME TypeInv, NEW p \in Procs, pc[p] # "idle", Completed(p)
  PROVE  /\ want' \subseteq Names \X Ips /\ dead' \subseteq Records
         /\ last' \in OpKinds \cup {"none"} /\ calm' \in BOOLEAN
<1>1. op[p] \in Ops
  BY DEF TypeInv, Located
<1>2. op[p][1] \in OpKinds /\ op[p][2] \in Names /\ op[p][3] \in Ips
  BY <1>1, EditsOfOp
<1>3. /\ A(op[p][2], op[p][3]) \in Records /\ Ptr(op[p][2], op[p][3]) \in Records
      /\ \A n \in Names : Svc(n, op[p][3]) \in Records
  BY <1>2 DEF A, Ptr, Svc, Records
<1>4. want \subseteq Names \X Ips /\ dead \subseteq Records /\ calm \in BOOLEAN
  BY DEF TypeInv, TypeOK
<1>5. want' \subseteq Names \X Ips
  BY <1>2, <1>4 DEF Completed
<1>6. dead' \subseteq Records
  BY <1>3, <1>4 DEF Completed
<1>7. last' \in OpKinds \cup {"none"} /\ calm' \in BOOLEAN
  BY <1>2, <1>4 DEF Completed
<1>8. QED
  BY <1>5, <1>6, <1>7

\* A step after which a script is idle, or compares, with nothing half read.
LEMMA StepsTyped ==
  ASSUME TypeInv, NEW p \in Procs, pc[p] \notin {"idle", "write"},
         UNCHANGED <<declared, up, op, cache, resync, seen, started, faults>>,
         zone' \in [Servers -> SUBSET Lines],
         pc' = [pc EXCEPT ![p] = pc'[p]], index' = [index EXCEPT ![p] = index'[p]],
         held' = [held EXCEPT ![p] = held'[p]],
         pc'[p] \in {"idle", "compare", "fill", "prunecompare", "prune"},
         index'[p] \in Nat \ {0}, held'[p] \in [Servers -> SUBSET Records],
         \A m \in Masters : held'[p][m] # {} => cache[p][m] = "yes",
         want' \subseteq Names \X Ips, dead' \subseteq Records, last' \in OpKinds \cup {"none"}, calm' \in BOOLEAN,
         pc'[p] \in {"prune", "prunecompare"} => op[p][1] = "prune" /\ \E m \in Masters : Reached(p, m),
         pc'[p] = "idle" => held'[p] = Unread
  PROVE  TypeInv'
<1>1. /\ pc' \in [Procs -> {"idle", "zones", "edit", "write", "compare", "fill", "prunecompare", "prune"}]
      /\ index' \in [Procs -> Nat \ {0}] /\ held' \in [Procs -> [Servers -> SUBSET Records]]
  <2>1. PICK c, i, h : c = pc'[p] /\ i = index'[p] /\ h = held'[p]
    OBVIOUS
  <2>2. pc' = [pc EXCEPT ![p] = c] /\ index' = [index EXCEPT ![p] = i] /\ held' = [held EXCEPT ![p] = h]
    BY <2>1
  <2>3. c \in {"idle", "compare", "fill", "prunecompare", "prune"} /\ i \in Nat \ {0} /\ h \in [Servers -> SUBSET Records]
    BY <2>1
  <2>4. /\ pc \in [Procs -> {"idle", "zones", "edit", "write", "compare", "fill", "prunecompare", "prune"}]
        /\ index \in [Procs -> Nat \ {0}] /\ held \in [Procs -> [Servers -> SUBSET Records]]
    BY DEF TypeInv, TypeOK
  <2>5. QED
    BY ONLY <2>2, <2>3, <2>4
<1>2. ASSUME NEW q \in Procs
      PROVE  (pc'[q] # "write" => seen'[q] = {}) /\ \A m \in Masters : held'[q][m] # {} => cache'[q][m] = "yes"
  <2>1. CASE q = p
    BY <2>1 DEF TypeInv, TypeOK
  <2>2. CASE q # p
    BY <2>2 DEF TypeInv, TypeOK
  <2>3. QED
    BY <2>1, <2>2
<1>3. TypeOK'
  BY <1>1, <1>2 DEF TypeInv, TypeOK
<1>4. Located(p)'
  <2>1. op'[p] = op[p] /\ cache'[p] = cache[p]
    OBVIOUS
  <2>2. \A m \in Masters : Reached(p, m)' = Reached(p, m)
    BY DEF Reached
  <2>3. op[p] \in Ops
    BY DEF TypeInv, Located
  <2>4. QED
    BY <2>1, <2>2, <2>3 DEF Located, Comparing
<1>5. ASSUME NEW q \in Procs \ {p}
      PROVE  Located(q)'
  BY LocatedKept DEF TypeInv, TypeOK
<1>6. QED
  BY <1>3, <1>4, <1>5 DEF TypeInv

\* Compare: what is read is the record of a master that answers.
LEMMA CompareTyped ==
  ASSUME TypeInv, NEW p \in Procs, Compare(p)
  PROVE  TypeInv'
<1>1. PICK s : s = Stop(p).server
  OBVIOUS
<1>2. s \in Servers
  <2>1. index[p] \in 1..Len(Stops(p))
    BY TheStops DEF TypeInv, TypeOK, Compare
  <2>2. QED
    BY <2>1, <1>1, TheStops DEF Stop
<1>3. PICK R : /\ R = IF Answers(p, s) THEN Recs(zone[s]) \cap InFile(Stop(p).file) ELSE {}
  OBVIOUS
<1>4. R \subseteq Records /\ (R # {} /\ s \in Masters => cache[p][s] = "yes")
  <2>1. \A f : InFile(f) \subseteq Records
    BY DEF InFile
  <2>2. QED
    BY <2>1, <1>3, TheServers DEF Answers
<1>5. held' = [held EXCEPT ![p] = [held[p] EXCEPT ![s] = @ \cup R]]
  BY <1>1, <1>3 DEF Compare, TypeInv, TypeOK
<1>6. PICK h : h = [held[p] EXCEPT ![s] = @ \cup R]
  OBVIOUS
<1>7. h \in [Servers -> SUBSET Records]
  BY <1>2, <1>4, <1>6 DEF TypeInv, TypeOK
<1>8. ASSUME NEW m \in Masters, h[m] # {}
      PROVE  cache[p][m] = "yes"
  <2>1. m \in Servers /\ (held[p][m] # {} => cache[p][m] = "yes")
    BY TheServers DEF TypeInv, TypeOK
  <2>2. held[p] \in [Servers -> SUBSET Records]
    BY DEF TypeInv, TypeOK
  <2>3. h[m] = IF m = s THEN held[p][m] \cup R ELSE held[p][m]
    BY <2>1, <2>2, <1>2, <1>6
  <2>4. QED
    BY <2>1, <2>3, <1>4, <1>8
<1>9. /\ pc[p] \in {"compare", "prunecompare"} /\ pc' = [pc EXCEPT ![p] = pc[p]]
      /\ UNCHANGED <<zone, declared, up, op, cache, resync, seen, started, faults, want, dead, last, calm>>
      /\ index' = [index EXCEPT ![p] = index[p] + 1] /\ index[p] + 1 \in Nat \ {0}
  BY DEF Compare, world, history, Next_, TypeInv, TypeOK
<1>10. zone' \in [Servers -> SUBSET Lines] /\ want' \subseteq Names \X Ips /\ dead' \subseteq Records
       /\ last' \in OpKinds \cup {"none"} /\ calm' \in BOOLEAN
  BY <1>9 DEF TypeInv, TypeOK
<1>11. pc[p] = "prunecompare" => op[p][1] = "prune" /\ \E m \in Masters : Reached(p, m)
  BY DEF TypeInv, Located
<1>12. held' = [held EXCEPT ![p] = h]
  BY <1>5, <1>6
<1>13. pc'[p] = pc[p] /\ index'[p] = index[p] + 1 /\ held'[p] = h
  BY <1>9, <1>12 DEF TypeInv, TypeOK
<1>14. QED
  BY <1>7, <1>8, <1>9, <1>10, <1>11, <1>12, <1>13, StepsTyped

\* CompareDone.
LEMMA CompareDoneTyped ==
  ASSUME TypeInv, NEW p \in Procs, CompareDone(p)
  PROVE  TypeInv'
<1>1. PICK c \in {"fill", "prune"} : pc' = [pc EXCEPT ![p] = c] /\ (c = "prune" => pc[p] = "prunecompare")
  BY DEF CompareDone, At
<1>2. /\ pc[p] \in {"compare", "prunecompare"} /\ held' = [held EXCEPT ![p] = held[p]]
      /\ UNCHANGED <<zone, declared, up, op, cache, resync, seen, started, faults, want, dead, last, calm>>
      /\ index' = [index EXCEPT ![p] = 1]
  BY DEF CompareDone, world, history, First, TypeInv, TypeOK
<1>3. zone' \in [Servers -> SUBSET Lines] /\ want' \subseteq Names \X Ips /\ dead' \subseteq Records
      /\ last' \in OpKinds \cup {"none"} /\ calm' \in BOOLEAN
      /\ held[p] \in [Servers -> SUBSET Records] /\ \A m \in Masters : held[p][m] # {} => cache[p][m] = "yes"
  BY <1>2 DEF TypeInv, TypeOK
<1>4. pc[p] = "prunecompare" => op[p][1] = "prune" /\ \E m \in Masters : Reached(p, m)
  BY DEF TypeInv, Located
<1>5. pc'[p] = c /\ index'[p] = 1 /\ held'[p] = held[p]
  BY <1>1, <1>2 DEF TypeInv, TypeOK
<1>6. pc' = [pc EXCEPT ![p] = pc'[p]] /\ index' = [index EXCEPT ![p] = index'[p]] /\ held' = [held EXCEPT ![p] = held'[p]]
  BY <1>1, <1>2, <1>5
<1>7. /\ pc'[p] \in {"idle", "compare", "fill", "prunecompare", "prune"} /\ index'[p] \in Nat \ {0}
      /\ held'[p] \in [Servers -> SUBSET Records] /\ \A m \in Masters : held'[p][m] # {} => cache[p][m] = "yes"
      /\ pc[p] \notin {"idle", "write"} /\ (pc'[p] = "idle" => held'[p] = Unread)
      /\ (pc'[p] \in {"prune", "prunecompare"} => op[p][1] = "prune" /\ \E m \in Masters : Reached(p, m))
  BY <1>1, <1>2, <1>3, <1>4, <1>5
<1>8. QED
  BY <1>2, <1>3, <1>6, <1>7, StepsTyped

\* A step of the loops of sync_zone() and prune_zone(), from what it does to the zones and to
\* what counts as held.
LEMMA LoopTyped ==
  ASSUME TypeInv, NEW p \in Procs, pc[p] \in {"fill", "prune"},
         UNCHANGED <<declared, up, pc, op, cache, resync, seen, started, faults, history>>,
         zone' \in [Servers -> SUBSET Lines],
         NEW i \in Nat \ {0}, index' = [index EXCEPT ![p] = i],
         NEW h \in [Servers -> SUBSET Records], held' = [held EXCEPT ![p] = h],
         \A m \in Masters : h[m] # {} => cache[p][m] = "yes"
  PROVE  TypeInv'
<1>1. pc' = [pc EXCEPT ![p] = pc[p]] /\ UNCHANGED <<want, dead, last, calm>>
  BY DEF history, TypeInv, TypeOK
<1>2. want' \subseteq Names \X Ips /\ dead' \subseteq Records /\ last' \in OpKinds \cup {"none"} /\ calm' \in BOOLEAN
  BY <1>1 DEF TypeInv, TypeOK
<1>3. pc[p] = "prune" => op[p][1] = "prune" /\ \E m \in Masters : Reached(p, m)
  BY DEF TypeInv, Located
<1>4. pc'[p] = pc[p] /\ index'[p] = i /\ held'[p] = h
  BY DEF TypeInv, TypeOK
<1>5. QED
  BY <1>1, <1>2, <1>3, <1>4, StepsTyped

\* What the steps of Fill and Prune are: on to the next stop, or one command for one record.
LEMMA LoopSteps ==
  ASSUME TypeInv, NEW p \in Procs, Fill(p) \/ Prune(p), NEW s, s = Stop(p).server
  PROVE  /\ s \in Servers /\ index[p] \in 1..Len(Stops(p)) /\ pc[p] \in {"fill", "prune"}
         /\ UNCHANGED <<declared, up, pc, op, cache, resync, seen, started, faults, history>>
         /\ \/ /\ UNCHANGED <<zone, held>> /\ index' = [index EXCEPT ![p] = index[p] + 1]
               /\ (Fill(p) => ToFill(p) = {}) /\ (Prune(p) => ToPrune(p) = {})
            \/ \E r : /\ Fill(p) /\ r \in ToFill(p) /\ index' = index
                      /\ zone' = [zone EXCEPT ![s] = IF Answers(p, s) THEN Filled(zone[s], s, {r}) ELSE zone[s]]
                      /\ held' = [held EXCEPT ![p] = [held[p] EXCEPT ![s] = held[p][s] \cup {r}]]
            \/ \E r : /\ Prune(p) /\ r \in ToPrune(p) /\ index' = index
                      /\ zone' = [zone EXCEPT ![s] = IF Answers(p, s) THEN zone[s] \ EitherForm({r}) ELSE zone[s]]
                      /\ held' = [held EXCEPT ![p] = [held[p] EXCEPT ![s] = held[p][s] \ {r}]]
<1>1. index[p] \in 1..Len(Stops(p)) /\ pc[p] \in {"fill", "prune"}
  BY TheStops DEF Fill, Prune, TypeInv, TypeOK
<1>2. s \in Servers
  BY <1>1, TheStops DEF Stop
<1>3. UNCHANGED <<declared, up, pc, op, cache, resync, seen, started, faults, history>>
  BY DEF Fill, Prune
<1>4. zone \in [Servers -> SUBSET Lines] /\ held \in [Procs -> [Servers -> SUBSET Records]]
  BY DEF TypeInv, TypeOK
<1>5. CASE Fill(p)
  <2>1. ~Prune(p)
    BY <1>5 DEF Fill, Prune
  <2>2. CASE NextStop(p, ToFill(p))
    BY <1>1, <1>2, <1>3, <2>1, <2>2 DEF NextStop, Next_
  <2>3. ASSUME NEW r \in ToFill(p), UNCHANGED index,
               zone' = [zone EXCEPT ![s] = IF Answers(p, s) THEN Filled(@, s, {r}) ELSE @],
               held' = [held EXCEPT ![p][s] = @ \cup {r}]
        PROVE  /\ zone' = [zone EXCEPT ![s] = IF Answers(p, s) THEN Filled(zone[s], s, {r}) ELSE zone[s]]
               /\ held' = [held EXCEPT ![p] = [held[p] EXCEPT ![s] = held[p][s] \cup {r}]]
    BY <2>3, <1>2, <1>4
  <2>4. QED
    BY <1>1, <1>2, <1>3, <1>5, <2>2, <2>3 DEF Fill
<1>6. CASE Prune(p)
  <2>1. ~Fill(p)
    BY <1>6 DEF Fill, Prune
  <2>2. CASE NextStop(p, ToPrune(p))
    BY <1>1, <1>2, <1>3, <2>1, <2>2 DEF NextStop, Next_
  <2>3. ASSUME NEW r \in ToPrune(p), UNCHANGED index,
               zone' = [zone EXCEPT ![s] = IF Answers(p, s) THEN @ \ EitherForm({r}) ELSE @],
               held' = [held EXCEPT ![p][s] = @ \ {r}]
        PROVE  /\ zone' = [zone EXCEPT ![s] = IF Answers(p, s) THEN zone[s] \ EitherForm({r}) ELSE zone[s]]
               /\ held' = [held EXCEPT ![p] = [held[p] EXCEPT ![s] = held[p][s] \ {r}]]
    BY <2>3, <1>2, <1>4
  <2>4. QED
    BY <1>1, <1>2, <1>3, <1>6, <2>2, <2>3 DEF Prune
<1>7. QED
  BY <1>5, <1>6

\* Fill and Prune, which write records that are in a file and hold those of servers that were reached.
LEMMA FillPruneTyped ==
  ASSUME TypeInv, NEW p \in Procs, Fill(p) \/ Prune(p)
  PROVE  TypeInv'
<1>1. PICK s : s = Stop(p).server
  OBVIOUS
<1>2. /\ s \in Servers /\ pc[p] \in {"fill", "prune"} /\ index[p] \in Nat \ {0}
      /\ UNCHANGED <<declared, up, pc, op, cache, resync, seen, started, faults, history>>
  BY <1>1, LoopSteps DEF TypeInv, TypeOK
<1>3. /\ zone \in [Servers -> SUBSET Lines] /\ held[p] \in [Servers -> SUBSET Records]
      /\ held \in [Procs -> [Servers -> SUBSET Records]] /\ index \in [Procs -> Nat \ {0}]
      /\ \A m \in Masters : held[p][m] # {} => cache[p][m] = "yes"
  BY DEF TypeInv, TypeOK
<1>4. CASE UNCHANGED <<zone, held>> /\ index' = [index EXCEPT ![p] = index[p] + 1]
  <2>1. held' = [held EXCEPT ![p] = held[p]] /\ index[p] + 1 \in Nat \ {0}
    BY <1>2, <1>3, <1>4
  <2>2. QED
    BY <1>2, <1>3, <1>4, <2>1, LoopTyped
<1>5. ASSUME NEW r, r \in ToFill(p), index' = index,
             zone' = [zone EXCEPT ![s] = IF Answers(p, s) THEN Filled(zone[s], s, {r}) ELSE zone[s]],
             held' = [held EXCEPT ![p] = [held[p] EXCEPT ![s] = held[p][s] \cup {r}]]
      PROVE  TypeInv'
  <2>1. r \in Records /\ Reached(p, s)
    BY <1>1, <1>5 DEF ToFill, InFile
  <2>2. Filled(zone[s], s, {r}) \subseteq zone[s] \cup Synced({r}) /\ Synced({r}) \subseteq Lines
    BY <2>1 DEF Filled, Synced, Lines, Forms
  <2>3. PICK Z : Z = IF Answers(p, s) THEN Filled(zone[s], s, {r}) ELSE zone[s]
    OBVIOUS
  <2>4. Z \in SUBSET Lines
    BY <1>2, <1>3, <2>2, <2>3
  <2>5. zone' \in [Servers -> SUBSET Lines]
    BY <1>3, <1>5, <2>3, <2>4
  <2>6. PICK h : h = [held[p] EXCEPT ![s] = held[p][s] \cup {r}]
    OBVIOUS
  <2>7. h \in [Servers -> SUBSET Records]
    BY <1>2, <1>3, <2>1, <2>6
  <2>8. \A m \in Masters : h[m] # {} => cache[p][m] = "yes"
    BY <1>2, <1>3, <2>1, <2>6, TheServers DEF Reached
  <2>9. held' = [held EXCEPT ![p] = h] /\ index' = [index EXCEPT ![p] = index[p]]
    BY <1>3, <1>5, <2>6
  <2>10. QED
    BY <1>2, <2>5, <2>7, <2>8, <2>9, LoopTyped
<1>6. ASSUME NEW r, r \in ToPrune(p), index' = index,
             zone' = [zone EXCEPT ![s] = IF Answers(p, s) THEN zone[s] \ EitherForm({r}) ELSE zone[s]],
             held' = [held EXCEPT ![p] = [held[p] EXCEPT ![s] = held[p][s] \ {r}]]
      PROVE  TypeInv'
  <2>1. zone' \in [Servers -> SUBSET Lines]
    BY <1>2, <1>3, <1>6
  <2>2. PICK h : h = [held[p] EXCEPT ![s] = held[p][s] \ {r}]
    OBVIOUS
  <2>3. h \in [Servers -> SUBSET Records] /\ \A t \in Servers : h[t] \subseteq held[p][t]
    BY <1>2, <1>3, <2>2
  <2>4. \A m \in Masters : h[m] # {} => cache[p][m] = "yes"
    BY <1>3, <2>3, TheServers
  <2>5. held' = [held EXCEPT ![p] = h] /\ index' = [index EXCEPT ![p] = index[p]]
    BY <1>3, <1>6, <2>2
  <2>6. QED
    BY <1>2, <2>1, <2>3, <2>4, <2>5, LoopTyped
<1>7. QED
  BY <1>1, <1>4, <1>5, <1>6, LoopSteps

\* EditsDone, FillDone and PruneDone, after which the operation may have returned.
LEMMA DoneTyped ==
  ASSUME TypeInv, NEW p \in Procs, EditsDone(p) \/ FillDone(p) \/ PruneDone(p)
  PROVE  TypeInv'
<1>1. PICK c \in {"idle", "compare", "prunecompare"} :
              /\ pc' = [pc EXCEPT ![p] = c] /\ (c = "idle" => Completed(p))
              /\ (c # "idle" => UNCHANGED history)
              /\ (c = "prunecompare" => op[p][1] = "prune" /\ \E m \in Masters : Reached(p, m))
  BY DEF EditsDone, FillDone, PruneDone, At
<1>2. /\ pc[p] \in {"edit", "fill", "prune"}
      /\ UNCHANGED <<zone, declared, up, op, cache, resync, seen, started, faults>>
      /\ index' = [index EXCEPT ![p] = 1]
  BY DEF EditsDone, FillDone, PruneDone, world, First
<1>3. held' = [held EXCEPT ![p] = Unread]
  <2>1. CASE EditsDone(p)
    <3>1. held[p] = Unread /\ held' = held
      BY <2>1 DEF EditsDone, TypeInv, Located, Comparing
    <3>2. QED
      BY <3>1 DEF TypeInv, TypeOK
  <2>2. CASE FillDone(p) \/ PruneDone(p)
    BY <2>2 DEF FillDone, PruneDone
  <2>3. QED
    BY <2>1, <2>2
<1>4. want' \subseteq Names \X Ips /\ dead' \subseteq Records /\ last' \in OpKinds \cup {"none"} /\ calm' \in BOOLEAN
  BY <1>1, <1>2, CompletedTyped DEF TypeInv, TypeOK, history
<1>5. Unread \in [Servers -> SUBSET Records] /\ \A m \in Masters : Unread[m] = {}
  BY TheServers DEF Unread
<1>6. zone' \in [Servers -> SUBSET Lines]
  BY <1>2 DEF TypeInv, TypeOK
<1>7. pc'[p] = c /\ index'[p] = 1 /\ held'[p] = Unread
  BY <1>1, <1>2, <1>3 DEF TypeInv, TypeOK
<1>8. pc' = [pc EXCEPT ![p] = pc'[p]] /\ index' = [index EXCEPT ![p] = index'[p]] /\ held' = [held EXCEPT ![p] = held'[p]]
  BY <1>1, <1>2, <1>3, <1>7
<1>9. /\ pc'[p] \in {"idle", "compare", "fill", "prunecompare", "prune"} /\ index'[p] \in Nat \ {0}
      /\ held'[p] \in [Servers -> SUBSET Records] /\ \A m \in Masters : held'[p][m] # {} => cache[p][m] = "yes"
      /\ pc[p] \notin {"idle", "write"} /\ (pc'[p] = "idle" => held'[p] = Unread)
      /\ (pc'[p] \in {"prune", "prunecompare"} => op[p][1] = "prune" /\ \E m \in Masters : Reached(p, m))
  BY <1>1, <1>2, <1>5, <1>7
<1>10. QED
  BY <1>2, <1>4, <1>6, <1>8, <1>9, StepsTyped

\* What happens to the masters, and a script that is killed.
LEMMA FaultTyped ==
  ASSUME TypeInv,
         \/ \E m \in Masters : GoesDown(m) \/ ComesBack(m) \/ Recreated(m)
         \/ \E p \in Procs : Interrupted(p)
  PROVE  TypeInv'
<1>1. faults \in 0..MaxFaults /\ MaxFaults \in Nat
  BY DnsAssumption DEF TypeInv, TypeOK
<1>2. ASSUME NEW m \in Masters, GoesDown(m) \/ ComesBack(m) \/ Recreated(m)
      PROVE  TypeInv'
  <2>1. /\ UNCHANGED <<pc, op, cache, index, resync, seen, held, started, want, dead>>
        /\ up' \subseteq Masters /\ last' = "none" /\ calm' = FALSE
        /\ faults' \in 0..MaxFaults
        /\ zone' \in [Servers -> SUBSET Lines] /\ declared' \in [Servers -> SUBSET ZoneFiles]
    <3>1. CASE GoesDown(m)
      BY <3>1, <1>1 DEF GoesDown, Fault, TypeInv, TypeOK, script, world
    <3>2. CASE ComesBack(m)
      BY <3>2, <1>1, <1>2 DEF ComesBack, TypeInv, TypeOK, script, world
    <3>3. CASE Recreated(m)
      <4>1. UNCHANGED <<pc, op, cache, index, resync, seen, held, started, want, dead, up>>
            /\ last' = "none" /\ calm' = FALSE
        BY <3>3 DEF Recreated, Fault, script
      <4>2. faults' \in 0..MaxFaults
        BY <3>3, <1>1 DEF Recreated, Fault
      <4>3. zone' \in [Servers -> SUBSET Lines] /\ declared' \in [Servers -> SUBSET ZoneFiles]
        BY <3>3 DEF Recreated, TypeInv, TypeOK
      <4>4. QED
        BY <4>1, <4>2, <4>3 DEF TypeInv, TypeOK
    <3>4. QED
      BY <1>2, <3>1, <3>2, <3>3
  <2>2. TypeOK'
    BY <2>1 DEF TypeInv, TypeOK
  <2>3. ASSUME NEW q \in Procs
        PROVE  Located(q)'
    BY <2>1, LocatedKept DEF TypeInv
  <2>4. QED
    BY <2>2, <2>3 DEF TypeInv
<1>3. ASSUME NEW p \in Procs, Interrupted(p)
      PROVE  TypeInv'
  <2>1. /\ UNCHANGED <<zone, declared, up, op, index, resync, started, want, dead>>
        /\ pc' = [pc EXCEPT ![p] = "idle"] /\ seen' = [seen EXCEPT ![p] = {}] /\ held' = [held EXCEPT ![p] = Unread]
        /\ cache' = [cache EXCEPT ![p] = [m \in Masters |-> "unknown"]]
        /\ last' = "none" /\ calm' = FALSE
    BY <1>3 DEF Interrupted, Fault, At, world
  <2>2. faults' \in 0..MaxFaults
    BY <1>1, <1>3 DEF Interrupted, Fault
  <2>3. Unread \in [Servers -> SUBSET Records] /\ \A m \in Masters : Unread[m] = {}
    BY TheServers DEF Unread
  <2>4. /\ pc' \in [Procs -> {"idle", "zones", "edit", "write", "compare", "fill", "prunecompare", "prune"}]
        /\ cache' \in [Procs -> [Masters -> {"unknown", "yes", "no"}]]
        /\ seen' \in [Procs -> SUBSET Lines] /\ held' \in [Procs -> [Servers -> SUBSET Records]]
    BY <2>1, <2>3 DEF TypeInv, TypeOK
  <2>5. ASSUME NEW q \in Procs
        PROVE  (pc'[q] # "write" => seen'[q] = {}) /\ \A m \in Masters : held'[q][m] # {} => cache'[q][m] = "yes"
    BY <2>1, <2>3 DEF TypeInv, TypeOK
  <2>6. TypeOK'
    BY <2>1, <2>2, <2>4, <2>5 DEF TypeInv, TypeOK
  <2>7. ASSUME NEW q \in Procs
        PROVE  Located(q)'
    <3>1. CASE q # p
      BY <3>1, <2>1, LocatedKept DEF TypeInv, TypeOK
    <3>2. CASE q = p
      BY <3>2, <2>1 DEF Located, TypeInv, TypeOK
    <3>3. QED
      BY <3>1, <3>2
  <2>8. QED
    BY <2>6, <2>7 DEF TypeInv
<1>4. QED
  BY <1>2, <1>3

\* Every step keeps the types.
LEMMA StepTyped == TypeInv /\ [Next]_vars => TypeInv'
<1> SUFFICES ASSUME TypeInv, [Next]_vars PROVE TypeInv'
  OBVIOUS
<1>1. ASSUME NEW p \in Procs, Script(p)
      PROVE  TypeInv'
  BY <1>1, NewRunTyped, BeginTyped, EnsureZoneTyped, ZonesDoneTyped, RemoteStepTyped, LocalReadTyped,
     LocalWriteTyped, CompareTyped, CompareDoneTyped, FillPruneTyped, DoneTyped DEF Script
<1>2. CASE UNCHANGED vars
  <2>1. UNCHANGED <<zone, declared, up, pc, op, cache, index, resync, seen, held, started, faults, want, dead, last, calm>>
    BY <1>2 DEF vars, world, script, history
  <2>2. ASSUME NEW q \in Procs
        PROVE  Located(q)'
    BY <2>1, LocatedKept DEF TypeInv
  <2>3. TypeOK'
    BY <2>1 DEF TypeInv, TypeOK
  <2>4. QED
    BY <2>2, <2>3 DEF TypeInv
<1>3. QED
  BY <1>1, <1>2, FaultTyped DEF Next

\* For any number of scripts: the zones hold lines, a script reads a file of its own
\* host only to write it, and what it compares comes from masters it reached.
THEOREM DnsTypeCorrect == Spec => []TypeOK
<1>1. Spec => []TypeInv
  BY InitTyped, StepTyped, PTL DEF Spec
<1>2. TypeInv => TypeOK
  BY DEF TypeInv
<1>3. QED
  BY <1>1, <1>2, PTL

-----------------------------------------------------------------------------
(* The edits of this host's own files *)

\* The edits of each operation, one by one.
LEMMA LocalTable ==
  ASSUME NEW o \in Ops
  PROVE  /\ o[1] = "add" =>
              /\ LocalEdits(o)[1] = Cut(PtrsOf(o[3])) /\ LocalEdits(o)[2] = LocalAdd(A(o[2], o[3]))
              /\ LocalEdits(o)[3] = LocalAdd(Ptr(o[2], o[3]))
         /\ o[1] = "replace" =>
              /\ LocalEdits(o)[1] = Cut(PtrsOf(o[3])) /\ LocalEdits(o)[2] = Cut(OtherAs(o[2], o[3]))
              /\ LocalEdits(o)[3] = LocalAdd(A(o[2], o[3])) /\ LocalEdits(o)[4] = LocalAdd(Ptr(o[2], o[3]))
         /\ o[1] = "del" =>
              /\ LocalEdits(o)[1] = LocalCut(Ptr(o[2], o[3])) /\ LocalEdits(o)[2] = LocalCut(A(o[2], o[3]))
              /\ LocalEdits(o)[3] = Cut(ServicesOf(o[3]))
         /\ o[1] = "service" =>
              /\ LocalEdits(o)[1] = LocalCut(Svc(o[2], o[3]))
              /\ LocalEdits(o)[2] = Append_(<<Svc(o[2], o[3]), "padded">>)
         /\ o[1] = "named_rr" => LocalEdits(o)[1] = LocalAdd(Svc(o[2], o[3]))
  BY DEF LocalEdits

\* So each edit is one of these.
LEMMA LocalCases ==
  ASSUME NEW o \in Ops, NEW k, NEW n, NEW i, o[1] = k, o[2] = n, o[3] = i, NEW j \in 1..EditCount(k)
  PROVE  \/ LocalEdits(o)[j] = Cut(PtrsOf(i))
         \/ LocalEdits(o)[j] = Cut(OtherAs(n, i)) /\ k = "replace"
         \/ LocalEdits(o)[j] = Cut(ServicesOf(i))
         \/ \E r \in {A(n, i), Ptr(n, i), Svc(n, i)} : LocalEdits(o)[j] = LocalAdd(r)
         \/ \E r \in {Ptr(n, i), Svc(n, i)} : LocalEdits(o)[j] = LocalCut(r)
         \/ LocalEdits(o)[j] = LocalCut(A(n, i)) /\ k = "del"
         \/ LocalEdits(o)[j] = Append_(<<Svc(n, i), "padded">>)
<1>1. k \in OpKinds
  BY EditsOfOp
<1>2. CASE k = "add"
  <2>1. j = 1 \/ j = 2 \/ j = 3
    BY <1>2 DEF EditCount
  <2>2. QED
    BY <1>2, <2>1, LocalTable
<1>3. CASE k = "replace"
  <2>1. j = 1 \/ j = 2 \/ j = 3 \/ j = 4
    BY <1>3 DEF EditCount
  <2>2. QED
    BY <1>3, <2>1, LocalTable
<1>4. CASE k = "del"
  <2>1. j = 1 \/ j = 2 \/ j = 3
    BY <1>4 DEF EditCount
  <2>2. QED
    BY <1>4, <2>1, LocalTable
<1>5. CASE k = "service"
  <2>1. j = 1 \/ j = 2
    BY <1>5 DEF EditCount
  <2>2. QED
    BY <1>5, <2>1, LocalTable
<1>6. CASE k = "named_rr"
  <2>1. j = 1
    BY <1>6 DEF EditCount
  <2>2. QED
    BY <1>6, <2>1, LocalTable
<1>7. CASE k \in {"sync", "prune"}
  BY <1>7 DEF EditCount
<1>8. QED
  BY <1>1, <1>2, <1>3, <1>4, <1>5, <1>6, <1>7 DEF OpKinds

\* The lines of an edit are of one file, and an edit that is skipped deletes nothing.
LEMMA LocalShape ==
  ASSUME NEW o \in Ops, NEW j \in 1..EditCount(o[1])
  PROVE  /\ LocalEdits(o)[j] \in Edits
         /\ LocalEdits(o)[j].del \subseteq FileOf(LocalEdits(o)[j])
         /\ LocalEdits(o)[j].unless = {} \/ LocalEdits(o)[j].del = {}
         /\ Appends(LocalEdits(o)[j]) => LocalEdits(o)[j].del = {} /\ LocalEdits(o)[j].unless = {}
<1> DEFINE n == o[2]
           i == o[3]
           e == LocalEdits(o)[j]
<1>1. n \in Names /\ i \in Ips /\ e \in Edits
  BY EditsOfOp
<1>2. ASSUME NEW f \in Edits, NEW t \in {"A", "PTR", "SVC"}, \A d \in f.del : d[1][1] = t, f.add = {}
      PROVE  f.del \subseteq FileOf(f)
  BY <1>2 DEF FileOf, Edits
<1>3. ASSUME e = Cut(PtrsOf(i))
      PROVE  e.del \subseteq FileOf(e) /\ e.unless = {}
  <2>1. \A d \in PtrsOf(i) : d[1][1] = "PTR"
    BY DEF PtrsOf, Ptr, EitherForm
  <2>2. QED
    BY <1>3, <2>1, <1>1, <1>2 DEF Cut, Edit
<1>4. ASSUME e = Cut(OtherAs(n, i))
      PROVE  e.del \subseteq FileOf(e) /\ e.unless = {}
  <2>1. \A d \in OtherAs(n, i) : d[1][1] = "A"
    BY DEF OtherAs, A, EitherForm
  <2>2. QED
    BY <1>4, <2>1, <1>1, <1>2 DEF Cut, Edit
<1>5. ASSUME e = Cut(ServicesOf(i))
      PROVE  e.del \subseteq FileOf(e) /\ e.unless = {}
  <2>1. \A d \in ServicesOf(i) : d[1][1] = "SVC"
    BY DEF ServicesOf, Svc, Padded
  <2>2. QED
    BY <1>5, <2>1, <1>1, <1>2 DEF Cut, Edit
<1>6. ASSUME NEW r, e = LocalAdd(r)
      PROVE  e.del = {}
  BY <1>6 DEF LocalAdd, Edit
<1>7. ASSUME NEW r \in Records, e = LocalCut(r)
      PROVE  e.del \subseteq FileOf(e) /\ e.unless = {}
  <2>1. r[1] \in {"A", "PTR", "SVC"} /\ \A d \in {<<r, "padded">>} : d[1][1] = r[1]
    BY DEF Records
  <2>2. QED
    BY <1>7, <2>1, <1>1, <1>2 DEF LocalCut, Cut, Edit
<1>8. ASSUME e = Append_(<<Svc(n, i), "padded">>)
      PROVE  e.del = {}
  BY <1>8 DEF Append_, Edit
<1>9. A(n, i) \in Records /\ Ptr(n, i) \in Records /\ Svc(n, i) \in Records
  BY <1>1, TheCuts
<1>10. Appends(e) => e.del = {} /\ e.unless = {}
  BY DEF Appends
<1>11. e.del = {} => e.del \subseteq FileOf(e)
  OBVIOUS
<1>12. e.del \subseteq FileOf(e) /\ (e.unless = {} \/ e.del = {})
  BY <1>3, <1>4, <1>5, <1>6, <1>7, <1>8, <1>9, <1>11, LocalCases DEF Cut, Edit
<1>13. QED
  BY <1>1, <1>10, <1>12

\* An edit of a script's own host cuts no registration it does not end.
LEMMA LocalSpares ==
  ASSUME NEW o \in Ops, NEW j \in 1..EditCount(o[1]), NEW w \in Names \X Ips, ~Ends(o, w)
  PROVE  \A f \in Forms : <<A(w[1], w[2]), f>> \notin LocalEdits(o)[j].del
<1> DEFINE n == o[2]
           i == o[3]
           e == LocalEdits(o)[j]
<1> SUFFICES ASSUME NEW f \in Forms PROVE <<A(w[1], w[2]), f>> \notin e.del
  OBVIOUS
<1>1. CASE e = Cut(PtrsOf(i)) \/ e = Cut(ServicesOf(i))
  BY <1>1 DEF Cut, Edit, PtrsOf, ServicesOf, A, Ptr, Svc, EitherForm, Padded
<1>2. CASE e = Cut(OtherAs(n, i)) /\ o[1] = "replace"
  BY <1>2 DEF Cut, Edit, OtherAs, A, EitherForm, Ends
<1>3. CASE \E r \in {A(n, i), Ptr(n, i), Svc(n, i)} : e = LocalAdd(r)
  BY <1>3 DEF LocalAdd, Edit
<1>4. CASE \E r \in {Ptr(n, i), Svc(n, i)} : e = LocalCut(r)
  BY <1>4 DEF LocalCut, Cut, Edit, A, Ptr, Svc
<1>5. CASE e = LocalCut(A(n, i)) /\ o[1] = "del"
  BY <1>5 DEF LocalCut, Cut, Edit, A, Ends
<1>6. CASE e = Append_(<<Svc(n, i), "padded">>)
  BY <1>6 DEF Append_, Edit
<1>7. QED
  BY <1>1, <1>2, <1>3, <1>4, <1>5, <1>6, LocalCases

\* Once an operation has written its A record, it does not take it away again.
Placed(o, z, j) == (o[1] = "add" /\ j > 2) \/ (o[1] = "replace" /\ j > 3) => <<A(o[2], o[3]), "padded">> \in z

\* The edit that writes the A record is add_to_dns()'s second and its third on a replacement.
LEMMA LocalPlaces ==
  ASSUME NEW o \in Ops, NEW j \in 1..EditCount(o[1]), NEW z, Placed(o, z, j)
  PROVE  Placed(o, Apply(z, LocalEdits(o)[j]), j + 1)
<1>1. ASSUME NEW r
      PROVE  <<r, "padded">> \in Apply(z, LocalAdd(r)) /\ z \subseteq Apply(z, LocalAdd(r))
  BY DEF Apply, LocalAdd, Edit
<1>2. CASE o[1] = "add"
  <2>1. j = 1 \/ j = 2 \/ j = 3
    BY <1>2 DEF EditCount
  <2>2. j = 2 => LocalEdits(o)[j] = LocalAdd(A(o[2], o[3]))
    BY <1>2, LocalTable
  <2>3. j = 3 => LocalEdits(o)[j] = LocalAdd(Ptr(o[2], o[3]))
    BY <1>2, LocalTable
  <2>4. CASE j = 1
    BY <1>2, <2>4 DEF Placed
  <2>5. CASE j = 2
    BY <1>1, <2>2, <2>5 DEF Placed
  <2>6. CASE j = 3
    <3>1. <<A(o[2], o[3]), "padded">> \in z
      BY <1>2, <2>6 DEF Placed
    <3>2. QED
      BY <1>1, <2>3, <2>6, <3>1 DEF Placed
  <2>7. QED
    BY <2>1, <2>4, <2>5, <2>6
<1>3. CASE o[1] = "replace"
  <2>1. j = 1 \/ j = 2 \/ j = 3 \/ j = 4
    BY <1>3 DEF EditCount
  <2>2. j = 3 => LocalEdits(o)[j] = LocalAdd(A(o[2], o[3]))
    BY <1>3, LocalTable
  <2>3. j = 4 => LocalEdits(o)[j] = LocalAdd(Ptr(o[2], o[3]))
    BY <1>3, LocalTable
  <2>4. CASE j = 1 \/ j = 2
    BY <1>3, <2>4 DEF Placed
  <2>5. CASE j = 3
    BY <1>1, <2>2, <2>5 DEF Placed
  <2>6. CASE j = 4
    <3>1. <<A(o[2], o[3]), "padded">> \in z
      BY <1>3, <2>6 DEF Placed
    <3>2. QED
      BY <1>1, <2>3, <2>6, <3>1 DEF Placed
  <2>7. QED
    BY <2>1, <2>4, <2>5, <2>6
<1>4. CASE o[1] \notin {"add", "replace"}
  BY <1>4 DEF Placed
<1>5. QED
  BY <1>2, <1>3, <1>4

-----------------------------------------------------------------------------
(* This host keeps what was registered *)

\* With one script at a time, what it read of a file is still what the file holds.
Reading(p) == pc[p] = "write" => /\ seen[p] = zone[Here] \cap FileOf(WorkEdit(p))
                                 /\ zone[Here] \cap WorkEdit(p).unless = {}

\* The next of the edits of this host's own files.
HereAt(p) == IF OnRemote(p) THEN 1 ELSE index[p] - RemoteWork(p)

Editing(p) == pc[p] \in {"edit", "write"}

\* What was registered is in this host's zone, nothing that is running ends it, and an
\* operation that has written its record still has it.
Kept(p) ==
    /\ \A w \in want : A(w[1], w[2]) \in Recs(zone[Here])
    /\ pc[p] # "idle" => \A w \in want : ~Ends(op[p], w)
    /\ Editing(p) => Placed(op[p], zone[Here], HereAt(p))
    /\ pc[p] \in {"compare", "fill"} => Placed(op[p], zone[Here], 4)

\* Writing a whole file back is the edit it was read for.
LEMMA WholeFile ==
  ASSUME NEW z, NEW e, e.del \subseteq FileOf(e), z \cap e.unless = {}
  PROVE  (z \ FileOf(e)) \cup Apply(z \cap FileOf(e), e) = Apply(z, e)
<1>1. PICK F, d, u, a : F = FileOf(e) /\ d = e.del /\ u = e.unless /\ a = e.add
  OBVIOUS
<1>2. Apply(z \cap F, e) = ((z \cap F) \ d) \cup a /\ Apply(z, e) = (z \ d) \cup a
  BY <1>1 DEF Apply
<1>3. (z \ F) \cup (((z \cap F) \ d) \cup a) = (z \ d) \cup a
  BY <1>1
<1>4. QED
  BY <1>1, <1>2, <1>3

\* The place of the next local edit, while it is one.
LEMMA TheLocalEdit ==
  ASSUME TypeInv, NEW p \in Procs, pc[p] \in {"edit", "write"}, index[p] <= WorkLength(p), ~OnRemote(p)
  PROVE  /\ op[p] \in Ops /\ HereAt(p) \in 1..EditCount(op[p][1])
         /\ WorkEdit(p) = LocalEdits(op[p])[HereAt(p)]
<1>1. op[p] \in Ops /\ index[p] \in Nat \ {0}
  BY DEF TypeInv, TypeOK, Located
<1>2. index[p] - RemoteWork(p) \in 1..EditCount(op[p][1])
      /\ WorkEdit(p) = LocalEdits(op[p])[index[p] - RemoteWork(p)]
  BY <1>1, TheWork
<1>3. QED
  BY <1>1, <1>2 DEF HereAt

\* A local edit that is done, and one that is skipped because the line is there, leave
\* the zone as the edit says and go on to the next.
LEMMA LocalApplies ==
  ASSUME TypeInv, NEW p \in Procs, Reading(p),
         LocalWrite(p) \/ (LocalRead(p) /\ zone[Here] \cap WorkEdit(p).unless # {})
  PROVE  /\ op[p] \in Ops /\ HereAt(p) \in 1..EditCount(op[p][1]) /\ HereAt(p)' = HereAt(p) + 1
         /\ zone' = [zone EXCEPT ![Here] = Apply(zone[Here], LocalEdits(op[p])[HereAt(p)])]
         /\ Editing(p) /\ pc' = [pc EXCEPT ![p] = "edit"] /\ index' = [index EXCEPT ![p] = @ + 1]
         /\ RemoteWork(p)' = RemoteWork(p)
         /\ UNCHANGED <<declared, up, op, cache, resync, held, started, faults, want, dead, last, calm>>
<1>1. /\ pc[p] \in {"edit", "write"} /\ index[p] <= WorkLength(p) /\ ~OnRemote(p)
  BY DEF LocalWrite, LocalRead, TypeInv, Located
<1>2. PICK e : e = WorkEdit(p)
  OBVIOUS
<1>3. op[p] \in Ops /\ HereAt(p) \in 1..EditCount(op[p][1]) /\ e = LocalEdits(op[p])[HereAt(p)]
  BY <1>1, <1>2, TheLocalEdit
<1>4. /\ e.del \subseteq FileOf(e) /\ (e.unless = {} \/ e.del = {})
      /\ (Appends(e) => e.del = {} /\ e.unless = {})
  BY <1>3, LocalShape
<1>5. zone' = [zone EXCEPT ![Here] = Apply(zone[Here], e)]
  <2>1. CASE pc[p] = "write" /\ LocalWrite(p)
    <3>1. zone' = [zone EXCEPT ![Here] = (zone[Here] \ FileOf(e)) \cup Apply(seen[p], e)]
      BY <2>1, <1>2 DEF LocalWrite
    <3>2. seen[p] = zone[Here] \cap FileOf(e) /\ zone[Here] \cap e.unless = {}
      BY <2>1, <1>2 DEF Reading
    <3>3. (zone[Here] \ FileOf(e)) \cup Apply(seen[p], e) = Apply(zone[Here], e)
      BY <3>2, <1>4, WholeFile
    <3>4. QED
      BY <3>1, <3>3
  <2>2. CASE pc[p] # "write" /\ LocalWrite(p)
    BY <2>2, <1>2 DEF LocalWrite
  <2>3. CASE LocalRead(p) /\ zone[Here] \cap WorkEdit(p).unless # {}
    <3>1. e.del = {} /\ zone[Here] \cap e.unless # {}
      BY <2>3, <1>2, <1>4
    <3>2. Apply(zone[Here], e) = zone[Here]
      BY <3>1 DEF Apply
    <3>3. zone' = zone
      BY <2>3 DEF LocalRead, world
    <3>4. zone' = [zone EXCEPT ![Here] = zone[Here]]
      BY <3>3 DEF TypeInv, TypeOK
    <3>5. QED
      BY <3>2, <3>4
  <2>4. QED
    BY <2>1, <2>2, <2>3
<1>6. /\ pc' = [pc EXCEPT ![p] = "edit"] /\ index' = [index EXCEPT ![p] = @ + 1]
      /\ UNCHANGED <<declared, up, op, cache, resync, held, started, faults, want, dead, last, calm>>
  <2>1. CASE LocalWrite(p)
    BY <2>1 DEF LocalWrite, At, Next_, history
  <2>2. CASE LocalRead(p) /\ zone[Here] \cap WorkEdit(p).unless # {}
    <3>1. pc[p] = "edit" /\ pc' = pc
      BY <2>2 DEF LocalRead
    <3>2. pc' = [pc EXCEPT ![p] = "edit"]
      BY <3>1 DEF TypeInv, TypeOK
    <3>3. QED
      BY <2>2, <3>2 DEF LocalRead, Next_, world, history
  <2>3. QED
    BY <2>1, <2>2
<1>7. HereAt(p)' = HereAt(p) + 1 /\ RemoteWork(p)' = RemoteWork(p)
  <2>1. RemoteWork(p)' = RemoteWork(p)
    BY <1>6 DEF RemoteWork
  <2>2. index'[p] = index[p] + 1 /\ index[p] \in Nat \ {0} /\ RemoteWork(p) \in Nat
    BY <1>6, <1>3, TheWork DEF TypeInv, TypeOK
  <2>3. index[p] > RemoteWork(p)
    BY <1>1, <2>2 DEF OnRemote
  <2>4. ~OnRemote(p)'
    BY <2>1, <2>2, <2>3 DEF OnRemote
  <2>5. HereAt(p)' = index'[p] - RemoteWork(p) /\ HereAt(p) = index[p] - RemoteWork(p)
    BY <1>1, <2>1, <2>4 DEF HereAt
  <2>6. QED
    BY <2>1, <2>2, <2>5
<1>8. Editing(p)
  BY <1>1 DEF Editing
<1>9. QED
  BY <1>2, <1>3, <1>5, <1>6, <1>7, <1>8

HostInv(p) == Reading(p) /\ Kept(p)

\* A registration that was there is there when the zone keeps its A records.
LEMMA WantedStay ==
  ASSUME NEW p \in Procs, Kept(p), NEW z, zone'[Here] = z,
         \A w \in want : \A f : <<A(w[1], w[2]), f>> \in zone[Here] => <<A(w[1], w[2]), f>> \in z,
         TypeInv
  PROVE  \A w \in want : A(w[1], w[2]) \in Recs(z)
<1> SUFFICES ASSUME NEW w \in want PROVE A(w[1], w[2]) \in Recs(z)
  OBVIOUS
<1>1. A(w[1], w[2]) \in Recs(zone[Here])
  BY DEF Kept
<1>2. PICK l \in zone[Here] : l[1] = A(w[1], w[2])
  BY <1>1 DEF Recs
<1>3. l \in Lines
  BY TheServers DEF TypeInv, TypeOK
<1>4. l = <<A(w[1], w[2]), l[2]>>
  BY <1>2, <1>3 DEF Lines
<1>5. l \in z
  BY <1>4
<1>6. QED
  BY <1>2, <1>5 DEF Recs

\* An operation that has edited this host's files has written its record.
LEMMA PlacedAtEnd ==
  ASSUME TypeInv, NEW p \in Procs, Kept(p), pc[p] = "edit", index[p] > WorkLength(p)
  PROVE  /\ HereAt(p) > EditCount(op[p][1]) /\ HereAt(p) \in Nat
         /\ Placed(op[p], zone[Here], 4)
<1>1. op[p] \in Ops /\ index[p] \in Nat \ {0}
  BY DEF TypeInv, TypeOK, Located
<1>2. RemoteWork(p) \in Nat /\ WorkLength(p) = RemoteWork(p) + EditCount(op[p][1]) /\ EditCount(op[p][1]) \in 0..4
  BY <1>1, TheWork, EditsOfOp
<1>3. HereAt(p) = index[p] - RemoteWork(p) /\ HereAt(p) > EditCount(op[p][1]) /\ HereAt(p) \in Nat
  BY <1>1, <1>2 DEF HereAt, OnRemote
<1>4. Placed(op[p], zone[Here], HereAt(p))
  BY DEF Kept, Editing
<1>5. PICK o, z, j : o = op[p] /\ z = zone[Here] /\ j = HereAt(p)
  OBVIOUS
<1>6. /\ Placed(o, z, j) /\ j \in Nat /\ j > EditCount(o[1])
  BY <1>3, <1>4, <1>5
<1>7. Placed(o, z, 4)
  BY ONLY <1>6 DEF Placed, EditCount
<1>8. QED
  BY <1>3, <1>5, <1>7

\* The first edit of this host's files comes first, or after those of the masters.
LEMMA HereAtFirst ==
  ASSUME NEW p \in Procs, op[p] \in Ops, index[p] = 1
  PROVE  HereAt(p) = 1
<1>1. RemoteWork(p) \in Nat
  BY TheWork
<1>2. QED
  BY <1>1 DEF HereAt, OnRemote

\* A step that neither edits nor returns.
LEMMA KeptWhileWaiting ==
  ASSUME NEW p \in Procs, Kept(p), pc'[p] \notin {"edit", "write"}, zone'[Here] = zone[Here],
         op'[p] = op[p], want' = want, pc'[p] # "idle" => pc[p] # "idle",
         pc'[p] \in {"compare", "fill"} => Placed(op[p], zone[Here], 4)
  PROVE  Kept(p)'
  BY DEF Kept, Editing

\* A script that starts an operation ends the registrations it ends.
LEMMA BeginKept ==
  ASSUME TypeInv, NEW p \in Procs, Kept(p), NEW o \in Ops, Begin(p, o)
  PROVE  Kept(p)'
<1>1. /\ zone' = zone /\ op'[p] = o /\ want' = {w \in want : ~Ends(o, w)} /\ index'[p] = 1
      /\ pc' = [pc EXCEPT ![p] = CASE o[1] = "del" -> "edit" [] o[1] \in {"sync", "prune"} -> "compare"
                                   [] OTHER -> "zones"]
  BY DEF Begin, world, At, First, TypeInv, TypeOK
<1>2. o[1] \in OpKinds
  BY EditsOfOp
<1>3. pc'[p] = (CASE o[1] = "del" -> "edit" [] o[1] \in {"sync", "prune"} -> "compare" [] OTHER -> "zones")
  BY <1>1 DEF TypeInv, TypeOK
<1>4. Placed(o, zone[Here], 4) \/ pc'[p] \notin {"compare", "fill"}
  BY <1>3 DEF Placed
<1>5. \A j : Placed(o, zone[Here], j) \/ pc'[p] \notin {"edit", "write"}
  BY <1>3 DEF Placed
<1>6. /\ \A w \in want' : A(w[1], w[2]) \in Recs(zone'[Here])
      /\ \A w \in want' : ~Ends(op'[p], w)
  BY <1>1 DEF Kept
<1>7. Placed(op'[p], zone'[Here], 4) \/ pc'[p] \notin {"compare", "fill"}
  BY <1>1, <1>4
<1>8. Placed(op'[p], zone'[Here], HereAt(p)') \/ pc'[p] \notin {"edit", "write"}
  BY <1>1, <1>5
<1>9. QED
  BY <1>6, <1>7, <1>8 DEF Kept, Editing

\* ZonesDone and RemoteStep: this host's files are still to be edited.
LEMMA RemoteKept ==
  ASSUME TypeInv, NEW p \in Procs, Kept(p), ZonesDone(p) \/ RemoteStep(p)
  PROVE  Kept(p)'
<1>1. op[p] \in Ops /\ index[p] \in Nat \ {0} /\ pc[p] # "idle"
  BY DEF TypeInv, TypeOK, Located, ZonesDone, RemoteStep
<1>2. zone'[Here] = zone[Here] /\ op' = op /\ want' = want
  <2>1. CASE ZonesDone(p)
    BY <2>1 DEF ZonesDone, world, history
  <2>2. CASE RemoteStep(p)
    <3>1. PICK s, Z : s = WorkServer(p) /\ Z = IF Answers(p, s) THEN Apply(zone[s], WorkEdit(p)) ELSE zone[s]
      OBVIOUS
    <3>2. zone' = [zone EXCEPT ![s] = Z]
      BY <2>2, <3>1 DEF RemoteStep
    <3>3. s # Here
      <4>1. RemoteWork(p) = Len(MasterSeq) * Len(RemoteEdits(op[p])) /\ index[p] <= RemoteWork(p)
        BY <2>2 DEF RemoteStep, OnRemote, RemoteWork
      <4>2. PICK k \in Nat : k = Len(RemoteEdits(op[p])) /\ k > 0 /\ k = EditCount(op[p][1])
        BY <1>1, <2>2, TheWork, EditsOfOp DEF RemoteStep
      <4>3. PICK N \in Nat : N = Len(MasterSeq)
        BY TheServers
      <4>4. PICK d \in Nat : d = (index[p] - 1) \div k
        BY ONLY <1>1, <4>2
      <4>5. d + 1 \in 1..N
        <5>1. index[p] <= N * k /\ index[p] \in Nat \ {0} /\ k \in 1..4
          BY <1>1, <4>1, <4>2, <4>3, EditsOfOp
        <5>2. CASE k = 1
          BY ONLY <5>1, <5>2, <4>4
        <5>3. CASE k = 2
          BY ONLY <5>1, <5>3, <4>4
        <5>4. CASE k = 3
          BY ONLY <5>1, <5>4, <4>4
        <5>5. CASE k = 4
          BY ONLY <5>1, <5>5, <4>4
        <5>6. QED
          BY <5>1, <5>2, <5>3, <5>4, <5>5
      <4>6. s = MasterSeq[d + 1]
        BY <3>1, <4>2, <4>4 DEF WorkServer
      <4>7. QED
        BY <4>3, <4>5, <4>6, TheServers
    <3>4. QED
      BY <2>2, <3>2, <3>3, TheServers DEF RemoteStep, history, TypeInv, TypeOK
  <2>3. QED
    BY <2>1, <2>2
<1>3. pc'[p] \in {"edit", "write"} => HereAt(p)' = 1
  <2>1. CASE ZonesDone(p)
    <3>1. op'[p] \in Ops /\ index'[p] = 1
      BY <2>1, <1>1, <1>2 DEF ZonesDone, First, TypeInv, TypeOK
    <3>2. RemoteWork(p) \in Nat /\ RemoteWork(p)' = RemoteWork(p)
      BY <1>1, <1>2, TheWork DEF RemoteWork
    <3>3. QED
      BY <3>1, <3>2 DEF HereAt, OnRemote
  <2>2. CASE RemoteStep(p)
    <3>1. RemoteWork(p) \in Nat /\ RemoteWork(p)' = RemoteWork(p)
      BY <1>1, <1>2, TheWork DEF RemoteWork
    <3>2. index'[p] = index[p] + 1 /\ index[p] <= RemoteWork(p)
      BY <2>2 DEF RemoteStep, OnRemote, Next_, TypeInv, TypeOK
    <3>3. QED
      BY <1>1, <3>1, <3>2 DEF HereAt, OnRemote
  <2>3. QED
    BY <2>1, <2>2
<1>4. pc'[p] \in {"idle", "edit"}
  BY DEF ZonesDone, RemoteStep, At, TypeInv, TypeOK
<1>5. \A o, z : Placed(o, z, 1)
  BY DEF Placed
<1>6. /\ \A w \in want' : A(w[1], w[2]) \in Recs(zone'[Here])
      /\ \A w \in want' : ~Ends(op'[p], w)
  BY <1>1, <1>2 DEF Kept
<1>7. pc'[p] \in {"edit", "write"} => Placed(op'[p], zone'[Here], HereAt(p)')
  BY <1>3, <1>5
<1>8. QED
  BY <1>4, <1>6, <1>7 DEF Kept, Editing

\* LocalRead before a write.
LEMMA ReadKept ==
  ASSUME TypeInv, NEW p \in Procs, Kept(p), LocalRead(p), zone[Here] \cap WorkEdit(p).unless = {}
  PROVE  Kept(p)' /\ Reading(p)'
<1>1. /\ seen' = [seen EXCEPT ![p] = zone[Here] \cap FileOf(WorkEdit(p))]
      /\ pc' = [pc EXCEPT ![p] = "write"] /\ pc[p] = "edit" /\ UNCHANGED <<zone, index, op, want>>
  BY DEF LocalRead, At, world, history
<1>2. WorkEdit(p)' = WorkEdit(p) /\ HereAt(p)' = HereAt(p)
  BY <1>1, WorkKept DEF HereAt
<1>3. seen'[p] = zone[Here] \cap FileOf(WorkEdit(p)) /\ pc'[p] = "write"
  BY <1>1 DEF TypeInv, TypeOK
<1>4. Reading(p)'
  BY <1>1, <1>2, <1>3 DEF Reading
<1>5. Placed(op'[p], zone'[Here], HereAt(p)')
  BY <1>1, <1>2 DEF Kept, Editing
<1>6. QED
  BY <1>1, <1>3, <1>4, <1>5 DEF Kept, Editing

\* A local edit that is done or skipped.
LEMMA LocalKept ==
  ASSUME TypeInv, NEW p \in Procs, HostInv(p),
         LocalWrite(p) \/ (LocalRead(p) /\ zone[Here] \cap WorkEdit(p).unless # {})
  PROVE  Kept(p)'
<1>1. PICK o, j, z : o = op[p] /\ j = HereAt(p) /\ z = zone[Here]
  OBVIOUS
<1>2. PICK Z : Z = Apply(z, LocalEdits(o)[j])
  OBVIOUS
<1>3. Reading(p) /\ Kept(p)
  BY DEF HostInv
<1>4. /\ o \in Ops /\ j \in 1..EditCount(o[1]) /\ HereAt(p)' = j + 1 /\ zone' = [zone EXCEPT ![Here] = Z]
      /\ Editing(p) /\ pc' = [pc EXCEPT ![p] = "edit"] /\ op' = op /\ want' = want
  BY <1>1, <1>2, <1>3, LocalApplies
<1>5. zone'[Here] = Z /\ pc'[p] = "edit"
  BY <1>4, TheServers DEF TypeInv, TypeOK
<1>6. \A w \in want : ~Ends(o, w) /\ w \in Names \X Ips
  BY <1>1, <1>3, <1>4 DEF Kept, Editing, TypeInv, TypeOK
<1>7. ASSUME NEW w \in want, NEW f, <<A(w[1], w[2]), f>> \in z
      PROVE  <<A(w[1], w[2]), f>> \in Z
  <2>1. z \subseteq Lines
    BY <1>1, TheServers DEF TypeInv, TypeOK
  <2>2. f \in Forms
    BY <2>1, <1>7 DEF Lines
  <2>3. <<A(w[1], w[2]), f>> \notin LocalEdits(o)[j].del
    BY <1>4, <1>6, <2>2, LocalSpares
  <2>4. QED
    BY <1>2, <1>7, <2>3 DEF Apply
<1>8. \A w \in want : A(w[1], w[2]) \in Recs(Z)
  BY <1>1, <1>3, <1>5, <1>7, WantedStay
<1>9. Placed(o, z, j)
  BY <1>1, <1>3, <1>4 DEF Kept
<1>10. Placed(o, Z, j + 1)
  BY <1>2, <1>4, <1>9, LocalPlaces
<1>11. QED
  BY <1>1, <1>4, <1>5, <1>6, <1>8, <1>10 DEF Kept, Editing

\* An operation that returns has left the record it promised.
LEMMA ReturnKept ==
  ASSUME TypeInv, NEW p \in Procs, Kept(p), EditsDone(p) \/ FillDone(p) \/ PruneDone(p)
  PROVE  Kept(p)'
<1>1. PICK o : o = op[p]
  OBVIOUS
<1>2. o \in Ops /\ pc[p] \in {"edit", "fill", "prune"} /\ zone' = zone /\ op' = op
  BY <1>1 DEF TypeInv, TypeOK, Located, EditsDone, FillDone, PruneDone, world
<1>3. o[1] \in {"add", "replace"} => A(o[2], o[3]) \in Recs(zone[Here])
  <2>1. Placed(o, zone[Here], 4) \/ pc[p] = "prune"
    BY <1>1, <1>2, PlacedAtEnd DEF EditsDone, FillDone, PruneDone, Kept
  <2>2. pc[p] = "prune" => o[1] = "prune"
    BY <1>1 DEF TypeInv, Located
  <2>3. QED
    BY <2>1, <2>2 DEF Placed, Recs
<1>4. \A w \in want : A(w[1], w[2]) \in Recs(zone[Here]) /\ ~Ends(o, w)
  BY <1>1, <1>2 DEF Kept
<1>5. CASE Completed(p) /\ pc' = [pc EXCEPT ![p] = "idle"]
  <2>1. want' \subseteq want \cup {<<o[2], o[3]>>} /\ (want' = want \/ o[1] \in {"add", "replace"})
    BY <1>1, <1>5 DEF Completed
  <2>2. \A w \in want' : A(w[1], w[2]) \in Recs(zone[Here])
    BY <1>3, <1>4, <2>1
  <2>3. pc'[p] = "idle"
    BY <1>5 DEF TypeInv, TypeOK
  <2>4. QED
    BY <1>2, <2>2, <2>3 DEF Kept, Editing
<1>6. CASE UNCHANGED history /\ pc' = [pc EXCEPT ![p] = "compare"] /\ EditsDone(p)
  <2>1. Placed(o, zone[Here], 4)
    BY <1>1, <1>6, PlacedAtEnd DEF EditsDone
  <2>2. pc'[p] = "compare" /\ want' = want
    BY <1>6 DEF TypeInv, TypeOK, history
  <2>3. QED
    BY <1>1, <1>2, <1>4, <2>1, <2>2 DEF Kept, Editing
<1>7. CASE UNCHANGED history /\ pc' = [pc EXCEPT ![p] = "prunecompare"]
  <2>1. pc'[p] = "prunecompare" /\ want' = want
    BY <1>7 DEF TypeInv, TypeOK, history
  <2>2. QED
    BY <1>1, <1>2, <1>4, <2>1 DEF Kept, Editing
<1>8. QED
  BY <1>5, <1>6, <1>7 DEF EditsDone, FillDone, PruneDone, At

\* Every step of the script keeps what was registered, if its pruning does.
LEMMA ScriptKept ==
  ASSUME TypeInv, NEW p \in Procs, HostInv(p), Script(p), Prune(p) => zone'[Here] = zone[Here]
  PROVE  HostInv(p)'
<1>1. Reading(p) /\ Kept(p)
  BY DEF HostInv
<1>2. CASE NewRun(p)
  <2>1. pc'[p] = "idle" /\ UNCHANGED <<zone, op, want>>
    BY <1>2 DEF NewRun, world, history
  <2>2. QED
    BY <1>1, <2>1, KeptWhileWaiting DEF HostInv, Reading
<1>3. CASE \E o \in Ops : Begin(p, o)
  <2>1. pc'[p] # "write"
    BY <1>3 DEF Begin, At, TypeInv, TypeOK
  <2>2. QED
    BY <1>1, <1>3, <2>1, BeginKept DEF HostInv, Reading
<1>4. CASE EnsureZone(p)
  <2>1. pc[p] = "zones" /\ UNCHANGED <<zone, pc, op, want>>
    BY <1>4 DEF EnsureZone, history
  <2>2. QED
    BY <1>1, <2>1, KeptWhileWaiting DEF HostInv, Reading
<1>5. CASE ZonesDone(p) \/ RemoteStep(p)
  <2>1. pc'[p] # "write"
    BY <1>5 DEF ZonesDone, RemoteStep, At, TypeInv, TypeOK
  <2>2. QED
    BY <1>1, <1>5, <2>1, RemoteKept DEF HostInv, Reading
<1>6. CASE LocalRead(p) /\ zone[Here] \cap WorkEdit(p).unless = {}
  BY <1>1, <1>6, ReadKept DEF HostInv
<1>7. CASE LocalWrite(p) \/ (LocalRead(p) /\ zone[Here] \cap WorkEdit(p).unless # {})
  <2>1. pc'[p] # "write"
    BY <1>7 DEF LocalWrite, LocalRead, At, TypeInv, TypeOK
  <2>2. QED
    BY <1>7, <2>1, LocalKept DEF HostInv, Reading
<1>8. CASE EditsDone(p) \/ FillDone(p) \/ PruneDone(p)
  <2>1. pc'[p] # "write"
    BY <1>8 DEF EditsDone, FillDone, PruneDone, At, TypeInv, TypeOK
  <2>2. QED
    BY <1>1, <1>8, <2>1, ReturnKept DEF HostInv, Reading
<1>9. CASE Compare(p) \/ CompareDone(p)
  <2>1. pc[p] \in {"compare", "prunecompare"} /\ UNCHANGED <<zone, op, want>>
        /\ pc'[p] \in {"compare", "prunecompare", "fill", "prune"}
        /\ (pc'[p] \in {"compare", "fill"} => pc[p] = "compare")
    BY <1>9 DEF Compare, CompareDone, world, history, At, TypeInv, TypeOK
  <2>2. pc'[p] \in {"compare", "fill"} => Placed(op[p], zone[Here], 4)
    BY <1>1, <2>1 DEF Kept
  <2>3. QED
    BY <1>1, <2>1, <2>2, KeptWhileWaiting DEF HostInv, Reading
<1>10. CASE Fill(p)
  <2>1. pc[p] = "fill" /\ UNCHANGED <<pc, op, want>>
    BY <1>10 DEF Fill, history
  <2>2. PICK s : s = Stop(p).server
    OBVIOUS
  <2>3. ASSUME NEW r,
               zone' = [zone EXCEPT ![s] = IF Answers(p, s) THEN Filled(zone[s], s, {r}) ELSE zone[s]]
        PROVE  zone[Here] \subseteq zone'[Here]
    <3>1. PICK Z : Z = IF Answers(p, s) THEN Filled(zone[s], s, {r}) ELSE zone[s]
      OBVIOUS
    <3>2. zone[s] \subseteq Z /\ zone' = [zone EXCEPT ![s] = Z]
      BY <2>3, <3>1 DEF Filled
    <3>3. QED
      BY <3>2, TheServers DEF TypeInv, TypeOK
  <2>4. zone[Here] \subseteq zone'[Here]
    <3>1. ~Prune(p)
      BY <1>10 DEF Fill, Prune
    <3>2. QED
      BY <1>10, <2>2, <2>3, <3>1, LoopSteps
  <2>5. \A w \in want : A(w[1], w[2]) \in Recs(zone'[Here])
    BY <1>1, <2>4 DEF Kept, Recs
  <2>6. Placed(op[p], zone'[Here], 4)
    BY <1>1, <2>1, <2>4 DEF Kept, Placed
  <2>7. QED
    BY <1>1, <2>1, <2>5, <2>6 DEF HostInv, Reading, Kept, Editing
<1>11. CASE Prune(p)
  <2>1. pc[p] = "prune" /\ UNCHANGED <<pc, op, want>> /\ zone'[Here] = zone[Here]
    BY <1>11 DEF Prune, history
  <2>2. QED
    BY <1>1, <2>1, KeptWhileWaiting DEF HostInv, Reading
<1>12. QED
  BY <1>2, <1>3, <1>4, <1>5, <1>6, <1>7, <1>8, <1>9, <1>10, <1>11 DEF Script

\* A fault takes nothing from this host.
LEMMA FaultKept ==
  ASSUME TypeInv, NEW p \in Procs, HostInv(p),
         Interrupted(p) \/ \E m \in Masters : GoesDown(m) \/ ComesBack(m) \/ Recreated(m)
  PROVE  HostInv(p)'
<1>1. zone'[Here] = zone[Here] /\ want' = want
  <2>1. want' = want
    BY DEF Interrupted, GoesDown, ComesBack, Recreated, Fault
  <2>2. Interrupted(p) \/ (\E m \in Masters : GoesDown(m) \/ ComesBack(m)) => zone' = zone
    BY DEF Interrupted, GoesDown, ComesBack, world
  <2>3. ASSUME NEW m \in Masters, Recreated(m)
        PROVE  zone'[Here] = zone[Here]
    <3>1. zone' = [zone EXCEPT ![m] = {}] /\ zone \in [Servers -> SUBSET Lines]
      BY <2>3 DEF Recreated, TypeInv, TypeOK
    <3>2. QED
      BY <3>1, TheServers
  <2>4. QED
    BY <2>1, <2>2, <2>3
<1>2. CASE Interrupted(p)
  <2>1. pc'[p] = "idle" /\ op' = op
    BY <1>2 DEF Interrupted, At, TypeInv, TypeOK
  <2>2. QED
    BY <1>1, <2>1 DEF HostInv, Kept, Reading, Editing
<1>3. CASE \E m \in Masters : GoesDown(m) \/ ComesBack(m) \/ Recreated(m)
  <2>1. UNCHANGED <<pc, op, index, seen>>
    BY <1>3 DEF GoesDown, ComesBack, Recreated, script
  <2>2. WorkEdit(p)' = WorkEdit(p) /\ HereAt(p)' = HereAt(p)
    BY <2>1, WorkKept DEF HereAt
  <2>3. QED
    BY <1>1, <2>1, <2>2 DEF HostInv, Kept, Reading, Editing
<1>4. QED
  BY <1>2, <1>3

\* While one script runs at a time, whatever fails and whatever the texts of the records
\* have in common, this host keeps the record of every registration that add_to_dns()
\* has made and nothing has ended.  (--prune, which can take a record that the masters
\* lost, is a theorem of its own below.)
THEOREM HostKeepsRecords ==
  ASSUME NEW P, Procs = {P}, \A o \in Ops : o[1] # "prune"
  PROVE  Spec => []Registered
<1>1. Init => TypeInv /\ HostInv(P)
  BY InitTyped DEF Init, HostInv, Reading, Kept, Editing
<1>2. TypeInv /\ HostInv(P) /\ [Next]_vars => (TypeInv /\ HostInv(P))'
  <2> SUFFICES ASSUME TypeInv, HostInv(P), [Next]_vars PROVE TypeInv' /\ HostInv(P)'
    OBVIOUS
  <2>1. TypeInv' /\ P \in Procs
    BY StepTyped
  <2>2. ~Prune(P)
    BY <2>1 DEF Prune, TypeInv, Located
  <2>3. CASE Script(P)
    BY <2>1, <2>2, <2>3, ScriptKept
  <2>4. CASE Interrupted(P) \/ \E m \in Masters : GoesDown(m) \/ ComesBack(m) \/ Recreated(m)
    BY <2>1, <2>4, FaultKept
  <2>5. CASE UNCHANGED vars
    <3>1. UNCHANGED <<zone, pc, op, index, seen, want>>
      BY <2>5 DEF vars, world, script, history
    <3>2. WorkEdit(P)' = WorkEdit(P) /\ HereAt(P)' = HereAt(P)
      BY <2>1, <3>1, WorkKept DEF HereAt
    <3>3. QED
      BY <2>1, <3>1, <3>2 DEF HostInv, Kept, Reading, Editing
  <2>6. QED
    BY <2>1, <2>3, <2>4, <2>5 DEF Next
<1>3. TypeInv /\ HostInv(P) => Registered
  BY DEF TypeInv, HostInv, Kept, Registered
<1>4. QED
  BY <1>1, <1>2, <1>3, PTL DEF Spec

-----------------------------------------------------------------------------
(* While nothing fails: what the edits of an operation do to a zone *)

\* No record's text contains another's, and each master is listed once.
NoOverlap == \A r \in Records : Covers[r] = {}
Listed    == \A i, j \in 1..Len(MasterSeq) : MasterSeq[i] = MasterSeq[j] => i = j

\* A master is then sent what this host does to its own files.
LEMMA SameEdits ==
  ASSUME NoOverlap, NEW o \in Ops
  PROVE  RemoteEdits(o) = LocalEdits(o)
<1> DEFINE n == o[2]
           i == o[3]
<1>1. A(n, i) \in Records /\ Ptr(n, i) \in Records /\ Svc(n, i) \in Records
  BY EditsOfOp, TheCuts
<1>2. ASSUME NEW r \in Records
      PROVE  RemoteAdd(r) = LocalAdd(r) /\ RemoteCut(r) = LocalCut(r)
  <2>1. {r} \cup Covers[r] = {r}
    BY DEF NoOverlap
  <2>2. Padded({r}) = {<<r, "padded">>}
    BY DEF Padded
  <2>3. QED
    BY <2>1, <2>2 DEF RemoteAdd, LocalAdd, RemoteCut, LocalCut
<1>3. /\ RemoteAdd(A(n, i)) = LocalAdd(A(n, i)) /\ RemoteAdd(Ptr(n, i)) = LocalAdd(Ptr(n, i))
      /\ RemoteAdd(Svc(n, i)) = LocalAdd(Svc(n, i)) /\ RemoteCut(Ptr(n, i)) = LocalCut(Ptr(n, i))
      /\ RemoteCut(A(n, i)) = LocalCut(A(n, i)) /\ RemoteCut(Svc(n, i)) = LocalCut(Svc(n, i))
  BY <1>1, <1>2
<1>4. QED
  BY <1>3 DEF RemoteEdits, LocalEdits

\* The rest of a list of at most four edits, from the j-th on.
Do(z, e, j)   == IF j <= Len(e) THEN Apply(z, e[j]) ELSE z
Rest(z, e, j) == CASE j = 1 -> Do(Do(Do(Do(z, e, 1), e, 2), e, 3), e, 4)
                   [] j = 2 -> Do(Do(Do(z, e, 2), e, 3), e, 4)
                   [] j = 3 -> Do(Do(z, e, 3), e, 4)
                   [] j = 4 -> Do(z, e, 4)
                   [] OTHER -> z

\* One edit done leaves the others.
LEMMA RestStep ==
  ASSUME NEW e \in Seq(Edits), Len(e) <= 4, NEW z, NEW j \in 1..Len(e)
  PROVE  Rest(Apply(z, e[j]), e, j + 1) = Rest(z, e, j)
<1>1. Do(z, e, j) = Apply(z, e[j]) /\ j \in 1..4
  BY DEF Do
<1>2. CASE j = 1
  BY <1>1, <1>2 DEF Rest
<1>3. CASE j = 2
  BY <1>1, <1>3 DEF Rest
<1>4. CASE j = 3
  BY <1>1, <1>4 DEF Rest
<1>5. CASE j = 4
  BY <1>1, <1>5 DEF Rest
<1>6. QED
  BY <1>1, <1>2, <1>3, <1>4, <1>5

\* Past the last edit nothing is left to do.
LEMMA RestOver ==
  ASSUME NEW e \in Seq(Edits), NEW z, NEW j \in Nat, j > Len(e)
  PROVE  Rest(z, e, j) = z
<1>1. \A i \in {1, 2, 3, 4} : i >= j => \A y : Do(y, e, i) = y
  BY DEF Do
<1>2. CASE j = 1
  BY <1>1, <1>2 DEF Rest
<1>3. CASE j = 2
  BY <1>1, <1>3 DEF Rest
<1>4. CASE j = 3
  BY <1>1, <1>4 DEF Rest
<1>5. CASE j = 4
  BY <1>1, <1>5 DEF Rest
<1>6. CASE j \notin {1, 2, 3, 4}
  BY <1>6 DEF Rest
<1>7. QED
  BY <1>2, <1>3, <1>4, <1>5, <1>6

\* What del_from_dns() has removed once it has done j - 1 of its edits, and whose the
\* address is once add_to_dns() has dropped the PTR records of it.
DelDone(o, z, j) == o[1] = "del" => /\ j > 1 => Ptr(o[2], o[3]) \notin Recs(z)
                                    /\ j > 2 => A(o[2], o[3]) \notin Recs(z)
                                    /\ j > 3 => \A n \in Names : Svc(n, o[3]) \notin Recs(z)
Alone(o, z, j)   == o[1] \in {"add", "replace"} /\ j > 1 => \A n \in Names \ {o[2]} : Ptr(n, o[3]) \notin Recs(z)
Unique(z)        == \A i \in Ips : \A m, n \in Names : {Ptr(m, i), Ptr(n, i)} \subseteq Recs(z) => m = n
Own(o)           == {<<t, o[2], o[3]>> : t \in {"A", "PTR", "SVC"}}

\* The records of lines that are all padded.
LEMMA PaddedRecs ==
  ASSUME NEW z \in SUBSET Padded(Records)
  PROVE  \A r : r \in Recs(z) <=> <<r, "padded">> \in z
  BY DEF Padded, Recs

\* The padded lines of some records have those records.
LEMMA RecsOfPadded ==
  ASSUME NEW R
  PROVE  Recs(Padded(R)) = R
<1>1. ASSUME NEW r \in R
      PROVE  r \in Recs(Padded(R))
  <2>1. <<r, "padded">> \in Padded(R)
    BY DEF Padded
  <2>2. QED
    BY <2>1 DEF Recs
<1>2. ASSUME NEW r \in Recs(Padded(R))
      PROVE  r \in R
  <2>1. PICK l \in Padded(R) : r = l[1]
    BY DEF Recs
  <2>2. PICK q \in R : l = <<q, "padded">>
    BY DEF Padded
  <2>3. QED
    BY <2>1, <2>2
<1>3. QED
  BY <1>1, <1>2

\* An edit adds only records of its operation, and only padded ones; del adds none.
LEMMA LocalAdds ==
  ASSUME NEW o \in Ops, NEW j \in 1..EditCount(o[1])
  PROVE  /\ LocalEdits(o)[j].add \subseteq Padded(Own(o)) /\ Own(o) \subseteq Records
         /\ o[1] \in {"del", "sync", "prune"} => LocalEdits(o)[j].add = {}
<1> DEFINE n == o[2]
           i == o[3]
           e == LocalEdits(o)[j]
<1>1. A(n, i) \in Own(o) /\ Ptr(n, i) \in Own(o) /\ Svc(n, i) \in Own(o)
  BY DEF A, Ptr, Svc, Own
<1>2. Own(o) \subseteq Records
  BY EditsOfOp DEF Own, Records
<1>3. \A d : Cut(d).add = {}
  BY DEF Cut, Edit
<1>4. \A r \in Own(o) : LocalAdd(r).add \subseteq Padded(Own(o)) /\ Append_(<<r, "padded">>).add \subseteq Padded(Own(o))
  BY DEF LocalAdd, Append_, Edit, Padded
<1>5. \A r : LocalCut(r).add = {}
  BY <1>3 DEF LocalCut
<1>6. e.add \subseteq Padded(Own(o))
  <2>1. CASE \E d : e = Cut(d)
    BY <2>1, <1>3
  <2>2. CASE \E r \in {A(n, i), Ptr(n, i), Svc(n, i)} : e = LocalAdd(r)
    BY <2>2, <1>1, <1>4
  <2>3. CASE \E r : e = LocalCut(r)
    BY <2>3, <1>5
  <2>4. CASE e = Append_(<<Svc(n, i), "padded">>)
    BY <2>4, <1>1, <1>4
  <2>5. QED
    BY <2>1, <2>2, <2>3, <2>4, LocalCases
<1>7. ASSUME o[1] \in {"del", "sync", "prune"}
      PROVE  e.add = {}
  <2>1. o[1] = "del" /\ (j = 1 \/ j = 2 \/ j = 3)
    BY <1>7 DEF EditCount
  <2>2. QED
    BY <2>1, <1>3, <1>5, LocalTable
<1>8. QED
  BY <1>2, <1>6, <1>7

\* A zone of padded lines has the records it had, but those that were deleted, and some
\* of the operation's own.
LEMMA LocalEffect ==
  ASSUME NEW o \in Ops, NEW j \in 1..EditCount(o[1]), NEW z \in SUBSET Padded(Records),
         NEW Z, Z = Apply(z, LocalEdits(o)[j])
  PROVE  /\ Z \in SUBSET Padded(Records)
         /\ Recs(Z) \subseteq Recs(z) \cup (IF o[1] \in {"del", "sync", "prune"} THEN {} ELSE Own(o))
         /\ \A r \in Records : <<r, "padded">> \in LocalEdits(o)[j].del => r \notin Recs(Z) \/ r \in Recs(Padded(Own(o)))
<1> DEFINE e == LocalEdits(o)[j]
<1>1. e.add \subseteq Padded(Own(o)) /\ Own(o) \subseteq Records /\ (o[1] \in {"del", "sync", "prune"} => e.add = {})
  BY LocalAdds
<1>2. Padded(Own(o)) \subseteq Padded(Records)
  BY <1>1 DEF Padded
<1>3. Z \subseteq z \cup e.add /\ Z \subseteq (z \ e.del) \cup e.add
  BY DEF Apply
<1>4. Z \in SUBSET Padded(Records)
  BY <1>1, <1>2, <1>3
<1>5. Recs(Padded(Own(o))) = Own(o)
  BY RecsOfPadded
<1>6. Recs(Z) \subseteq Recs(z) \cup Recs(e.add) /\ Recs(e.add) \subseteq Recs(Padded(Own(o)))
  BY <1>1, <1>3 DEF Recs
<1>7. Recs(Z) \subseteq Recs(z) \cup (IF o[1] \in {"del", "sync", "prune"} THEN {} ELSE Own(o))
  <2>1. CASE o[1] \in {"del", "sync", "prune"}
    BY <2>1, <1>1, <1>6 DEF Recs
  <2>2. CASE o[1] \notin {"del", "sync", "prune"}
    BY <2>2, <1>5, <1>6
  <2>3. QED
    BY <2>1, <2>2
<1>8. ASSUME NEW r \in Records, <<r, "padded">> \in e.del, r \in Recs(Z)
      PROVE  r \in Recs(Padded(Own(o)))
  <2>1. <<r, "padded">> \in Z
    BY <1>4, <1>8, PaddedRecs
  <2>2. <<r, "padded">> \in e.add
    BY <1>3, <1>8, <2>1
  <2>3. QED
    BY <1>1, <2>2, <1>5 DEF Padded
<1>9. QED
  BY <1>4, <1>7, <1>8

\* del_from_dns() leaves nothing of its records, edit by edit.
LEMMA DelStep ==
  ASSUME NEW o \in Ops, NEW j \in 1..EditCount(o[1]), NEW z \in SUBSET Padded(Records), DelDone(o, z, j),
         NEW Z, Z = Apply(z, LocalEdits(o)[j])
  PROVE  DelDone(o, Z, j + 1)
<1> DEFINE e == LocalEdits(o)[j]
<1> SUFFICES ASSUME o[1] = "del" PROVE DelDone(o, Z, j + 1)
  BY DEF DelDone
<1>1. PICK n \in Names, i \in Ips : n = o[2] /\ i = o[3]
  BY EditsOfOp
<1>2. e.add = {} /\ Z \in SUBSET Padded(Records) /\ Recs(Z) \subseteq Recs(z)
  <2>1. o[1] \in {"del", "sync", "prune"}
    OBVIOUS
  <2>2. e.add = {}
    <3>1. o[1] \in {"del", "sync", "prune"} => LocalEdits(o)[j].add = {}
      BY ONLY LocalAdds, o \in Ops, j \in 1..EditCount(o[1])
    <3>2. QED
      BY <2>1, <3>1
  <2>3. /\ Z \in SUBSET Padded(Records)
        /\ Recs(Z) \subseteq Recs(z) \cup (IF o[1] \in {"del", "sync", "prune"} THEN {} ELSE Own(o))
    BY ONLY LocalEffect, o \in Ops, j \in 1..EditCount(o[1]), z \in SUBSET Padded(Records),
            Z = Apply(z, LocalEdits(o)[j])
  <2>4. QED
    BY <2>1, <2>2, <2>3
<1>3. Z = z \ e.del
  BY <1>2 DEF Apply
<1>4. \A r : <<r, "padded">> \in e.del => r \notin Recs(Z)
  BY <1>2, <1>3, PaddedRecs
<1>5. j = 1 \/ j = 2 \/ j = 3
  BY DEF EditCount
<1>6. j = 1 => Ptr(n, i) \notin Recs(Z)
  <2>1. j = 1 => e.del = {<<Ptr(n, i), "padded">>}
    <3>1. j = 1 => e = LocalCut(Ptr(o[2], o[3]))
      BY LocalTable
    <3>2. QED
      BY <1>1, <3>1 DEF LocalCut, Cut, Edit
  <2>2. QED
    BY <1>4, <2>1
<1>7. j = 2 => A(n, i) \notin Recs(Z)
  <2>1. j = 2 => e.del = {<<A(n, i), "padded">>}
    <3>1. j = 2 => e = LocalCut(A(o[2], o[3]))
      BY LocalTable
    <3>2. QED
      BY <1>1, <3>1 DEF LocalCut, Cut, Edit
  <2>2. QED
    BY <1>4, <2>1
<1>8. j = 3 => \A m \in Names : Svc(m, i) \notin Recs(Z)
  <2>1. j = 3 => e.del = ServicesOf(i)
    <3>1. j = 3 => e = Cut(ServicesOf(o[3]))
      BY LocalTable
    <3>2. QED
      BY <1>1, <3>1 DEF Cut, Edit
  <2>2. \A m \in Names : <<Svc(m, i), "padded">> \in ServicesOf(i)
    BY DEF ServicesOf, Padded
  <2>3. QED
    BY <1>4, <2>1, <2>2
<1>9. /\ j > 1 => Ptr(n, i) \notin Recs(z)
      /\ j > 2 => A(n, i) \notin Recs(z)
  BY <1>1 DEF DelDone
<1>10. CASE j = 1
  BY <1>1, <1>6, <1>10 DEF DelDone
<1>11. CASE j = 2
  BY <1>1, <1>2, <1>7, <1>9, <1>11 DEF DelDone
<1>12. CASE j = 3
  BY <1>1, <1>2, <1>8, <1>9, <1>12 DEF DelDone
<1>13. QED
  BY <1>5, <1>10, <1>11, <1>12

\* add_to_dns() first makes the address its own, and leaves one name for each address.
LEMMA AloneStep ==
  ASSUME NEW o \in Ops, NEW j \in 1..EditCount(o[1]), NEW z \in SUBSET Padded(Records), Alone(o, z, j), Unique(z),
         NEW Z, Z = Apply(z, LocalEdits(o)[j])
  PROVE  Alone(o, Z, j + 1) /\ Unique(Z)
<1> DEFINE e == LocalEdits(o)[j]
<1>1. PICK n \in Names, i \in Ips : n = o[2] /\ i = o[3]
  BY EditsOfOp
<1>2. Recs(Z) \subseteq Recs(z) \cup Own(o)
  BY LocalEffect
<1>3. \A m \in Names, a \in Ips : Ptr(m, a) \in Own(o) => m = n /\ a = i
  BY <1>1 DEF Ptr, Own
<1>4. CASE o[1] \in {"add", "replace"}
  <2>1. ASSUME j = 1
        PROVE  \A m \in Names \ {n} : Ptr(m, i) \notin Recs(Z)
    <3>1. e.del = PtrsOf(i) /\ e.add = {} /\ e.unless = {}
      <4>1. e = Cut(PtrsOf(o[3]))
        BY <1>4, <2>1, LocalTable
      <4>2. QED
        BY <1>1, <4>1 DEF Cut, Edit
    <3>2. Z = z \ PtrsOf(i)
      BY <3>1 DEF Apply
    <3>3. \A m \in Names : <<Ptr(m, i), "padded">> \in PtrsOf(i)
      BY DEF PtrsOf, EitherForm, Forms
    <3>4. Z \in SUBSET Padded(Records)
      BY <3>2
    <3>5. QED
      BY <3>2, <3>3, <3>4, PaddedRecs
  <2>2. ASSUME j # 1
        PROVE  \A m \in Names \ {n} : Ptr(m, i) \notin Recs(z)
    <3>1. j > 1
      BY <2>2
    <3>2. QED
      BY <1>1, <1>4, <3>1 DEF Alone
  <2>3. \A m \in Names \ {n} : Ptr(m, i) \notin Recs(Z)
    BY <1>2, <1>3, <2>1, <2>2
  <2>4. Alone(o, Z, j + 1)
    BY <1>1, <2>3 DEF Alone
  <2>5. Unique(Z)
    <3> SUFFICES ASSUME NEW a \in Ips, NEW m \in Names, NEW k \in Names, {Ptr(m, a), Ptr(k, a)} \subseteq Recs(Z)
                 PROVE  m = k
      BY DEF Unique
    <3>1. CASE a = i
      BY <3>1, <2>3
    <3>2. CASE a # i
      BY <3>2, <1>2, <1>3 DEF Unique
    <3>3. QED
      BY <3>1, <3>2
  <2>6. QED
    BY <2>4, <2>5
<1>5. CASE o[1] \notin {"add", "replace"}
  <2>1. Alone(o, Z, j + 1)
    BY <1>5 DEF Alone
  <2>2. \A m \in Names, a \in Ips : Ptr(m, a) \in Recs(Z) => Ptr(m, a) \in Recs(z)
    <3> SUFFICES ASSUME NEW m \in Names, NEW a \in Ips, Ptr(m, a) \in Recs(Z), Ptr(m, a) \notin Recs(z) PROVE FALSE
      OBVIOUS
    <3>1. <<Ptr(m, a), "padded">> \in Z /\ <<Ptr(m, a), "padded">> \notin z
      BY LocalEffect, PaddedRecs
    <3>2. <<Ptr(m, a), "padded">> \in e.add
      BY <3>1 DEF Apply
    <3>3. o[1] \in {"service", "named_rr"}
      BY <1>5, <3>2, EditsOfOp, LocalAdds DEF OpKinds
    <3>4. e.add \subseteq {<<Svc(n, i), "padded">>}
      <4>1. CASE o[1] = "service"
        <5>1. j = 1 \/ j = 2
          BY <4>1 DEF EditCount
        <5>2. e = LocalCut(Svc(o[2], o[3])) \/ e = Append_(<<Svc(o[2], o[3]), "padded">>)
          BY <4>1, <5>1, LocalTable
        <5>3. QED
          BY <1>1, <5>2 DEF LocalCut, Cut, Append_, Edit
      <4>2. CASE o[1] = "named_rr"
        <5>1. j = 1
          BY <4>2 DEF EditCount
        <5>2. e = LocalAdd(Svc(o[2], o[3]))
          BY <4>2, <5>1, LocalTable
        <5>3. QED
          BY <1>1, <5>2 DEF LocalAdd, Edit
      <4>3. QED
        BY <3>3, <4>1, <4>2
    <3>5. QED
      BY <3>2, <3>4 DEF Ptr, Svc
  <2>3. QED
    BY <2>1, <2>2 DEF Unique
<1>6. QED
  BY <1>4, <1>5

-----------------------------------------------------------------------------
(* While nothing fails: whose turn it is *)

\* The next edit of the j-th master, when q of the edits of all of them are done, k each.
Turn(k, q, j) == IF j <= q \div k THEN k + 1 ELSE IF j = (q \div k) + 1 THEN (q % k) + 1 ELSE 1

\* At first everyone's first edit is next.
LEMMA TurnFirst ==
  ASSUME NEW k \in 1..4, NEW j \in Nat \ {0}
  PROVE  Turn(k, 0, j) = 1
<1>1. CASE k = 1
  BY <1>1 DEF Turn
<1>2. CASE k = 2
  BY <1>2 DEF Turn
<1>3. CASE k = 3
  BY <1>3 DEF Turn
<1>4. CASE k = 4
  BY <1>4 DEF Turn
<1>5. QED
  BY <1>1, <1>2, <1>3, <1>4

\* An edit of one master brings that master to its next edit, and no other.
LEMMA TurnStep ==
  ASSUME NEW k \in 1..4, NEW q \in Nat, NEW N \in Nat, q < N * k
  PROVE  /\ (q \div k) + 1 \in 1..N
         /\ Turn(k, q, (q \div k) + 1) = (q % k) + 1 /\ (q % k) + 1 \in 1..k
         /\ Turn(k, q + 1, (q \div k) + 1) = (q % k) + 2
         /\ \A j \in Nat \ {0} : j # (q \div k) + 1 => Turn(k, q + 1, j) = Turn(k, q, j)
<1>1. CASE k = 1
  <2>1. q \div k = q /\ q % k = 0 /\ (q + 1) \div k = q + 1 /\ (q + 1) % k = 0 /\ q < N
    BY <1>1
  <2>2. QED
    BY <1>1, <2>1 DEF Turn
<1>2. CASE k \in {2, 3, 4}
  <2>1. PICK d \in Nat, r \in 0..(k - 1) : d = q \div k /\ r = q % k
    <3>1. CASE k = 2
      BY <3>1
    <3>2. CASE k = 3
      BY <3>2
    <3>3. CASE k = 4
      BY <3>3
    <3>4. QED
      BY <1>2, <3>1, <3>2, <3>3
  <2>2. d < N
    <3>1. CASE k = 2
      BY <2>1, <3>1
    <3>2. CASE k = 3
      BY <2>1, <3>2
    <3>3. CASE k = 4
      BY <2>1, <3>3
    <3>4. QED
      BY <1>2, <3>1, <3>2, <3>3
  <2>3. IF r + 1 < k THEN (q + 1) \div k = d /\ (q + 1) % k = r + 1
                     ELSE (q + 1) \div k = d + 1 /\ (q + 1) % k = 0
    <3>1. CASE k = 2
      BY <2>1, <3>1
    <3>2. CASE k = 3
      BY <2>1, <3>2
    <3>3. CASE k = 4
      BY <2>1, <3>3
    <3>4. QED
      BY <1>2, <3>1, <3>2, <3>3
  <2>4. d + 1 \in 1..N /\ r + 1 \in 1..k
    BY <2>1, <2>2
  <2>5. Turn(k, q, d + 1) = r + 1
    BY <2>1 DEF Turn
  <2>6. Turn(k, q + 1, d + 1) = r + 2
    BY <2>1, <2>3 DEF Turn
  <2>7. ASSUME NEW j \in Nat \ {0}, j # d + 1
        PROVE  Turn(k, q + 1, j) = Turn(k, q, j)
    BY <2>1, <2>3, <2>7 DEF Turn
  <2>8. QED
    BY <2>1, <2>4, <2>5, <2>6, <2>7
<1>3. QED
  BY <1>1, <1>2

\* When the masters are done, they are.
LEMMA TurnOver ==
  ASSUME NEW k \in 1..4, NEW q \in Nat, NEW N \in Nat, q >= N * k, NEW j \in 1..N
  PROVE  Turn(k, q, j) = k + 1
<1>1. N <= q \div k /\ q \div k \in Nat
  <2>1. CASE k = 1
    BY <2>1
  <2>2. CASE k = 2
    BY <2>2
  <2>3. CASE k = 3
    BY <2>3
  <2>4. CASE k = 4
    BY <2>4
  <2>5. QED
    BY <2>1, <2>2, <2>3, <2>4
<1>2. QED
  BY <1>1 DEF Turn

\* The stops a script has made: those of server s where record r is in the file.
Passed(p, s, r) == \E j \in 1..Len(Stops(p)) : /\ j < index[p]
                                              /\ Stops(p)[j].server = s /\ r \in InFile(Stops(p)[j].file)

\* No stop has been made at first.
LEMMA PassedFirst ==
  ASSUME NEW p \in Procs, NEW s, NEW r, index[p] = 1
  PROVE  ~Passed(p, s, r)
  BY TheStops DEF Passed

\* Each stop adds its server's file.
LEMMA PassedStep ==
  ASSUME NEW p \in Procs, NEW s, NEW r, index[p] \in 1..Len(Stops(p)), index'[p] = index[p] + 1, op'[p] = op[p]
  PROVE  Passed(p, s, r)' <=> Passed(p, s, r) \/ (Stop(p).server = s /\ r \in InFile(Stop(p).file))
<1>1. Stops(p)' = Stops(p) /\ Len(Stops(p)) \in Nat
  BY TheStops DEF Stops
<1>2. PICK T, i : T = Stops(p) /\ i = index[p] /\ i \in Nat
  BY TheStops
<1>3. Passed(p, s, r)' <=> \E j \in 1..Len(T) : j < i + 1 /\ T[j].server = s /\ r \in InFile(T[j].file)
  BY <1>1, <1>2 DEF Passed
<1>4. Passed(p, s, r) <=> \E j \in 1..Len(T) : j < i /\ T[j].server = s /\ r \in InFile(T[j].file)
  BY <1>2 DEF Passed
<1>5. Stop(p) = T[i] /\ i \in 1..Len(T)
  BY <1>2 DEF Stop
<1>6. \A j \in 1..Len(T) : j < i + 1 <=> j < i \/ j = i
  BY <1>2
<1>7. QED
  BY <1>3, <1>4, <1>5, <1>6

\* When every stop is made, every file of the operation has been passed on every server.
LEMMA PassedAll ==
  ASSUME NEW p \in Procs, index[p] \in Nat, index[p] > Len(Stops(p)), NEW s \in Servers, NEW r
  PROVE  Passed(p, s, r) <=> \E f \in ZonesOf(op[p]) : r \in InFile(f)
<1>1. \A j \in 1..Len(Stops(p)) : j < index[p]
  BY TheStops
<1>2. ASSUME NEW f \in ZonesOf(op[p]), r \in InFile(f)
      PROVE  Passed(p, s, r)
  <2>1. PICK j \in 1..Len(Stops(p)) : Stops(p)[j] = [file |-> f, server |-> s]
    BY TheStops
  <2>2. QED
    BY <1>1, <1>2, <2>1 DEF Passed
<1>3. ASSUME Passed(p, s, r)
      PROVE  \E f \in ZonesOf(op[p]) : r \in InFile(f)
  BY <1>3, TheStops DEF Passed
<1>4. QED
  BY <1>2, <1>3

-----------------------------------------------------------------------------
(* A synchronisation during which every master answered *)

\* What the script has compared, and what it has filled in.
Clear(p) == calm /\ \A m \in Masters : cache[p][m] = "yes"
All(p)   == UNION {held[p][s] : s \in Servers}
Reads(p) == \A s \in Servers : held[p][s] = {r \in Recs(zone[s]) : Passed(p, s, r)}
Fills(p) == /\ \A s \in Servers : held[p][s] \subseteq Recs(zone[s])
            /\ op[p][1] = "sync" => \A s \in Servers : Recs(zone[s]) \subseteq All(p)
            /\ \A s \in Servers : \A r \in All(p) : Passed(p, s, r) => r \in Recs(zone[s])

\* `last` names an operation only when no script runs, and a synchronisation only when
\* the servers are in step; while one runs and all goes well, what was read is what is
\* there and what was filled in is there.
SyncInv(p) ==
    /\ calm => up = Masters
    /\ last # "none" => pc[p] = "idle"
    /\ last = "sync" => \A s \in Servers : Recs(zone[s]) = Recs(zone[Here])
    /\ Clear(p) /\ pc[p] \in {"compare", "prunecompare"} => Reads(p)
    /\ Clear(p) /\ pc[p] = "fill" => Fills(p)

\* When all goes well every server answers.
LEMMA ClearAnswers ==
  ASSUME NEW p \in Procs, SyncInv(p), Clear(p), NEW s \in Servers
  PROVE  Answers(p, s)
  BY TheServers DEF SyncInv, Clear, Answers

\* The records of a zone are records, and each is in one of the two files.
LEMMA RecsTyped ==
  ASSUME NEW z \in SUBSET Lines
  PROVE  Recs(z) \subseteq Records
<1> SUFFICES ASSUME NEW l \in z PROVE l[1] \in Records
  BY DEF Recs
<1>1. QED
  BY DEF Lines

\* Each record belongs to the forward or to the reverse file.
LEMMA BothFiles == Records = InFile("fwd") \cup InFile("rev")
  BY DEF InFile

\* A comparison begins with nothing read.
LEMMA ReadsFirst ==
  ASSUME NEW p \in Procs, index'[p] = 1, held'[p] = Unread
  PROVE  Reads(p)'
<1>1. \A s, r : ~Passed(p, s, r)'
  BY DEF Passed
<1>2. \A s \in Servers : held'[p][s] = {}
  BY <1>1 DEF Unread
<1>3. QED
  BY <1>1, <1>2 DEF Reads

\* It reads the next file of the next server.
LEMMA ReadsStep ==
  ASSUME TypeInv, NEW p \in Procs, SyncInv(p), Clear(p), Reads(p), Compare(p)
  PROVE  Reads(p)'
<1>1. PICK s, f : s = Stop(p).server /\ f = Stop(p).file
  OBVIOUS
<1>2. index[p] \in 1..Len(Stops(p)) /\ index'[p] = index[p] + 1 /\ op'[p] = op[p] /\ zone' = zone
  BY TheStops DEF Compare, Next_, world, TypeInv, TypeOK
<1>3. s \in Servers
  BY <1>1, <1>2, TheStops DEF Stop
<1>4. Answers(p, s)
  BY <1>3, ClearAnswers
<1>5. held' = [held EXCEPT ![p] = [held[p] EXCEPT ![s] = @ \cup (Recs(zone[s]) \cap InFile(f))]]
  BY <1>1, <1>4 DEF Compare, TypeInv, TypeOK
<1>6. \A t \in Servers : held'[p][t] = IF t = s THEN held[p][s] \cup (Recs(zone[s]) \cap InFile(f)) ELSE held[p][t]
  BY <1>3, <1>5 DEF TypeInv, TypeOK
<1>7. \A t, r : Passed(p, t, r)' <=> Passed(p, t, r) \/ (s = t /\ r \in InFile(f))
  BY <1>1, <1>2, PassedStep
<1>8. ASSUME NEW t \in Servers
      PROVE  held'[p][t] = {r \in Recs(zone[t]) : Passed(p, t, r)'}
  <2>1. held[p][t] = {r \in Recs(zone[t]) : Passed(p, t, r)}
    BY DEF Reads
  <2>2. CASE t = s
    BY <2>1, <2>2, <1>6, <1>7
  <2>3. CASE t # s
    BY <2>1, <2>3, <1>6, <1>7
  <2>4. QED
    BY <2>2, <2>3
<1>9. QED
  BY <1>2, <1>8 DEF Reads

\* A comparison that is over has read what is there, all of it for dns_sync.py.
LEMMA FillsFirst ==
  ASSUME TypeInv, NEW p \in Procs, Reads(p), CompareDone(p)
  PROVE  Fills(p)'
<1>1. index[p] \in Nat /\ index[p] > Len(Stops(p)) /\ UNCHANGED <<zone, op, held>> /\ index'[p] = 1
  BY DEF CompareDone, world, First, TypeInv, TypeOK
<1>2. \A s \in Servers : held[p][s] = {r \in Recs(zone[s]) : Passed(p, s, r)}
  BY DEF Reads
<1>3. \A s \in Servers : held[p][s] \subseteq Recs(zone[s])
  BY <1>2
<1>4. ASSUME op[p][1] = "sync", NEW s \in Servers
      PROVE  Recs(zone[s]) \subseteq All(p)
  <2>1. ZonesOf(op[p]) = {"fwd", "rev"}
    BY <1>4 DEF ZonesOf, ZoneFiles
  <2>2. Recs(zone[s]) \subseteq Records
    BY RecsTyped DEF TypeInv, TypeOK
  <2>3. \A r \in Recs(zone[s]) : Passed(p, s, r)
    BY <1>1, <2>1, <2>2, BothFiles, PassedAll
  <2>4. QED
    BY <1>2, <2>3 DEF All
<1>5. \A s, r : ~Passed(p, s, r)'
  BY <1>1 DEF Passed
<1>6. All(p)' = All(p)
  BY <1>1 DEF All
<1>7. QED
  BY <1>1, <1>3, <1>4, <1>5, <1>6 DEF Fills

\* What sync_zone() adds to a zone are the records it lacks.
LEMMA FilledRecs ==
  ASSUME NoOverlap, NEW z, NEW s, NEW R \in SUBSET Records
  PROVE  Recs(Filled(z, s, R)) = Recs(z) \cup R /\ z \subseteq Filled(z, s, R)
<1>1. \A r \in Records : Synced({r} \cup Covers[r]) = {<<r, "synced">>}
  BY DEF NoOverlap, Synced
<1>2. z \subseteq Filled(z, s, R) /\ Filled(z, s, R) \subseteq z \cup Synced(R)
  BY DEF Filled
<1>3. ASSUME NEW r \in R
      PROVE  <<r, "synced">> \in Filled(z, s, R)
  <2>1. <<r, "synced">> \in Synced(R)
    BY DEF Synced
  <2>2. CASE s = Here
    BY <2>1, <2>2 DEF Filled
  <2>3. CASE s # Here
    <3>1. CASE <<r, "synced">> \in z
      BY <3>1, <1>2
    <3>2. CASE <<r, "synced">> \notin z
      <4>1. PICK l : l = <<r, "synced">>
        OBVIOUS
      <4>2. l[1] = r /\ l \notin z /\ l \in Synced(R)
        BY <4>1, <3>2, <2>1
      <4>3. Synced({l[1]} \cup Covers[l[1]]) \cap z = {}
        BY <4>1, <4>2, <1>1
      <4>4. QED
        BY <2>3, <4>1, <4>2, <4>3 DEF Filled
    <3>3. QED
      BY <3>1, <3>2
  <2>4. QED
    BY <2>2, <2>3
<1>4. Recs(Synced(R)) \subseteq R
  BY DEF Recs, Synced
<1>5. R \subseteq Recs(Filled(z, s, R))
  <2>1. ASSUME NEW r \in R
        PROVE  r \in Recs(Filled(z, s, R))
    <3>1. <<r, "synced">> \in Filled(z, s, R) /\ <<r, "synced">>[1] = r
      BY <1>3
    <3>2. QED
      BY <3>1 DEF Recs
  <2>2. QED
    BY <2>1
<1>6. Recs(Filled(z, s, R)) \subseteq Recs(z) \cup Recs(Synced(R)) /\ Recs(z) \subseteq Recs(Filled(z, s, R))
  BY <1>2 DEF Recs
<1>7. QED
  BY <1>2, <1>4, <1>5, <1>6

\* It goes on when the server has every record of the file.
LEMMA FillsNext ==
  ASSUME TypeInv, NEW p \in Procs, Fills(p), NEW s \in Servers, s = Stop(p).server, Reached(p, s),
         index[p] \in 1..Len(Stops(p)), ToFill(p) = {}, op'[p] = op[p], UNCHANGED <<zone, held>>,
         index' = [index EXCEPT ![p] = index[p] + 1]
  PROVE  Fills(p)'
<1>1. PICK f : f = Stop(p).file
  OBVIOUS
<1>2. index'[p] = index[p] + 1
  BY DEF TypeInv, TypeOK
<1>3. All(p)' = All(p)
  BY DEF All
<1>4. ASSUME NEW t \in Servers, NEW r \in All(p), Passed(p, t, r)'
      PROVE  r \in Recs(zone[t])
  <2>1. Passed(p, t, r) \/ (s = t /\ r \in InFile(f))
    BY <1>1, <1>2, <1>4, PassedStep
  <2>2. CASE Passed(p, t, r)
    BY <2>2 DEF Fills
  <2>3. CASE s = t /\ r \in InFile(f)
    <3>1. r \in held[p][s]
      BY <1>1, <2>3 DEF ToFill, Missing, All
    <3>2. QED
      BY <2>3, <3>1 DEF Fills
  <2>4. QED
    BY <2>1, <2>2, <2>3
<1>5. (\A t \in Servers : held[p][t] \subseteq Recs(zone[t]))
      /\ (op[p][1] = "sync" => \A t \in Servers : Recs(zone[t]) \subseteq All(p))
  BY DEF Fills
<1>6. QED
  BY <1>3, <1>4, <1>5 DEF Fills

\* It writes one record.
LEMMA FillsRecord ==
  ASSUME NoOverlap, TypeInv, NEW p \in Procs, Fills(p), NEW s \in Servers, s = Stop(p).server,
         NEW r, r \in ToFill(p), op'[p] = op[p], index' = index,
         zone' = [zone EXCEPT ![s] = Filled(zone[s], s, {r})],
         held' = [held EXCEPT ![p] = [held[p] EXCEPT ![s] = held[p][s] \cup {r}]]
  PROVE  Fills(p)'
<1>1. r \in All(p) /\ r \in Records
  BY DEF ToFill, Missing, All, InFile
<1>2. PICK Z : Z = Filled(zone[s], s, {r})
  OBVIOUS
<1>3. Recs(Z) = Recs(zone[s]) \cup {r}
  BY <1>1, <1>2, FilledRecs
<1>4. zone'[s] = Z /\ \A t \in Servers : t # s => zone'[t] = zone[t]
  BY <1>2 DEF TypeInv, TypeOK
<1>5. \A t \in Servers : Recs(zone'[t]) = IF t = s THEN Recs(zone[t]) \cup {r} ELSE Recs(zone[t])
  BY <1>3, <1>4
<1>6. \A t \in Servers : held'[p][t] = IF t = s THEN held[p][t] \cup {r} ELSE held[p][t]
  <2>1. held'[p] = [held[p] EXCEPT ![s] = held[p][s] \cup {r}] /\ held[p] \in [Servers -> SUBSET Records]
    BY DEF TypeInv, TypeOK
  <2>2. QED
    BY <2>1
<1>7. All(p)' = All(p)
  BY <1>1, <1>6 DEF All
<1>8. /\ \A t \in Servers : held[p][t] \subseteq Recs(zone[t])
      /\ op[p][1] = "sync" => \A t \in Servers : Recs(zone[t]) \subseteq All(p)
      /\ \A t \in Servers : \A q \in All(p) : Passed(p, t, q) => q \in Recs(zone[t])
  BY DEF Fills
<1>9. ASSUME NEW t \in Servers
      PROVE  held'[p][t] \subseteq Recs(zone'[t])
  <2>1. held[p][t] \subseteq Recs(zone[t])
    BY <1>8
  <2>2. CASE t = s
    <3>1. held'[p][t] = held[p][t] \cup {r} /\ Recs(zone'[t]) = Recs(zone[t]) \cup {r}
      BY <2>2, <1>5, <1>6
    <3>2. QED
      BY ONLY <2>1, <3>1
  <2>3. CASE t # s
    <3>1. held'[p][t] = held[p][t] /\ Recs(zone'[t]) = Recs(zone[t])
      BY <2>3, <1>5, <1>6
    <3>2. QED
      BY ONLY <2>1, <3>1
  <2>4. QED
    BY <2>2, <2>3
<1>10. ASSUME op[p][1] = "sync", NEW t \in Servers
       PROVE  Recs(zone'[t]) \subseteq All(p)
  <2>1. Recs(zone[t]) \subseteq All(p)
    BY <1>8, <1>10
  <2>2. Recs(zone'[t]) \subseteq Recs(zone[t]) \cup {r}
    BY <1>5
  <2>3. QED
    BY ONLY <1>1, <2>1, <2>2
<1>11. \A t, q : Passed(p, t, q)' = Passed(p, t, q)
  BY DEF Passed, Stops
<1>12. ASSUME NEW t \in Servers, NEW q \in All(p), Passed(p, t, q)'
       PROVE  q \in Recs(zone'[t])
  <2>1. q \in Recs(zone[t])
    BY <1>8, <1>11, <1>12
  <2>2. Recs(zone'[t]) = Recs(zone[t]) \cup {r} \/ Recs(zone'[t]) = Recs(zone[t])
    BY <1>5
  <2>3. QED
    BY ONLY <2>1, <2>2
<1>13. QED
  BY <1>7, <1>9, <1>10, <1>12 DEF Fills

\* It fills in the next record.
LEMMA FillsStep ==
  ASSUME NoOverlap, TypeInv, NEW p \in Procs, SyncInv(p), Clear(p), Fills(p), Fill(p)
  PROVE  Fills(p)'
<1>1. PICK s : s = Stop(p).server
  OBVIOUS
<1>2. s \in Servers /\ index[p] \in 1..Len(Stops(p)) /\ op'[p] = op[p] /\ ~Prune(p)
  BY <1>1, LoopSteps DEF Fill, Prune
<1>3. Answers(p, s) /\ Reached(p, s)
  BY <1>2, ClearAnswers DEF Answers, Reached
<1>4. CASE UNCHANGED <<zone, held>> /\ index' = [index EXCEPT ![p] = index[p] + 1] /\ ToFill(p) = {}
  BY <1>1, <1>2, <1>3, <1>4, FillsNext
<1>5. ASSUME NEW r, r \in ToFill(p), index' = index,
             zone' = [zone EXCEPT ![s] = IF Answers(p, s) THEN Filled(zone[s], s, {r}) ELSE zone[s]],
             held' = [held EXCEPT ![p] = [held[p] EXCEPT ![s] = held[p][s] \cup {r}]]
      PROVE  Fills(p)'
  <2>1. zone' = [zone EXCEPT ![s] = Filled(zone[s], s, {r})]
    BY <1>3, <1>5
  <2>2. QED
    BY <1>1, <1>2, <1>5, <2>1, FillsRecord
<1>6. QED
  BY <1>1, <1>2, <1>4, <1>5, LoopSteps

\* When everything is filled in, the servers hold the same records.
LEMMA FillsEnd ==
  ASSUME TypeInv, NEW p \in Procs, Fills(p), op[p][1] = "sync", index[p] > Len(Stops(p))
  PROVE  \A s \in Servers : Recs(zone[s]) = Recs(zone[Here])
<1>1. ZonesOf(op[p]) = {"fwd", "rev"} /\ index[p] \in Nat
  BY DEF ZonesOf, ZoneFiles, TypeInv, TypeOK
<1>2. All(p) \subseteq Records
  BY DEF All, TypeInv, TypeOK
<1>3. \A s \in Servers, r \in All(p) : Passed(p, s, r)
  BY <1>1, <1>2, BothFiles, PassedAll
<1>4. \A s \in Servers : Recs(zone[s]) = All(p)
  BY <1>3 DEF Fills
<1>5. QED
  BY <1>4, TheServers

\* Every step of the script, and every fault.
LEMMA SyncStep ==
  ASSUME NoOverlap, TypeInv, NEW p \in Procs, Procs = {p}, SyncInv(p), [Next]_vars
  PROVE  SyncInv(p)'
<1>1. CASE NewRun(p)
  <2>1. pc[p] = "idle" /\ UNCHANGED <<zone, up, pc, last, calm>>
    BY <1>1 DEF NewRun, world, history
  <2>2. QED
    BY <2>1 DEF SyncInv
<1>2. CASE \E o \in Ops : Begin(p, o)
  <2>1. /\ last' = "none" /\ index'[p] = 1 /\ held' = held /\ up' = up /\ pc[p] = "idle" /\ (calm' => up = Masters)
        /\ pc'[p] \notin {"prunecompare", "fill"}
    BY <1>2 DEF Begin, First, At, Idle, SyncInv, TypeInv, TypeOK
  <2>2. held'[p] = Unread
    BY <2>1 DEF TypeInv, Located, Comparing
  <2>3. Reads(p)'
    BY <2>1, <2>2, ReadsFirst
  <2>4. QED
    BY <2>1, <2>3 DEF SyncInv
<1>3. CASE EnsureZone(p) \/ ZonesDone(p) \/ RemoteStep(p) \/ LocalRead(p) \/ LocalWrite(p)
  <2>1. pc[p] # "idle" /\ pc'[p] \in {"idle", "zones", "edit", "write"} /\ UNCHANGED <<up, last, calm>>
    BY <1>3 DEF EnsureZone, ZonesDone, RemoteStep, LocalRead, LocalWrite, At, history, TypeInv, TypeOK
  <2>2. last = "none"
    BY <2>1 DEF SyncInv
  <2>3. QED
    BY <2>1, <2>2 DEF SyncInv
<1>4. CASE EditsDone(p)
  <2>1. held[p] = Unread /\ held' = held /\ index'[p] = 1 /\ up' = up /\ pc[p] = "edit" /\ op[p][1] # "sync"
    BY <1>4 DEF EditsDone, First, TypeInv, TypeOK, Located, Comparing, EditKinds
  <2>2. Reads(p)'
    BY <2>1, ReadsFirst
  <2>3. last = "none"
    BY <2>1 DEF SyncInv
  <2>4. CASE pc'[p] = "idle" /\ Completed(p)
    <3>1. last' \in {op[p][1], "none"} /\ calm' = calm
      BY <2>4 DEF Completed
    <3>2. QED
      BY <2>1, <2>4, <3>1 DEF SyncInv
  <2>5. CASE pc'[p] = "compare" /\ UNCHANGED history
    BY <2>1, <2>2, <2>3, <2>5 DEF SyncInv, history
  <2>6. QED
    BY <1>4, <2>4, <2>5 DEF EditsDone, At, TypeInv, TypeOK
<1>5. CASE Compare(p)
  <2>1. /\ pc[p] \in {"compare", "prunecompare"} /\ UNCHANGED <<zone, up, pc, cache, last, calm>>
    BY <1>5 DEF Compare, world, history
  <2>2. Clear(p)' => Clear(p)
    BY <2>1 DEF Clear
  <2>3. Clear(p) => Reads(p)'
    BY <1>5, <2>1, ReadsStep DEF SyncInv
  <2>4. QED
    BY <2>1, <2>2, <2>3 DEF SyncInv
<1>6. CASE CompareDone(p)
  <2>1. /\ pc[p] \in {"compare", "prunecompare"} /\ UNCHANGED <<zone, up, cache, last, calm>>
        /\ pc'[p] \in {"fill", "prune"}
    BY <1>6 DEF CompareDone, world, history, At, TypeInv, TypeOK
  <2>2. Clear(p)' => Clear(p)
    BY <2>1 DEF Clear
  <2>3. Clear(p) => Fills(p)'
    BY <1>6, <2>1, FillsFirst DEF SyncInv
  <2>4. last = "none"
    BY <2>1 DEF SyncInv
  <2>5. QED
    BY <2>1, <2>2, <2>3, <2>4 DEF SyncInv
<1>7. CASE Fill(p)
  <2>1. /\ pc[p] = "fill" /\ UNCHANGED <<up, pc, cache, last, calm>>
    BY <1>7 DEF Fill, history
  <2>2. Clear(p)' => Clear(p)
    BY <2>1 DEF Clear
  <2>3. Clear(p) => Fills(p)'
    BY <1>7, <2>1, FillsStep DEF SyncInv
  <2>4. last = "none"
    BY <2>1 DEF SyncInv
  <2>5. QED
    BY <2>1, <2>2, <2>3, <2>4 DEF SyncInv
<1>8. CASE FillDone(p)
  <2>1. pc[p] = "fill" /\ index[p] > Len(Stops(p)) /\ held'[p] = Unread /\ index'[p] = 1 /\ UNCHANGED <<zone, up>>
    BY <1>8 DEF FillDone, First, world, TypeInv, TypeOK
  <2>2. Reads(p)'
    BY <2>1, ReadsFirst
  <2>3. last = "none"
    BY <2>1 DEF SyncInv
  <2>4. CASE pc'[p] = "idle" /\ Completed(p)
    <3>1. last' = "sync" => op[p][1] = "sync" /\ Clear(p)
      BY <2>4 DEF Completed, Clear
    <3>2. last' = "sync" => \A s \in Servers : Recs(zone[s]) = Recs(zone[Here])
      BY <2>1, <3>1, FillsEnd DEF SyncInv
    <3>3. calm' = calm
      BY <2>4 DEF Completed
    <3>4. QED
      BY <2>1, <2>4, <3>2, <3>3 DEF SyncInv
  <2>5. CASE pc'[p] = "prunecompare" /\ UNCHANGED history
    BY <2>1, <2>2, <2>3, <2>5 DEF SyncInv, history
  <2>6. QED
    BY <1>8, <2>4, <2>5 DEF FillDone, At, TypeInv, TypeOK
<1>9. CASE Prune(p)
  <2>1. pc[p] = "prune" /\ UNCHANGED <<up, pc, last, calm>>
    BY <1>9 DEF Prune, history
  <2>2. QED
    BY <2>1 DEF SyncInv
<1>10. CASE PruneDone(p)
  <2>1. pc'[p] = "idle" /\ op[p][1] = "prune" /\ up' = up /\ last' \in {op[p][1], "none"} /\ calm' = calm
    BY <1>10 DEF PruneDone, Completed, At, TypeInv, TypeOK, Located
  <2>2. QED
    BY <2>1 DEF SyncInv
<1>11. CASE Interrupted(p) \/ \E m \in Masters : GoesDown(m) \/ ComesBack(m) \/ Recreated(m)
  <2>1. last' = "none" /\ calm' = FALSE
    BY <1>11 DEF Interrupted, GoesDown, ComesBack, Recreated, Fault
  <2>2. QED
    BY <2>1 DEF SyncInv, Clear
<1>12. CASE UNCHANGED vars
  <2>1. UNCHANGED <<zone, up, pc, op, cache, index, held, last, calm>>
    BY <1>12 DEF vars, world, script, history
  <2>2. /\ Clear(p)' = Clear(p) /\ All(p)' = All(p) /\ \A s, r : Passed(p, s, r)' = Passed(p, s, r)
    BY <2>1 DEF Clear, All, Passed, Stops
  <2>3. Reads(p)' = Reads(p) /\ Fills(p)' = Fills(p)
    BY <2>1, <2>2 DEF Reads, Fills
  <2>4. QED
    BY <2>1, <2>2, <2>3 DEF SyncInv
<1>13. QED
  BY <1>1, <1>2, <1>3, <1>4, <1>5, <1>6, <1>7, <1>8, <1>9, <1>10, <1>11, <1>12 DEF Next, Script

-----------------------------------------------------------------------------
(* While nothing fails: the masters follow this host *)

\* Every master answers whoever has asked.
Ready(p) == /\ up = Masters /\ calm
            /\ \A m \in Masters : cache[p][m] # "no" /\ (pc[p] # "idle" => cache[p][m] = "yes")

\* Lines are padded, nothing removed is back, and an address has one name.
Tidy == /\ \A s \in Servers : zone[s] \subseteq Padded(Records) /\ dead \cap Recs(zone[s]) = {}
        /\ Unique(zone[Here])

\* Between edits the zones are equal; among them they will be, once what is left is done.
Abreast(p) ==
    IF Editing(p)
      THEN \A j \in 1..Len(MasterSeq) :
             Rest(zone[MasterSeq[j]], LocalEdits(op[p]), Turn(EditCount(op[p][1]), index[p] - 1, j))
               = Rest(zone[Here], LocalEdits(op[p]), HereAt(p))
      ELSE \A s \in Servers : zone[s] = zone[Here]

\* What the operation has done so far.
Going(p) ==
    /\ Editing(p) => DelDone(op[p], zone[Here], HereAt(p)) /\ Alone(op[p], zone[Here], HereAt(p))
    /\ pc[p] \in Comparing => DelDone(op[p], zone[Here], 4)
    /\ pc[p] # "idle" /\ op[p][1] \notin {"del", "sync", "prune"} => dead \cap Own(op[p]) = {}
    /\ pc[p] \in {"fill", "prune"} => \A s \in Servers : held[p][s] = held[p][Here]

Sound(p) == HostInv(p) /\ Ready(p) /\ Tidy /\ Abreast(p) /\ Going(p)

\* Every step of a script finds the masters there.
LEMMA ReadyStep ==
  ASSUME TypeInv, NEW p \in Procs, Procs = {p}, Ready(p), Script(p)
  PROVE  Ready(p)'
<1>1. CASE NewRun(p)
  BY <1>1 DEF NewRun, Ready, history, TypeInv, TypeOK
<1>2. CASE \E o \in Ops : Begin(p, o)
  <2>1. PICK o \in Ops : Begin(p, o)
    BY <1>2
  <2>2. up' = up /\ pc[p] = "idle" /\ calm' = (IF Idle THEN up = Masters ELSE calm)
    BY <2>1 DEF Begin
  <2>3. Idle
    BY <2>2 DEF Idle
  <2>4. \A m \in Masters : cache'[p][m] = IF cache[p][m] # "unknown" /\ o[1] \notin {"sync", "prune"} THEN cache[p][m]
                                           ELSE IF m \in up THEN "yes" ELSE "no"
    BY <2>1 DEF Begin, TypeInv, TypeOK
  <2>5. \A m \in Masters : cache[p][m] \in {"unknown", "yes"}
    BY DEF Ready, TypeInv, TypeOK
  <2>6. \A m \in Masters : cache'[p][m] = "yes"
    BY <2>4, <2>5 DEF Ready
  <2>7. QED
    BY <2>2, <2>3, <2>6 DEF Ready
<1>3. CASE pc[p] # "idle" /\ UNCHANGED <<up, cache, calm>>
  BY <1>3 DEF Ready
<1>4. EnsureZone(p) \/ ZonesDone(p) \/ RemoteStep(p) \/ LocalRead(p) \/ LocalWrite(p)
      \/ Compare(p) \/ CompareDone(p) \/ Fill(p) \/ Prune(p) => pc[p] # "idle" /\ UNCHANGED <<up, cache, calm>>
  BY DEF EnsureZone, ZonesDone, RemoteStep, LocalRead, LocalWrite, Compare, CompareDone, Fill, Prune, history
<1>5. EditsDone(p) \/ FillDone(p) \/ PruneDone(p) => pc[p] # "idle" /\ UNCHANGED <<up, cache, calm>>
  BY DEF EditsDone, FillDone, PruneDone, Completed, history
<1>6. QED
  BY <1>1, <1>2, <1>3, <1>4, <1>5 DEF Script

\* Between edits, a step that leaves the zones alone.
LEMMA SoundWhileWaiting ==
  ASSUME NEW p \in Procs, Tidy, Abreast(p), Going(p), zone' = zone, ~Editing(p), ~Editing(p)',
         dead' \subseteq dead, pc'[p] # "idle" => op'[p] = op[p] /\ pc[p] # "idle",
         pc'[p] \in Comparing => pc[p] \in Comparing,
         pc'[p] \in {"fill", "prune"} => \A s \in Servers : held'[p][s] = held'[p][Here]
  PROVE  Tidy' /\ Abreast(p)' /\ Going(p)'
<1>1. Tidy'
  BY DEF Tidy
<1>2. Abreast(p)'
  BY DEF Abreast
<1>3. Going(p)'
  BY DEF Going, Comparing
<1>4. QED
  BY <1>1, <1>2, <1>3

\* The first edit of an operation is everyone's first.
LEMMA SoundAtFirst ==
  ASSUME NEW p \in Procs, Tidy, Abreast(p), ~Editing(p), zone' = zone, dead' \subseteq dead,
         pc'[p] = "edit", index'[p] = 1, NEW o \in Ops, op'[p] = o, o[1] \in EditKinds,
         o[1] \notin {"del", "sync", "prune"} => dead' \cap Own(o) = {}
  PROVE  Tidy' /\ Abreast(p)' /\ Going(p)'
<1>1. EditCount(o[1]) \in 1..4 /\ Len(RemoteEdits(o)) = EditCount(o[1])
  BY EditsOfOp
<1>2. RemoteWork(p)' = Len(MasterSeq) * EditCount(o[1]) /\ RemoteWork(p)' \in Nat
  BY <1>1, TheServers DEF RemoteWork
<1>3. HereAt(p)' = 1
  BY <1>2 DEF HereAt, OnRemote
<1>4. Editing(p)' /\ pc'[p] \notin Comparing /\ pc'[p] \notin {"fill", "prune"}
  BY DEF Editing, Comparing
<1>5. ASSUME NEW j \in 1..Len(MasterSeq)
      PROVE  /\ Turn(EditCount(o[1]), index'[p] - 1, j) = 1
             /\ zone[MasterSeq[j]] = zone[Here]
  <2>1. index'[p] - 1 = 0 /\ j \in Nat \ {0}
    BY TheServers
  <2>2. Turn(EditCount(o[1]), 0, j) = 1
    BY <1>1, <2>1, TurnFirst
  <2>3. MasterSeq[j] \in Servers
    BY TheServers
  <2>4. QED
    BY <2>1, <2>2, <2>3 DEF Abreast
<1>6. Abreast(p)'
  BY <1>3, <1>4, <1>5 DEF Abreast
<1>7. Going(p)'
  <2>1. \A y, z : DelDone(y, z, 1) /\ Alone(y, z, 1)
    BY DEF DelDone, Alone
  <2>2. DelDone(op'[p], zone'[Here], HereAt(p)') /\ Alone(op'[p], zone'[Here], HereAt(p)')
    BY <1>3, <2>1
  <2>3. QED
    BY <1>4, <2>2 DEF Going
<1>8. Tidy'
  BY DEF Tidy
<1>9. QED
  BY <1>6, <1>7, <1>8

\* One edit of one server, between which nothing that was removed comes back.
LEMMA TidyEdit ==
  ASSUME TypeInv, NEW p \in Procs, Tidy, Going(p), Editing(p), NEW s \in Servers, NEW j \in 1..EditCount(op[p][1]),
         zone' = [zone EXCEPT ![s] = Apply(zone[s], LocalEdits(op[p])[j])], dead' = dead,
         s = Here => j = HereAt(p)
  PROVE  Tidy' /\ (s = Here => /\ DelDone(op[p], zone'[Here], j + 1)
                               /\ Alone(op[p], zone'[Here], j + 1))
<1>1. PICK o, z, Z : o = op[p] /\ z = zone[s] /\ Z = Apply(z, LocalEdits(o)[j])
  OBVIOUS
<1>2. o \in Ops /\ pc[p] # "idle" /\ z \in SUBSET Padded(Records)
  BY <1>1 DEF TypeInv, Located, Editing, Tidy
<1>3. zone' = [zone EXCEPT ![s] = Z]
  BY <1>1
<1>4. zone'[s] = Z /\ \A t \in Servers : t # s => zone'[t] = zone[t]
  BY <1>3 DEF TypeInv, TypeOK
<1>5. /\ Z \in SUBSET Padded(Records)
      /\ Recs(Z) \subseteq Recs(z) \cup (IF o[1] \in {"del", "sync", "prune"} THEN {} ELSE Own(o))
  <2>1. j \in 1..EditCount(o[1])
    BY <1>1
  <2>2. Z = Apply(z, LocalEdits(o)[j])
    BY <1>1
  <2>3. Z \in SUBSET Padded(Records)
    <3>1. LocalEdits(o)[j].add \subseteq Padded(Own(o)) /\ Own(o) \subseteq Records
      BY <1>2, <2>1, LocalAdds
    <3>2. Padded(Own(o)) \subseteq Padded(Records)
      BY <3>1 DEF Padded
    <3>3. Z \subseteq z \cup LocalEdits(o)[j].add
      BY <2>2 DEF Apply
    <3>4. QED
      BY <1>2, <3>1, <3>2, <3>3
  <2>4. Recs(Z) \subseteq Recs(z) \cup (IF o[1] \in {"del", "sync", "prune"} THEN {} ELSE Own(o))
    BY <1>2, <2>1, <2>2, LocalEffect
  <2>5. QED
    BY <2>3, <2>4
<1>6. dead \cap Recs(Z) = {}
  <2>1. dead \cap Recs(z) = {}
    BY <1>1 DEF Tidy
  <2>2. o[1] \notin {"del", "sync", "prune"} => dead \cap Own(o) = {}
    BY <1>1, <1>2 DEF Going
  <2>3. QED
    BY <1>5, <2>1, <2>2
<1>7. \A t \in Servers : zone'[t] \subseteq Padded(Records) /\ dead' \cap Recs(zone'[t]) = {}
  BY <1>4, <1>5, <1>6 DEF Tidy
<1>8. CASE s = Here
  <2>1. DelDone(o, z, j) /\ Alone(o, z, j) /\ Unique(z)
    BY <1>1, <1>8 DEF Going, Tidy
  <2>2. DelDone(o, Z, j + 1)
    BY <1>1, <1>2, <2>1, DelStep
  <2>3. Alone(o, Z, j + 1) /\ Unique(Z)
    BY <1>1, <1>2, <2>1, AloneStep
  <2>4. Unique(zone[Here])'
    BY <1>4, <1>8, <2>3 DEF Unique
  <2>5. QED
    BY <1>1, <1>4, <1>7, <1>8, <2>2, <2>3, <2>4 DEF Tidy
<1>9. CASE s # Here
  <2>1. zone'[Here] = zone[Here]
    BY <1>4, <1>9, TheServers
  <2>2. Unique(zone[Here])'
    BY <2>1 DEF Tidy, Unique
  <2>3. QED
    BY <1>7, <1>9, <2>2 DEF Tidy
<1>10. QED
  BY <1>8, <1>9

\* A master that is sent its next edit is one edit nearer to this host.
LEMMA SoundRemote ==
  ASSUME NoOverlap, Listed, TypeInv, NEW p \in Procs, Ready(p), Tidy, Abreast(p), Going(p), RemoteStep(p)
  PROVE  Tidy' /\ Abreast(p)' /\ Going(p)'
<1>1. PICK o, k, q, N : o = op[p] /\ k = EditCount(o[1]) /\ q = index[p] - 1 /\ N = Len(MasterSeq)
  OBVIOUS
<1>2. /\ o \in Ops /\ index[p] \in Nat \ {0} /\ pc[p] = "edit" /\ o[1] \in EditKinds /\ q \in Nat /\ N \in Nat
      /\ index[p] = q + 1
  <2>1. index[p] \in Nat \ {0} /\ pc[p] = "edit"
    BY DEF TypeInv, TypeOK, RemoteStep
  <2>2. op[p] \in Ops /\ op[p][1] \in EditKinds
    BY <2>1 DEF TypeInv, Located
  <2>3. QED
    BY <1>1, <2>1, <2>2, TheServers
<1>3. k \in 1..4 /\ Len(RemoteEdits(o)) = k /\ RemoteEdits(o) = LocalEdits(o) /\ LocalEdits(o) \in Seq(Edits)
      /\ Len(LocalEdits(o)) = k
  BY <1>1, <1>2, EditsOfOp, SameEdits
<1>4. RemoteWork(p) = N * k /\ q < N * k
  <2>1. RemoteWork(p) = N * k
    BY <1>1, <1>3 DEF RemoteWork
  <2>2. index[p] <= RemoteWork(p)
    BY DEF RemoteStep, OnRemote
  <2>3. N * k \in Nat
    BY <1>2, <1>3
  <2>4. QED
    BY <2>1, <2>2, <2>3, <1>2
<1>5. PICK d : d = (q \div k) + 1
  OBVIOUS
<1>6. /\ d \in 1..N /\ Turn(k, q, d) = (q % k) + 1 /\ (q % k) + 1 \in 1..k /\ Turn(k, q + 1, d) = (q % k) + 2
      /\ \A j \in Nat \ {0} : j # d => Turn(k, q + 1, j) = Turn(k, q, j)
  BY <1>2, <1>3, <1>4, <1>5, TurnStep
<1>7. PICK m, i : m = MasterSeq[d] /\ i = (q % k) + 1
  OBVIOUS
<1>8. m \in Masters /\ m \in Servers /\ m # Here
  BY <1>1, <1>6, <1>7, TheServers
<1>9. WorkServer(p) = m /\ WorkEdit(p) = LocalEdits(o)[i]
  BY <1>1, <1>3, <1>5, <1>7 DEF WorkServer, WorkEdit, RemoteStep
<1>10. Answers(p, m)
  BY <1>2, <1>8 DEF Ready, Answers
<1>11. /\ zone' = [zone EXCEPT ![m] = Apply(zone[m], LocalEdits(o)[i])] /\ UNCHANGED <<pc, op, dead, held>>
       /\ index'[p] = index[p] + 1
  BY <1>9, <1>10 DEF RemoteStep, history, Next_, TypeInv, TypeOK
<1>12. i \in 1..k /\ Editing(p)
  BY <1>2, <1>6, <1>7 DEF Editing
<1>13. Tidy'
  BY <1>1, <1>8, <1>11, <1>12, TidyEdit
<1>14. zone'[Here] = zone[Here] /\ zone'[m] = Apply(zone[m], LocalEdits(o)[i])
  BY <1>8, <1>11, TheServers DEF TypeInv, TypeOK
<1>15. HereAt(p)' = HereAt(p)
  <2>1. HereAt(p) = 1
    BY DEF HereAt, RemoteStep
  <2>2. RemoteWork(p)' = RemoteWork(p) /\ RemoteWork(p) \in Nat
    BY <1>4, <1>11, <1>2, <1>3 DEF RemoteWork
  <2>3. HereAt(p)' = 1
    BY <1>2, <1>4, <1>11, <2>2 DEF HereAt, OnRemote
  <2>4. QED
    BY <2>1, <2>3
<1>16. ASSUME NEW j \in 1..N
       PROVE  Rest(zone'[MasterSeq[j]], LocalEdits(o), Turn(k, q + 1, j))
                = Rest(zone[MasterSeq[j]], LocalEdits(o), Turn(k, q, j))
  <2>1. CASE j = d
    <3>1. zone'[MasterSeq[j]] = Apply(zone[m], LocalEdits(o)[i]) /\ zone[MasterSeq[j]] = zone[m]
      BY <1>7, <1>14, <2>1
    <3>2. Turn(k, q + 1, j) = i + 1 /\ Turn(k, q, j) = i
      <4>1. (q % k) + 2 = ((q % k) + 1) + 1
        BY <1>2, <1>3
      <4>2. QED
        BY <1>6, <1>7, <2>1, <4>1
    <3>3. Rest(Apply(zone[m], LocalEdits(o)[i]), LocalEdits(o), i + 1) = Rest(zone[m], LocalEdits(o), i)
      BY <1>3, <1>12, RestStep
    <3>4. QED
      BY <3>1, <3>2, <3>3
  <2>2. CASE j # d
    <3>1. MasterSeq[j] # m /\ MasterSeq[j] \in Servers
      BY <1>1, <1>6, <1>7, <2>2, TheServers DEF Listed
    <3>2. zone'[MasterSeq[j]] = zone[MasterSeq[j]]
      BY <1>11, <3>1 DEF TypeInv, TypeOK
    <3>3. Turn(k, q + 1, j) = Turn(k, q, j)
      BY <1>2, <1>6, <2>2
    <3>4. QED
      BY <3>2, <3>3
  <2>3. QED
    BY <2>1, <2>2
<1>17. index'[p] - 1 = q + 1 /\ Editing(p)' /\ op'[p] = o
  BY <1>1, <1>2, <1>11 DEF Editing
<1>18. Abreast(p)'
  <2>1. \A j \in 1..N : Rest(zone[MasterSeq[j]], LocalEdits(o), Turn(k, q, j)) = Rest(zone[Here], LocalEdits(o), HereAt(p))
    BY <1>1, <1>12 DEF Abreast
  <2>2. \A j \in 1..N : Rest(zone'[MasterSeq[j]], LocalEdits(o), Turn(k, index'[p] - 1, j))
                          = Rest(zone'[Here], LocalEdits(o), HereAt(p)')
    BY <1>14, <1>15, <1>16, <1>17, <2>1
  <2>3. QED
    BY <1>1, <1>17, <2>2 DEF Abreast
<1>19. Going(p)'
  BY <1>2, <1>11, <1>14, <1>15 DEF Going, Comparing, Editing
<1>20. QED
  BY <1>13, <1>18, <1>19

\* A local edit, with which this host follows the masters.
LEMMA SoundLocal ==
  ASSUME NoOverlap, TypeInv, NEW p \in Procs, HostInv(p), Tidy, Abreast(p), Going(p),
         LocalWrite(p) \/ (LocalRead(p) /\ zone[Here] \cap WorkEdit(p).unless # {})
  PROVE  Tidy' /\ Abreast(p)' /\ Going(p)'
<1>1. PICK o, k, q, N, h : o = op[p] /\ k = EditCount(o[1]) /\ q = index[p] - 1 /\ N = Len(MasterSeq) /\ h = HereAt(p)
  OBVIOUS
<1>2. Reading(p)
  BY DEF HostInv
<1>3. /\ o \in Ops /\ h \in 1..k /\ HereAt(p)' = h + 1
      /\ zone' = [zone EXCEPT ![Here] = Apply(zone[Here], LocalEdits(o)[h])]
      /\ Editing(p) /\ pc' = [pc EXCEPT ![p] = "edit"] /\ index' = [index EXCEPT ![p] = @ + 1]
      /\ UNCHANGED <<op, held, dead>>
  BY <1>1, <1>2, LocalApplies
<1>4. /\ k \in 1..4 /\ Len(RemoteEdits(o)) = k /\ RemoteEdits(o) = LocalEdits(o) /\ LocalEdits(o) \in Seq(Edits)
      /\ Len(LocalEdits(o)) = k
  BY <1>1, <1>3, EditsOfOp, SameEdits
<1>5. /\ index[p] \in Nat \ {0} /\ q \in Nat /\ N \in Nat /\ index[p] = q + 1
      /\ index'[p] = index[p] + 1 /\ pc'[p] = "edit" /\ op'[p] = o
  <2>1. index[p] \in Nat \ {0}
    BY DEF TypeInv, TypeOK
  <2>2. index'[p] = index[p] + 1 /\ pc'[p] = "edit" /\ op'[p] = o
    BY <1>1, <1>3 DEF TypeInv, TypeOK
  <2>3. QED
    BY <1>1, <2>1, <2>2, TheServers
<1>6. q >= N * k /\ q + 1 >= N * k
  <2>1. RemoteWork(p) = N * k /\ N * k \in Nat
    BY <1>1, <1>4, <1>5 DEF RemoteWork
  <2>2. ~OnRemote(p)
    BY DEF LocalWrite, LocalRead, TypeInv, Located
  <2>3. QED
    BY <1>5, <2>1, <2>2 DEF OnRemote
<1>7. \A j \in 1..N : Turn(k, q, j) = k + 1 /\ Turn(k, q + 1, j) = k + 1
  <2>1. k \in 1..4 /\ q \in Nat /\ q + 1 \in Nat /\ N \in Nat
    BY <1>4, <1>5
  <2>2. \A j \in 1..N : Turn(k, q, j) = k + 1
    BY <2>1, <1>6, TurnOver
  <2>3. \A j \in 1..N : Turn(k, q + 1, j) = k + 1
    BY <2>1, <1>6, TurnOver
  <2>4. QED
    BY <2>2, <2>3
<1>8. \A j \in 1..N : zone'[MasterSeq[j]] = zone[MasterSeq[j]]
  <2>1. \A j \in 1..N : MasterSeq[j] \in Servers /\ MasterSeq[j] # Here
    BY <1>1, TheServers
  <2>2. QED
    BY <1>3, <2>1 DEF TypeInv, TypeOK
<1>9. zone'[Here] = Apply(zone[Here], LocalEdits(o)[h])
  BY <1>3, TheServers DEF TypeInv, TypeOK
<1>10. Rest(zone'[Here], LocalEdits(o), h + 1) = Rest(zone[Here], LocalEdits(o), h)
  BY <1>3, <1>4, <1>9, RestStep
<1>11. Editing(p)'
  BY <1>5 DEF Editing
<1>12. Abreast(p)'
  <2>1. \A j \in 1..N : Rest(zone[MasterSeq[j]], LocalEdits(o), Turn(k, q, j)) = Rest(zone[Here], LocalEdits(o), h)
    BY <1>1, <1>3 DEF Abreast
  <2>2. index'[p] - 1 = q + 1
    BY <1>5
  <2>3. \A j \in 1..N : Rest(zone'[MasterSeq[j]], LocalEdits(o), Turn(k, index'[p] - 1, j))
                          = Rest(zone'[Here], LocalEdits(o), HereAt(p)')
    BY <1>3, <1>7, <1>8, <1>10, <2>1, <2>2
  <2>4. QED
    BY <1>1, <1>5, <1>11, <2>3 DEF Abreast
<1>13. Tidy' /\ DelDone(o, zone'[Here], h + 1) /\ Alone(o, zone'[Here], h + 1)
  <2>1. h \in 1..EditCount(op[p][1]) /\ h = HereAt(p) /\ dead' = dead
        /\ zone' = [zone EXCEPT ![Here] = Apply(zone[Here], LocalEdits(op[p])[h])]
    BY <1>1, <1>3
  <2>2. QED
    BY <1>1, <1>3, <2>1, TheServers, TidyEdit
<1>14. Going(p)'
  <2>1. DelDone(op'[p], zone'[Here], HereAt(p)') /\ Alone(op'[p], zone'[Here], HereAt(p)')
    BY <1>3, <1>5, <1>13
  <2>2. pc[p] # "idle" /\ op[p][1] \notin {"del", "sync", "prune"} => dead \cap Own(op[p]) = {}
    BY DEF Going
  <2>3. op'[p][1] \notin {"del", "sync", "prune"} => dead' \cap Own(op'[p]) = {}
    BY <1>1, <1>3, <1>5, <2>2 DEF Editing
  <2>4. QED
    BY <1>5, <2>1, <2>3 DEF Going, Comparing
<1>15. QED
  BY <1>12, <1>13, <1>14

\* A read before a write.
LEMMA SoundRead ==
  ASSUME TypeInv, NEW p \in Procs, Tidy, Abreast(p), Going(p), LocalRead(p), zone[Here] \cap WorkEdit(p).unless = {}
  PROVE  Tidy' /\ Abreast(p)' /\ Going(p)'
<1>1. /\ pc' = [pc EXCEPT ![p] = "write"] /\ pc[p] = "edit" /\ UNCHANGED <<zone, index, op, dead, held>>
  BY DEF LocalRead, At, world, history
<1>2. HereAt(p)' = HereAt(p)
  BY <1>1, WorkKept DEF HereAt
<1>3. pc'[p] = "write" /\ Editing(p) /\ Editing(p)'
  BY <1>1 DEF Editing, TypeInv, TypeOK
<1>4. Tidy'
  BY <1>1 DEF Tidy
<1>5. Abreast(p)'
  BY <1>1, <1>2, <1>3 DEF Abreast
<1>6. Going(p)'
  BY <1>1, <1>2, <1>3 DEF Going, Comparing
<1>7. QED
  BY <1>4, <1>5, <1>6

\* What del_from_dns() removed is nowhere when it returns.
LEMMA TidyCompleted ==
  ASSUME TypeInv, NEW p \in Procs, Tidy, \A s \in Servers : zone[s] = zone[Here], pc[p] # "idle",
         DelDone(op[p], zone[Here], 4), zone' = zone, Completed(p)
  PROVE  Tidy'
<1>1. PICK o : o = op[p]
  OBVIOUS
<1>2. dead' \subseteq dead \cup (IF o[1] = "del" THEN {A(o[2], o[3]), Ptr(o[2], o[3])} \cup {Svc(n, o[3]) : n \in Names} ELSE {})
  BY <1>1 DEF Completed
<1>3. o[1] = "del" => /\ Ptr(o[2], o[3]) \notin Recs(zone[Here]) /\ A(o[2], o[3]) \notin Recs(zone[Here])
                      /\ \A n \in Names : Svc(n, o[3]) \notin Recs(zone[Here])
  BY <1>1 DEF DelDone
<1>4. \A s \in Servers : dead' \cap Recs(zone[s]) = {}
  BY <1>2, <1>3 DEF Tidy
<1>5. QED
  BY <1>4 DEF Tidy

\* When all the edits are done the servers are in step.
LEMMA SoundEditsDone ==
  ASSUME NoOverlap, TypeInv, NEW p \in Procs, HostInv(p), Tidy, Abreast(p), Going(p), EditsDone(p)
  PROVE  Tidy' /\ Abreast(p)' /\ Going(p)'
<1>1. PICK o, k, q, N, h : o = op[p] /\ k = EditCount(o[1]) /\ q = index[p] - 1 /\ N = Len(MasterSeq) /\ h = HereAt(p)
  OBVIOUS
<1>2. /\ pc[p] = "edit" /\ index[p] > WorkLength(p) /\ UNCHANGED <<zone, op, held>>
      /\ pc'[p] \in {"idle", "compare"}
  BY DEF EditsDone, world, At, TypeInv, TypeOK
<1>3. o \in Ops /\ o[1] \in EditKinds /\ index[p] \in Nat \ {0} /\ q \in Nat /\ N \in Nat /\ index[p] = q + 1
  <2>1. index[p] \in Nat \ {0}
    BY DEF TypeInv, TypeOK
  <2>2. op[p] \in Ops /\ op[p][1] \in EditKinds
    BY <1>2 DEF TypeInv, Located
  <2>3. QED
    BY <1>1, <2>1, <2>2, TheServers
<1>4. k \in 1..4 /\ LocalEdits(o) \in Seq(Edits) /\ Len(LocalEdits(o)) = k /\ Len(RemoteEdits(o)) = k
  BY <1>1, <1>3, EditsOfOp
<1>5. h > k /\ h \in Nat
  BY <1>1, <1>2, PlacedAtEnd DEF HostInv
<1>6. q >= N * k
  <2>1. RemoteWork(p) = N * k /\ N * k \in Nat
    BY <1>1, <1>3, <1>4 DEF RemoteWork
  <2>2. WorkLength(p) = RemoteWork(p) + k
    BY <1>1, <1>4 DEF WorkLength
  <2>3. QED
    BY <1>2, <1>3, <1>4, <2>1, <2>2
<1>7. \A j \in 1..N : Turn(k, q, j) = k + 1
  BY <1>3, <1>4, <1>6, TurnOver
<1>8. \A j \in 1..N : zone[MasterSeq[j]] = zone[Here]
  <2>1. \A j \in 1..N : Rest(zone[MasterSeq[j]], LocalEdits(o), Turn(k, q, j)) = Rest(zone[Here], LocalEdits(o), h)
    BY <1>1, <1>2 DEF Abreast, Editing
  <2>2. \A z : Rest(z, LocalEdits(o), k + 1) = z
    BY <1>4, RestOver
  <2>3. \A z : Rest(z, LocalEdits(o), h) = z
    BY <1>4, <1>5, RestOver
  <2>4. QED
    BY <1>7, <2>1, <2>2, <2>3
<1>9. \A s \in Servers : zone[s] = zone[Here]
  BY <1>1, <1>8, TheServers
<1>10. DelDone(o, zone[Here], 4)
  <2>1. DelDone(o, zone[Here], h)
    BY <1>1, <1>2 DEF Going, Editing
  <2>2. o[1] = "del" => k = 3
    BY <1>1 DEF EditCount
  <2>3. QED
    BY <1>5, <2>1, <2>2 DEF DelDone
<1>11. Abreast(p)'
  BY <1>2, <1>9 DEF Abreast, Editing
<1>12. CASE pc'[p] = "idle" /\ Completed(p)
  <2>1. Tidy'
    BY <1>1, <1>2, <1>9, <1>10, <1>12, TidyCompleted
  <2>2. Going(p)'
    BY <1>12 DEF Going, Editing, Comparing
  <2>3. QED
    BY <1>11, <2>1, <2>2
<1>13. CASE pc'[p] = "compare" /\ UNCHANGED history
  <2>1. Tidy'
    BY <1>2, <1>13 DEF Tidy, history
  <2>2. op'[p] = o /\ dead' = dead /\ DelDone(op'[p], zone'[Here], 4)
    BY <1>1, <1>2, <1>10, <1>13 DEF history
  <2>3. o[1] \notin {"del", "sync", "prune"} => dead \cap Own(o) = {}
    BY <1>1, <1>2 DEF Going
  <2>4. Going(p)'
    BY <1>13, <2>2, <2>3 DEF Going, Editing
  <2>5. QED
    BY <1>11, <2>1, <2>4
<1>14. QED
  BY <1>12, <1>13 DEF EditsDone, At, TypeInv, TypeOK

\* When the servers hold the same there is nothing to fill in and nothing to cut.
LEMMA CalmFill ==
  ASSUME TypeInv, NEW p \in Procs, Going(p), Fill(p)
  PROVE  UNCHANGED <<zone, held>>
<1>1. PICK s : s = Stop(p).server
  OBVIOUS
<1>2. s \in Servers /\ pc[p] = "fill" /\ ~Prune(p)
  BY <1>1, LoopSteps DEF Fill, Prune
<1>3. \A t \in Servers : held[p][t] = held[p][s]
  BY <1>2 DEF Going
<1>4. ToFill(p) = {}
  BY <1>1, <1>3 DEF ToFill, Missing
<1>5. QED
  BY <1>1, <1>2, <1>4, LoopSteps

\* The same of prune_zone(), which needs a second server.
LEMMA CalmPrune ==
  ASSUME TypeInv, NEW p \in Procs, Going(p), Prune(p)
  PROVE  UNCHANGED <<zone, held>>
<1>1. PICK s : s = Stop(p).server
  OBVIOUS
<1>2. s \in Servers /\ pc[p] = "prune" /\ ~Fill(p)
  BY <1>1, LoopSteps DEF Fill, Prune
<1>3. \E m \in Masters : TRUE
  BY <1>2 DEF TypeInv, Located
<1>4. PICK t \in Servers : t # s
  BY <1>2, <1>3, TheServers
<1>5. held[p][t] = held[p][s] /\ DOMAIN held[p] = Servers
  <2>1. held[p][t] = held[p][Here] /\ held[p][s] = held[p][Here]
    BY <1>2 DEF Going
  <2>2. held[p] \in [Servers -> SUBSET Records]
    BY DEF TypeInv, TypeOK
  <2>3. QED
    BY <2>1, <2>2
<1>6. ToPrune(p) = {}
  BY <1>1, <1>4, <1>5 DEF ToPrune, AloneIn
<1>7. QED
  BY <1>1, <1>2, <1>6, LoopSteps

\* What a comparison has read of servers in step is the same of each.
LEMMA SoundCompareDone ==
  ASSUME TypeInv, NEW p \in Procs, SyncInv(p), Ready(p), Tidy, Abreast(p), Going(p), CompareDone(p)
  PROVE  Tidy' /\ Abreast(p)' /\ Going(p)'
<1>1. /\ pc[p] \in {"compare", "prunecompare"} /\ index[p] > Len(Stops(p)) /\ index[p] \in Nat
      /\ UNCHANGED <<zone, op, held, dead>> /\ pc'[p] \in {"fill", "prune"}
  BY DEF CompareDone, At, world, history, TypeInv, TypeOK
<1>2. Clear(p)
  BY <1>1 DEF Ready, Clear
<1>3. Reads(p)
  BY <1>1, <1>2 DEF SyncInv
<1>4. ~Editing(p) /\ ~Editing(p)' /\ pc[p] \in Comparing
  BY <1>1 DEF Editing, Comparing
<1>5. \A s \in Servers : zone[s] = zone[Here]
  BY <1>4 DEF Abreast
<1>6. \A s \in Servers : \A r : Passed(p, s, r) <=> Passed(p, Here, r)
  BY <1>1, TheServers, PassedAll
<1>7. ASSUME NEW s \in Servers
      PROVE  held[p][s] = held[p][Here]
  <2>1. \A t \in Servers : held[p][t] = {r \in Recs(zone[t]) : Passed(p, t, r)}
    BY <1>3 DEF Reads
  <2>2. Here \in Servers /\ zone[s] = zone[Here] /\ \A r : Passed(p, s, r) <=> Passed(p, Here, r)
    BY <1>5, <1>6, TheServers
  <2>3. \A r : r \in held[p][s] <=> r \in Recs(zone[Here]) /\ Passed(p, Here, r)
    BY <2>1, <2>2
  <2>4. \A r : r \in held[p][Here] <=> r \in Recs(zone[Here]) /\ Passed(p, Here, r)
    BY <2>1, <2>2
  <2>5. held[p][s] \in SUBSET Records /\ held[p][Here] \in SUBSET Records
    BY <2>2 DEF TypeInv, TypeOK
  <2>6. QED
    BY ONLY <2>3, <2>4, <2>5
<1>8. QED
  BY <1>1, <1>4, <1>7, SoundWhileWaiting

\* An operation starts where the servers are in step.
LEMMA SoundBegin ==
  ASSUME TypeInv, NEW p \in Procs, Tidy, Abreast(p), Going(p), NEW o \in Ops, Begin(p, o)
  PROVE  Tidy' /\ Abreast(p)' /\ Going(p)'
<1>1. /\ pc[p] = "idle" /\ UNCHANGED <<zone, held>> /\ op'[p] = o /\ index'[p] = 1
      /\ dead' = IF o[1] \in {"del", "sync", "prune"} THEN dead
                 ELSE dead \ {<<t, o[2], o[3]>> : t \in {"A", "PTR", "SVC"}}
      /\ pc'[p] = CASE o[1] = "del" -> "edit" [] o[1] \in {"sync", "prune"} -> "compare" [] OTHER -> "zones"
  BY DEF Begin, First, At, world, TypeInv, TypeOK
<1>2. dead' \subseteq dead /\ ~Editing(p)
  BY <1>1 DEF Editing
<1>3. CASE o[1] = "del"
  <2>1. pc'[p] = "edit" /\ o[1] \in EditKinds
    BY <1>1, <1>3 DEF EditKinds
  <2>2. QED
    BY <1>1, <1>2, <1>3, <2>1, SoundAtFirst
<1>4. CASE o[1] # "del"
  <2>1. pc'[p] \in {"compare", "zones"} /\ (pc'[p] = "compare" => o[1] \in {"sync", "prune"})
    BY <1>1, <1>4
  <2>2. Abreast(p)'
    BY <1>1, <1>2, <2>1 DEF Abreast, Editing
  <2>3. Tidy'
    BY <1>1, <1>2 DEF Tidy
  <2>4. DelDone(o, zone'[Here], 4)
    BY <1>4 DEF DelDone
  <2>5. o[1] \notin {"del", "sync", "prune"} => dead' \cap Own(o) = {}
    BY <1>1 DEF Own
  <2>6. pc'[p] \notin {"edit", "write", "fill", "prune", "idle"}
    BY <2>1
  <2>7. Going(p)'
    BY <1>1, <2>4, <2>5, <2>6 DEF Going, Editing
  <2>8. QED
    BY <2>2, <2>3, <2>7
<1>5. QED
  BY <1>3, <1>4

\* And its edits start when the zones have been ensured.
LEMMA SoundZonesDone ==
  ASSUME TypeInv, NEW p \in Procs, Tidy, Abreast(p), Going(p), ZonesDone(p)
  PROVE  Tidy' /\ Abreast(p)' /\ Going(p)'
<1>1. /\ pc[p] = "zones" /\ UNCHANGED <<zone, op, held, dead>> /\ index'[p] = 1 /\ pc'[p] \in {"idle", "edit"}
  BY DEF ZonesDone, First, At, world, history, TypeInv, TypeOK
<1>2. ~Editing(p) /\ op[p] \in Ops /\ op[p][1] \in EditKinds
  BY <1>1 DEF Editing, TypeInv, Located
<1>3. CASE pc'[p] = "idle"
  <2>1. ~Editing(p)' /\ pc'[p] \notin Comparing /\ pc'[p] \notin {"fill", "prune"}
    BY <1>3 DEF Editing, Comparing
  <2>2. QED
    BY <1>1, <1>2, <1>3, <2>1, SoundWhileWaiting
<1>4. CASE pc'[p] = "edit"
  <2>1. op[p][1] \notin {"del", "sync", "prune"} => dead' \cap Own(op[p]) = {}
    BY <1>1 DEF Going
  <2>2. QED
    BY <1>1, <1>2, <1>4, <2>1, SoundAtFirst
<1>5. QED
  BY <1>1, <1>3, <1>4

\* An operation that returns after a comparison.
LEMMA SoundCompared ==
  ASSUME TypeInv, NEW p \in Procs, Tidy, Abreast(p), Going(p), FillDone(p) \/ PruneDone(p)
  PROVE  Tidy' /\ Abreast(p)' /\ Going(p)'
<1>1. pc[p] \in {"fill", "prune"} /\ UNCHANGED <<zone, op>> /\ pc'[p] \in {"idle", "prunecompare"}
  BY DEF FillDone, PruneDone, At, world, TypeInv, TypeOK
<1>2. ~Editing(p) /\ ~Editing(p)' /\ pc[p] \in Comparing
  BY <1>1 DEF Editing, Comparing
<1>3. CASE pc'[p] = "idle" /\ Completed(p)
  <2>1. (\A s \in Servers : zone[s] = zone[Here]) /\ DelDone(op[p], zone[Here], 4) /\ pc[p] # "idle"
    BY <1>1, <1>2 DEF Abreast, Going
  <2>2. Tidy'
    BY <1>1, <1>3, <2>1, TidyCompleted
  <2>3. Abreast(p)'
    BY <1>1, <1>2 DEF Abreast
  <2>4. Going(p)'
    BY <1>2, <1>3 DEF Going, Comparing
  <2>5. QED
    BY <2>2, <2>3, <2>4
<1>4. CASE pc'[p] = "prunecompare" /\ UNCHANGED history
  <2>1. dead' = dead /\ pc[p] # "idle" /\ pc'[p] \notin {"fill", "prune"}
    BY <1>1, <1>4 DEF history
  <2>2. QED
    BY <1>1, <1>2, <2>1, SoundWhileWaiting
<1>5. QED
  BY <1>1, <1>3, <1>4 DEF FillDone, PruneDone, At, TypeInv, TypeOK

\* Every step of a script.
LEMMA SoundStep ==
  ASSUME NoOverlap, Listed, TypeInv, NEW p \in Procs, Procs = {p}, Sound(p), SyncInv(p), Script(p)
  PROVE  Sound(p)'
<1>1. HostInv(p) /\ Ready(p) /\ Tidy /\ Abreast(p) /\ Going(p)
  BY DEF Sound
<1>2. Prune(p) => zone'[Here] = zone[Here]
  BY <1>1, CalmPrune
<1>3. HostInv(p)' /\ Ready(p)'
  BY <1>1, <1>2, ScriptKept, ReadyStep
<1>4. CASE NewRun(p) \/ EnsureZone(p)
  <2>1. pc[p] \in {"idle", "zones"} /\ UNCHANGED <<zone, pc, op, dead>>
    BY <1>4 DEF NewRun, EnsureZone, world, history
  <2>2. ~Editing(p) /\ ~Editing(p)' /\ pc'[p] \notin Comparing /\ pc'[p] \notin {"fill", "prune"}
    BY <2>1 DEF Editing, Comparing
  <2>3. Tidy' /\ Abreast(p)' /\ Going(p)'
    BY <1>1, <2>1, <2>2, SoundWhileWaiting
  <2>4. QED
    BY <1>3, <2>3 DEF Sound
<1>5. CASE \E o \in Ops : Begin(p, o)
  BY <1>1, <1>3, <1>5, SoundBegin DEF Sound
<1>6. CASE ZonesDone(p)
  BY <1>1, <1>3, <1>6, SoundZonesDone DEF Sound
<1>7. CASE RemoteStep(p)
  BY <1>1, <1>3, <1>7, SoundRemote DEF Sound
<1>8. CASE LocalRead(p) /\ zone[Here] \cap WorkEdit(p).unless = {}
  BY <1>1, <1>3, <1>8, SoundRead DEF Sound
<1>9. CASE LocalWrite(p) \/ (LocalRead(p) /\ zone[Here] \cap WorkEdit(p).unless # {})
  BY <1>1, <1>3, <1>9, SoundLocal DEF Sound
<1>10. CASE EditsDone(p)
  BY <1>1, <1>3, <1>10, SoundEditsDone DEF Sound
<1>11. CASE Compare(p)
  <2>1. pc[p] \in {"compare", "prunecompare"} /\ UNCHANGED <<zone, pc, op, dead>>
    BY <1>11 DEF Compare, world, history
  <2>2. ~Editing(p) /\ ~Editing(p)' /\ pc[p] \in Comparing /\ pc[p] # "idle" /\ pc'[p] \notin {"fill", "prune"}
    BY <2>1 DEF Editing, Comparing
  <2>3. Tidy' /\ Abreast(p)' /\ Going(p)'
    BY <1>1, <2>1, <2>2, SoundWhileWaiting
  <2>4. QED
    BY <1>3, <2>3 DEF Sound
<1>12. CASE CompareDone(p)
  BY <1>1, <1>3, <1>12, SoundCompareDone DEF Sound
<1>13. CASE Fill(p) \/ Prune(p)
  <2>1. pc[p] \in {"fill", "prune"} /\ UNCHANGED <<pc, op, dead>>
    BY <1>13 DEF Fill, Prune, history
  <2>2. zone' = zone /\ held' = held
    BY <1>1, <1>13, CalmFill, CalmPrune
  <2>3. ~Editing(p) /\ ~Editing(p)' /\ pc[p] \in Comparing /\ pc[p] # "idle"
    BY <2>1 DEF Editing, Comparing
  <2>4. \A s \in Servers : held'[p][s] = held'[p][Here]
    BY <1>1, <2>1, <2>2 DEF Going
  <2>5. Tidy' /\ Abreast(p)' /\ Going(p)'
    BY <1>1, <2>1, <2>2, <2>3, <2>4, SoundWhileWaiting
  <2>6. QED
    BY <1>3, <2>5 DEF Sound
<1>14. CASE FillDone(p) \/ PruneDone(p)
  BY <1>1, <1>3, <1>14, SoundCompared DEF Sound
<1>15. QED
  BY <1>4, <1>5, <1>6, <1>7, <1>8, <1>9, <1>10, <1>11, <1>12, <1>13, <1>14 DEF Script

\* At first nothing is registered, and everything answers.
LEMMA SoundInit ==
  ASSUME NEW p \in Procs, Init
  PROVE  Sound(p) /\ SyncInv(p)
<1>1. /\ zone = [s \in Servers |-> {}] /\ pc[p] = "idle" /\ up = Masters /\ calm
      /\ cache[p] = [m \in Masters |-> "unknown"] /\ want = {} /\ dead = {} /\ last = "none"
  BY DEF Init
<1>2. \A s \in Servers : zone[s] = {} /\ zone[Here] = {} /\ Recs({}) = {}
  BY <1>1, TheServers DEF Recs
<1>3. HostInv(p)
  BY <1>1 DEF HostInv, Reading, Kept, Editing
<1>4. Ready(p)
  BY <1>1 DEF Ready
<1>5. Tidy
  BY <1>1, <1>2, TheServers DEF Tidy, Unique, Padded
<1>6. Abreast(p) /\ Going(p)
  BY <1>1, <1>2 DEF Abreast, Going, Editing, Comparing
<1>7. SyncInv(p)
  BY <1>1 DEF SyncInv
<1>8. QED
  BY <1>3, <1>4, <1>5, <1>6, <1>7 DEF Sound

\* The invariant: the types, the synchronisations, and all of the above until a fault.
DnsInv(p) == TypeInv /\ SyncInv(p) /\ (faults = 0 => Sound(p))

\* A fault is counted, and without one nothing is down that could come back.
LEMMA DnsStep ==
  ASSUME NoOverlap, Listed, NEW p \in Procs, Procs = {p}, DnsInv(p), [Next]_vars
  PROVE  DnsInv(p)'
<1>1. TypeInv /\ SyncInv(p) /\ faults \in Nat
  BY DnsAssumption DEF DnsInv, TypeInv, TypeOK
<1>2. TypeInv'
  BY <1>1, StepTyped
<1>3. SyncInv(p)'
  BY <1>1, SyncStep
<1>4. CASE Script(p)
  <2>1. faults' = faults
    BY <1>4 DEF Script, NewRun, Begin, EnsureZone, ZonesDone, RemoteStep, LocalRead, LocalWrite, EditsDone,
                Compare, CompareDone, Fill, FillDone, Prune, PruneDone
  <2>2. faults = 0 => Sound(p)'
    BY <1>1, <1>4, SoundStep DEF DnsInv
  <2>3. QED
    BY <1>2, <1>3, <2>1, <2>2 DEF DnsInv
<1>5. CASE Interrupted(p) \/ \E m \in Masters : GoesDown(m) \/ Recreated(m)
  <2>1. faults' = faults + 1
    BY <1>5 DEF Interrupted, GoesDown, Recreated, Fault
  <2>2. faults' # 0
    BY <1>1, <2>1
  <2>3. QED
    BY <1>2, <1>3, <2>2 DEF DnsInv
<1>6. CASE \E m \in Masters : ComesBack(m)
  <2>1. up # Masters /\ faults' = faults
    BY <1>6 DEF ComesBack
  <2>2. faults # 0
    BY <2>1 DEF DnsInv, Sound, Ready
  <2>3. QED
    BY <1>2, <1>3, <2>1, <2>2 DEF DnsInv
<1>7. CASE UNCHANGED vars
  <2>1. UNCHANGED <<zone, up, pc, op, cache, index, seen, held, faults, want, dead, calm>>
    BY <1>7 DEF vars, world, script, history
  <2>2. WorkEdit(p)' = WorkEdit(p) /\ HereAt(p)' = HereAt(p)
    BY <2>1, WorkKept DEF HereAt
  <2>3. HostInv(p) => HostInv(p)'
    BY <2>1, <2>2 DEF HostInv, Kept, Reading, Editing
  <2>4. Ready(p) /\ Tidy => Ready(p)' /\ Tidy'
    BY <2>1 DEF Ready, Tidy
  <2>5. Abreast(p) => Abreast(p)'
    BY <2>1, <2>2 DEF Abreast, Editing
  <2>6. Going(p) => Going(p)'
    BY <2>1, <2>2 DEF Going, Editing
  <2>7. QED
    BY <1>2, <1>3, <2>1, <2>3, <2>4, <2>5, <2>6 DEF DnsInv, Sound
<1>8. QED
  BY <1>4, <1>5, <1>6, <1>7 DEF Next

\* With one script at a time, no text of a record within another's and no master listed
\* twice, DnsInv holds throughout.
THEOREM DnsInvariant ==
  ASSUME NoOverlap, Listed, NEW P, Procs = {P}
  PROVE  Spec => []DnsInv(P)
<1>1. P \in Procs
  OBVIOUS
<1>2. Init => DnsInv(P)
  BY <1>1, InitTyped, SoundInit DEF DnsInv
<1>3. DnsInv(P) /\ [Next]_vars => DnsInv(P)'
  BY <1>1, DnsStep
<1>4. QED
  BY <1>2, <1>3, PTL DEF Spec

\* Then the masters hold the same records as this host after every dns_sync.py during
\* which all of them answered, and until the first fault after every registration and
\* every removal ("every master answers the same records", sync_zone()).
THEOREM MastersInStep ==
  ASSUME NoOverlap, Listed, NEW P, Procs = {P}
  PROVE  Spec => []InStep
<1>1. DnsInv(P) => InStep
  <2> SUFFICES ASSUME DnsInv(P) PROVE InStep
    OBVIOUS
  <2>1. last = "sync" => \A s \in Servers : Recs(zone[s]) = Recs(zone[Here])
    BY DEF DnsInv, SyncInv
  <2>2. last \in {"add", "replace", "del"} => pc[P] = "idle"
    BY DEF DnsInv, SyncInv
  <2>3. faults = 0 /\ pc[P] = "idle" => \A s \in Servers : zone[s] = zone[Here]
    BY DEF DnsInv, Sound, Abreast, Editing
  <2>4. QED
    BY <2>1, <2>2, <2>3 DEF InStep
<1>2. QED
  BY <1>1, DnsInvariant, PTL

\* Until the first fault what del_from_dns() removed is on no master when no script runs,
\* and no address has two names on this host (add_to_dns()).
THEOREM NothingRemovedReturns ==
  ASSUME NoOverlap, Listed, NEW P, Procs = {P}
  PROVE  Spec => []NothingStale
<1>1. DnsInv(P) => NothingStale
  <2> SUFFICES ASSUME DnsInv(P), faults = 0
               PROVE  /\ \A s \in Servers : dead \cap Recs(zone[s]) = {}
                      /\ \A i \in Ips : \A m, n \in Names : {Ptr(m, i), Ptr(n, i)} \subseteq Recs(zone[Here]) => m = n
    BY DEF NothingStale
  <2>1. Tidy
    BY DEF DnsInv, Sound
  <2>2. QED
    BY <2>1 DEF Tidy, Unique
<1>2. QED
  BY <1>1, DnsInvariant, PTL

\* With --prune this host too keeps what was registered, until the first fault: what
\* prune_zone() cuts is held by one server alone, and no record is.
THEOREM PrunedHostKeepsRecords ==
  ASSUME NoOverlap, Listed, NEW P, Procs = {P}
  PROVE  Spec => [](faults = 0 => Registered)
<1>1. DnsInv(P) => (faults = 0 => Registered)
  BY DEF DnsInv, TypeInv, Sound, HostInv, Kept, Registered
<1>2. QED
  BY <1>1, DnsInvariant, PTL

=============================================================================
