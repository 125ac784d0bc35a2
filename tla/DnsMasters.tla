----------------------------- MODULE DnsMasters -----------------------------
(***************************************************************************)
(* The lab's DNS zone as DNSService (libs/services.py) keeps it: one copy  *)
(* on this host and one on each remote master, written record by record    *)
(* by the scripts that run (setup_vm, destroy_vm, the add-ons, dns_sync),  *)
(* with no transfer between the copies.                                    *)
(*                                                                         *)
(* A zone is a set of lines.  A line is a record and the form its text     *)
(* has: add_to_dns() and add_service_dns() pad the fields; sync_zone()     *)
(* writes what dns_zone.records() returns, with the white space collapsed. *)
(* Some edits match the text of a line and some its fields.  Masters go    *)
(* down and come back, are recreated empty, and scripts are interrupted.   *)
(* Host names and service names are kept apart, and the lab states a       *)
(* reverse zone.  Restarts of named and LAB_HOSTS_FILE are left out.       *)
(***************************************************************************)
EXTENDS Naturals, Sequences, FiniteSets

CONSTANTS
    Here,        \* this automation node
    MasterSeq,   \* remote_dns_servers, in the order they are written
    Names, Ips,  \* host names and addresses
    Covers,      \* Covers[r]: other records whose text contains r's text
    Ops,         \* the operations the scripts may run
    Procs,       \* scripts that run at a time
    MaxOps,      \* bound on the operations started
    MaxFaults    \* bound on outages, recreations and interruptions

Masters == {MasterSeq[i] : i \in 1..Len(MasterSeq)}
Servers == {Here} \cup Masters
Records == {"A", "PTR", "SVC"} \X Names \X Ips
Forms   == {"padded", "synced"}
Lines   == Records \X Forms
ZoneFiles == {"fwd", "rev"}
OpKinds == {"add", "replace", "del", "service", "named_rr", "sync", "prune"}

ASSUME DnsAssumption ==
    /\ MasterSeq \in Seq(Masters)
    /\ Here \notin Masters
    /\ Covers \in [Records -> SUBSET Records]
    /\ Ops \subseteq OpKinds \X Names \X Ips
    /\ MaxOps \in Nat /\ MaxFaults \in Nat

VARIABLES
    zone, declared,        \* each server's lines, and the zones its named.conf has
    up,                    \* the masters that answer
    pc, op, cache, index,  \* each script: where it is, its operation, the masters
    resync, seen, held,    \*   it has probed, the next edit, and what it has read
    started, faults,       \* the bounds
    want, dead, last, calm \* what the properties remember of the past

world   == <<zone, declared>>
script  == <<pc, op, cache, index, resync, seen, held>>
history == <<want, dead, last, calm>>
vars    == <<world, up, script, started, faults, history>>

\* dns_zone.records(): a line without its white space.
Recs(z)   == {l[1] : l \in z}
InFile(f) == {r \in Records : (r[1] = "PTR") = (f = "rev")}
Padded(R) == {<<r, "padded">> : r \in R}
Synced(R) == {<<r, "synced">> : r \in R}
EitherForm(R)    == R \X Forms

A(n, i)   == <<"A", n, i>>
Ptr(n, i) == <<"PTR", n, i>>
Svc(n, i) == <<"SVC", n, i>>

(***************************************************************************)
(* One edit of a zone file: lines to delete, lines to add, and the lines   *)
(* whose presence makes the addition unnecessary.                          *)
(***************************************************************************)
Edit(del, add, unless) == [del |-> del, add |-> add, unless |-> unless]
Cut(del)   == Edit(del, {}, {})
Append_(l) == Edit({}, {l}, {})

Apply(z, e) == (z \ e.del) \cup (IF (z \ e.del) \cap e.unless = {} THEN e.add ELSE {})

\* _remote_dns_add(): grep -qF looks for the text anywhere in a line.
RemoteAdd(r) == Edit({}, {<<r, "padded">>}, Padded({r} \cup Covers[r]))

\* MUTANT of LocalAdd: the file is written with the new line alone.
LocalAddAlone(r) == Edit(EitherForm({q \in Records : (q[1] = "PTR") = (r[1] = "PTR")}), {<<r, "padded">>}, {})

\* _dns_add_line(): the whole line.
LocalAdd(r) == Edit({}, {<<r, "padded">>}, {<<r, "padded">>})

\* _dns_remove_ptr_for_octet() and its remote counterpart: by first field.
PtrsOf(i) == EitherForm({Ptr(n, i) : n \in Names})

\* _dns_remove_other_a() and its remote counterpart: by name and address.
OtherAs(n, i) == EitherForm({A(n, j) : j \in Ips \ {i}})

\* sed '/<text>/d' with the padded text of a record.
RemoteCut(r) == Cut(Padded({r} \cup Covers[r]))

\* _dns_remove_line(): a line that equals the padded text.
LocalCut(r) == Cut({<<r, "padded">>})

\* Service records of an address, matched at the end of the padded text.
ServicesOf(i) == Padded({Svc(n, i) : n \in Names})

\* MUTANT of RemoteEdits: del forgets the service records of the address.
RemoteEditsKeepServices(o) ==
    LET k == o[1] n == o[2] i == o[3] IN
    CASE k = "add"      -> <<Cut(PtrsOf(i)), RemoteAdd(A(n, i)), RemoteAdd(Ptr(n, i))>>
      [] k = "replace"  -> <<Cut(PtrsOf(i)), Cut(OtherAs(n, i)), RemoteAdd(A(n, i)), RemoteAdd(Ptr(n, i))>>
      [] k = "del"      -> <<RemoteCut(Ptr(n, i)), RemoteCut(A(n, i))>>
      [] k = "service"  -> <<RemoteCut(Svc(n, i)), Append_(<<Svc(n, i), "padded">>)>>
      [] k = "named_rr" -> <<RemoteAdd(Svc(n, i))>>
      [] OTHER          -> <<>>

\* The commands each remote master is sent: add_to_dns(), del_from_dns(),
\* add_service_dns() for one target, add_dns_to_named_rr().
RemoteEdits(o) ==
    LET k == o[1] n == o[2] i == o[3] IN
    CASE k = "add"      -> <<Cut(PtrsOf(i)), RemoteAdd(A(n, i)), RemoteAdd(Ptr(n, i))>>
      [] k = "replace"  -> <<Cut(PtrsOf(i)), Cut(OtherAs(n, i)), RemoteAdd(A(n, i)), RemoteAdd(Ptr(n, i))>>
      [] k = "del"      -> <<RemoteCut(Ptr(n, i)), RemoteCut(A(n, i)), Cut(ServicesOf(i))>>
      [] k = "service"  -> <<RemoteCut(Svc(n, i)), Append_(<<Svc(n, i), "padded">>)>>
      [] k = "named_rr" -> <<RemoteAdd(Svc(n, i))>>
      [] OTHER          -> <<>>

\* The edits of this host's own files by the same four operations.
LocalEdits(o) ==
    LET k == o[1] n == o[2] i == o[3] IN
    CASE k = "add"      -> <<Cut(PtrsOf(i)), LocalAdd(A(n, i)), LocalAdd(Ptr(n, i))>>
      [] k = "replace"  -> <<Cut(PtrsOf(i)), Cut(OtherAs(n, i)), LocalAdd(A(n, i)), LocalAdd(Ptr(n, i))>>
      [] k = "del"      -> <<LocalCut(Ptr(n, i)), LocalCut(A(n, i)), Cut(ServicesOf(i))>>
      [] k = "service"  -> <<LocalCut(Svc(n, i)), Append_(<<Svc(n, i), "padded">>)>>
      [] k = "named_rr" -> <<LocalAdd(Svc(n, i))>>
      [] OTHER          -> <<>>

(***************************************************************************)
(* A script                                                                *)
(***************************************************************************)
\* masters(): the masters that answered when the script probed them; a loop over the
\* servers passes over the others.
Reached(p, s) == s = Here \/ cache[p][s] = "yes"
Answers(p, s) == s = Here \/ (cache[p][s] = "yes" /\ s \in up)

\* Every edit of the operation: each remote master in turn, then this host.
RemoteWork(p) == Len(MasterSeq) * Len(RemoteEdits(op[p]))
WorkLength(p) == RemoteWork(p) + Len(LocalEdits(op[p]))
OnRemote(p)   == index[p] <= RemoteWork(p)
WorkServer(p) == LET k == Len(RemoteEdits(op[p])) IN MasterSeq[((index[p] - 1) \div k) + 1]
WorkEdit(p)   == LET k == Len(RemoteEdits(op[p])) IN
                 IF OnRemote(p) THEN RemoteEdits(op[p])[((index[p] - 1) % k) + 1]
                                ELSE LocalEdits(op[p])[index[p] - RemoteWork(p)]

\* The servers ensure_zone() visits, in order, and the zones of the operation.
Visited == <<Here>> \o MasterSeq
ZonesOf(o) == IF o[1] \in {"service", "named_rr"} THEN {"fwd"} ELSE ZoneFiles

\* What _compare_zone() returns, in order: the servers for each zone file.
Stops(p) ==
    LET on(f) == [i \in 1..Len(Visited) |-> [file |-> f, server |-> Visited[i]]] IN
    IF "rev" \in ZonesOf(op[p]) THEN on("fwd") \o on("rev") ELSE on("fwd")
Stop(p) == Stops(p)[index[p]]

Idle == \A p \in Procs : pc[p] = "idle"
At(p, c) == pc' = [pc EXCEPT ![p] = c]
Next_(p) == index' = [index EXCEPT ![p] = @ + 1]
First(p) == index' = [index EXCEPT ![p] = 1]

NoOp   == <<"none">>
Unread == [s \in Servers |-> {}]

Init ==
    /\ zone = [s \in Servers |-> {}] /\ declared = [s \in Servers |-> {}]
    /\ up = Masters
    /\ pc = [p \in Procs |-> "idle"]
    /\ op = [p \in Procs |-> NoOp]
    /\ cache = [p \in Procs |-> [m \in Masters |-> "unknown"]]
    /\ index = [p \in Procs |-> 1]
    /\ resync = [p \in Procs |-> FALSE]
    /\ seen = [p \in Procs |-> {}]
    /\ held = [p \in Procs |-> Unread]
    /\ started = 0 /\ faults = 0
    /\ want = {} /\ dead = {} /\ last = "none" /\ calm = TRUE

\* Records that one server holds and no other.
AloneIn(h, s) == h[s] \ UNION {h[t] : t \in (DOMAIN h) \ {s}}

\* A registration ends when its record is deleted or replaced.
Ends(o, w) == \/ o[1] = "del" /\ w = <<o[2], o[3]>>
              \/ o[1] = "replace" /\ w[1] = o[2]

\* A process starts: its reachability cache is empty.
NewRun(p) ==
    /\ pc[p] = "idle"
    /\ cache' = [cache EXCEPT ![p] = [m \in Masters |-> "unknown"]]
    /\ UNCHANGED <<world, up, pc, op, index, resync, seen, held, started, faults, history>>

\* An operation starts under _dns_lock: masters() probes what the process has
\* not probed before.  dns_sync.py is a process of its own.
Begin(p, o) ==
    /\ pc[p] = "idle" /\ started < MaxOps
    /\ started' = started + 1
    /\ op' = [op EXCEPT ![p] = o]
    /\ cache' = [cache EXCEPT ![p] = [m \in Masters |->
                   IF @[m] # "unknown" /\ o[1] \notin {"sync", "prune"} THEN @[m]
                   ELSE IF m \in up THEN "yes" ELSE "no"]]
    /\ At(p, CASE o[1] = "del" -> "edit" [] o[1] \in {"sync", "prune"} -> "compare" [] OTHER -> "zones")
    /\ First(p)
    /\ resync' = [resync EXCEPT ![p] = FALSE]
    /\ want' = {w \in want : ~Ends(o, w)}
    /\ dead' = IF o[1] \in {"del", "sync", "prune"} THEN dead
               ELSE dead \ {<<t, o[2], o[3]>> : t \in {"A", "PTR", "SVC"}}
    /\ last' = "none"
    /\ calm' = IF Idle THEN up = Masters ELSE calm
    /\ UNCHANGED <<world, up, seen, held, faults>>

\* ensure_zone() on the next server.  A grep that cannot reach the server
\* looks like a zone that is not declared; creating it then does nothing.
EnsureZone(p) ==
    /\ pc[p] = "zones" /\ index[p] <= Len(Visited)
    /\ LET s == Visited[index[p]]
           lacks == ~Answers(p, s) \/ ~(ZonesOf(op[p]) \subseteq declared[s]) IN
         /\ resync' = [resync EXCEPT ![p] = @ \/ (Reached(p, s) /\ lacks)]
         /\ declared' = [declared EXCEPT ![s] = IF Answers(p, s) THEN @ \cup ZonesOf(op[p]) ELSE @]
    /\ Next_(p)
    /\ UNCHANGED <<zone, up, pc, op, cache, seen, held, started, faults, history>>

\* add_dns_to_named_rr() returns when this host has the line already.
ZonesDone(p) ==
    /\ pc[p] = "zones" /\ index[p] > Len(Visited)
    /\ LET o == op[p] IN
       At(p, IF o[1] = "named_rr" /\ ~resync[p] /\ <<Svc(o[2], o[3]), "padded">> \in zone[Here]
               THEN "idle" ELSE "edit")
    /\ First(p)
    /\ UNCHANGED <<world, up, op, cache, resync, seen, held, started, faults, history>>

\* One command on a remote master, with check=False: nothing happens, and
\* nobody is told, when the master has gone.
RemoteStep(p) ==
    /\ pc[p] = "edit" /\ index[p] <= WorkLength(p) /\ OnRemote(p)
    /\ zone' = [zone EXCEPT ![WorkServer(p)] = IF Answers(p, WorkServer(p)) THEN Apply(@, WorkEdit(p)) ELSE @]
    /\ Next_(p)
    /\ UNCHANGED <<declared, up, pc, op, cache, resync, seen, held, started, faults, history>>

\* On this host a file is read whole and then written whole, unless the line
\* to add is there; two processes may interleave.  An append needs no read.
FileOf(e) == {l \in Lines : (l[1][1] = "PTR") = (\A d \in e.del \cup e.add : d[1][1] = "PTR")}
Appends(e) == e.del = {} /\ e.unless = {}

LocalRead(p) ==
    /\ pc[p] = "edit" /\ index[p] <= WorkLength(p) /\ ~OnRemote(p)
    /\ ~Appends(WorkEdit(p))
    /\ IF zone[Here] \cap WorkEdit(p).unless = {}
         THEN /\ seen' = [seen EXCEPT ![p] = zone[Here] \cap FileOf(WorkEdit(p))]
              /\ At(p, "write")
              /\ UNCHANGED index
         ELSE Next_(p) /\ UNCHANGED <<seen, pc>>
    /\ UNCHANGED <<world, up, op, cache, resync, held, started, faults, history>>

LocalWrite(p) ==
    /\ \/ /\ pc[p] = "write"
          /\ zone' = [zone EXCEPT ![Here] = (@ \ FileOf(WorkEdit(p))) \cup Apply(seen[p], WorkEdit(p))]
       \/ /\ pc[p] = "edit" /\ index[p] <= WorkLength(p) /\ ~OnRemote(p)
          /\ Appends(WorkEdit(p))
          /\ zone' = [zone EXCEPT ![Here] = Apply(@, WorkEdit(p))]
    /\ At(p, "edit")
    /\ Next_(p)
    /\ seen' = [seen EXCEPT ![p] = {}]
    /\ UNCHANGED <<declared, up, op, cache, resync, held, started, faults, history>>

\* The operation has returned: what it promised counts from now on.  `last`
\* remembers its kind when every master answered throughout.
Completed(p) ==
    LET o == op[p]
        clean == calm /\ \A m \in Masters : cache[p][m] = "yes"
        w == <<o[2], o[3]>> IN
    /\ want' = IF o[1] \in {"add", "replace"} THEN want \cup {w} ELSE want
    /\ dead' = IF o[1] = "del" /\ clean THEN dead \cup {A(o[2], o[3]), Ptr(o[2], o[3])} \cup {Svc(n, o[3]) : n \in Names}
               ELSE dead
    /\ last' = IF clean /\ \A q \in Procs \ {p} : pc[q] = "idle" THEN o[1] ELSE "none"
    /\ UNCHANGED calm

\* The edits are done; a zone that had to be created is synchronised.
EditsDone(p) ==
    /\ pc[p] = "edit" /\ index[p] > WorkLength(p)
    /\ First(p)
    /\ IF resync[p] THEN At(p, "compare") /\ UNCHANGED history
                    ELSE At(p, "idle") /\ Completed(p)
    /\ UNCHANGED <<world, up, op, cache, resync, seen, held, started, faults>>

\* _compare_zone(): the records of each zone file of each server in turn; ""
\* from one that does not answer.  sync_zone() fills with the result and
\* prune_zone() cuts.
Compare(p) ==
    /\ pc[p] \in {"compare", "prunecompare"} /\ index[p] <= Len(Stops(p))
    /\ LET s == Stop(p).server IN
       held' = [held EXCEPT ![p][s] = @ \cup IF Answers(p, s) THEN Recs(zone[s]) \cap InFile(Stop(p).file) ELSE {}]
    /\ Next_(p)
    /\ UNCHANGED <<world, up, pc, op, cache, resync, seen, started, faults, history>>

CompareDone(p) ==
    /\ pc[p] \in {"compare", "prunecompare"} /\ index[p] > Len(Stops(p))
    /\ At(p, IF pc[p] = "compare" THEN "fill" ELSE "prune")
    /\ First(p)
    /\ UNCHANGED <<world, up, op, cache, resync, seen, held, started, faults, history>>

\* MUTANT of Missing: only this host's records are copied.
MissingHere(p, s) == held[p][Here] \ held[p][s]

Missing(p, s) == (UNION {held[p][t] : t \in Servers}) \ held[p][s]

\* _write_records(): the collapsed text, which grep -qF finds only in lines
\* that are collapsed too; this host appends.
Filled(z, s, R) ==
    IF s = Here THEN z \cup Synced(R)
    ELSE z \cup {l \in Synced(R) : Synced({l[1]} \cup Covers[l[1]]) \cap z = {}}

\* The loops of sync_zone() and prune_zone() go on to the next server when nothing is left to do.
NextStop(p, R) ==
    /\ R = {}
    /\ Next_(p)
    /\ UNCHANGED <<zone, held>>

\* _write_records(): one command for each record a server lacks, which then counts as having it.
ToFill(p) == {r \in Missing(p, Stop(p).server) \cap InFile(Stop(p).file) : Reached(p, Stop(p).server)}

Fill(p) ==
    /\ pc[p] = "fill" /\ index[p] <= Len(Stops(p))
    /\ LET s == Stop(p).server IN
       \/ NextStop(p, ToFill(p))
       \/ \E r \in ToFill(p) :
            /\ zone' = [zone EXCEPT ![s] = IF Answers(p, s) THEN Filled(@, s, {r}) ELSE @]
            /\ held' = [held EXCEPT ![p][s] = @ \cup {r}]
            /\ UNCHANGED index
    /\ UNCHANGED <<declared, up, pc, op, cache, resync, seen, started, faults, history>>

\* dns_sync.py --prune goes on to prune_zone() in the same process.
FillDone(p) ==
    /\ pc[p] = "fill" /\ index[p] > Len(Stops(p))
    /\ First(p)
    /\ held' = [held EXCEPT ![p] = Unread]
    /\ IF op[p][1] = "prune" /\ \E m \in Masters : Reached(p, m)
         THEN At(p, "prunecompare") /\ UNCHANGED history
         ELSE At(p, "idle") /\ Completed(p)
    /\ UNCHANGED <<world, up, op, cache, resync, seen, started, faults>>

\* prune_zone(): one command for each record held alone, which takes the lines with its fields.
ToPrune(p) == AloneIn(held[p], Stop(p).server) \cap InFile(Stop(p).file)

Prune(p) ==
    /\ pc[p] = "prune" /\ index[p] <= Len(Stops(p))
    /\ LET s == Stop(p).server IN
       \/ NextStop(p, ToPrune(p))
       \/ \E r \in ToPrune(p) :
            /\ zone' = [zone EXCEPT ![s] = IF Answers(p, s) THEN @ \ EitherForm({r}) ELSE @]
            /\ held' = [held EXCEPT ![p][s] = @ \ {r}]
            /\ UNCHANGED index
    /\ UNCHANGED <<declared, up, pc, op, cache, resync, seen, started, faults, history>>

PruneDone(p) ==
    /\ pc[p] = "prune" /\ index[p] > Len(Stops(p))
    /\ At(p, "idle") /\ First(p) /\ Completed(p)
    /\ held' = [held EXCEPT ![p] = Unread]
    /\ UNCHANGED <<world, up, op, cache, resync, seen, started, faults>>

(***************************************************************************)
(* Faults                                                                  *)
(***************************************************************************)
Fault == /\ faults < MaxFaults
         /\ faults' = faults + 1
         /\ calm' = FALSE
         /\ last' = "none"
         /\ UNCHANGED <<started, want, dead>>

GoesDown(m) ==
    /\ m \in up /\ up' = up \ {m}
    /\ Fault
    /\ UNCHANGED <<world, script>>

ComesBack(m) ==
    /\ m \notin up /\ up' = up \cup {m}
    /\ last' = "none" /\ calm' = FALSE
    /\ UNCHANGED <<world, script, started, faults, want, dead>>

\* A cloud lab's DNS VM is destroyed and created again, empty.
Recreated(m) ==
    /\ m \in up /\ declared[m] # {}
    /\ zone' = [zone EXCEPT ![m] = {}]
    /\ declared' = [declared EXCEPT ![m] = {}]
    /\ Fault
    /\ UNCHANGED <<up, script>>

\* The script is interrupted or killed between two commands.
Interrupted(p) ==
    /\ pc[p] # "idle"
    /\ At(p, "idle")
    /\ seen' = [seen EXCEPT ![p] = {}]
    /\ held' = [held EXCEPT ![p] = Unread]
    /\ cache' = [cache EXCEPT ![p] = [m \in Masters |-> "unknown"]]
    /\ Fault
    /\ UNCHANGED <<world, up, op, index, resync>>

-----------------------------------------------------------------------------
Script(p) ==
    \/ NewRun(p) \/ (\E o \in Ops : Begin(p, o))
    \/ EnsureZone(p) \/ ZonesDone(p)
    \/ RemoteStep(p) \/ LocalRead(p) \/ LocalWrite(p) \/ EditsDone(p)
    \/ Compare(p) \/ CompareDone(p) \/ Fill(p) \/ FillDone(p) \/ Prune(p) \/ PruneDone(p)

Next == \/ \E p \in Procs : Script(p) \/ Interrupted(p)
        \/ \E m \in Masters : GoesDown(m) \/ ComesBack(m) \/ Recreated(m)

Spec == Init /\ [][Next]_vars

-----------------------------------------------------------------------------
\* TypeOK: scripts and zones keep their shape; a script reads a zone file
\* only while it edits this host's, and compares only masters it reached.
TypeOK ==
    /\ zone \in [Servers -> SUBSET Lines]
    /\ declared \in [Servers -> SUBSET ZoneFiles]
    /\ up \subseteq Masters
    /\ pc \in [Procs -> {"idle", "zones", "edit", "write", "compare", "fill", "prunecompare", "prune"}]
    /\ op \in [Procs -> Ops \cup {NoOp}]
    /\ cache \in [Procs -> [Masters -> {"unknown", "yes", "no"}]]
    /\ index \in [Procs -> Nat \ {0}]
    /\ resync \in [Procs -> BOOLEAN]
    /\ seen \in [Procs -> SUBSET Lines]
    /\ held \in [Procs -> [Servers -> SUBSET Records]]
    /\ started \in 0..MaxOps /\ faults \in 0..MaxFaults
    /\ want \subseteq Names \X Ips /\ dead \subseteq Records
    /\ last \in OpKinds \cup {"none"} /\ calm \in BOOLEAN
    /\ \A p \in Procs : /\ pc[p] # "write" => seen[p] = {}
                        /\ \A m \in Masters : held[p][m] # {} => cache[p][m] = "yes"

\* Registered: when no script runs, this host's zone has the A record of every
\* VM that add_to_dns() registered and nothing unregistered since
\* ("the local zone file ... must-succeed", _remote_dns_add()); and no script
\* acts on lines or records it should have dropped (TypeOK).
Registered == TypeOK /\ (Idle => \A w \in want : A(w[1], w[2]) \in Recs(zone[Here]))

\* NothingStale: between scripts, as long as nothing has failed, what
\* del_from_dns() removed stays removed, on every master, until it is registered
\* again; and "each IP keeps one canonical PTR record" (add_to_dns()): no address
\* has two names in this host's reverse zone.
NothingStale == Idle /\ faults = 0 =>
    /\ \A s \in Servers : dead \cap Recs(zone[s]) = {}
    /\ \A i \in Ips : \A m, n \in Names : {Ptr(m, i), Ptr(n, i)} \subseteq Recs(zone[Here]) => m = n

\* InStep: the masters hold the same records after a dns_sync.py during which
\* every master answered ("every master answers the same records", sync_zone()),
\* and, as long as nothing has failed, after every registration and removal,
\* whatever was done before: each line written in one form and matched in
\* another is found on all of them.
InStep ==
    last = "sync" \/ (last \in {"add", "replace", "del"} /\ faults = 0) =>
        \A s \in Servers : Recs(zone[s]) = Recs(zone[Here])
=============================================================================
