# lab-in-a-box in TLA+

This directory is a TLA+ development of lab-in-a-box: modules that model how it provisions and configures labs, TLC
configurations that check them on small instances, and TLAPS proofs of main invariants for every instance.
`PROJECT.json` maps every definition to the lines it models and lists the runs, the mutants, the hazards and the
findings.

To check a run: `tlc -config DnsMasters.cfg MCDnsMasters`. To check the proofs: `tlapm SetupLabProofs.tla`, and the same
for `DnsMastersProofs`, `ForeverRetryProofs`, `LabJobsProofs`, `CloudVmsProofs`, `KvmVmsProofs`, `OverlayProofs` and
`K8sInstallProofs`.

## 1. The system

lab-in-a-box builds a lab from a JSON definition: virtual machines on KVM hosts or in a cloud, Kubernetes clusters on
them, and add-ons on the clusters and the machines. There is no central server. Each script is a process on the
automation node that reads the definition and works over ssh or a provider's API; the state that outlives a process is
on the hypervisors, in the cloud accounts, in the DNS zone files, in the registries on the overlay hub, on the servers
that were installed, and in a few files under `/etc` and `/var`. So most of what is hard here comes from processes that
do not know of each other and share files, and from remote ends that stop answering in the middle.

### Inventory

| part | code | state it keeps | operations | what makes it correct | module |
|---|---|---|---|---|---|
| provisioning run | scripts/setup_lab.py, setup_vm.py, destroy_vm.py | run report, VMs, thread pool | phases, workers, summary, exit status | the report says what happened; nothing is installed on a machine the run did not make; exit 0 means all of it | SetupLab |
| DNS records | libs/services.py DNSService, libs/dns_zone.py, scripts/dns_sync.py | zone files here and on each remote master; who answers, per process | add, replace, remove, service records, synchronise, prune | this host keeps what was registered; the masters agree after a synchronisation | DnsMasters |
| forever-retry workers | libs/spacecmd_common.py, install_smlm, install_uyuni, install_client_registration | pid file and log per step, detached processes | hand off, probe, retry, finish | one worker per step, visible, and the step is done in the end | ForeverRetry |
| server configuration | libs/spacecmd_common.py, install_smlm, install_uyuni | objects on the SMLM or Uyuni server, the session file there | fifty steps, each of which looks up and makes | a step that ended without a complaint has left what it promises, however often it was begun | ServerConfig |
| web interface jobs | scripts/lab_builder_helper.py, webui/htdocs/status.html | job directories (job.json, log, rc), the page | create, status, poll | one run per lab; the page says what became of it | LabJobs |
| KVM and Harvester machines, placement, addressing | libs/backends.py, libs/lab_creation.py, libs/ipalloc.py | domains, disks, seeds; which host has what is never recorded | find, choose, allocate, create, reboot, delete, keep | a name has one machine, with its own configuration and address | KvmVms, MachineRegistry |
| cloud machines | libs/backends.py | machines, rules, the shared DNS VM and gateway | create, delete, power, open ports, register | a name has one machine, the lab is told that one, and it resolves | CloudVms, MachineRegistry |
| overlay | libs/overlay.py, scripts/overlay_ctl.py | four registries on the hub, wg0.conf, live peers, routes | join, register, refresh, retire, forget | sites have different addresses; every node has the routes of the sites that exist | Overlay |
| Kubernetes distributions | libs/k8s.py, libs/harvester.py | packages and snapshots, services, token, configuration files | first server, servers, agents, ingress | one cluster of all its nodes, with what was asked for | K8sInstall |
| hypervisor bridge | libs/host_network.py | network configuration, backup, rollback timer | make_bridge | the host is reachable in the end, old way or new | planned |
| definitions and migrations | libs/primary.py, migrations.py, schema_versions.py | definition, its versions | load, validate, migrate, save | every breaking step applied once and in order | planned |
| credentials | libs/crypto_store.py, setup_credentials.py | credential files | add, encrypt, delete | no plain secret where an encrypted one was asked for | planned |
| add-on installers | scripts/install_*, libs/addon_common.py, apps.py | the add-on's own, on its host | validate, install | exit status | an outcome in SetupLab |
| HTTP, PXE, port forwarding | libs/services.py, portforward.py | configuration files | configure | - | an outcome in SetupLab |
| web interface, MCP, status snapshot, USB delivery, installation, legacy_bash | see PROJECT.json | - | - | - | not modelled |

### How the parts interact

- `setup_lab` (a process, maybe several at a time) calls setup_vm's `provision_vm()` in threads, which calls the backend,
  then DNSService, then the overlay; it runs each add-on installer as a child process.
- DNSService writes this host's zone by reading and rewriting a file, and the remote masters' by ssh with errors ignored.
  The lock it takes is a `threading.Lock`, so it orders the threads of one run and nothing else. The same holds of the
  locks for addresses, MACs and placement.
- An add-on installer that cannot finish a step leaves a detached worker, known by a pid file; `setup_lab` infers from
  the file's time stamp that the add-on is "pending". Installer and workers share one session file on the server.
- The web interface starts `setup_lab` through the helper, which leaves a directory per job; a page polls it.

### What is hard

Threads of one run against each other (the pool, Harvester's create node, `/tmp` on a host); two runs against each
other (DNS, overlay registries, addresses, pid files, jobs); check-then-act on files and on cloud accounts; remote
masters, hosts and APIs that stop answering, where a read that fails looks like an empty answer; pids that are reused;
a run of a dozen phases of which each swallows some failures; work that goes on after the process that started it has
reported. `PROJECT.json` lists each at its line.

### How the models are laid out

SetupLab, DnsMasters, ForeverRetry, LabJobs and Overlay have one action per step of the code that others can observe.
CloudVms, KvmVms, K8sInstall and ServerConfig model code that is long sequences of remote calls with the same few ways
to go on: there a process is the sequence of calls it has left, an operator per function of the source gives that
sequence, and one action per kind of call gives its effects and its failures. SetupLab sees the outcomes of the other
four (`ProvisionVm`, `InstallK8s`, the add-ons); MachineRegistry is what it relies on from a backend.

## 2. SetupLab: one run of setup_lab.py

**State.** `keep` and `parallel` are the command line. `phase`, `nodesLeft`, `clustersLeft`, `scope`, `queue` and
`installed` are where the main thread is and what its current loop has left. `wpc[n]` is the worker that
`phase_create_vms()` runs for node `n`: `todo`, `keep` (asking the backend), `destroy`, `provision`, `done`, or
`raised`. `nodeStatus`, `clusterStatus`, `addonStatus`, `errors` and `warned` are `_RunReport`; `banner` and `exit` are
what the user sees. `vm[n]` is the machine behind a node (`old` was there before the run, `new` was made by it, `host`
is one the tool does not own), `vip` the Harvester clusters that have their virtual address, `touched` the nodes
that a Kubernetes install has reached by name.

**Actions.** One per step of the code that other threads can observe: the phases before the pool (`FetchImages` to
`ClusterDns`), four steps of a worker (`StartNode`, `KeepCheck`, `DestroyVm`, `ProvisionVm`), the join
(`CreateDone`), the reboot and the wait of `--keep`, one cluster's skip or install, its settling, its add-ons one by
one, the node add-ons, the post commands, and `Summary`. Each call to the outside has the outcomes the code tells
apart: returned, SystemExit (a `die()`), RuntimeError, or an exception nobody catches (`Raise`: on the main thread it ends
the run at once, from the pool when the pool is joined). `Misfits` are the add-ons that `check_requirements()` refuses: the
preflight asks for those a list has, the phases die of those a cluster implies.

**Runs.** `lab_clusters` has two clusters that share an add-on, so that a set or a queue carried from one cluster to the
next shows: what is installed where, what exit status 0 promises (`ExitZeroSound`), that add-ons run once and after the
cluster's own services (`AddonsInOrder`), that no work on a cluster goes unreported (`ClusterWorkReported`), and that the
run ends. `lab_pool` has a Harvester
cluster of two nodes, whose second needs the VIP of the first, and an existing host whose wait can raise in the pool,
with no, one or two workers: one node can wait, one run and one have raised.

**Fairness.** `WF_vars(Step)`: every blocking call has a retry limit or a timeout, so the process goes on.

**Proved** (`SetupLabProofs`). `TypeCorrect`; then `ReportInvariant`: `WorkerInv(n)` says that a worker has a status in the
report exactly when it is done, that the status agrees with the VM, and that only owned nodes are destroyed; `PhaseInv` that
later phases start when all are done, that nothing is touched before, and that what is touched has not failed, and a worker on
the main thread is alone, so that what it raises leaves nobody at work. From it follow `InstallSafe`, `ReportIsTruthful`,
`PoolJoined` and `ReportedVmSafe`. None of the four is inductive alone: a status says nothing of the VM until it is tied to the
worker's program counter. `CreatorInv` ties a Harvester node that has started to a create node that is done, and a create node
that was created to the VIP (`CreatorGoesFirst`). `ProgressInv` says what the loops over clusters, services, add-ons and nodes
have recorded by the time they are where they are: `ExitZeroIsSound`, `AddonsRunInOrder` and `ClusterWorkIsReported` follow, the
last for the labs its comment in the code holds for (`PlainLab`: K3s clusters, plain lists, services that can run; section 10
has the others). The assumptions are `LabAssumption` and `ScopeAssumption`: the shape of a definition that the preflight
accepts.

## 3. DnsMasters: the zone on several masters

**State.** `zone[s]` is the set of lines on this host (`Here`) and on each remote master; a line is a record and the form of
its text, because `add_to_dns()` pads the fields, `sync_zone()` writes them collapsed, and some edits match text and
some match fields. `declared[s]` is what named.conf has, `up` who answers. A script has a program counter, its
operation, the masters it has probed (`cache`, kept for the life of the process as in the code), and what it has read
of a file (`seen`) or of the masters (`held`). `want`, `dead`, `last` and `calm` remember the past for the properties.

**Actions.** `Begin` starts an operation (the probe of the masters included); `EnsureZone` declares the zone on one
server; `RemoteStep` is one command on one master, which does nothing when it has gone; `LocalRead` and `LocalWrite` are
the two halves of the local rewrite; `Compare` is `_compare_zone()`, one server and file at a time; `Fill` and `Prune`
are `sync_zone()` and `prune_zone()`, one command for one record at a time. Masters go down, come back and are recreated
empty; scripts are interrupted.

**Run.** `dns_masters`: one script at a time. While nothing has failed, five operations in a row of every kind, on an
address that changes hands and a name that moves: one PTR record per address and removals that last (`NothingStale`,
stated for `faults = 0`), and masters in step after each write (`InStep`). With up to two faults anywhere, three
operations that register, remove or synchronise two hosts: this host keeps what was registered (`Registered`), and a
synchronisation that reaches everybody leaves everybody equal (`InStep` again). After the second fault a third operation is
followed only where one of the two hosts has records. The state constraint `Bounds` is this case distinction; what it
cuts off are histories that have both kinds of operation, or both hosts and two faults before the third operation. Two names, two addresses and two masters are enough for a record that is wrong, one that must survive, and two remote
copies that differ from each other. Deadlock is checked: no script waits for another.

**Proved** (`DnsMastersProofs`). `DnsTypeCorrect`, for any number of scripts. `HostKeepsRecords` (`Registered`): one script at a
time, any faults and any overlaps of the texts, without `--prune`, which section 10 shows to break it after a fault. Its
invariant `HostInv` says that what a script has read of a file is still what the file holds, and that an operation that has
written its A record does not take it away again. Then, for records none of whose texts is within another's (`NoOverlap`) and
masters that are listed once (`Listed`), as in the run, but for any number of masters, names, addresses, operations and faults:
`MastersInStep` (`InStep`), `NothingRemovedReturns` (`NothingStale`), and `PrunedHostKeepsRecords` (`Registered` until the first
fault, with `--prune`). The invariant is `DnsInv`. `SyncInv` holds throughout: while a synchronisation runs and every master
answers, what was read of a server is what it has of the files passed, and what was filled in is there. `Sound` holds until the
first fault: every master that is asked answers (`Ready`), lines are padded and nothing removed is there (`Tidy`), and a
master's zone, once the edits it still lacks are made, is the one this host will have (`Abreast`, with `Turn` for the edits that
a master in the middle of the list has behind it). Equality of the zones is not inductive: it fails at every step but the last
of an operation.

## 4. ForeverRetry: a step that is retried until it works

**State.** `pidfile` and `since` (the runs that began before it was written: its time stamp); `proc[p]` for each process id
(a worker's place in its loop, a zombie, another process); each deployment's `rpc`, `tries`, `got` (the pid it read or
launched) and `status` (what setup_lab reports); `ready` and `done` for the server; `lost`, the runs whose worker died
after they had looked; `crossed`, whether two deployments have overlapped or one has read a pid file between
its truncation and its content.

**Actions.** The installer's own attempts, `ReadPid`, `Probe` and `Unlink` (`forever_retry_running()`), `Spawn`, `Truncate`
and `Record` (`launch_forever_retry()`, which writes the pid after the worker may have written and removed it),
`Report`; a worker's `Boot`, `Try` and `Stop`; kills, early deaths, and pids taken by other processes.

**Run.** `forever_retry`: two deployments in turn or at once, two workers killed or dead before their loop, one pid taken by
another process, a pid file read half written. Until deployments cross: one worker at a time, named by the
pid file (`OneVisibleWorker`), and somebody retrying whenever a launch returns (`Ensured`). In every case: a worker ends
only with the step done (`NeverGivesUp`), and a step reported "pending" is done in the end if nobody was killed
(`HandedOffFinishes`). The second deployment meets what the first left in the pid file: a live worker, a dead one's pid, or
another process's; three pids let a worker, a stranger and a replacement exist together.

**Fairness.** Weak fairness of each run and each worker (the scheduler), and of `ServerReady`: the synchronisation the steps
wait for ends. A killed worker waits for the next deployment, which is why `HandedOffFinishes` excepts it.

**Proved** (`ForeverRetryProofs`), for any number of runs, pids, kills and other processes: `RetryTypeCorrect`, `OneVisible`
(`OneVisibleWorker`), `WorkersPersist` (`NeverGivesUp`) and `StepEnsured` (`Ensured`). The invariant is `RetryInv`: while
nothing has crossed, one run is active (`OneRun`); each worker is named by the pid file, or is about to be by the run that
launched it (`Named`); a run that has decided to launch has found no worker, and the pid it holds is the worker's (`Looked`).
`AtMostOneWorker` alone is not inductive: it has to be known why a launcher that is about to spawn is right. `Ensured` needs
`EnsureInv` besides: whose child each worker is (`Children`), and that what a launcher has launched or found still retries
(`Launched`, `Found`).

## 5. LabJobs: jobs of the web interface

**State.** The job directories: `made`, `meta` (the pid in job.json), `rc`; the processes and the job each runs; how the job
`outcome` ended; each request's place in `lab_create()`, the directories it has left to look at and the one it is at;
each job's `page` and what it has `shown`.

**Actions.** `LabCreate` lists the directories; `ScanRc` and `ScanProc` are the two reads of `job_state()`; `Mkdir`, `Popen`
and `WriteMeta` make the job, which is visible only after the third. `LabEnds`, `ShellOpens`, `ShellEchoes` and `ShellExits`
are `sh -c '"$@"; echo $? > "$0"'`, where the file is there before its content. `PollRc` and `PollProc` are the page's. Jobs
and helpers are killed, and pids taken by other processes.

**Run.** `lab_jobs`: two requests in turn or at once, for one lab or two, and one fault: a job or a helper killed, or a pid
taken. While requests follow one another and no helper is killed, no lab is built twice at a time (`OneRunPerLab`); as long as
no pid is used twice, a request is refused for a job that has not ended (`RefusedRightly`). In every case "done" is said only of
a run that did everything (`DoneTruthful`), and a page stops saying "running" (`PageSettles`). Two requests and two jobs are
enough for any race of `lab_create()`, which compares one pair at a time; names that are free are interchangeable, so `Mkdir`
takes one of them. The system stops when all requests are handled and all pages closed.

**Fairness.** A page polls, and a job's shell goes on: setup_lab ends (`Termination` of SetupLab).

**Proved** (`LabJobsProofs`), for any number of labs, requests, jobs, pids and faults: `JobsTypeCorrect`, `JobsTruthful`
(`DoneTruthful` and `OwnDirectory`), `OneRun` (`OneRunPerLab`) and `RefusalsRight` (`RefusedRightly`). The invariant is `JobsInv`:
what a job has left in its directory is what its process has come to (`Staged`: without it an exit status says nothing of
the outcome); a directory that was just made is its request's alone (`Claimed`); each pid in job.json and each live process
is that of the request that made the job (`Children`, from which a pid that is in /proc and never reused is the job's
own); and while requests follow one another, a job that is building is in job.json, or its request is about to write it,
and a request for the same lab has yet to look at it or has it before its eyes (`InTurn`).

## 6. ServerConfig: the steps of the SMLM and Uyuni servers

**State.** `have` is what the server has: things of an organization, each with the version of the lab definition it was
made from. `session` is the administrator that `~/.spacecmd/config` on the server is for, which all processes share. A
process is the installer (`main`) or the worker of a step; it is at a call of a function of a step. `done`, `cut`, `mixed`,
`torn` and `killed` remember how attempts ended.

**Programs.** Each `ensure_*` and `run_*` function is a sequence of calls. The code uses about a dozen shapes of call (create
unless listed, set always, set when different, delete and make again, early return, require...) and five ways to treat a failure
(die, raise, warn, warn and return, ignore); `Make`, `Add`, `Set`, `Keep`, `Replace`, `Check`, `Unless`, `Require`, `Login` and
`Warning`, `Quitting`, `Ignoring`, `Raising` are these. What a function's calls are about, need and skip is in its definition.
Most look-ups are `name in stdout`: `Loose` are the things that are looked up so, and `alike` the ones of which a plan has
another with a longer name on the server; `mistaken` remembers the steps that took that one for theirs. `ResolveKey` is the
second look-up of the functions that work on a key.

**Actions.** `Look`, `Does`, `Refused`, `StepEnds`: a call finds its thing, has its effect, or is refused for what is missing or
already there. `LookFails`, `Lost` (before or after the effect), `Killed` and `WorkerDies` (before its loop) are the faults;
`StepFailed`, `WorkerBoots`, `WorkerRetries` the handing over; `Arrives` a system that registers late; `Edited` a definition
that is changed between runs.

**Run.** `server_config`: 33 plans that together have every step, two runs, one fault, two versions. Five plans have
other objects with longer names. `OkApplied`: a step
whose last attempt ended without a complaint has left what its docstring promises, with the content of the definition
where it promises that, although earlier attempts were cut anywhere; a step that took another object for its own is left
out, and so is everything once a session was torn. `OwnOrganization`: what is made in an organization's
session is that organization's and nothing else is. `Settles`: a step handed to a worker is done in the end, unless a step was
mistaken. Access groups are there twice: without users, and with users, where every attempt warns (1743). One fault
is enough to cut an attempt between any two calls; a second would cut the repetition, which begins in the same way.

**Fairness.** Weak fairness of the installer and of each worker, and of `Arrives`: systems register.

## 7. MachineRegistry, CloudVms and KvmVms: the machines

**MachineRegistry** is what a backend promises: a name has one machine, made when there was none, and the machine that
`provision_vm()` ends with is the one that has the name. `RegistrySound` (at the end of `KvmVmsProofs`) proves that this means one
machine per name, none shared, and a lab that is told the truth, for any names and machines. CloudVms and KvmVms each
implement it (`IsRegistry`, an INSTANCE with a refinement mapping). A node whose old machine could not be removed is left
out of the mapping from then on: what happens to it is in section 10.

**CloudVms.** A worker per node destroys, creates, opens ports, finds or makes the account's DNS machine and the gateway, and
registers. The eight providers differ in their sequences of calls. `Start` to `Boots` are the calls; `CallFails`,
`DestroyFails`, `RecordLost` and `PowerOff` the faults, and `DeleteCall` may have removed the machine although a failure is
reported. Two pairs of calls are one step, because no other worker changes what the first call sees: `vm_exists()` and
`get_ip()` of a shared machine, which no lab deletes, and GCP's list of rules before it creates or updates its node's own
(`PutRules`). Run `cloud_vms`: two nodes, on each provider in turn and rebuilt, on Hetzner and AWS in parallel, on AWS with a
gateway; one fault. `OwnAddress`: the address put into the definition and the DNS is that of the machine just made.
`OneSharedVm`: one DNS machine and one gateway, when workers take turns or the provider refuses a second. `Reachable`: a
provisioned node has its record on a running DNS machine that the network uses, and its ports are open in the rules of its own
machine. `Ends`: every wait has a timeout. Two providers in parallel, because the others behave as one of them: with names
refused, or not.

**KvmVms.** A worker finds the old domain among the hosts, removes it, chooses a host with room, gets an address, writes disk
and seed by config_method, installs, registers, waits, and reboots by one of four means. `HostDown`, `Hangs`, `CallFails` and
`StopTimesOut` are the faults, and a host that is up may leave one look-up unanswered (`Unanswered`), which then reads as no
machine (lab_creation.py:1645-1651); `Acts` lets a guest obey an ACPI request late. Run `kvm_vms`: two nodes, two hosts of which one
has room for one, three addresses, so that placement and allocation both run short; every config_method, `--keep`,
setup_vm for each node, in parallel where the property allows it, and Harvester. `AddressesDistinct`, `Fits` and
`OkRunning` (every machine has its own configuration, and a provisioned node runs from its own disk at the address that
the DNS has). What they say of machines excepts those that destroy_vm() could not get at (`missed`), and with `--parallel`
the machines of cloud-init on libvirt (`OwnFiles`); without either exception they fail, and with two or three faults instead of
one TLC finds the run (section 10). `kvm_seeds` is a violation.

**Fairness.** In CloudVms, weak fairness of each worker's `Step`: commands return or time out. Machines have none, and may
never come up. KvmVms states no liveness and has no fairness.

**Proved** (`CloudVmsProofs`), for any number of nodes, labs, rebuilds and failures, all eight providers, with workers taking
turns or not: `CloudTypeCorrect`, and `AddressIsOwn` (`OwnAddress`). `OwnAddress` alone says nothing of a worker that has no
address yet. The invariant is `CloudInv`: `Types`; `Owned`, which ties the calls a worker has left to the machines of its
node (before it makes its machine it knows none, and when nothing is left to remove no machine of the name is there;
after, the machine it made is there; at the end it has the address of that machine); and `Apart`, that no worker knows the
machine of another. `CloudVmsAssumption` has no node named like the shared DNS machine or gateway, or the rule for SSH.
`SharedVmIsOne` (`OneSharedVm`) rests on `Unique`, which says why there is one. Where the provider refuses a second machine of
a name, names are unique, for nodes as well. When workers take turns, at most one has calls left; in these a shared
machine is made at most once, and not after it was waited for; and its look-up is still to come, or there is none of the name.
`CloudIsRegistry` (`IsRegistry`) adds `AllKnown`, that the machine a worker knows is there and has its node's name, and then
every step is that of one worker (`Moves`), whose node's machines stay, go or come; the registry's `Destroy`, `Make`, `Tell` and
`Forget` are read off it. Machines are numbered without a bound.
`NodesReachable` (`Reachable`) says of a worker at work what it says of one that has ended: what is not left to do is done
(`Opened`, `Recorded`, `Optioned`, `Waited`). This is inductive only with what is known of the calls left (`Neat`): that what
a look-up may pass over is what it makes needless (`Skips`, `Filled`), that a DNS machine's address is asked for right before
it is waited for (`Addressed`), that one that is made is waited for (`Awaited`), and none after it was used (`UsedLate`), and
that rules are added that were looked for last (`Asked`). The DNS machine may be an earlier worker's: `Coming` adds that one
that is not up is still waited for.

**Proved** (`KvmVmsProofs`), for any number of nodes, hosts, addresses, rebuilds and faults, on libvirt and Harvester, with
every config_method: all the safety properties of the run, and the refinement. Each theorem rests on the one before it.
`KvmTypeCorrect`: `Sound`, the types, one machine of a name on a host, and the shape of what a worker has left: its calls are
ranked, and every call has those after it that the code makes after it (`Must`; the programs are concatenations, so these are
lemmas about sequences). `KvmHostsFit` (`Fits`): `Placed`, that a worker whose host was chosen still has a unit of its room,
though others start and stop machines meanwhile. `KvmIsRegistry` (`IsRegistry`): `Known`, by the calls that are left: where the
machine of a node is, that there is none when one is made, and that it is off before it is undefined; then every step is a step
of MachineRegistry or leaves its state. `KvmOwnConfiguration`: `Staged`, whose files are in the disk, in /tmp/user-data and in
the ISO between the call that writes them and the one that uses them. `KvmAddressesDistinct` and `KvmOkRunning` rest on all of
these and on `NetOK`: between `del_from_dns()` and `add_to_dns()` the zone has no address of the node, and before and after it
has that of the machine; a machine that was made has the address of the definition; a node's machine is on, or is still to be
started, or something was amiss; and `phase_allocate_ips()` gives a node the address it has in the zone, or one no other has
(`Fresh`).

## 8. Overlay: sites, registries and routes

**State.** The hub's registries (`alloc`, `sites`, `nodereg`, `dnsreg`), each the set of its lines; `conf`, the blocks each
site has in wg0.conf, in their order, and `live`, the key wg0 has for it; kernel routes; each gateway's key and what its tunnel
admits; each node's route script, routes in force and unit. A process reads a registry over ssh (`seen`) and writes it back
in another step. `twice` remembers the sites that got a second block.

**Actions.** `Provision`, `Refresh`, `Retire` and `Forget` begin an operation, `NoSubnet` ends one at once; `AllocRead` to
`DnsWrite` and `Unpeer` to `Push` are the steps, one per command that is sent to the hub. `add_peer_to_hub()` is `FindBlock`,
`AddBlock`, `SetPeer`, `RoutePeer`; its search is not checked, so `FindIsLost` finds nothing and a second block is appended.
`retire_site()` is `Unpeer`, which takes the first block, `Unroute`, and four times `CleanRegistries`; each can be
`LostCommand`. `NoGateway` and `RouteFails` end a run before the node is registered. A process dies, a node goes down or
restarts, the hub restarts (wg0 is read from wg0.conf: of two blocks the last counts), a gateway is made again.

**Run.** `overlay`: the hub's site and two others, a node in each, four operations, one fault, one process, and an
`OVERLAY_CIDR` that is wide enough for all or one address short (the operator may change it between runs). `AddressesDistinct`:
addresses given after retirements and interrupted joins differ. `SettledRoutes`: an operation that ended with everybody
answering leaves every registered node with a route script of exactly the other sites. `JoinedServed`: a site that joined
stays a peer, in wg0 and in wg0.conf, through restarts and other sites' operations. `RetiredGone`: a site that was retired with
no loss is in no registry, and is no peer and has no route unless a search for its block was lost (section 10 says what happens
then). Two spokes, so that one's operation can harm the other; four operations for join, join, retire, join.
The system may stop when all operations are used. No liveness is stated: nothing retries.

**Proved** (`OverlayProofs`), for any number of sites, nodes, addresses, operations and faults, with one process at a time
(section 10 has two): `DistinctAddresses`, `RoutesSettle`, `JoinedStayServed`, `RetiredStayGone`, all four properties of the
run. The invariant is `OverlayInv`: what a process has read of a registry is still what the registry holds (`ReadsHold`, which
is where one process is needed); `Allocated`; the route scripts are right for the nodes a refresh is done with (`Settling`); the
blocks of a site have keys it had, and there is one unless a search was lost (`Blocks`); of a site that joins, the hub has what
was done so far, and of one that has joined, everything (`PeersAgree`); a retirement that lost nothing has undone what it has
passed (`Undone`), and nothing of a retired site comes back with an operation that is under way (`Retiring`).

## 9. K8sInstall: a cluster on nodes that are new or kept

**State.** Each node's packages, those of the pending snapshot of a transactional system, its service and cluster;
every cluster there was; the configuration file of RKE2 that stays where setup_lab runs; the worker and its token; `unseen`,
the nodes whose pending snapshot the last look at them did not see.

**Actions.** One per kind of call: `Settle` (the reboot into a pending snapshot), the installers, checks, `StartFirst` and
`StartOther`, kubeadm's init and join, Harvester's nodes that install themselves, the waits and the ingress add-on. `Begin` is a
run of setup_lab, with `--keep` after the first: any set of nodes made anew, any other definition of the same distribution.
`CallFails` ends the run, or goes on where the code does: a kernel that is not updated, a policy that is not asked for, and
`SettleIsLost`, a look at a node that fails and reads as nothing pending, or as rebooted already (`LateReboot` follows).

**Run.** `k8s_install`: four distributions, three nodes, two orders of servers and agents, every ingress setting, three runs,
one failed call. `OneCluster`: a cluster reported as installed is one cluster of all its nodes. `IngressAsAsked`: it has the
controller that was asked for and no other, unless it is an RKE2 cluster with the configuration file of an older definition.
`InstallsOnNewNodes`: nodes that are new become a cluster when nothing fails. `PendingKept`: no transaction discards one that is
pending, unless the last look for it was lost (section 10). `Ends`. Three nodes: the founder, a server and an agent that join.
`k8s_transactional` is a violation, see section 10.

**Fairness.** Weak fairness of `Step`, as every wait has a timeout, and of a Harvester node's own installation.

**Proved** (`K8sInstallProofs`), for any number of nodes, definitions, runs and failed calls: `K8sTypeCorrect`, `ClusterIsOne`
(`OneCluster`), `IngressIsAsAsked` (`IngressAsAsked`), `PendingIsKept` (`PendingKept`) and `NewNodesInstall`
(`InstallsOnNewNodes`). The invariant is `K8sInv`: the calls left for a node found or join a cluster once, and found one exactly
when the worker has no token (`Todo`, `Founds`); whoever has a service is of a cluster, and at the end all are of the one whose
token the worker holds (`Members`); a cluster founded in this run has the controllers it comes with and, at the end, the one
planned besides (`Controllers`). `SettledInv` adds that between two package managers the node is settled, or the look that
should have settled it was lost. `Smooth` is for runs over new nodes in which nothing failed: every call finds what it needs
running, or a call before it installs that and, on a transactional system, settles it (`Supplied`, which needs `SettledInv`:
else an installer would discard it); nodes done are of the cluster whose token the worker holds, and nodes to come of none
(`InOrder`); Harvester's nodes are of the one the first founded (`Together`). kubeadm on a transactional system is excluded, as
it fails (section 10). `K8sInstallAssumption` has each node in the plan once, and no Harvester definition that asks for another
controller than the one Harvester brings.

## 10. What the code does otherwise than it says

Two runs keep a violation each; "findings" in PROJECT.json quotes the lines:

- `kvm_seeds`: with `--parallel`, two workers stage cloud-init files under the same names in `/tmp` of a host, and a
  machine comes up with the other's name and address.
- `k8s_transactional`: kubeadm on a transactional system uses containerd before the reboot into the snapshot that has it.

The models show the following too, when a constant or a condition is changed; no run is kept for it.

- **SetupLab.** The wait for the system pods of a Harvester cluster raises NotImplementedError (k8s.py:153) outside the
  handler (setup_lab.py:770), and the run ends without its summary. With an RKE2 cluster the rsync of its kubeconfig raises
  CalledProcessError, which the handler does not catch either (k8s.py:387). A mapping in a cluster's add-on list passes
  the preflight and is a TypeError after the cluster is built (`Mapped = {c1}`). A service that `check_requirements()` refuses ends
  the run too (`Misfits = {<<c1, svc>>}`). With `--keep`, a node that failed makes the
  reboot phase die (setup_lab.py:638).
- **DnsMasters.** With `Procs = {p1, p2}`, `Registered` fails: two processes that register different machines lose one
  record (services.py:65-67). After a fault, `InStep` fails for writes, as a master that missed one is not brought back in step
  by the next; `NothingStale` fails after a synchronisation, which gives an old PTR record back, and writes text that
  `del_from_dns()` does not look for. With a fault and a prune, `Registered` fails: a master
  that stops answering reads as an empty zone (services.py:297). `--prune` synchronises first, and then finds no record that one
  master holds alone (dns_sync.py:102). With a record whose text is part of another's (`Covers`), `InStep` fails.
- **ForeverRetry.** After deployments have crossed there can be two workers. A rerun that finds the worker of the previous
  one touches no file, and setup_lab reports "ok" for a step that is not done (spacecmd_common.py:245, setup_lab.py:326).
  When a stale pid is another process's, nobody retries. A worker that dies before its loop is not replaced until the
  next deployment.
- **LabJobs.** `OneRunPerLab` fails when two requests cross, and when a helper is killed between the start of the job and
  job.json. A job that ends between the two reads of `job_state()` is "failed" on a page that then stops polling
  (lab_builder_helper.py:250-252, status.html:425). A pid that is used again refuses a request wrongly. A page that says
  "pending" says so for ever: it reads the log of a run that has ended (status.html:417).
- **ServerConfig.** RuntimeError is not caught by `run_provisioning_step()` (spacecmd_common.py:94; raised at 1406 and 4559): it
  skips the steps that follow, where the docstring has each step stand alone. Most look-ups find a name within another
  (389, 570, 644, 722, 1470, 1566): a step whose object has such a neighbour ends well with nothing applied, and a step that
  needs that object is retried for ever (without `mistaken`, `OkApplied` and `Settles` fail); only organizations are looked up whole
  (1415). The second look-up of a key takes the first line that ends in its name (403), which may be another key's; that choice is
  not modelled, nor that it may come out as a key that is there. When that look-up fails, the calls that follow are for a key that
  is not there (398). A worker whose session cannot be written dies before its loop (380) and is not replaced until the next
  deployment. An access group with users warns at every attempt. The session is not restored when
  `ensure_orgs()` fails (380, 1556), and other processes use it meanwhile. What follows the creation of a chain, a key or a
  user is lost when the creating attempt is cut (440). Patches are stuck if the restart of tomcat is lost (4211-4215), and
  so is a content filter; both are left out of `Settles`. A transfer whose look-up fails is taken to be done. A worker with
  an older definition puts the older content back (261).
- **CloudVms.** Two workers in parallel make two DNS machines where names are not unique (backends.py:4208-4232). A
  `delete_vm()` that fails ends in a SystemExit that is swallowed (setup_vm.py:426-428, setup_lab.py:518-523), and the node then
  has two machines. Two workers add the same rule on AWS, and one fails (2119). A gateway that was created but not attached
  stays. A half-made DNS machine is reused without a check (4211), and a record that does not arrive is not missed.
- **KvmVms.** A host that does not answer, or one look-up that fails, reads as no machine (lab_creation.py:1646), so `--keep`
  and destroy make a twin elsewhere. A Harvester delete that fails is swallowed, and `kubectl apply` keeps the old machine;
  `virtctl stop` can raise TimeoutExpired, which nobody catches (backends.py:1310): the machine runs on, its record is gone, and
  if its guest does not answer the next run gives its address to another node. A rebuilt node may get another address
  (ipalloc.py:12-13 says it does not), and a record is not written before the machine is there (72). A late ACPI shutdown leaves
  a node off that was reported as created (backends.py:661). In parallel, two workers take the same room; stopped domains are
  not counted.
- **Overlay.** With `Procs = {p1, p2}`, `AddressesDistinct` fails. A rebuilt gateway's key is not written to wg0.conf, and the next
  restart of the hub cuts the site off (overlay.py:262). A search for a site's block that is lost reads as no block
  (overlay.py:277): a second one is appended, a retirement removes the first (`head -1`, 302), and the next restart of the hub makes
  the retired site a peer again. A gateway without an address on its site leaves the node unrouted and refreshes nobody.
  What a gateway's tunnel admits is not extended when sites join later.
  Refreshed routes are in the script but not in force until a reboot, as `systemctl enable --now` does nothing for a unit
  that is active (704-705).
- **K8sInstall.** A look for a pending snapshot that is lost reads as nothing pending (lab_creation.py:1225): the next
  transaction discards the snapshot, or what it installed is not in the running system when it is used. A boot id that is not
  read is "", and the wait for the reboot is over at once (1195, 1251). The configuration file of an older definition is kept
  (k8s.py:322), which is why `IngressAsAsked` excepts it. `clu_cni: none` never becomes ready. With `--keep`, kubeadm's init
  refuses a node that has a cluster. With an agent first, kubeadm is a TypeError and RKE2 does not start, but K3s founds a
  cluster. Every further K3s server is an agent. Agents that were kept stay in the old cluster when the first server is rebuilt.

## 11. What is proved, and what is only checked

Proved for every value of the constants (`theorems` in PROJECT.json):

| module | theorems | rests on |
|---|---|---|
| SetupLabProofs | TypeCorrect, InstallSafe, ReportIsTruthful, PoolJoined, ReportedVmSafe, CreatorGoesFirst, ExitZeroIsSound, AddonsRunInOrder | LabAssumption, ScopeAssumption |
| SetupLabProofs | ClusterWorkIsReported | the same, and PlainLab |
| DnsMastersProofs | DnsTypeCorrect | DnsAssumption |
| DnsMastersProofs | HostKeepsRecords | the same, one script at a time, no `--prune` |
| DnsMastersProofs | DnsInvariant, MastersInStep, NothingRemovedReturns, PrunedHostKeepsRecords | DnsAssumption, one script at a time, NoOverlap, Listed |
| ForeverRetryProofs | RetryTypeCorrect, OneVisible, WorkersPersist, StepEnsured | RetryAssumption |
| LabJobsProofs | JobsTypeCorrect, JobsTruthful, OneRun, RefusalsRight | JobsAssumption |
| OverlayProofs | OverlayInvariant, DistinctAddresses, RoutesSettle, JoinedStayServed, RetiredStayGone | OverlayAssumption, one process at a time |
| K8sInstallProofs | K8sTypeCorrect, ClusterIsOne, IngressIsAsAsked, PendingIsKept, NewNodesInstall | K8sInstallAssumption |
| CloudVmsProofs | CloudInvariant, CloudTypeCorrect, AddressIsOwn, SharedVmIsOne, CloudIsRegistry, NodesReachable | CloudVmsAssumption |
| KvmVmsProofs | KvmTypeCorrect, KvmHostsFit, KvmOwnConfiguration, KvmIsRegistry, KvmAddressesDistinct, KvmOkRunning | KvmVmsAssumption |
| KvmVmsProofs | RegistrySound | nothing |

Each theorem that assumes one process, one script, `NoOverlap` or `PlainLab` does so because the property is false without
it: section 10 says what happens then.

Only checked by TLC, on the instances above:

- ServerConfig (`OkApplied`, `OwnOrganization`): properties of some fifty concrete sequences of calls, which TLC goes through
  and for which there is no argument shorter than going through them.
- Liveness (`Termination`, `HandedOffFinishes`, `PageSettles`, `Settles`, `Ends`), which needs fairness and `ENABLED` and is beyond
  the proof system's reach.

The type invariant of each module with a proof module is proved; no run repeats that of SetupLab, ForeverRetry and
LabJobs, nor `WorkersJoined` and `OwnDirectory`. Those of the other modules are conjuncts of one of their invariants:
`Registered`, `AddressesDistinct` (Overlay and KvmVms), `OkApplied`, `OwnAddress`, `IngressAsAsked`.

Each property has a mutant: a definition changed the way a plausible mistake would change it, kept beside the original
and marked MUTANT, under which TLC finds the property violated.

Runs that say CHECK_DEADLOCK FALSE end by themselves: all runs, operations or requests are used up.

## 12. Not modelled

The text of messages, logs and configuration files; file writes that are torn, except the pid file and the rc file;
time, except the order of events; cryptography. The add-on installers send commands to one host and exit 0 or not,
which is how SetupLab has them. HTTP, PXE and port forwarding write files that no two actors share. The builder and
discovery pages, the MCP endpoint, the status snapshot, USB delivery, the installation and the earlier bash
implementation are listed with their reasons in PROJECT.json.

## 13. Plan

1. SetupLab, DnsMasters, ForeverRetry, LabJobs, ServerConfig, CloudVms, KvmVms, MachineRegistry, Overlay, K8sInstall: done.
2. Proofs: all safety properties of every module with a run but ServerConfig, and both refinements of MachineRegistry: done.
3. **HostBridge**: `make_bridge()` against its rollback timer; property: the host ends up reachable. Liveness.
4. **Migrations** and credentials: the steps between versions against a reference; the set of credential files.
5. Composition: LabJobs' `LabEnds` is SetupLab's `Summary`, whose "pending" is ForeverRetry's `Report`.
