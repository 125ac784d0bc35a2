---------------------------- MODULE ServerConfig ----------------------------
(***************************************************************************)
(* The configuration of an SMLM or Uyuni server (libs/spacecmd_common.py), *)
(* as the steps of install_smlm and install_uyuni apply it: every step is  *)
(* a program of calls to the server, each of which looks something up and  *)
(* makes what is missing.  A step that fails is handed to a background     *)
(* worker (see ForeverRetry), the run goes on with the next one, and both  *)
(* use the one session that ~/.spacecmd/config on the server holds.        *)
(*                                                                         *)
(* A thing is an object of the server or a part of one; its version is     *)
(* that of the lab definition it was made from.  A call is a record:       *)
(*   thing, does    what it is about, and what it does to it;              *)
(*   look           whether it looks for the thing first: not at all, for  *)
(*                  its existence, its content or its absence; some names  *)
(*                  are looked for anywhere in a listing (Loose);          *)
(*   skip           the calls the function moves on by when it is there;   *)
(*   doubt          what a look-up that fails is taken for;                *)
(*   needs, taken   what the server refuses the call without, and whether  *)
(*                  it refuses one that is there already;                  *)
(*   fails          what the function does about a failure: die(), an      *)
(*                  exception, a warning, a warning and return, nothing.   *)
(***************************************************************************)
EXTENDS Naturals, Sequences, FiniteSets, SequencesExt

CONSTANTS
    Plans,       \* configurations: the steps a lab definition asks for, in order,
                 \* what the server has of earlier ones, and of others with longer names
    MaxRuns,     \* bounds: runs of the installer,
    MaxFaults,   \* calls that fail, and processes killed,
    MaxVersion   \* and versions of the lab definition

ASSUME ServerConfigAssumption ==
    MaxRuns \in Nat /\ MaxFaults \in Nat /\ MaxVersion \in Nat \ {0}

(***************************************************************************)
(* Calls                                                                   *)
(***************************************************************************)
Return == 99   \* a skip past the last call of any function

\* An object that is created unless a list of the server has it.
Make(x, N) == [thing |-> x, does |-> "make", look |-> "exists", skip |-> 1, doubt |-> "missing",
               needs |-> N, taken |-> TRUE, fails |-> "die"]
\* A part that is added when it is missing: adding it again does no harm.
Add(x, N) == [Make(x, N) EXCEPT !.taken = FALSE]
\* A value that is set on every pass.
Set(x, N) == [Add(x, N) EXCEPT !.look = "none"]
\* A value that is set when it differs.
Keep(x, N) == [Add(x, N) EXCEPT !.look = "same"]
\* One that is removed and made again when it differs.
Replace(x, N) == [Keep(x, N) EXCEPT !.does = "replace"]
\* An early return: n calls are passed over when x is there.
Check(x, n) == [Make(x, {}) EXCEPT !.does = "check", !.skip = n, !.taken = FALSE]
\* The same when x is not there, or cannot be looked up.
Unless(x, n) == [Check(x, n) EXCEPT !.look = "gone", !.doubt = "there"]
\* What the function cannot do without.
Require(N) == [Set("nothing", N) EXCEPT !.does = "require"]
\* ~/.spacecmd/config is written for the administrator of an organization.
Login(o) == [Set(o, {}) EXCEPT !.does = "login"]

Leaving(c)  == [c EXCEPT !.skip = Return]       \* "already exists, leaving it alone"
Warning(c)  == [c EXCEPT !.fails = "warn"]      \* warn(), and on
Quitting(c) == [c EXCEPT !.fails = "return"]    \* warn(), and return
Ignoring(c) == [c EXCEPT !.fails = "ignore"]    \* the result is not looked at
Raising(c)  == [c EXCEPT !.fails = "raise"]     \* ssh_run(check=True): RuntimeError

\* `name in stdout`: another object whose name contains this one is taken for it.
Loose == {"channel", "config channel", "group", "group systems", "key", "access group", "permissions", "user role",
          "trust", "ansible path", "project", "source", "filter of project", "environment", "scan", "info key",
          "host manager", "accepted key", "maintenance schedule", "chain", "custom channel", "package", "erratum",
          "package profile"}

(***************************************************************************)
(* The steps: a sequence of functions, each a sequence of calls            *)
(***************************************************************************)
ChannelsSync == << <<Add("channel", {})>> >>

\* MUTANT of ConfigChannels: the files of a channel that exists are left alone.
ConfigChannelsOnce ==
    << <<Leaving(Make("config channel", {})), Keep("init.sls", {"config channel"}),
         Keep("config file", {"config channel"})>> >>

ConfigChannels ==
    << <<Make("config channel", {}), Keep("init.sls", {"config channel"}),
         Keep("config file", {"config channel"})>> >>

\* The directory is replaced; the stamp that says so is written last.
SaltStates == << <<Raising(Replace("salt state", {}))>> >>

Monitoring == << <<Leaving(Make("monitoring", {})), Raising(Set("exporters", {"monitoring"}))>> >>

SystemGroups ==
    << <<Make("group", {}), Warning(Add("group systems", {"group", "system"}))>> >>

Snippets == << <<Keep("snippet", {})>> >>

Distributions ==
    << <<Check("distribution", 3), Warning(Add("install tree", {})),
         Quitting([Make("distribution", {"install tree", "channel"}) EXCEPT !.look = "none"]),
         [Warning(Keep("kernel options", {"distribution"})) EXCEPT !.doubt = "return"]>> >>

AgamaProfile == << <<Quitting(Replace("agama profile", {"distribution"}))>> >>

KickstartProfiles ==
    << <<Quitting(Make("profile", {"distribution"})),
         Warning(Keep("profile variables", {"profile"})),
         Warning(Add("profile keys", {"profile", "key"})),
         Warning(Add("profile channels", {"profile", "channel"})),
         Warning(Replace("profile scripts", {"profile"}))>> >> \o AgamaProfile

ImageStores   == << <<Make("image store", {})>> >>
ImageProfiles == << <<Make("image profile", {})>> >>

BuildHosts ==
    << <<Set("build host", {"system"}), Set("build host state", {"system"})>> >>

\* resolve_activation_key_name(): when the list of keys cannot be had, the calls that follow are for a
\* key that is not there, which the function dies of or returns from with a warning.
ResolveKey(d) == [Check("key", 1) EXCEPT !.doubt = d]

\* The follow-ups of a key are applied when it is created, and not again.
ActivationKey ==
    << <<Leaving(Make("key", {"channel"})), ResolveKey("return"), Warning(Add("key channels", {"key", "channel"})),
         Ignoring(Set("key config", {"key", "config channel"})), Ignoring(Set("key deployment", {"key"})),
         Ignoring(Set("key groups", {"key", "group"})), Ignoring(Set("key contact", {"key"}))>> >>

\* MUTANT of AppStreams: it does not.
AppStreamsRefused == << <<ResolveKey("die"), [Set("key streams", {"key"}) EXCEPT !.taken = TRUE]>> >>

\* A duplicate-stream fault counts as success.
AppStreams == << <<ResolveKey("die"), Set("key streams", {"key"})>> >>

KeyPackages == << <<ResolveKey("die"), Add("key packages", {"key"})>> >>
KeyGroups   == << <<ResolveKey("die"), Add("key groups", {"key", "group"})>> >>
KeyChannels == << <<ResolveKey("return"), Warning(Add("key channels", {"key", "channel"}))>> >>

ActivationKeys == ActivationKey \o AppStreams \o KeyPackages \o KeyGroups \o KeyChannels

UserRole == Warning(Add("user role", {"user"}))
Users == << <<Make("user", {}), UserRole>> >>

AccessGroup == <<Make("access group", {}), Add("permissions", {"access group"})>>
AccessGroups == <<AccessGroup>>
\* A group with users: the server has no way to give a user a custom group, and that call always warns.
AccessGroupsOfUsers ==
    <<AccessGroup \o <<[UserRole EXCEPT !.thing = "group member", !.needs = {"user", "assignable role"}]>> >>

AnsibleControlNode ==
    << <<Set("control node", {"system"}), Set("control node state", {"system"})>> >>

AnsiblePaths ==
    << <<Add("ansible path", {"system"}),
         [Set("default path", {"system"}) EXCEPT !.does = "drop"]>> >>

AnsiblePlaybooks == << <<Set("playbook run", {"system", "control node", "ansible path"})>> >>

McpServer ==
    << <<Set("mcp env", {}), [Replace("mcp container", {}) EXCEPT !.look = "none"]>> >>

\* A filter is looked for among the project's, and created among all.
ContentFilter ==
    << <<Check("filter of project", Return),
         [Make("filter", {}) EXCEPT !.look = "none"],
         Set("filter of project", {"filter", "project"})>> >>

ContentProjects ==
    << <<Make("project", {}), Add("source", {"project", "channel"})>> >> \o ContentFilter \o
    << <<Make("environment", {"project"})>> >>

LifecycleActions == << <<Set("build", {"project", "environment"})>> >>

ScapScans == << <<Warning(Add("openscap", {"system"})), Add("scan", {"system"})>> >>

\* The policies are listed before any is created; a list that fails is fatal.
ScapPolicies ==
    << <<Set("web session", {}), [Make("policy", {"web session"}) EXCEPT !.doubt = "die"]>> >>

CustomInfoKeys == << <<Make("info key", {})>> >>
SystemTags     == << <<Set("tag", {"system", "info key"})>> >>
CustomValues   == << <<Keep("custom value", {"system", "info key"})>> >>

RecurringActions == << <<Make("recurring action", {"system"})>> >>

HostManagers == << <<Make("host manager", {})>> >>

GrafanaFormula ==
    << <<Set("formula", {"system"}), Set("formula data", {"system", "formula"})>> >>

Environments == KeyGroups \o << <<Unless("group systems", Return), Set("tag", {"info key"})>> >>

EnvironmentSchedules == << <<Require({"group"}), Make("recurring action", {"group"})>> >>

\* The salt key of a client: it is accepted once the bootstrap of the client has
\* made it pending, if need be by way of an older client's TLS, unless the
\* server accepts it first.
HostsLine == Ignoring(Set("hosts line", {}))
LegacyBootstrap == Add("pending key", {"bootstrap script", "channel"})
AcceptKey == Set("accepted key", {"pending key"})

ClientRegistration ==
    << <<Require({"synced"})>>,
       <<Check("accepted key", Return), HostsLine, Set("bootstrap script", {"key"}),
         Set("bootstrap", {"bootstrap script"}), Ignoring(Set("pending key", {"bootstrap"})),
         LegacyBootstrap, Check("accepted key", Return), AcceptKey>> >>

MaintenanceCalendars == << <<Keep("calendar", {})>> >>

MaintenanceSchedules ==
    << <<Make("maintenance schedule", {"calendar"}),
         Set("maintained systems", {"system", "maintenance schedule"})>> >>

ActionChains == << <<Leaving(Make("chain", {})), Set("chain actions", {"chain", "system"})>> >>

CustomChannels ==
    << <<Make("custom channel", {}), Check("package", Return), Quitting(Add("rhnpush", {})),
         Set("package", {"custom channel", "rhnpush"})>> >>

\* rhn.conf is read when tomcat starts, and tomcat is restarted when rhn.conf changes.
Patches ==
    << <<Leaving(Add("allow list", {})), Warning(Set("tomcat restart", {}))>>,
       <<Make("erratum", {"custom channel", "tomcat restart"})>> >>

SystemProfiles == << <<Make("package profile", {"system"})>> >>

\* MUTANT of Organizations: the default administrator fills the organization in.
OrganizationsDefault ==
    << <<Login("default"), Make("organization", {}), Add("trust", {"organization"}),
         Keep("channel sharing", {"channel"})>> >>
    \o ConfigChannels \o SystemGroups \o ActivationKey \o AppStreams \o KeyPackages
    \o Users \o AccessGroups \o << <<Login("default")>> >>

\* An organization is made by the default administrator, and filled in by its own.
Organizations ==
    << <<Login("default"), Make("organization", {}), Add("trust", {"organization"}),
         Login("tenant"), Keep("channel sharing", {"channel"})>> >>
    \o ConfigChannels \o SystemGroups \o ActivationKey \o AppStreams \o KeyPackages
    \o Users \o AccessGroups \o << <<Login("default")>> >>

\* A system that cannot be looked up is taken to be there already.
OrgTransfers ==
    << <<Require({"organization"}), Unless("system", Return),
         [Set("system", {"system", "trust"}) EXCEPT !.does = "move"]>> >>

Podman == Add("podman", {})
TlsCertificate == Add("tls certificate", {})
Keycloak ==
    << <<Podman, Check("keycloak", Return), TlsCertificate, Set("keycloak", {"podman", "tls certificate"})>> >>

KeycloakRealm == Make("realm", {"keycloak"})
KeycloakClient ==
    << <<KeycloakRealm, Make("saml client", {"realm"}), Keep("logout url", {"saml client"}),
         Add("uid mapper", {"saml client"})>> >>

KeycloakUser == << <<Leaving(Make("keycloak user", {"realm"})), Set("password", {"keycloak user"})>> >>

SingleSignOn ==
    Keycloak \o KeycloakClient \o KeycloakUser \o
    << <<Leaving(Keep("sso settings", {"realm"})), Warning(Set("server restart", {}))>> >>

VirtualGuests ==
    << <<Set("virtualization host", {"system"}),
         Set("guest", {"system", "profile"})>> >>

ImageImports == << <<Set("image import", {"system", "image store", "build host"})>> >>
ImageBuilds  == << <<Set("image build", {"system", "image profile", "build host"})>> >>

Program ==
    [channels_sync |-> ChannelsSync, config_channels |-> ConfigChannels, salt_states |-> SaltStates,
     monitoring |-> Monitoring, system_groups |-> SystemGroups, snippets |-> Snippets,
     distributions |-> Distributions, image_stores |-> ImageStores, image_profiles |-> ImageProfiles,
     image_build_hosts |-> BuildHosts, activation_key |-> ActivationKey, appstreams |-> AppStreams,
     key_packages |-> KeyPackages, activation_keys |-> ActivationKeys,
     kickstart_profiles |-> KickstartProfiles, users |-> Users, access_groups |-> AccessGroups,
     access_groups_of_users |-> AccessGroupsOfUsers,
     ansible_control_node |-> AnsibleControlNode, ansible_paths |-> AnsiblePaths,
     content_projects |-> ContentProjects, custom_info_keys |-> CustomInfoKeys,
     custom_values |-> CustomValues, system_tags |-> SystemTags, environments |-> Environments,
     grafana_formula |-> GrafanaFormula, host_managers |-> HostManagers, mcp_server |-> McpServer,
     custom_channels |-> CustomChannels, patches |-> Patches, recurring_actions |-> RecurringActions,
     maintenance_calendars |-> MaintenanceCalendars, maintenance_schedules |-> MaintenanceSchedules,
     action_chains |-> ActionChains, system_profiles |-> SystemProfiles,
     organizations |-> Organizations, org_transfers |-> OrgTransfers,
     client_registration |-> ClientRegistration, lifecycle_actions |-> LifecycleActions,
     scap_scans |-> ScapScans, scap_policies |-> ScapPolicies, sso |-> SingleSignOn,
     virtual_guests |-> VirtualGuests, image_imports |-> ImageImports, image_builds |-> ImageBuilds,
     ansible_playbooks |-> AnsiblePlaybooks, environment_schedules |-> EnvironmentSchedules]

\* Steps that a flag of the installer runs, outside run_provisioning_step().
Explicit == {"lifecycle_actions", "scap_scans", "scap_policies", "sso", "virtual_guests",
             "image_imports", "image_builds", "ansible_playbooks", "environment_schedules"}
\* Steps that are tried again before they are handed off; the bound stands for 3 and 10.
Tries(s) == IF s \in {"activation_key", "activation_keys", "kickstart_profiles",
                      "ansible_control_node", "ansible_paths", "organizations"} THEN 2 ELSE 1

(***************************************************************************)
(* Processes: the installer ("main") and a worker for each step            *)
(***************************************************************************)
VARIABLES
    plan, want,     \* the lab definition: its steps and its version
    have,           \* what the server has: <<organization, thing, version>>
    alike,          \* things of which an organization has another whose name contains theirs
    session,        \* whose administrator ~/.spacecmd/config is for
    proc,           \* each process
    runs, faults,   \* the bounds
    done,           \* per step: the version its last attempt to end left without a complaint, or 0
    cut,            \* steps of which some attempt complained, failed or was killed
    mixed,          \* steps a run came to while a worker had them
    torn,           \* an organization's session was interrupted or shared
    mistaken,       \* steps of which some attempt took another thing for one that is not there
    killed          \* some process was killed, or died before it began

vars == <<plan, want, have, alike, mistaken, session, proc, runs, faults, done, cut, mixed, torn, killed>>

Orgs == {"default", "tenant"}
Vendor == {"channel", "synced"}      \* what belongs to no organization
Late == {"system", "synced"}         \* what comes about by itself
Version(o, x) ==
    LET org == IF x \in Vendor THEN "default" ELSE o
        vs  == {e[3] : e \in {k \in have : k[1] = org /\ k[2] = x}}
    IN  IF vs = {} THEN 0 ELSE CHOOSE v \in vs : TRUE
Without(o, x) == {e \in have : ~(e[1] = (IF x \in Vendor THEN "default" ELSE o) /\ e[2] = x)}
With(o, x, v) == Without(o, x) \cup {<<IF x \in Vendor THEN "default" ELSE o, x, v>>}

Procs == {"main"} \cup Range(plan)
Off == [phase |-> "off", n |-> 1, b |-> 1, c |-> 1, want |-> 0, warned |-> FALSE, tries |-> 1]
Step(p) == IF p = "main" THEN plan[proc[p].n] ELSE p
Busy(p) == proc[p].phase \notin {"off", "boot"}
Ended(p) == proc[p].b > Len(Program[Step(p)])
Call(p) == Program[Step(p)][proc[p].b][proc[p].c]
InTenant(p) == Busy(p) /\ Step(p) = "organizations" /\ session = "tenant"
Shared(p) == \E q \in Procs \ {p} : InTenant(q)
Here(x) == Version(session, x)

\* Process p moves on by n calls of the function, or to the next function.
Moved(p, n, w) ==
    LET pr == proc[p]
        in == pr.c + n <= Len(Program[Step(p)][pr.b])
    IN  [proc EXCEPT ![p] = [pr EXCEPT !.phase = "look", !.warned = @ \/ w,
                                       !.b = IF in THEN @ ELSE @ + 1, !.c = IF in THEN @ + n ELSE 1]]
Phase(p, ph) == proc' = [proc EXCEPT ![p].phase = ph]

Init ==
    /\ \E P \in Plans : /\ plan = P.steps /\ have = {<<"default", x, 1>> : x \in P.has}
                        /\ alike = {"default"} \X P.alike
    /\ want = 1
    /\ session = "default"
    /\ proc = [p \in Procs |-> Off]
    /\ runs = 0 /\ faults = 0
    /\ done = [s \in Range(plan) |-> 0] /\ cut = {} /\ mixed = {}
    /\ mistaken = {} /\ torn = FALSE /\ killed = FALSE

\* Step n of the plan, if a worker of an earlier run still has it.
Overlap(n) == {s \in {plan[n]} : proc[s].phase # "off"}

\* The installer writes the session of the default administrator, and begins.
StartRun ==
    /\ proc["main"].phase = "off" /\ runs < MaxRuns
    /\ runs' = runs + 1
    /\ session' = "default"
    /\ torn' = (torn \/ Shared("main"))
    /\ proc' = [proc EXCEPT !["main"] = [Off EXCEPT !.phase = "look", !.want = want]]
    /\ mixed' = mixed \cup Overlap(1)
    /\ UNCHANGED <<plan, alike, want, have, faults, done, cut, killed, mistaken>>

\* So does a worker, with the definition as it is when the worker starts.
WorkerBoots(p) ==
    /\ proc[p].phase = "boot"
    /\ session' = "default"
    /\ torn' = (torn \/ Shared(p))
    /\ proc' = [proc EXCEPT ![p] = [Off EXCEPT !.phase = "look", !.want = want]]
    /\ UNCHANGED <<plan, alike, want, have, runs, faults, done, cut, mixed, killed, mistaken>>

\* ensure_spacecmd_config() dies, before the worker's loop.
WorkerDies(p) ==
    /\ proc[p].phase = "boot" /\ faults < MaxFaults /\ faults' = faults + 1
    /\ proc' = [proc EXCEPT ![p] = Off] /\ killed' = TRUE
    /\ UNCHANGED <<plan, alike, want, have, session, runs, done, cut, mixed, torn, mistaken>>

Alike(c) == c.look = "exists" /\ c.thing \in Loose /\ <<session, c.thing>> \in alike
Mistaken(c) == Alike(c) /\ Here(c.thing) = 0
Found(p, c) ==
    CASE c.look = "exists" -> Here(c.thing) # 0 \/ Alike(c)
      [] c.look = "same"   -> Here(c.thing) = proc[p].want
      [] c.look = "gone"   -> Here(c.thing) = 0
      [] c.look = "none"   -> FALSE

\* The look-up of a call, in the organization of the session.
Look(p) ==
    /\ proc[p].phase = "look" /\ ~Ended(p)
    /\ LET c == Call(p) IN
       \/ Found(p, c) /\ proc' = Moved(p, c.skip, FALSE)
       \/ ~Found(p, c) /\ c.does = "check" /\ proc' = Moved(p, 1, FALSE)
       \/ ~Found(p, c) /\ c.does # "check" /\ Phase(p, "make")
    /\ torn' = (torn \/ Shared(p))
    /\ mistaken' = mistaken \cup {s \in {Step(p)} : Mistaken(Call(p))}
    /\ UNCHANGED <<plan, alike, want, have, session, runs, faults, done, cut, mixed, killed>>

\* A look-up that fails, or prints nothing.
LookFails(p) ==
    /\ proc[p].phase = "look" /\ ~Ended(p) /\ faults < MaxFaults
    /\ faults' = faults + 1
    /\ LET c == Call(p) IN
       /\ c.look # "none"
       /\ \/ c.doubt = "die" /\ Phase(p, "failed")
          \/ c.doubt = "return" /\ proc' = Moved(p, Return, TRUE)
          \/ c.doubt = "there" /\ proc' = Moved(p, c.skip, FALSE)
          \/ c.doubt = "missing" /\ c.does = "check" /\ proc' = Moved(p, 1, FALSE)
          \/ c.doubt = "missing" /\ c.does # "check" /\ Phase(p, "make")
    /\ cut' = cut \cup {Step(p)}
    /\ UNCHANGED <<plan, alike, want, have, session, runs, done, mixed, torn, killed, mistaken>>

Able(c) == /\ \A x \in c.needs : Here(x) # 0
           /\ c.taken => Here(c.thing) = 0

\* What the server does for a call of a process whose definition has version v.
Effect(c, v) ==
    /\ have' = CASE c.does \in {"make", "replace"} -> With(session, c.thing, v)
                 [] c.does = "drop" -> Without(session, c.thing)
                 [] c.does = "move" -> Without(session, c.thing) \cup {<<"tenant", c.thing, Here(c.thing)>>}
                 [] OTHER -> have
    /\ session' = IF c.does = "login" THEN c.thing ELSE session

Replacing(c) == c.does = "replace" /\ Here(c.thing) # 0

Does(p) ==
    /\ proc[p].phase = "make"
    /\ LET c == Call(p) IN
       /\ Able(c)
       /\ IF Replacing(c) THEN have' = Without(session, c.thing) /\ UNCHANGED <<proc, session>>
                          ELSE Effect(c, proc[p].want) /\ proc' = Moved(p, 1, FALSE)
    /\ torn' = (torn \/ Shared(p))
    /\ UNCHANGED <<plan, alike, want, runs, faults, done, cut, mixed, killed, mistaken>>

\* The function reads a failure.
Failure(p, c) ==
    \/ c.fails = "die"    /\ Phase(p, "failed")
    \/ c.fails = "raise"  /\ Phase(p, "raised")
    \/ c.fails = "warn"   /\ proc' = Moved(p, 1, TRUE)
    \/ c.fails = "return" /\ proc' = Moved(p, Return, TRUE)
    \/ c.fails = "ignore" /\ proc' = Moved(p, 1, FALSE)

\* The server refuses the call.
Refused(p) ==
    /\ proc[p].phase = "make" /\ ~Able(Call(p))
    /\ Failure(p, Call(p))
    /\ cut' = cut \cup {Step(p)}
    /\ UNCHANGED <<plan, alike, want, have, session, runs, faults, done, mixed, torn, killed, mistaken>>

\* The call fails, before or after the server has done its part.
Lost(p) ==
    /\ proc[p].phase = "make" /\ faults < MaxFaults
    /\ faults' = faults + 1
    /\ \/ UNCHANGED <<have, session>>
       \/ Able(Call(p)) /\ ~Replacing(Call(p)) /\ Effect(Call(p), proc[p].want)
    /\ Failure(p, Call(p))
    /\ cut' = cut \cup {Step(p)}
    /\ torn' = (torn \/ InTenant(p))
    /\ UNCHANGED <<plan, alike, want, runs, done, mixed, killed, mistaken>>

(***************************************************************************)
(* run_provisioning_step() and run_forever_retry_worker()                  *)
(***************************************************************************)
\* The installer goes on with step n of the plan, or ends.
NextStep(n, pr) ==
    /\ proc' = [pr EXCEPT !["main"] = IF n > Len(plan) THEN Off
                                      ELSE [Off EXCEPT !.phase = "look", !.n = n, !.want = proc["main"].want]]
    /\ mixed' = IF n > Len(plan) THEN mixed ELSE mixed \cup Overlap(n)

StepEnds(p) ==
    /\ proc[p].phase = "look" /\ Ended(p)
    /\ done' = [done EXCEPT ![Step(p)] = IF proc[p].warned THEN 0 ELSE proc[p].want]
    /\ cut' = IF proc[p].warned THEN cut \cup {Step(p)} ELSE cut
    /\ IF p = "main" THEN NextStep(proc[p].n + 1, proc)
                     ELSE proc' = [proc EXCEPT ![p] = Off] /\ UNCHANGED mixed
    /\ UNCHANGED <<plan, alike, want, have, session, runs, faults, torn, killed, mistaken>>

\* A step that failed is tried again, handed to a worker unless it has one,
\* or, outside run_provisioning_step(), the end of the run.
StepFailed ==
    /\ proc["main"].phase = "failed"
    /\ LET pr == proc["main"]
           s  == Step("main")
           again == [pr EXCEPT !.phase = "look", !.b = 1, !.c = 1, !.warned = FALSE, !.tries = @ + 1]
       IN \/ /\ s \in Explicit
             /\ proc' = [proc EXCEPT !["main"] = Off] /\ UNCHANGED mixed
          \/ /\ s \notin Explicit /\ pr.tries < Tries(s)
             /\ proc' = [proc EXCEPT !["main"] = again] /\ UNCHANGED mixed
          \/ /\ s \notin Explicit /\ pr.tries >= Tries(s)
             /\ NextStep(pr.n + 1, IF proc[s].phase = "off" THEN [proc EXCEPT ![s].phase = "boot"] ELSE proc)
    /\ done' = [done EXCEPT ![Step("main")] = 0]
    /\ torn' = (torn \/ InTenant("main"))
    /\ UNCHANGED <<plan, alike, want, have, session, runs, faults, cut, killed, mistaken>>

\* Only SystemExit is caught: any other exception is the end of the run.
RunRaises ==
    /\ proc["main"].phase = "raised"
    /\ proc' = [proc EXCEPT !["main"] = Off]
    /\ done' = [done EXCEPT ![Step("main")] = 0]
    /\ UNCHANGED <<plan, alike, want, have, session, runs, faults, cut, mixed, torn, killed, mistaken>>

\* A worker catches everything and begins again.
WorkerRetries(p) ==
    /\ p # "main" /\ proc[p].phase \in {"failed", "raised"}
    /\ proc' = [proc EXCEPT ![p] = [Off EXCEPT !.phase = "look", !.want = proc[p].want]]
    /\ done' = [done EXCEPT ![p] = 0]
    /\ torn' = (torn \/ InTenant(p))
    /\ UNCHANGED <<plan, alike, want, have, session, runs, faults, cut, mixed, killed, mistaken>>

(***************************************************************************)
(* The environment                                                         *)
(***************************************************************************)
Killed(p) ==
    /\ Busy(p) /\ faults < MaxFaults
    /\ faults' = faults + 1
    /\ proc' = [proc EXCEPT ![p] = Off]
    /\ done' = [done EXCEPT ![Step(p)] = 0]
    /\ cut' = cut \cup {Step(p)}
    /\ torn' = (torn \/ InTenant(p))
    /\ killed' = TRUE
    /\ UNCHANGED <<plan, alike, want, have, session, runs, mixed, mistaken>>

\* A client registers, a channel finishes its synchronisation.
Arrives(x) ==
    /\ x = "synced" => Version("default", "channel") # 0
    /\ x \notin {e[2] : e \in have}
    /\ have' = With("default", x, 1)
    /\ UNCHANGED <<plan, alike, want, session, proc, runs, faults, done, cut, mixed, torn, killed, mistaken>>

\* The lab definition is edited.
Edited ==
    /\ proc["main"].phase = "off" /\ want < MaxVersion /\ runs > 0
    /\ want' = want + 1
    /\ UNCHANGED <<plan, alike, have, session, proc, runs, faults, done, cut, mixed, torn, killed, mistaken>>

Goes(p) == WorkerBoots(p) \/ Look(p) \/ Does(p) \/ Refused(p) \/ StepEnds(p) \/ WorkerRetries(p)
Main == StepFailed \/ RunRaises

Next ==
    \/ StartRun \/ Main \/ Edited
    \/ \E p \in Procs : Goes(p) \/ LookFails(p) \/ Lost(p) \/ Killed(p) \/ WorkerDies(p)
    \/ \E x \in Late : Arrives(x)

Spec == Init /\ [][Next]_vars

Longest == Max({Len(P.steps) : P \in Plans})
WorkerOf(i) == i <= Len(plan) /\ Goes(plan[i])

\* A process that can go on does, and what is late comes.
Fairness ==
    /\ WF_vars(Goes("main") \/ Main)
    /\ \A i \in 1..Longest : WF_vars(WorkerOf(i))
    /\ \A x \in Late : WF_vars(Arrives(x))

FairSpec == Spec /\ Fairness

(***************************************************************************)
(* Properties                                                              *)
(***************************************************************************)
Calls(s) == UNION {Range(F) : F \in Range(Program[s])}
Things == (UNION {{c.thing : c \in Calls(s)} : s \in DOMAIN Program}) \cup Late

TypeOK ==
    /\ plan \in {P.steps : P \in Plans} /\ want \in 1..MaxVersion
    /\ have \subseteq Orgs \X Things \X (1..MaxVersion)
    /\ \A d, e \in have : d[1] = e[1] /\ d[2] = e[2] => d = e
    /\ session \in Orgs
    /\ \A p \in Procs : /\ proc[p].phase \in {"off", "boot", "look", "make", "failed", "raised"}
                        /\ proc[p].n \in 1..Len(plan)
                        /\ proc[p].want \in 0..MaxVersion
    /\ done \in [Range(plan) -> 0..MaxVersion]
    /\ cut \cup mixed \cup mistaken \subseteq Range(plan) /\ alike \subseteq Orgs \X Things

\* What the docstrings of the steps promise of the server once they return: what
\* is there, and (Followed) what has the content of the definition.
Ensured ==
    [channels_sync |-> {"channel"}, config_channels |-> {"config channel", "init.sls", "config file"},
     salt_states |-> {"salt state"}, monitoring |-> {"monitoring"}, system_groups |-> {"group"},
     snippets |-> {"snippet"}, distributions |-> {"distribution"},
     kickstart_profiles |-> {"profile", "agama profile", "profile keys", "profile scripts"},
     image_stores |-> {"image store"}, image_profiles |-> {"image profile"},
     image_build_hosts |-> {"build host", "build host state"}, activation_key |-> {"key"},
     appstreams |-> {"key streams"}, key_packages |-> {"key packages"},
     activation_keys |-> {"key", "key streams", "key packages", "key groups", "key channels"},
     users |-> {"user", "user role"}, access_groups |-> {"access group", "permissions"},
     access_groups_of_users |-> {},
     ansible_control_node |-> {"control node", "control node state"}, ansible_paths |-> {"ansible path"},
     content_projects |-> {"project", "source", "filter of project", "environment"},
     custom_info_keys |-> {"info key"}, custom_values |-> {"custom value"}, system_tags |-> {"tag"},
     environments |-> {"key groups"}, grafana_formula |-> {"formula", "formula data"},
     host_managers |-> {"host manager"}, mcp_server |-> {"mcp env", "mcp container"},
     custom_channels |-> {"custom channel", "package"}, patches |-> {"erratum"},
     recurring_actions |-> {"recurring action"}, maintenance_calendars |-> {"calendar"},
     maintenance_schedules |-> {"maintenance schedule", "maintained systems"},
     action_chains |-> {"chain"}, system_profiles |-> {"package profile"},
     organizations |-> {"organization", "trust", "channel sharing", "config channel", "config file",
                        "group", "key", "key streams", "key packages", "user", "user role",
                        "access group", "permissions"},
     org_transfers |-> {}, client_registration |-> {"accepted key"}, lifecycle_actions |-> {"build"},
     scap_scans |-> {"scan"}, scap_policies |-> {"policy"},
     sso |-> {"keycloak", "realm", "saml client", "logout url", "uid mapper", "keycloak user", "sso settings"},
     virtual_guests |-> {"virtualization host", "guest"}, image_imports |-> {"image import"},
     image_builds |-> {"image build"}, ansible_playbooks |-> {"playbook run"},
     environment_schedules |-> {"recurring action"}]
Followed == {"init.sls", "config file", "salt state", "snippet", "agama profile", "profile scripts",
             "calendar", "custom value", "channel sharing", "mcp env", "sso settings"}
\* The calls of a step that only an earlier creation keeps it from.
Reported(s) ==
    LET Whole == {F \in Range(Program[s]) : \A c \in Range(F) : c.look # "gone"}
    IN  {c \in UNION {Range(F) : F \in Whole} : c.does \in {"make", "replace"} /\ c.fails # "ignore"}
Quiet(s) == \A p \in Procs : ~(Busy(p) /\ Step(p) = s)
OrgOf(s, x) == IF s = "organizations" /\ x \notin {"organization", "trust"} THEN "tenant" ELSE "default"

\* run_provisioning_step(): a step whose last attempt ended without a complaint
\* has left on the server everything it promises, and with the content of the
\* definition where it promises that (unless a worker with an older
\* definition was at it too), however earlier attempts ended, except a step that took another
\* thing, whose name contains the one it looked for, for that one;
\* if no attempt was cut short, it has left what follows a creation too; and a
\* thing has one version at a time (TypeOK).
OkApplied == TypeOK /\
    (~torn => \A s \in Range(plan) \ mistaken : done[s] # 0 /\ Quiet(s) =>
      /\ \A x \in Ensured[s] : /\ Version(OrgOf(s, x), x) # 0
                                /\ x \in Followed /\ s \notin mixed => Version(OrgOf(s, x), x) = done[s]
      /\ s \notin cut => \A c \in Reported(s) : Version(OrgOf(s, c.thing), c.thing) # 0)

\* ensure_orgs(): what an organization's session makes belongs to it, and what
\* any other step makes belongs to the default one, as long as the step is not
\* interrupted and no other process uses the session meanwhile.
OwnOrganization ==
    LET tenant == {c.thing : c \in Calls("organizations")} \ {"organization", "trust"}
        others == UNION {{c.thing : c \in Calls(s)} : s \in Range(plan) \ {"organizations"}}
    IN  "organizations" \in Range(plan) /\ ~torn => \A e \in have :
          /\ e[1] = "tenant"  => e[2] \in tenant \cup {"system"}
          /\ e[1] = "default" => e[2] \notin tenant \ (others \cup Vendor)

\* run_forever_retry_worker(): a step that was handed to a worker is done in the
\* end, unless a process was killed, the session was torn or another thing was taken for one
\* that is needed.  The two steps left out can be stuck: see the README.
Pending(i) == /\ i <= Len(plan) /\ plan[i] \notin {"patches", "content_projects"}
              /\ proc[plan[i]].phase # "off"
Settles == \A i \in 1..Longest : Pending(i) ~> (torn \/ killed \/ mistaken # {} \/ ~Pending(i))
=============================================================================
