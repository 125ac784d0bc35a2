--------------------------- MODULE MachineRegistry ---------------------------
(***************************************************************************)
(* What a compute backend promises the lab (class VMBackend of             *)
(* libs/backends.py, and its callers setup_vm.py and destroy_vm.py): a     *)
(* name has one machine at most, and the machine the lab is told of when a *)
(* node is provisioned is the one that has its name.                       *)
(***************************************************************************)
CONSTANTS Names,     \* the nodes
          Ids,       \* the machines there can be
          None       \* no machine

VARIABLES at,        \* the machines of each name
          told       \* the machine the lab was told of, or None

regvars == <<at, told>>

Init == at = [x \in Names |-> {}] /\ told = [x \in Names |-> None]

\* destroy_vm(): the name has no machine afterwards, and nobody is told of one.
Destroy(x) == /\ at' = [at EXCEPT ![x] = {}]
              /\ told' = [told EXCEPT ![x] = None]

\* create_vm(): a machine for a name that has none.  Which one is read off the state after,
\* so that Ids may be infinite.
Make(x) == /\ at[x] = {}
           /\ \E i \in at'[x] : /\ i \in Ids /\ \A y \in Names : i \notin at[y]
                                /\ at' = [at EXCEPT ![x] = {i}]
           /\ UNCHANGED told

\* provision_vm() comes to its end.
Tell(x) == /\ \E i \in at[x] : told' = [told EXCEPT ![x] = i]
           /\ UNCHANGED at

\* The next provisioning of the node begins.
Forget(x) == told' = [told EXCEPT ![x] = None] /\ UNCHANGED at

Next == \E x \in Names : Destroy(x) \/ Make(x) \/ Tell(x) \/ Forget(x)

Spec == Init /\ [][Next]_regvars

TypeOK == at \in [Names -> SUBSET Ids] /\ told \in [Names -> Ids \cup {None}]

\* A name has one machine at most, no two names share one, and what the lab was told is true.
OneMachine ==
    /\ \A x \in Names : \A i, j \in at[x] : i = j
    /\ \A x, y \in Names : x # y => at[x] \cap at[y] = {}
    /\ \A x \in Names : told[x] # None => told[x] \in at[x]
=============================================================================
