----------------------------- MODULE MCSetupLab -----------------------------
(***************************************************************************)
(* Small labs for SetupLab.  Each .cfg picks the definitions of one lab    *)
(* below as the values of SetupLab's constants.                            *)
(***************************************************************************)
EXTENDS SetupLab, TLC

CONSTANTS n1, n2, n3, c1, c2, svc, app, none

NoCreators == [c \in {} |-> n1]

\* Two clusters of one node each that list the same add-on, the first twice
\* and with a service of its own.
TwoKCluster   == n1 :> c1 @@ n2 :> c2
TwoTypes      == c1 :> "k3s" @@ c2 :> "k3s"
TwoServices   == c1 :> <<svc>> @@ c2 :> <<>>
TwoAddons     == c1 :> <<app, app>> @@ c2 :> <<app>>
TwoNodeAddons == n1 :> <<app>> @@ n2 :> <<>>

\* A Harvester cluster of two nodes, and a host the tool does not own.
PoolKCluster   == n1 :> c1 @@ n2 :> c1 @@ n3 :> none
PoolNodeAddons == n1 :> <<>> @@ n2 :> <<>> @@ n3 :> <<app>>
OneHarvester   == c1 :> "harvester"
OneCreator     == c1 :> n1
OneServices    == c1 :> <<>>
=============================================================================
