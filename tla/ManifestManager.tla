--------------------------- MODULE ManifestManager ---------------------------
(***************************************************************************)
(* What the interface ManifestManager (pkg/manifestmanager) promises: Sync *)
(* makes an Application's cluster hold what its repository holds, object   *)
(* by object and never anything else, and Clear removes it.  How often, in *)
(* which order and through which servers is left open.                     *)
(***************************************************************************)
EXTENDS Naturals

CONSTANTS Apps,
          Objs,      \* the objects that manifests may describe
          Contents,
          None,      \* no such object
          AutoSync   \* the Applications with Spec.SyncPolicy.AutoSync

VARIABLES repo,      \* per Application and object: what its repository holds
          live,      \* per Application and object: what its cluster holds
          forced,    \* the Applications with a forced Sync under way
          clearing,  \* the Applications with a Clear under way
          drifts     \* how many changes others have made in a cluster

vars == <<repo, live, forced, clearing, drifts>>

Deployment == [Apps -> [Objs -> Contents \cup {None}]]

Changed(a) == {o \in Objs : live'[a][o] # live[a][o]}

\* Commits to the repositories; calls that begin and end.
Commit == repo' \in Deployment /\ UNCHANGED <<live, forced, clearing, drifts>>

Call ==
    /\ forced' \subseteq Apps /\ clearing' \subseteq Apps
    /\ UNCHANGED <<repo, live, drifts>>

\* A step in the cluster of a alone.
InCluster(a) ==
    /\ live' \in Deployment
    /\ \A b \in Apps \ {a} : Changed(b) = {}
    /\ UNCHANGED <<repo, forced, clearing>>

\* Somebody else changes or deletes one deployed object.
Drift(a) ==
    /\ InCluster(a)
    /\ \E o \in Objs : live[a][o] # None /\ Changed(a) = {o}
    /\ drifts' = drifts + 1

\* By policy or by hand, objects become as the repository holds them.
Deploy(a) ==
    /\ InCluster(a)
    /\ a \in AutoSync \cup forced
    /\ \A o \in Changed(a) : live'[a][o] = repo[a][o]
    /\ UNCHANGED drifts

\* What the repository does not hold any more goes, whatever the policy is.
Prune(a) ==
    /\ InCluster(a)
    /\ \A o \in Changed(a) : live'[a][o] = None /\ repo[a][o] = None
    /\ UNCHANGED drifts

Clear(a) ==
    /\ InCluster(a)
    /\ a \in clearing
    /\ \A o \in Changed(a) : live'[a][o] = None
    /\ UNCHANGED drifts

Init ==
    /\ repo = [a \in Apps |-> [o \in Objs |-> None]]
    /\ live = repo
    /\ forced = {} /\ clearing = {} /\ drifts = 0

Next ==
    \/ Commit \/ Call
    \/ \E a \in Apps : Drift(a) \/ Deploy(a) \/ Prune(a) \/ Clear(a)

Spec == Init /\ [][Next]_vars
=============================================================================
