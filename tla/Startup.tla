------------------------------- MODULE Startup -------------------------------
(***************************************************************************)
(* cmd/provider/main.go and internal/controller/growthbook.go: how a process *)
(* of the provider starts its controllers.  It asks whether it may watch     *)
(* CRDs; if so, a controller of a managed resource waits at a gate for its   *)
(* CRD (safe start), if not, all start at once.  A controller whose informer *)
(* does not sync in time ends the process, which is started again.           *)
(***************************************************************************)
EXTENDS Naturals, Sequences

CONSTANTS ManagedKinds,  \* Project, Environment, Feature, SDKConnection
          ConfigKinds,   \* ProviderConfig, ClusterProviderConfig
          MaxDisruptions \* bound on crashes, failed reviews, lost permissions

VARIABLES
  granted,     \* what the service account may do with CRDs
  established, \* the CRDs that are established, by kind
  phase,       \* "down", "review" or "running"
  reviewed,    \* how many verbs were found to be allowed
  safeStart,   \* what canWatchCRD answered
  registered,  \* kinds waiting at the gate
  starting,    \* controllers whose informer has not synced yet
  serving,     \* controllers at work
  withdrawn,   \* history: a permission was, since this process was started
  disruptions

cluster == <<granted, established>>
process == <<phase, reviewed, safeStart, registered, starting, serving>>
startupVars == <<cluster, process, withdrawn, disruptions>>

Kinds == ManagedKinds \cup ConfigKinds

(* The controller that opens the gate, and what its informer needs.          *)
Gate == "customresourcesgate"
Watching == {"list", "watch"}

(* A kind without a controller: those of the configs watch it besides their   *)
(* own.                                                                     *)
Usage == "ProviderConfigUsage"
CRDs == Kinds \cup {Usage}
ConfigCRDs == ConfigKinds \cup {Usage}

ASSUME KindsAssumption ==
  ManagedKinds \cap ConfigKinds = {} /\ {Gate, Usage} \cap Kinds = {}

ASSUME MaxDisruptionsAssumption == MaxDisruptions \in Nat

Verbs == <<"get", "list", "watch">>
AllVerbs == {"get", "list", "watch"}

(* Besides the types: a controller is in one place, and in none of a process *)
(* that is not running.                                                     *)
StartupTypeOK ==
  /\ granted \subseteq AllVerbs /\ established \subseteq CRDs
  /\ phase \in {"down", "review", "running"}
  /\ reviewed \in 0..Len(Verbs) /\ {safeStart, withdrawn} \subseteq BOOLEAN
  /\ registered \subseteq ManagedKinds
  /\ {starting, serving} \subseteq SUBSET (Kinds \cup {Gate})
  /\ registered \cap (starting \cup serving) = {} /\ starting \cap serving = {}
  /\ phase # "running" => registered \cup starting \cup serving = {}
  /\ disruptions \in 0..MaxDisruptions

StartupInit ==
  /\ granted \in SUBSET AllVerbs /\ established \in SUBSET CRDs
  /\ phase = "down" /\ reviewed = 0 /\ safeStart = FALSE
  /\ registered = {} /\ starting = {} /\ serving = {}
  /\ withdrawn = FALSE /\ disruptions = 0

Disrupt == disruptions < MaxDisruptions /\ disruptions' = disruptions + 1
-----------------------------------------------------------------------------
(* What is set up before the manager starts: controllers that start with it,  *)
(* and those that wait for their CRD.                                       *)

(* Mutated: the managed resources are set up as in Setup, too.               *)
NothingGated ==
  [controllers |-> ConfigKinds \cup ManagedKinds, gated |-> {}]

SetupGated == [controllers |-> ConfigKinds, gated |-> ManagedKinds]

(* Mutated: without safe start they are registered at a gate nobody opens.    *)
AlwaysGated == [controllers |-> ConfigKinds, gated |-> ManagedKinds]

Setup == [controllers |-> ConfigKinds \cup ManagedKinds, gated |-> {}]

(* customresourcesgate.Setup comes with SetupGated only.                     *)
Launch(safe) ==
  LET setup == IF safe THEN SetupGated ELSE Setup IN
  /\ phase' = "running" /\ safeStart' = safe
  /\ registered' = setup.gated
  /\ starting' = setup.controllers \cup IF safe THEN {Gate} ELSE {}
  /\ UNCHANGED <<reviewed, serving>>

Down ==
  /\ phase' = "down" /\ reviewed' = 0 /\ safeStart' = FALSE
  /\ registered' = {} /\ starting' = {} /\ serving' = {}

Boot ==
  /\ phase = "down" /\ phase' = "review" /\ withdrawn' = FALSE
  /\ UNCHANGED <<cluster, reviewed, safeStart, registered, starting, serving,
                 disruptions>>

(* Mutated: the first verb stands for all.                                  *)
ReviewFirstOnly ==
  /\ phase = "review" /\ Launch("get" \in granted)
  /\ UNCHANGED <<cluster, withdrawn, disruptions>>

(* One access review per verb: the first refusal settles it, and permissions *)
(* may change between two of them.                                          *)
canWatchCRD ==
  /\ phase = "review"
  /\ \/ reviewed = Len(Verbs) /\ Launch(TRUE)
     \/ /\ reviewed < Len(Verbs) /\ Verbs[reviewed + 1] \notin granted
        /\ Launch(FALSE)
     \/ /\ reviewed < Len(Verbs) /\ Verbs[reviewed + 1] \in granted
        /\ reviewed' = reviewed + 1
        /\ UNCHANGED <<phase, safeStart, registered, starting, serving>>
  /\ UNCHANGED <<cluster, withdrawn, disruptions>>

(* A review that is not answered is fatal, and so is any other failure.      *)
Fatal ==
  phase # "down" /\ Disrupt /\ Down /\ UNCHANGED <<cluster, withdrawn>>
-----------------------------------------------------------------------------
(* The running manager.                                                     *)

Watched(k) == IF k \in ConfigKinds THEN {k, Usage} ELSE {k}

Available(k) ==
  IF k = Gate THEN Watching \subseteq granted ELSE Watched(k) \subseteq established

Sync(k) ==
  /\ k \in starting /\ Available(k)
  /\ starting' = starting \ {k} /\ serving' = serving \cup {k}
  /\ UNCHANGED <<cluster, phase, reviewed, safeStart, registered, withdrawn,
                 disruptions>>

SyncTimeout(k) ==
  /\ k \in starting /\ ~Available(k) /\ Down
  /\ UNCHANGED <<cluster, withdrawn, disruptions>>

(* The gate's controller sees that a CRD is established and lets its kind     *)
(* through, once: the registered function sets the controller up.            *)
Release(k) ==
  /\ Gate \in serving /\ k \in registered \cap established
  /\ registered' = registered \ {k} /\ starting' = starting \cup {k}
  /\ UNCHANGED <<cluster, phase, reviewed, safeStart, serving, withdrawn,
                 disruptions>>
-----------------------------------------------------------------------------
(* The cluster around it: Crossplane installs CRDs and grants permissions,    *)
(* in any order and at any time; a permission may be withdrawn.              *)

Establish(k) ==
  /\ k \notin established /\ established' = established \cup {k}
  /\ UNCHANGED <<granted, process, withdrawn, disruptions>>

Grant(verb) ==
  /\ verb \notin granted /\ granted' = granted \cup {verb}
  /\ UNCHANGED <<established, process, withdrawn, disruptions>>

Withdraw(verb) ==
  /\ verb \in granted /\ Disrupt /\ granted' = granted \ {verb}
  /\ withdrawn' = TRUE /\ UNCHANGED <<established, process>>

StartupNext ==
  \/ Boot \/ canWatchCRD \/ Fatal
  \/ \E k \in Kinds \cup {Gate} : Sync(k) \/ SyncTimeout(k)
  \/ \E k \in ManagedKinds : Release(k)
  \/ \E k \in CRDs : Establish(k)
  \/ \E verb \in AllVerbs : Grant(verb) \/ Withdraw(verb)

(* The kubelet starts the process again; informers sync when they can and     *)
(* give up when they cannot; events of CRDs arrive as long as they may be    *)
(* watched.  Nothing is assumed of the cluster.                             *)
StartupFairness ==
  /\ WF_startupVars(Boot) /\ WF_startupVars(canWatchCRD)
  /\ \A k \in Kinds \cup {Gate} : WF_startupVars(Sync(k)) /\ WF_startupVars(SyncTimeout(k))
  /\ \A k \in ManagedKinds : WF_startupVars(Watching \subseteq granted /\ Release(k))

StartupSpec == StartupInit /\ [][StartupNext]_startupVars /\ StartupFairness
-----------------------------------------------------------------------------
(* Properties.                                                              *)

Missing == CRDs \ established
MayWatch == AllVerbs \subseteq granted

(* A running process that nothing happens to only goes down because it is     *)
(* bound to: with safe start, for a CRD of configs or a permission withdrawn  *)
(* since, never for a managed resource that is not installed, or not yet;     *)
(* without safe start, for any CRD, never for the permission it lacks         *)
(* (main.go:184-187, the comment on SetupGated in growthbook.go:28).          *)
StaysUp ==
  [][phase = "running" /\ phase' = "down" /\ disruptions' = disruptions =>
       IF safeStart THEN Missing \cap ConfigCRDs # {} \/ withdrawn
       ELSE Missing # {}]_startupVars

(* Every kind whose CRD is there is served in the end, with or without the    *)
(* permission to watch CRDs: "Degraded-mode startup: when the service account *)
(* cannot watch CRDs the provider starts all controllers without safe-start   *)
(* instead of crash-looping" (CHANGELOG.md:27-28, main.go:184-196).  There    *)
(* are three exceptions: the controllers of configs, which never wait at the  *)
(* gate, need theirs and that of usages; so do all, without the permission;   *)
(* and a process that has lost the permission learns of no more CRDs.         *)
Served == phase = "running" /\ established \cap Kinds \subseteq serving

Degraded == safeStart /\ ~MayWatch /\ registered # {}

EverybodyServed ==
  <>[](\/ Served
       \/ Missing \cap ConfigCRDs # {}
       \/ ~MayWatch /\ Missing # {}
       \/ Degraded)
=============================================================================
