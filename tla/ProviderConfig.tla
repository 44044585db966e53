---------------------------- MODULE ProviderConfig ----------------------------
(***************************************************************************)
(* Managed resources and the configs they connect through: Connect of the   *)
(* four kinds (project.go and its likes), the two config controllers of     *)
(* internal/controller/config/config.go, and the usages between them.       *)
(*                                                                          *)
(* A usage records which config a managed resource refers to.  It lives     *)
(* beside the resource, belongs to it and is collected after it.  Both the  *)
(* tracker and the config controllers read usages from an informer that     *)
(* lags.                                                                    *)
(***************************************************************************)
EXTENDS Credentials, Naturals, FiniteSets

CONSTANTS MRs,         \* managed resources
          Namespace,   \* of each of them
          Configs,     \* [kind, namespace, name]; ClusterNamespace for none
          ClusterNamespace,
          Refs,        \* providerConfigRefs users write: [kind, name]
          Payloads,    \* what the credentials secret may hold
          Absent,      \* no such object
          MaxChaos     \* bound on user changes and crashes

ASSUME ConfigsAssumption ==
  \A c \in Configs :
    /\ c.kind \in {"ProviderConfig", "ClusterProviderConfig"}
    /\ (c.namespace = ClusterNamespace) <=> (c.kind = "ClusterProviderConfig")

ASSUME BoundsAssumption == IsFiniteSet(MRs) /\ MaxChaos \in Nat

ASSUME AbsentAssumption ==
  Absent \notin Refs \cup [ref : Refs, finalizer : BOOLEAN, deleting : BOOLEAN]
                  \cup [finalizer : BOOLEAN, deleting : BOOLEAN,
                        users : 0..Cardinality(MRs)]

VARIABLES
  mrs,         \* the managed resources in the API server, or Absent
  configs,     \* the configs in the API server, or Absent
  usages,      \* the reference in the usage of each resource, or Absent
  seenUsages,  \* the informer's copy of usages ...
  freshUsages, \* ... and of which it has the latest version
  secret,      \* the payload of the credentials secret
  work,        \* the reconcile of each resource, up to its client
  job,         \* the reconcile of each config
  queue,       \* configs to be reconciled
  protected,   \* history: whom a config being deleted must wait for
  chaos        \* disturbances so far

usageVars == <<usages, seenUsages, freshUsages>>
vars == <<mrs, configs, usageVars, secret, work, job, queue, protected, chaos>>

IdleWork ==
  [step |-> "idle", ref |-> Absent, deleting |-> FALSE, fresh |-> FALSE]
IdleJob  == [step |-> "idle", users |-> 0, fresh |-> FALSE]

NewConfig  == [finalizer |-> FALSE, deleting |-> FALSE, users |-> 0]
HeldConfig == [NewConfig EXCEPT !.finalizer = TRUE]

(* Besides the types: a resource the provider holds has a usage.             *)
TypeOK ==
  /\ mrs \in [MRs -> [ref : Refs, finalizer : BOOLEAN, deleting : BOOLEAN]
                       \cup {Absent}]
  /\ configs \in [Configs -> [finalizer : BOOLEAN, deleting : BOOLEAN,
                              users : 0..Cardinality(MRs)] \cup {Absent}]
  /\ {usages, seenUsages} \subseteq [MRs -> Refs \cup {Absent}]
  /\ freshUsages \subseteq MRs /\ secret \in Payloads
  /\ work \in [MRs -> [step : {"idle", "get"}, ref : Refs \cup {Absent},
                       deleting : BOOLEAN, fresh : BOOLEAN]]
  /\ job \in [Configs -> [step : {"idle", "remove", "account"},
                          users : 0..Cardinality(MRs), fresh : BOOLEAN]]
  /\ queue \subseteq Configs /\ protected \in [Configs -> SUBSET MRs]
  /\ chaos \in 0..MaxChaos
  /\ \A m \in MRs : mrs[m] # Absent /\ mrs[m].finalizer => usages[m] # Absent

(* New resources; configs that are new, too, or reconciled before.           *)
Init ==
  /\ mrs \in [MRs -> [ref : Refs, finalizer : {FALSE}, deleting : {FALSE}]]
  /\ configs \in [Configs -> {Absent, NewConfig, HeldConfig}]
  /\ queue = {c \in Configs : configs[c] = NewConfig}
  /\ usages = [m \in MRs |-> Absent] /\ seenUsages = usages /\ freshUsages = MRs
  /\ secret \in Payloads
  /\ work = [m \in MRs |-> IdleWork] /\ job = [c \in Configs |-> IdleJob]
  /\ protected = [c \in Configs |-> {}] /\ chaos = 0

Present(c) == configs[c] # Absent

(* A change of a config reaches its controller (For in the setups), and makes *)
(* the copy of a running reconcile outdated.                                *)
ConfigBecomes(c, value, jobs) ==
  /\ configs' = [configs EXCEPT ![c] = value]
  /\ IF value = configs[c] THEN job' = jobs /\ UNCHANGED queue
     ELSE job' = [jobs EXCEPT ![c].fresh = FALSE] /\ queue' = queue \cup {c}
-----------------------------------------------------------------------------
(* config.go: the two controllers.  "config" is the kind whose usages are     *)
(* listed, "watched" the kind whose usages wake the controller up.           *)

setupNamespacedProviderConfig ==
  [config |-> "ProviderConfig", watched |-> "ProviderConfig"]

(* Mutated: the cluster controller counts the usages of the other kind ...    *)
CountsTheOtherKind ==
  [config |-> "ProviderConfig", watched |-> "ClusterProviderConfig"]

(* ... or is woken up by them.                                              *)
WatchesTheOtherKind ==
  [config |-> "ClusterProviderConfig", watched |-> "ProviderConfig"]

setupClusterProviderConfig ==
  [config |-> "ClusterProviderConfig", watched |-> "ClusterProviderConfig"]

SetupOf(c) ==
  IF c.kind = "ProviderConfig" THEN setupNamespacedProviderConfig
  ELSE setupClusterProviderConfig

(* Does the usage of m, in the namespace of m, speak of this name and kind?   *)
Concerns(m, usage, c, kind) ==
  /\ usage # Absent /\ usage.name = c.name /\ usage.kind = kind
  /\ c.namespace \in {ClusterNamespace, Namespace[m]}

Users(c) == {m \in MRs : Concerns(m, seenUsages[m], c, SetupOf(c).config)}

ConfigStart(c) ==
  /\ job[c].step = "idle" /\ c \in queue /\ queue' = queue \ {c}
  /\ job' = IF ~Present(c) THEN job
            ELSE [job EXCEPT ![c] =
                   [step  |-> IF configs[c].deleting /\ Users(c) = {}
                              THEN "remove" ELSE "account",
                    users |-> Cardinality(Users(c)), fresh |-> TRUE]]
  /\ UNCHANGED <<mrs, configs, usageVars, secret, work, protected, chaos>>

(* A write of an outdated copy is refused, and the reconcile repeated.       *)
ConfigConflict(c) ==
  /\ job[c].step # "idle" /\ ~job[c].fresh
  /\ job' = [job EXCEPT ![c] = IdleJob] /\ queue' = queue \cup {c}
  /\ UNCHANGED <<mrs, configs, usageVars, secret, work, protected, chaos>>

(* The finalizer goes, with the config, when a deletion finds no users; or it *)
(* is put on, and the number of users with it.                               *)
ConfigWrite(c) ==
  /\ job[c].step # "idle" /\ job[c].fresh
  /\ ConfigBecomes(c, IF job[c].step = "remove" THEN Absent
                      ELSE [configs[c] EXCEPT !.finalizer = TRUE,
                                              !.users = job[c].users],
                   [job EXCEPT ![c] = IdleJob])
  /\ UNCHANGED <<mrs, usageVars, secret, work, protected, chaos>>

(* EnqueueRequestForProviderConfig: a usage that comes, goes or changes wakes *)
(* up the config it spoke of and the one it speaks of.                       *)
DeliverUsage(m) ==
  /\ m \notin freshUsages /\ freshUsages' = freshUsages \cup {m}
  /\ seenUsages' = [seenUsages EXCEPT ![m] = usages[m]]
  /\ queue' = queue \cup
       {c \in Configs : \E u \in {seenUsages[m], usages[m]} :
                          Concerns(m, u, c, SetupOf(c).watched)}
  /\ UNCHANGED <<mrs, configs, usages, secret, work, job, protected, chaos>>
-----------------------------------------------------------------------------
(* The reconcile of a managed resource, as far as Connect and what it is for. *)

UsageBecomes(m, ref) ==
  /\ usages' = [usages EXCEPT ![m] = ref]
  /\ freshUsages' = freshUsages \ {m}
  /\ protected' = [c \in Configs |-> protected[c] \ {m}]
  /\ UNCHANGED seenUsages

(* resource.ProviderConfigUsageTracker: no write when the informer's usage is *)
(* the wanted one; one of an outdated usage is refused.                      *)
Track(m, ref, then) ==
  \/ seenUsages[m] = ref /\ work' = then /\ UNCHANGED <<usageVars, protected>>
  \/ /\ seenUsages[m] # ref /\ m \in freshUsages
     /\ work' = then /\ UsageBecomes(m, ref)
  \/ /\ seenUsages[m] # ref /\ m \notin freshUsages
     /\ work' = [work EXCEPT ![m] = IdleWork]
     /\ UNCHANGED <<usageVars, protected>>

(* Mutated: both kinds are looked up in the namespace of the resource.        *)
LookUpInNamespace(m, ref) ==
  {c \in Configs :
     c.kind = ref.kind /\ c.name = ref.name /\ c.namespace = Namespace[m]}

(* The two cases of the switch in Connect; other kinds are an error.         *)
LookUp(m, ref) ==
  {c \in Configs :
     /\ c.kind = ref.kind /\ c.name = ref.name
     /\ c.namespace = IF ref.kind = "ProviderConfig" THEN Namespace[m]
                      ELSE ClusterNamespace}

Connects(m, ref) ==
  /\ \E c \in LookUp(m, ref) : Present(c)
  /\ NewFromSecret(secret) # Error

(* What the managed reconciler goes on to do with a client: it puts its       *)
(* finalizer on the resource, or deletes the object and takes it off.        *)
Proceed(m) ==
  IF ~work[m].fresh THEN UNCHANGED mrs
  ELSE mrs' = [mrs EXCEPT ![m] = IF work[m].deleting THEN Absent
                                 ELSE [@ EXCEPT !.finalizer = TRUE]]

(* The resource as the reconcile takes it.                                   *)
Taken(m, step) ==
  [work EXCEPT ![m] = [step |-> step, ref |-> mrs[m].ref,
                       deleting |-> mrs[m].deleting, fresh |-> TRUE]]

Ended(m) == [work EXCEPT ![m] = IdleWork]

(* Mutated: the usage is recorded last, once there is a client.              *)
TrackLast(m) ==
  \/ /\ work[m].step = "idle" /\ mrs[m] # Absent /\ Connects(m, mrs[m].ref)
     /\ work' = Taken(m, "get") /\ UNCHANGED <<mrs, usageVars, protected>>
  \/ /\ work[m].step = "get" /\ Track(m, work[m].ref, Ended(m))
     /\ IF usages'[m] = work[m].ref THEN Proceed(m) ELSE UNCHANGED mrs

(* Mutated: no usage is recorded.                                           *)
ConnectUntracked(m) ==
  /\ IF work[m].step = "idle"
     THEN mrs[m] # Absent /\ work' = Taken(m, "get") /\ UNCHANGED mrs
     ELSE /\ work' = Ended(m)
          /\ IF Connects(m, work[m].ref) THEN Proceed(m) ELSE UNCHANGED mrs
  /\ UNCHANGED <<usageVars, protected>>

(* The usage is recorded first; then the config and its secret are read.      *)
Connect(m) ==
  \/ /\ work[m].step = "idle" /\ mrs[m] # Absent
     /\ Track(m, mrs[m].ref, Taken(m, "get")) /\ UNCHANGED mrs
  \/ /\ work[m].step = "get" /\ work' = Ended(m)
     /\ IF Connects(m, work[m].ref) THEN Proceed(m) ELSE UNCHANGED mrs
     /\ UNCHANGED <<usageVars, protected>>

Reconcile(m) == Connect(m) /\ UNCHANGED <<configs, secret, job, queue, chaos>>
-----------------------------------------------------------------------------
(* What others do.                                                          *)

Disturb == chaos < MaxChaos /\ chaos' = chaos + 1

(* The garbage collector, on the owner reference of the usage.               *)
Collect(m) ==
  /\ mrs[m] = Absent /\ usages[m] # Absent /\ UsageBecomes(m, Absent)
  /\ UNCHANGED <<mrs, configs, secret, work, job, queue, chaos>>

MRBecomes(m, value) ==
  /\ mrs' = [mrs EXCEPT ![m] = value]
  /\ work' = [work EXCEPT ![m].fresh = FALSE]
  /\ UNCHANGED <<configs, usageVars, secret, job, queue, protected>>

EditRef(m, ref) ==
  /\ mrs[m] # Absent /\ mrs[m].ref # ref /\ Disturb
  /\ MRBecomes(m, [mrs[m] EXCEPT !.ref = ref])

DeleteMR(m) ==
  /\ mrs[m] # Absent /\ ~mrs[m].deleting /\ Disturb
  /\ MRBecomes(m, IF mrs[m].finalizer THEN [mrs[m] EXCEPT !.deleting = TRUE]
                  ELSE Absent)

(* A config being deleted has to wait for the resources whose usage both the  *)
(* API server and the informer have by now.                                  *)
DeleteConfig(c) ==
  /\ Present(c) /\ ~configs[c].deleting /\ Disturb
  /\ ConfigBecomes(c, IF configs[c].finalizer
                      THEN [configs[c] EXCEPT !.deleting = TRUE] ELSE Absent, job)
  /\ protected' = [protected EXCEPT ![c] =
       IF configs[c].finalizer
       THEN {m \in MRs : \A u \in {usages[m], seenUsages[m]} :
                           Concerns(m, u, c, c.kind)}
       ELSE {}]
  /\ UNCHANGED <<mrs, usageVars, secret, work>>

CreateConfig(c) ==
  /\ ~Present(c) /\ Disturb /\ ConfigBecomes(c, NewConfig, job)
  /\ protected' = [protected EXCEPT ![c] = {}]
  /\ UNCHANGED <<mrs, usageVars, secret, work>>

ChangeSecret(payload) ==
  /\ secret # payload /\ Disturb /\ secret' = payload
  /\ UNCHANGED <<mrs, configs, usageVars, work, job, queue, protected>>

(* The process dies; the next one lists everything before it starts.         *)
Crash ==
  /\ Disturb
  /\ work' = [m \in MRs |-> IdleWork] /\ job' = [c \in Configs |-> IdleJob]
  /\ seenUsages' = usages /\ freshUsages' = MRs /\ queue' = Configs
  /\ UNCHANGED <<mrs, configs, usages, secret, protected>>

ConfigJob(c) == ConfigStart(c) \/ ConfigConflict(c) \/ ConfigWrite(c)

Next ==
  \/ \E m \in MRs : Reconcile(m) \/ DeliverUsage(m) \/ Collect(m) \/ DeleteMR(m)
  \/ \E m \in MRs, ref \in Refs : EditRef(m, ref)
  \/ \E c \in Configs : ConfigJob(c) \/ DeleteConfig(c) \/ CreateConfig(c)
  \/ \E payload \in Payloads : ChangeSecret(payload)
  \/ Crash

(* Every resource is polled; a config is reconciled only when it or one of    *)
(* its usages changes, or when the last reconcile failed.                    *)
Fairness ==
  /\ \A m \in MRs :
       WF_vars(Reconcile(m)) /\ WF_vars(DeliverUsage(m)) /\ WF_vars(Collect(m))
  /\ \A c \in Configs : WF_vars(ConfigJob(c))

Spec == Init /\ [][Next]_vars /\ Fairness
-----------------------------------------------------------------------------
(* Properties.                                                              *)

(* The config m refers to: a ProviderConfig of its own namespace or a         *)
(* ClusterProviderConfig.                                                   *)
Refers(m, c) ==
  mrs[m] # Absent /\ mrs[m].ref.kind = c.kind /\ mrs[m].ref.name = c.name
    /\ c.namespace \in {ClusterNamespace, Namespace[m]}

Usable(data) ==
  data.form \in {"json", "bare"} /\ data.key # Nil
    /\ (data.form = "json" => data.url # Invalid)

(* A config whose deletion was asked for stays as long as a resource whose    *)
(* usage was known by then goes on using it, so that the resource can still   *)
(* connect, for its own deletion too (config.go: the finalizer of either      *)
(* controller and the usages it counts).                                    *)
InUseStays == \A c \in Configs : protected[c] # {} => Present(c)

(* A config that is being deleted goes once no resource refers to it, however *)
(* the references moved: the last usage to go wakes its controller up, which  *)
(* nothing else does (Watches in config.go:56 and :81).                      *)
ConfigDeletionCompletes ==
  \A c \in Configs :
    []<>~(Present(c) /\ configs[c].deleting /\ \A m \in MRs : ~Refers(m, c))

(* A resource being deleted goes, for as long as its config is there and the  *)
(* secret, JSON or a bare key (client.go:52-53), has a key: whatever happens  *)
(* to usages on the way (Connect, ParseCredentials).                         *)
DeletionCompletes ==
  \A m \in MRs :
    <>[](mrs[m] # Absent /\ mrs[m].deleting =>
           ~Usable(secret) \/ \A c \in Configs : Refers(m, c) => ~Present(c))

(* "accounting for their current usage" (config.go:30): in the end each       *)
(* config reports as many users as there are resources that refer to it, of   *)
(* every namespace for a cluster config, usages that moved included.          *)
Accounted ==
  <>[](\A c \in Configs : Present(c) =>
         configs[c].users = Cardinality({m \in MRs : Refers(m, c)}))
=============================================================================
