---------------------------- MODULE ProviderProofs ----------------------------
(***************************************************************************)
(* What holds of the provider around the controllers of managed resources,   *)
(* of its configs (ProviderConfig) and of its start (Startup).               *)
(***************************************************************************)
EXTENDS ProviderConfig, Startup, FiniteSetTheorems, TLAPS
-----------------------------------------------------------------------------
(* A config in use stays, for any number of resources, configs and           *)
(* namespaces, however far the informer of usages lags behind.               *)

MR     == [ref : Refs, finalizer : BOOLEAN, deleting : BOOLEAN]
Config == [finalizer : BOOLEAN, deleting : BOOLEAN, users : 0..Cardinality(MRs)]
Work   == [step : {"idle", "get"}, ref : Refs \cup {Absent},
           deleting : BOOLEAN, fresh : BOOLEAN]
Job    == [step : {"idle", "remove", "account"},
           users : 0..Cardinality(MRs), fresh : BOOLEAN]

(* TypeOK without its last part, which says more than types.                 *)
Types ==
  /\ mrs \in [MRs -> MR \cup {Absent}] /\ configs \in [Configs -> Config \cup {Absent}]
  /\ usages \in [MRs -> Refs \cup {Absent}] /\ seenUsages \in [MRs -> Refs \cup {Absent}]
  /\ freshUsages \subseteq MRs /\ secret \in Payloads
  /\ work \in [MRs -> Work] /\ job \in [Configs -> Job]
  /\ queue \subseteq Configs /\ protected \in [Configs -> SUBSET MRs]
  /\ chaos \in 0..MaxChaos

(* A resource that is there keeps a usage once it has one: one that the       *)
(* provider holds has one, one that the informer shows is there, and a        *)
(* reconcile that is past the tracker, and whose copy is the latest, relies   *)
(* on it.                                                                   *)
UsageStays(m) ==
  mrs[m] # Absent =>
    (mrs[m].finalizer \/ seenUsages[m] # Absent
       \/ (work[m].step = "get" /\ work[m].fresh) => usages[m] # Absent)

WorkerKnows(m) == work[m].step = "get" /\ work[m].fresh => mrs[m] # Absent

UsagesStay == \A m \in MRs : UsageStays(m) /\ WorkerKnows(m)

(* A reconcile of a config with the latest copy has a config, and one that is *)
(* about to take the finalizer off knows of nobody to wait for.              *)
JobKnows(c) ==
  job[c].step # "idle" /\ job[c].fresh =>
    Present(c) /\ (job[c].step = "remove" => protected[c] = {})

(* Those a config waits for have a usage of it, which the informer shows, and *)
(* the config is being deleted already.                                      *)
Waits(c) ==
  /\ protected[c] # {} => Present(c) /\ configs[c].deleting
  /\ \A m \in protected[c] : \A u \in {usages[m], seenUsages[m]} :
       Concerns(m, u, c, c.kind)

ConfigsWait == \A c \in Configs : JobKnows(c) /\ Waits(c)

CInv == Types /\ UsagesStay /\ ConfigsWait

(* The invariant says what the run checks.                                   *)
LEMMA CInvSays == CInv => TypeOK /\ InUseStays
BY DEF CInv, Types, UsagesStay, UsageStays, ConfigsWait, Waits, TypeOK, InUseStays, MR,
   Config, Work, Job

(* Absent is none of the things that are there; the counts are typed.        *)
LEMMA Distinct ==
  /\ Absent \notin Refs /\ Absent \notin MR /\ Absent \notin Config
  /\ Cardinality(MRs) \in Nat
  /\ \A S \in SUBSET MRs : Cardinality(S) \in 0..Cardinality(MRs)
<1>1. Cardinality(MRs) \in Nat
  BY BoundsAssumption, FS_CardinalityType
<1>2. ASSUME NEW S \in SUBSET MRs PROVE Cardinality(S) \in 0..Cardinality(MRs)
  BY <1>1, BoundsAssumption, FS_Subset, FS_CardinalityType
<1> QED BY <1>1, <1>2, AbsentAssumption DEF MR, Config

(* What is new or idle is typed.                                             *)
LEMMA NewTyped ==
  /\ NewConfig \in Config /\ HeldConfig \in Config
  /\ IdleWork \in Work /\ IdleJob \in Job
<1>1. NewConfig \in Config /\ IdleJob \in Job
  BY Distinct DEF NewConfig, Config, IdleJob, Job
<1>2. HeldConfig \in Config
  BY <1>1 DEF HeldConfig, Config
<1>3. IdleWork \in Work
  BY DEF IdleWork, Work
<1> QED BY <1>1, <1>2, <1>3

(* The users a config counts are those whose usage, as the informer shows it, *)
(* is of this config (config.go: either controller lists its own kind).      *)
LEMMA UsersOfKind ==
  ASSUME NEW c \in Configs
  PROVE  /\ Users(c) = {m \in MRs : Concerns(m, seenUsages[m], c, c.kind)}
         /\ Cardinality(Users(c)) \in 0..Cardinality(MRs)
<1>1. SetupOf(c).config = c.kind
  BY ConfigsAssumption DEF SetupOf, setupNamespacedProviderConfig, setupClusterProviderConfig
<1> QED BY <1>1, Distinct DEF Users

(* The invariant holds initially.                                           *)
LEMMA CInvInit == Init => CInv
<1> SUFFICES ASSUME Init PROVE CInv
  OBVIOUS
<1>1. Types
  <2>1. mrs \in [MRs -> MR \cup {Absent}] /\ configs \in [Configs -> Config \cup {Absent}]
    BY NewTyped DEF Init, MR
  <2>2. /\ usages \in [MRs -> Refs \cup {Absent}] /\ seenUsages = usages
        /\ work \in [MRs -> Work] /\ job \in [Configs -> Job]
        /\ protected \in [Configs -> SUBSET MRs]
    BY NewTyped DEF Init
  <2>3. chaos \in 0..MaxChaos
    BY BoundsAssumption DEF Init
  <2> QED BY <2>1, <2>2, <2>3 DEF Init, Types
<1>2. UsagesStay
  BY DEF Init, UsagesStay, UsageStays, WorkerKnows, IdleWork
<1>3. ConfigsWait
  BY DEF Init, ConfigsWait, JobKnows, Waits, IdleJob
<1> QED BY <1>1, <1>2, <1>3 DEF CInv
-----------------------------------------------------------------------------
(* The config controllers.                                                  *)

(* A config that changes makes the copy of a running reconcile outdated.     *)
LEMMA ConfigBecomesTyped ==
  ASSUME Types, NEW c \in Configs, NEW value \in Config \cup {Absent},
         NEW jobs \in [Configs -> Job], ConfigBecomes(c, value, jobs)
  PROVE  /\ configs' \in [Configs -> Config \cup {Absent}]
         /\ job' \in [Configs -> Job] /\ queue' \subseteq Configs
         /\ configs'[c] = value /\ \A d \in Configs \ {c} : configs'[d] = configs[d]
         /\ \A d \in Configs : job'[d].step = jobs[d].step
                                 /\ (job'[d].fresh => jobs[d].fresh)
         /\ job'[c].fresh => value = configs[c]
<1>1. /\ configs' \in [Configs -> Config \cup {Absent}]
      /\ configs'[c] = value /\ \A d \in Configs \ {c} : configs'[d] = configs[d]
  BY DEF Types, ConfigBecomes
<1>2. CASE job' = jobs /\ UNCHANGED queue /\ value = configs[c]
  BY <1>1, <1>2 DEF Types
<1>3. CASE job' = [jobs EXCEPT ![c].fresh = FALSE] /\ queue' = queue \cup {c}
  <2>1. /\ [jobs[c] EXCEPT !.fresh = FALSE] \in Job
        /\ [jobs[c] EXCEPT !.fresh = FALSE].step = jobs[c].step
        /\ ~[jobs[c] EXCEPT !.fresh = FALSE].fresh
    BY DEF Job
  <2>2. job' = [jobs EXCEPT ![c] = [jobs[c] EXCEPT !.fresh = FALSE]]
    BY <1>3
  <2>3. /\ job' \in [Configs -> Job] /\ job'[c] = [jobs[c] EXCEPT !.fresh = FALSE]
        /\ \A d \in Configs \ {c} : job'[d] = jobs[d]
    BY <2>1, <2>2
  <2> QED BY <1>1, <1>3, <2>1, <2>3 DEF Types
<1> QED BY <1>2, <1>3 DEF ConfigBecomes

(* What touches no resource and no usage keeps what is known of them.        *)
LEMMA UsagesUnchanged ==
  ASSUME UsagesStay, UNCHANGED <<mrs, usages, seenUsages, work>>
  PROVE  UsagesStay'
BY DEF UsagesStay, UsageStays, WorkerKnows

(* What touches no config and no usage keeps what is known of them.          *)
LEMMA ConfigsUnchanged ==
  ASSUME ConfigsWait, UNCHANGED <<configs, usages, seenUsages, job, protected>>
  PROVE  ConfigsWait'
BY DEF ConfigsWait, JobKnows, Waits, Present

(* A reconcile of a config starts: it removes only when nobody is left.       *)
LEMMA ConfigStartKeeps ==
  ASSUME CInv, NEW c \in Configs, ConfigStart(c)
  PROVE  CInv'
<1> USE DEF CInv
<1> DEFINE next == [step  |-> IF configs[c].deleting /\ Users(c) = {}
                              THEN "remove" ELSE "account",
                    users |-> Cardinality(Users(c)), fresh |-> TRUE]
<1>1. UNCHANGED <<mrs, configs, usageVars, secret, work, protected, chaos>>
  BY DEF ConfigStart
<1>2. next \in Job
  BY UsersOfKind DEF Job
<1>3. job' = IF ~Present(c) THEN job ELSE [job EXCEPT ![c] = next]
  BY DEF ConfigStart
<1>4. next.step = "remove" => protected[c] = {}
  BY UsersOfKind DEF ConfigsWait, Waits, Types
<1> HIDE DEF next
<1>5. Types'
  BY <1>1, <1>2, <1>3 DEF Types, usageVars, ConfigStart
<1>6. UsagesStay'
  BY <1>1, UsagesUnchanged DEF usageVars
<1>7. ConfigsWait'
  BY <1>1, <1>3, <1>4 DEF ConfigsWait, JobKnows, Waits, Present, usageVars, Types
<1> QED BY <1>5, <1>6, <1>7

(* An outdated write changes nothing.                                       *)
LEMMA ConfigConflictKeeps ==
  ASSUME CInv, NEW c \in Configs, ConfigConflict(c)
  PROVE  CInv'
<1> USE DEF CInv, ConfigConflict
<1>1. Types'
  BY NewTyped DEF Types, usageVars
<1>2. UsagesStay'
  BY UsagesUnchanged DEF usageVars
<1>3. ConfigsWait'
  BY DEF ConfigsWait, JobKnows, Waits, Present, usageVars, Types, IdleJob
<1> QED BY <1>1, <1>2, <1>3

(* The config goes only when there is nobody to wait for.                    *)
LEMMA ConfigWriteKeeps ==
  ASSUME CInv, NEW c \in Configs, ConfigWrite(c)
  PROVE  CInv'
<1> USE DEF CInv
<1> DEFINE value == IF job[c].step = "remove" THEN Absent
                    ELSE [configs[c] EXCEPT !.finalizer = TRUE, !.users = job[c].users]
           jobs  == [job EXCEPT ![c] = IdleJob]
<1>1. /\ UNCHANGED <<mrs, usageVars, secret, work, protected, chaos>>
      /\ job[c].step # "idle" /\ job[c].fresh /\ ConfigBecomes(c, value, jobs)
  BY DEF ConfigWrite
<1>2. /\ Present(c) /\ configs[c] \in Config /\ job[c] \in Job
      /\ job[c].step = "remove" => protected[c] = {}
  BY <1>1 DEF ConfigsWait, JobKnows, Types, Present
<1>3. /\ value \in Config \cup {Absent}
      /\ job[c].step # "remove" => value # Absent /\ value.deleting = configs[c].deleting
  BY <1>2, Distinct DEF Config, Job
<1>4. /\ jobs \in [Configs -> Job] /\ jobs[c].step = "idle"
      /\ \A d \in Configs \ {c} : jobs[d] = job[d]
  BY NewTyped DEF Types, IdleJob
<1> HIDE DEF value, jobs
<1>5. Types'
  BY <1>1, <1>3, <1>4, ConfigBecomesTyped DEF Types, usageVars
<1>6. UsagesStay'
  BY <1>1, UsagesUnchanged DEF usageVars
<1>7. ConfigsWait'
  <2>1. /\ configs'[c] = value /\ \A d \in Configs \ {c} : configs'[d] = configs[d]
        /\ \A d \in Configs : job'[d].step = jobs[d].step
                                /\ (job'[d].fresh => jobs[d].fresh)
    BY <1>1, <1>3, <1>4, ConfigBecomesTyped
  <2>2. JobKnows(c)' /\ Waits(c)'
    BY <1>1, <1>2, <1>3, <1>4, <2>1 DEF ConfigsWait, JobKnows, Waits, Present, usageVars
  <2>3. ASSUME NEW d \in Configs \ {c} PROVE JobKnows(d)' /\ Waits(d)'
    BY <1>1, <1>4, <2>1 DEF ConfigsWait, JobKnows, Waits, Present, usageVars
  <2> QED BY <2>2, <2>3 DEF ConfigsWait
<1> QED BY <1>5, <1>6, <1>7

(* The informer catches up with one usage.                                   *)
LEMMA DeliverUsageKeeps ==
  ASSUME CInv, NEW m \in MRs, DeliverUsage(m)
  PROVE  CInv'
<1> USE DEF CInv, DeliverUsage
<1>1. Types'
  BY DEF Types
<1>2. UsagesStay'
  BY DEF UsagesStay, UsageStays, WorkerKnows, Types
<1>3. ConfigsWait'
  BY DEF ConfigsWait, JobKnows, Waits, Present, Types
<1> QED BY <1>1, <1>2, <1>3
-----------------------------------------------------------------------------
(* Managed resources.                                                       *)

(* A usage that is written: nobody waits for its resource any more.          *)
LEMMA UsageBecomesKeeps ==
  ASSUME CInv, NEW m \in MRs, NEW ref \in Refs \cup {Absent}, UsageBecomes(m, ref),
         UNCHANGED <<configs, job>>
  PROVE  /\ usages' \in [MRs -> Refs \cup {Absent}] /\ freshUsages' \subseteq MRs
         /\ protected' \in [Configs -> SUBSET MRs] /\ UNCHANGED seenUsages
         /\ usages'[m] = ref /\ \A n \in MRs \ {m} : usages'[n] = usages[n]
         /\ ConfigsWait'
<1> USE DEF CInv, UsageBecomes
<1>1. /\ usages' \in [MRs -> Refs \cup {Absent}] /\ UNCHANGED seenUsages
      /\ usages'[m] = ref /\ \A n \in MRs \ {m} : usages'[n] = usages[n]
  BY DEF Types
<1>2. /\ protected' \in [Configs -> SUBSET MRs] /\ freshUsages' \subseteq MRs
      /\ \A c \in Configs : protected'[c] = protected[c] \ {m}
  BY DEF Types
<1>3. ASSUME NEW c \in Configs PROVE JobKnows(c)' /\ Waits(c)'
  <2>1. protected'[c] \subseteq protected[c] /\ protected[c] \subseteq MRs
    BY <1>2 DEF Types
  <2>2. JobKnows(c)'
    BY <2>1 DEF ConfigsWait, JobKnows, Present
  <2>3. \A n \in protected'[c] : usages'[n] = usages[n] /\ seenUsages'[n] = seenUsages[n]
    BY <1>1, <1>2, <2>1
  <2>4. Waits(c)'
    BY <2>1, <2>3 DEF ConfigsWait, Waits, Present
  <2> QED BY <2>2, <2>4
<1> QED BY <1>1, <1>2, <1>3 DEF ConfigsWait

(* Connect tracks the usage before anything else.                            *)
LEMMA TrackKeeps ==
  ASSUME CInv, NEW m \in MRs, mrs[m] # Absent, Track(m, mrs[m].ref, Taken(m, "get")),
         UNCHANGED <<mrs, configs, secret, job, queue, chaos>>
  PROVE  CInv'
<1> USE DEF CInv
<1> DEFINE ref == mrs[m].ref
<1>1. /\ mrs[m] \in MR /\ ref \in Refs /\ ref # Absent
  BY Distinct DEF Types, MR
<1>2. Taken(m, "get") \in [MRs -> Work] /\ Ended(m) \in [MRs -> Work]
  BY <1>1, NewTyped DEF Taken, Ended, Types, Work, MR
<1>3. /\ \A n \in MRs \ {m} : Taken(m, "get")[n] = work[n] /\ Ended(m)[n] = work[n]
      /\ Ended(m)[m].step = "idle"
  BY DEF Taken, Ended, IdleWork, Types
<1>4. /\ work' \in [MRs -> Work] /\ \A n \in MRs \ {m} : work'[n] = work[n]
      /\ work' = Taken(m, "get") \/ work'[m].step = "idle"
  BY <1>2, <1>3 DEF Track, Ended
<1>5. CASE UNCHANGED <<usageVars, protected>>
  <2>1. \/ work' = Taken(m, "get") /\ seenUsages[m] = ref
        \/ work'[m].step = "idle"
    BY <1>3, <1>5, <1>1 DEF Track, UsageBecomes, usageVars, Types, Ended
  <2>2. Types'
    BY <1>4, <1>5 DEF Types, usageVars
  <2>3. ConfigsWait'
    BY <1>5, ConfigsUnchanged DEF usageVars
  <2>4. UsagesStay'
    BY <1>1, <1>4, <1>5, <2>1 DEF UsagesStay, UsageStays, WorkerKnows, usageVars
  <2> QED BY <2>2, <2>3, <2>4
<1>6. CASE UsageBecomes(m, ref)
  <2>1. /\ usages' \in [MRs -> Refs \cup {Absent}] /\ freshUsages' \subseteq MRs
        /\ protected' \in [Configs -> SUBSET MRs] /\ UNCHANGED seenUsages
        /\ usages'[m] = ref /\ \A n \in MRs \ {m} : usages'[n] = usages[n]
        /\ ConfigsWait'
    BY <1>1, <1>6, UsageBecomesKeeps
  <2>2. Types'
    BY <1>4, <2>1 DEF Types
  <2>3. UsagesStay'
    BY <1>1, <1>4, <2>1 DEF UsagesStay, UsageStays, WorkerKnows
  <2> QED BY <2>1, <2>2, <2>3
<1> QED BY <1>5, <1>6 DEF Track

(* With a client the reconciler holds the resource, or lets go of it.         *)
LEMMA ProceedKeeps ==
  ASSUME CInv, NEW m \in MRs, work[m].step = "get", work' = Ended(m),
         Proceed(m) \/ UNCHANGED mrs,
         UNCHANGED <<configs, usageVars, secret, job, queue, protected, chaos>>
  PROVE  CInv'
<1> USE DEF CInv
<1>1. /\ work' \in [MRs -> Work] /\ \A n \in MRs \ {m} : work'[n] = work[n]
      /\ work'[m].step = "idle"
  BY NewTyped DEF Ended, Types, IdleWork
<1>2. ConfigsWait'
  BY ConfigsUnchanged DEF usageVars
<1>3. CASE UNCHANGED mrs
  <2>1. Types'
    BY <1>1, <1>3 DEF Types, usageVars
  <2>2. UsagesStay'
    BY <1>1, <1>3 DEF UsagesStay, UsageStays, WorkerKnows, usageVars
  <2> QED BY <1>2, <2>1, <2>2
<1>4. CASE work[m].fresh /\ mrs' = [mrs EXCEPT ![m] = IF work[m].deleting THEN Absent
                                                      ELSE [@ EXCEPT !.finalizer = TRUE]]
  <2>1. mrs[m] # Absent /\ usages[m] # Absent /\ mrs[m] \in MR
    BY <1>4 DEF UsagesStay, UsageStays, WorkerKnows, Types
  <2>2. [mrs[m] EXCEPT !.finalizer = TRUE] \in MR
    BY <2>1 DEF MR
  <2>3. /\ mrs' \in [MRs -> MR \cup {Absent}]
        /\ \A n \in MRs \ {m} : mrs'[n] = mrs[n]
    BY <1>4, <2>2 DEF Types
  <2>4. Types'
    BY <1>1, <2>3 DEF Types, usageVars
  <2>5. UsagesStay'
    BY <1>1, <2>1, <2>3 DEF UsagesStay, UsageStays, WorkerKnows, usageVars
  <2> QED BY <1>2, <2>4, <2>5
<1> QED BY <1>3, <1>4 DEF Proceed

(* A reconcile of a managed resource is one or the other.                    *)
LEMMA ReconcileKeeps ==
  ASSUME CInv, NEW m \in MRs, Reconcile(m)
  PROVE  CInv'
<1>1. CASE /\ work[m].step = "idle" /\ mrs[m] # Absent
           /\ Track(m, mrs[m].ref, Taken(m, "get")) /\ UNCHANGED mrs
  BY <1>1, TrackKeeps DEF Reconcile
<1>2. CASE /\ work[m].step = "get" /\ work' = Ended(m)
           /\ Proceed(m) \/ UNCHANGED mrs
           /\ UNCHANGED <<usageVars, protected>>
  BY <1>2, ProceedKeeps DEF Reconcile
<1> QED BY <1>1, <1>2 DEF Reconcile, Connect

(* The usage of a resource that is gone is collected.                        *)
LEMMA CollectKeeps ==
  ASSUME CInv, NEW m \in MRs, Collect(m)
  PROVE  CInv'
<1> USE DEF CInv
<1>1. /\ mrs[m] = Absent /\ UsageBecomes(m, Absent)
      /\ UNCHANGED <<mrs, configs, secret, work, job, queue, chaos>>
  BY DEF Collect
<1>2. /\ usages' \in [MRs -> Refs \cup {Absent}] /\ freshUsages' \subseteq MRs
      /\ protected' \in [Configs -> SUBSET MRs] /\ UNCHANGED seenUsages
      /\ \A n \in MRs \ {m} : usages'[n] = usages[n]
      /\ ConfigsWait'
  BY <1>1, UsageBecomesKeeps
<1>3. Types'
  BY <1>1, <1>2 DEF Types
<1>4. UsagesStay'
  BY <1>1, <1>2 DEF UsagesStay, UsageStays, WorkerKnows
<1> QED BY <1>2, <1>3, <1>4
-----------------------------------------------------------------------------
(* What others do.                                                          *)

(* A disturbance is counted.                                                *)
LEMMA DisturbCounts == chaos \in 0..MaxChaos /\ Disturb => chaos' \in 0..MaxChaos
BY BoundsAssumption DEF Disturb

(* Users change a resource or delete it; the copy of its reconcile is        *)
(* outdated then.                                                           *)
LEMMA MRBecomesKeeps ==
  ASSUME CInv, NEW m \in MRs, NEW value \in MR \cup {Absent}, MRBecomes(m, value), Disturb,
         mrs[m] # Absent, value # Absent => value.finalizer = mrs[m].finalizer
  PROVE  CInv'
<1> USE DEF CInv
<1>1. /\ UNCHANGED <<configs, usageVars, secret, job, queue, protected>>
      /\ mrs' = [mrs EXCEPT ![m] = value] /\ work' = [work EXCEPT ![m].fresh = FALSE]
  BY DEF MRBecomes
<1>2. /\ work' \in [MRs -> Work] /\ \A n \in MRs \ {m} : work'[n] = work[n]
      /\ ~work'[m].fresh
  BY <1>1 DEF Types, Work
<1>3. /\ mrs' \in [MRs -> MR \cup {Absent}] /\ mrs'[m] = value
      /\ \A n \in MRs \ {m} : mrs'[n] = mrs[n]
  BY <1>1 DEF Types
<1>4. Types'
  BY <1>1, <1>2, <1>3, DisturbCounts DEF Types, usageVars
<1>5. UsagesStay'
  BY <1>1, <1>2, <1>3 DEF UsagesStay, UsageStays, WorkerKnows, usageVars
<1>6. ConfigsWait'
  BY <1>1, ConfigsUnchanged DEF usageVars
<1> QED BY <1>4, <1>5, <1>6

(* Both changes users make to a resource are of that kind.                   *)
LEMMA ResourceUsersKeep ==
  ASSUME CInv, NEW m \in MRs, DeleteMR(m) \/ \E ref \in Refs : EditRef(m, ref)
  PROVE  CInv'
<1>1. mrs[m] # Absent /\ mrs[m] \in MR /\ Disturb
  BY DEF CInv, Types, DeleteMR, EditRef
<1>2. CASE DeleteMR(m)
  <2> DEFINE object == [mrs[m] EXCEPT !.deleting = TRUE]
  <2>1. object \in MR /\ object.finalizer = mrs[m].finalizer
    BY <1>1 DEF MR
  <2>2. MRBecomes(m, IF mrs[m].finalizer THEN object ELSE Absent)
    BY <1>2 DEF DeleteMR
  <2> HIDE DEF object
  <2> QED BY <1>1, <2>1, <2>2, MRBecomesKeeps
<1>3. ASSUME NEW ref \in Refs, EditRef(m, ref) PROVE CInv'
  <2> DEFINE object == [mrs[m] EXCEPT !.ref = ref]
  <2>1. object \in MR /\ object.finalizer = mrs[m].finalizer
    BY <1>1 DEF MR
  <2>2. MRBecomes(m, object)
    BY <1>3 DEF EditRef
  <2> HIDE DEF object
  <2> QED BY <1>1, <2>1, <2>2, MRBecomesKeeps
<1> QED BY <1>2, <1>3

(* A config that is deleted waits for those whose usage is known.            *)
LEMMA DeleteConfigKeeps ==
  ASSUME CInv, NEW c \in Configs, DeleteConfig(c)
  PROVE  CInv'
<1> USE DEF CInv
<1> DEFINE value == IF configs[c].finalizer THEN [configs[c] EXCEPT !.deleting = TRUE]
                    ELSE Absent
           those == IF configs[c].finalizer
                    THEN {m \in MRs : \A u \in {usages[m], seenUsages[m]} :
                                        Concerns(m, u, c, c.kind)}
                    ELSE {}
<1>1. /\ configs[c] \in Config /\ ~configs[c].deleting /\ Disturb
      /\ UNCHANGED <<mrs, usageVars, secret, work>>
      /\ ConfigBecomes(c, value, job) /\ protected' = [protected EXCEPT ![c] = those]
  BY DEF DeleteConfig, Types, Present
<1>2. /\ value \in Config \cup {Absent} /\ value # configs[c]
      /\ configs[c].finalizer => value # Absent /\ value.deleting
  BY <1>1, Distinct DEF Config
<1>3. /\ those \subseteq MRs
      /\ those # {} => value # Absent /\ value.deleting
      /\ \A m \in those : \A u \in {usages[m], seenUsages[m]} : Concerns(m, u, c, c.kind)
  BY <1>2
<1> HIDE DEF value, those
<1>4. /\ configs' \in [Configs -> Config \cup {Absent}]
      /\ job' \in [Configs -> Job] /\ queue' \subseteq Configs
      /\ configs'[c] = value /\ \A d \in Configs \ {c} : configs'[d] = configs[d]
      /\ \A d \in Configs : job'[d].step = job[d].step
                              /\ (job'[d].fresh => job[d].fresh)
      /\ ~job'[c].fresh
  <2>1. job \in [Configs -> Job]
    BY DEF Types
  <2> QED BY <1>1, <1>2, <2>1, ConfigBecomesTyped
<1>5. /\ protected' \in [Configs -> SUBSET MRs] /\ protected'[c] = those
      /\ \A d \in Configs \ {c} : protected'[d] = protected[d]
  BY <1>1, <1>3 DEF Types
<1>6. Types'
  BY <1>1, <1>4, <1>5, DisturbCounts DEF Types, usageVars
<1>7. UsagesStay'
  BY <1>1, UsagesUnchanged DEF usageVars
<1>8. ConfigsWait'
  <2>1. JobKnows(c)' /\ Waits(c)'
    BY <1>1, <1>3, <1>4, <1>5 DEF JobKnows, Waits, Present, usageVars
  <2>2. ASSUME NEW d \in Configs \ {c} PROVE JobKnows(d)' /\ Waits(d)'
    BY <1>1, <1>4, <1>5 DEF ConfigsWait, JobKnows, Waits, Present, usageVars
  <2> QED BY <2>1, <2>2 DEF ConfigsWait
<1> QED BY <1>6, <1>7, <1>8

(* Nobody waits for a config that is new.                                    *)
LEMMA CreateConfigKeeps ==
  ASSUME CInv, NEW c \in Configs, CreateConfig(c)
  PROVE  CInv'
<1> USE DEF CInv
<1>1. /\ configs[c] = Absent /\ Disturb /\ UNCHANGED <<mrs, usageVars, secret, work>>
      /\ ConfigBecomes(c, NewConfig, job) /\ protected' = [protected EXCEPT ![c] = {}]
  BY DEF CreateConfig, Present
<1>2. /\ configs' \in [Configs -> Config \cup {Absent}]
      /\ job' \in [Configs -> Job] /\ queue' \subseteq Configs
      /\ configs'[c] = NewConfig /\ \A d \in Configs \ {c} : configs'[d] = configs[d]
      /\ \A d \in Configs : job'[d].step = job[d].step
                              /\ (job'[d].fresh => job[d].fresh)
  <2>1. job \in [Configs -> Job]
    BY DEF Types
  <2> QED BY <1>1, <2>1, NewTyped, ConfigBecomesTyped
<1>3. /\ protected' \in [Configs -> SUBSET MRs] /\ protected'[c] = {}
      /\ \A d \in Configs \ {c} : protected'[d] = protected[d]
  BY <1>1 DEF Types
<1>4. Types'
  BY <1>1, <1>2, <1>3, DisturbCounts DEF Types, usageVars
<1>5. UsagesStay'
  BY <1>1, UsagesUnchanged DEF usageVars
<1>6. ConfigsWait'
  <2>1. JobKnows(c)' /\ Waits(c)'
    BY <1>2, <1>3, NewTyped, Distinct DEF JobKnows, Waits, Present
  <2>2. ASSUME NEW d \in Configs \ {c} PROVE JobKnows(d)' /\ Waits(d)'
    BY <1>1, <1>2, <1>3 DEF ConfigsWait, JobKnows, Waits, Present, usageVars
  <2> QED BY <2>1, <2>2 DEF ConfigsWait
<1> QED BY <1>4, <1>5, <1>6

(* A crash forgets reconciles, and the informer starts from what is there.   *)
LEMMA CrashKeeps ==
  ASSUME CInv, Crash
  PROVE  CInv'
<1> USE DEF CInv, Crash
<1>1. Types'
  BY NewTyped, DisturbCounts DEF Types
<1>2. UsagesStay'
  BY DEF UsagesStay, UsageStays, WorkerKnows, IdleWork
<1>3. ConfigsWait'
  BY DEF ConfigsWait, JobKnows, Waits, Present, IdleJob
<1> QED BY <1>1, <1>2, <1>3
-----------------------------------------------------------------------------
(* The invariant is inductive.                                              *)
LEMMA CInvNext == CInv /\ [Next]_vars => CInv'
<1> SUFFICES ASSUME CInv, [Next]_vars PROVE CInv'
  OBVIOUS
<1>1. ASSUME NEW m \in MRs, Reconcile(m) \/ DeliverUsage(m) \/ Collect(m) \/ DeleteMR(m)
                            \/ \E ref \in Refs : EditRef(m, ref)
      PROVE  CInv'
  BY <1>1, ReconcileKeeps, DeliverUsageKeeps, CollectKeeps, ResourceUsersKeep
<1>2. ASSUME NEW c \in Configs, ConfigJob(c) \/ DeleteConfig(c) \/ CreateConfig(c)
      PROVE  CInv'
  BY <1>2, ConfigStartKeeps, ConfigConflictKeeps, ConfigWriteKeeps, DeleteConfigKeeps,
     CreateConfigKeeps DEF ConfigJob
<1>3. ASSUME NEW payload \in Payloads, ChangeSecret(payload)
      PROVE  CInv'
  <2>1. Types'
    BY <1>3, DisturbCounts DEF CInv, ChangeSecret, Types, usageVars
  <2> QED BY <1>3, <2>1, UsagesUnchanged, ConfigsUnchanged DEF CInv, ChangeSecret, usageVars
<1>4. CASE UNCHANGED vars
  <2>1. Types'
    BY <1>4 DEF CInv, Types, vars, usageVars
  <2> QED BY <1>4, <2>1, UsagesUnchanged, ConfigsUnchanged DEF CInv, vars, usageVars
<1> QED BY <1>1, <1>2, <1>3, <1>4, CrashKeeps DEF Next

(* The invariant holds of every behaviour.                                   *)
LEMMA ConfigInvariant == Spec => []CInv
BY CInvInit, CInvNext, PTL DEF Spec

(* Types are kept, and a resource that the provider holds has a usage: the    *)
(* tracker comes first in Connect, and usages go after their resources.      *)
THEOREM ConfigTypes == Spec => []TypeOK
BY ConfigInvariant, CInvSays, PTL

(* A config being deleted stays for as long as a resource uses it whose usage *)
(* was known when the deletion was asked for: neither a lagging informer, nor *)
(* a crash, nor an outdated write of either controller takes the finalizer    *)
(* off before (config.go and the usage tracker of Connect).                  *)
THEOREM ConfigInUseStays == Spec => []InUseStays
BY ConfigInvariant, CInvSays, PTL
-----------------------------------------------------------------------------
(* The start of a process: it only goes down for a reason, whatever kinds      *)
(* there are and in whatever order CRDs and permissions come and go.         *)

(* What the reviews have found is granted, unless it was withdrawn since.    *)
ReviewsHold ==
  /\ phase = "down" => reviewed = 0
  /\ phase = "review" => withdrawn \/ \A i \in 1..reviewed : Verbs[i] \in granted
  /\ phase = "running" /\ safeStart => withdrawn \/ AllVerbs \subseteq granted

(* The gate's controller comes with safe start only, and a managed kind is    *)
(* set up then when its CRD is there.                                        *)
GatedComeLate ==
  IF safeStart THEN starting \cap ManagedKinds \subseteq established
  ELSE Gate \notin starting \cup serving

SInv == StartupTypeOK /\ ReviewsHold /\ GatedComeLate

(* The three verbs that are reviewed are all there are.                      *)
LEMMA VerbsReviewed ==
  /\ Len(Verbs) = 3
  /\ \A i \in 1..3 : Verbs[i] \in AllVerbs
  /\ \A S : (\A i \in 1..3 : Verbs[i] \in S) => AllVerbs \subseteq S
<1>1. Len(Verbs) = 3 /\ Verbs[1] = "get" /\ Verbs[2] = "list" /\ Verbs[3] = "watch"
  BY DEF Verbs
<1>2. 1..3 = {1, 2, 3}
  OBVIOUS
<1> QED BY <1>1, <1>2 DEF AllVerbs

(* A disturbance is counted, and only a disturbance is.                      *)
LEMMA DisruptionCounts ==
  disruptions \in 0..MaxDisruptions /\ Disrupt => disruptions' \in 0..MaxDisruptions /\ disruptions' # disruptions
BY MaxDisruptionsAssumption DEF Disrupt

(* The invariant holds initially.                                           *)
LEMMA SInvInit == StartupInit => SInv
<1> SUFFICES ASSUME StartupInit PROVE SInv
  OBVIOUS
<1>1. StartupTypeOK
  <2>1. reviewed \in 0..Len(Verbs) /\ disruptions \in 0..MaxDisruptions
    BY VerbsReviewed, MaxDisruptionsAssumption DEF StartupInit
  <2> QED BY <2>1 DEF StartupInit, StartupTypeOK
<1> QED BY <1>1 DEF StartupInit, SInv, ReviewsHold, GatedComeLate

(* A process that goes down leaves nothing behind.                           *)
LEMMA DownKeeps ==
  ASSUME SInv, Down, UNCHANGED <<cluster, withdrawn>>, disruptions' \in 0..MaxDisruptions
  PROVE  SInv'
<1> USE DEF SInv, Down, cluster
<1>1. StartupTypeOK'
  <2>1. (reviewed \in 0..Len(Verbs))'
    BY VerbsReviewed
  <2> QED BY <2>1 DEF StartupTypeOK
<1>2. ReviewsHold' /\ GatedComeLate'
  BY DEF ReviewsHold, GatedComeLate
<1> QED BY <1>1, <1>2

(* A process starts.                                                        *)
LEMMA BootKeeps ==
  ASSUME SInv, Boot
  PROVE  SInv'
<1> USE DEF SInv, Boot, cluster
<1>1. StartupTypeOK'
  BY DEF StartupTypeOK
<1>2. ReviewsHold' /\ GatedComeLate'
  BY DEF ReviewsHold, GatedComeLate
<1> QED BY <1>1, <1>2

(* Every kind is set up in one way, with safe start and without.             *)
LEMMA LaunchKeeps ==
  ASSUME SInv, phase = "review", NEW safe \in BOOLEAN, Launch(safe),
         safe => withdrawn \/ AllVerbs \subseteq granted,
         UNCHANGED <<cluster, withdrawn, disruptions>>
  PROVE  SInv'
<1> USE DEF SInv
<1>1. /\ phase' = "running" /\ safeStart' = safe /\ UNCHANGED <<reviewed, serving>>
      /\ registered' = (IF safe THEN ManagedKinds ELSE {})
      /\ starting' = (IF safe THEN ConfigKinds \cup {Gate} ELSE Kinds)
      /\ registered \cup starting \cup serving = {}
  BY DEF Launch, SetupGated, Setup, Kinds, StartupTypeOK
<1>2. StartupTypeOK'
  BY <1>1, KindsAssumption DEF StartupTypeOK, cluster, Kinds
<1>3. ReviewsHold'
  BY <1>1 DEF ReviewsHold, cluster
<1>4. GatedComeLate'
  BY <1>1, KindsAssumption DEF GatedComeLate, Kinds, cluster
<1> QED BY <1>2, <1>3, <1>4

(* A review answers; the last one, or the first refusal, starts the manager.  *)
LEMMA ReviewKeeps ==
  ASSUME SInv, canWatchCRD
  PROVE  SInv'
<1> USE DEF SInv
<1>1. phase = "review" /\ UNCHANGED <<cluster, withdrawn, disruptions>> /\ reviewed \in 0..3
  BY VerbsReviewed DEF canWatchCRD, StartupTypeOK
<1>2. CASE reviewed = Len(Verbs) /\ Launch(TRUE)
  <2>1. withdrawn \/ AllVerbs \subseteq granted
    BY <1>1, <1>2, VerbsReviewed DEF ReviewsHold
  <2> QED BY <1>1, <1>2, <2>1, LaunchKeeps
<1>3. CASE Launch(FALSE)
  BY <1>1, <1>3, LaunchKeeps
<1>4. CASE /\ reviewed < Len(Verbs) /\ Verbs[reviewed + 1] \in granted
           /\ reviewed' = reviewed + 1
           /\ UNCHANGED <<phase, safeStart, registered, starting, serving>>
  <2>1. StartupTypeOK'
    BY <1>1, <1>4, VerbsReviewed DEF StartupTypeOK, cluster
  <2>2. \A i \in 1..(reviewed + 1) : i \in 1..reviewed \/ i = reviewed + 1
    BY <1>1
  <2>3. ReviewsHold'
    BY <1>1, <1>4, <2>2 DEF ReviewsHold, cluster
  <2>4. GatedComeLate'
    BY <1>1, <1>4 DEF GatedComeLate, cluster
  <2> QED BY <2>1, <2>3, <2>4
<1> QED BY <1>2, <1>3, <1>4 DEF canWatchCRD

(* An informer syncs.                                                       *)
LEMMA SyncKeeps ==
  ASSUME SInv, NEW k, Sync(k)
  PROVE  SInv'
<1> USE DEF SInv, Sync
<1>1. StartupTypeOK'
  BY DEF StartupTypeOK, cluster
<1>2. ReviewsHold' /\ GatedComeLate'
  BY DEF ReviewsHold, GatedComeLate, cluster
<1> QED BY <1>1, <1>2

(* A kind is let through the gate.                                           *)
LEMMA ReleaseKeeps ==
  ASSUME SInv, NEW k, Release(k)
  PROVE  SInv'
<1> USE DEF SInv, Release
<1>1. StartupTypeOK'
  BY DEF StartupTypeOK, cluster, Kinds
<1>2. ReviewsHold'
  BY DEF ReviewsHold, cluster
<1>3. GatedComeLate'
  BY DEF GatedComeLate, cluster
<1> QED BY <1>1, <1>2, <1>3

(* CRDs and permissions come, and a permission goes, which is noted.         *)
LEMMA ClusterKeeps ==
  ASSUME SInv,
         \/ \E k \in CRDs : Establish(k)
         \/ \E verb \in AllVerbs : Grant(verb) \/ Withdraw(verb)
  PROVE  SInv'
<1> USE DEF SInv
<1>1. /\ UNCHANGED process /\ established \subseteq established'
      /\ established' \subseteq CRDs /\ granted' \subseteq AllVerbs
      /\ (granted \subseteq granted' /\ withdrawn' = withdrawn) \/ withdrawn' = TRUE
      /\ disruptions' \in 0..MaxDisruptions
  BY DisruptionCounts DEF Establish, Grant, Withdraw, StartupTypeOK
<1>2. StartupTypeOK'
  BY <1>1 DEF StartupTypeOK, process
<1>3. ReviewsHold' /\ GatedComeLate'
  BY <1>1 DEF ReviewsHold, GatedComeLate, process
<1> QED BY <1>2, <1>3
-----------------------------------------------------------------------------
(* The invariant is inductive.                                              *)
LEMMA SInvNext == SInv /\ [StartupNext]_startupVars => SInv'
<1> SUFFICES ASSUME SInv, [StartupNext]_startupVars PROVE SInv'
  OBVIOUS
<1>1. CASE Fatal
  <2>1. disruptions' \in 0..MaxDisruptions
    BY <1>1, DisruptionCounts DEF Fatal, SInv, StartupTypeOK
  <2> QED BY <1>1, <2>1, DownKeeps DEF Fatal
<1>2. ASSUME NEW k \in Kinds \cup {Gate}, SyncTimeout(k)
      PROVE  SInv'
  <2>1. disruptions' \in 0..MaxDisruptions
    BY <1>2 DEF SyncTimeout, SInv, StartupTypeOK
  <2> QED BY <1>2, <2>1, DownKeeps DEF SyncTimeout
<1>3. CASE UNCHANGED startupVars
  BY <1>3 DEF startupVars, cluster, process, SInv, StartupTypeOK, ReviewsHold, GatedComeLate
<1> QED BY <1>1, <1>2, <1>3, BootKeeps, ReviewKeeps, SyncKeeps, ReleaseKeeps, ClusterKeeps
        DEF StartupNext

(* The invariant holds of every behaviour.                                   *)
LEMMA StartupInvariant == StartupSpec => []SInv
BY SInvInit, SInvNext, PTL DEF StartupSpec

(* Types are kept, a controller is in one place, and in none of a process     *)
(* that is not running.                                                     *)
THEOREM StartupTypes == StartupSpec => []StartupTypeOK
<1>1. SInv => StartupTypeOK
  BY DEF SInv
<1> QED BY <1>1, StartupInvariant, PTL

(* A running process that nothing happens to only goes down because it is     *)
(* bound to: with safe start never for the CRD of a managed resource, nor for *)
(* a permission it never had; without it never for a permission (main.go      *)
(* canWatchCRD, growthbook.go SetupGated).                                   *)
THEOREM ProcessStaysUp == StartupSpec => StaysUp
<1>1. ASSUME SInv, StartupNext, phase = "running", phase' = "down", disruptions' = disruptions
      PROVE  IF safeStart THEN Missing \cap ConfigCRDs # {} \/ withdrawn
             ELSE Missing # {}
  <2>1. disruptions \in 0..MaxDisruptions
    BY <1>1 DEF SInv, StartupTypeOK
  <2>2. ~Fatal
    BY <1>1, <2>1, DisruptionCounts DEF Fatal
  <2>3. PICK k \in Kinds \cup {Gate} : SyncTimeout(k)
    BY <1>1, <2>2 DEF StartupNext, Boot, canWatchCRD, Launch, Sync, Release, Establish, Grant,
       Withdraw, process
  <2>4. k \in starting /\ ~Available(k)
    BY <2>3 DEF SyncTimeout
  <2>5. CASE k = Gate
    <3>1. safeStart /\ ~(Watching \subseteq granted)
      BY <1>1, <2>4, <2>5 DEF Available, SInv, GatedComeLate
    <3>2. withdrawn
      BY <1>1, <3>1 DEF SInv, ReviewsHold, Watching, AllVerbs
    <3> QED BY <3>1, <3>2
  <2>6. CASE k # Gate
    <3>1. k \in Kinds
      BY <2>3, <2>6
    <3>2. PICK crd \in Watched(k) : crd \notin established
      BY <2>4, <2>6 DEF Available
    <3>3. crd \in CRDs /\ (k \in ConfigKinds => crd \in ConfigCRDs)
          /\ (k \notin ConfigKinds => crd = k /\ k \in ManagedKinds)
      BY <3>1, <3>2 DEF Watched, CRDs, ConfigCRDs, Kinds
    <3>4. safeStart => crd \in ConfigCRDs
      BY <1>1, <2>4, <3>2, <3>3 DEF SInv, GatedComeLate
    <3> QED BY <3>2, <3>3, <3>4 DEF Missing
  <2> QED BY <2>5, <2>6
<1>2. SInv /\ [StartupNext]_startupVars
        => [phase = "running" /\ phase' = "down" /\ disruptions' = disruptions =>
              IF safeStart THEN Missing \cap ConfigCRDs # {} \/ withdrawn
              ELSE Missing # {}]_startupVars
  BY <1>1
<1> QED BY <1>2, StartupInvariant, PTL DEF StartupSpec, StaysUp
=============================================================================
