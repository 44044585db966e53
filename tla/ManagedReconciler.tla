-------------------------- MODULE ManagedReconciler --------------------------
(***************************************************************************)
(* The managed-resource reconciler of crossplane-runtime v2, as the         *)
(* controllers of this repository set it up: which steps surround their     *)
(* Connect, Observe, Create, Update and Delete, and what each step writes   *)
(* to the Kubernetes object.  Its source is not in the repository: this     *)
(* module is the environment the controllers are composed with.             *)
(*                                                                          *)
(* One managed resource and one worker (controller-runtime never runs two   *)
(* reconciles of one object at a time).  The worker reads the object from   *)
(* an informer cache that lags behind the API server, keeps a copy in       *)
(* memory, and every full write is refused when the copy is not the latest  *)
(* version.  Only "latest or not" of a resource version matters, so it is a *)
(* flag beside each copy.                                                   *)
(***************************************************************************)
EXTENDS GrowthBookClient

CONSTANTS NoObject,     \* the managed resource is not there
          Policies,     \* spec.managementPolicies besides Observe
          Faults,       \* the answers of a GrowthBook that is not well
          MaxChaos      \* bound on disturbances: edits, crashes, failed calls

ASSUME PoliciesAssumption ==
  {"Create", "Update"} \subseteq Policies
  /\ Policies \subseteq {"Create", "Update", "Delete", "LateInitialize"}

(* An unwell GrowthBook neither denies having an object that it has nor      *)
(* shows one.                                                               *)
ASSUME FaultsAssumption ==
  /\ Faults \subseteq Responses
  /\ \A r \in Faults : ~IsNotFound(r) /\ (Fails(r, TRUE) \/ r.body # "object")

ASSUME MaxChaosAssumption == MaxChaos \in Nat

VARIABLES
  mr,         \* the object in the API server, or NoObject
  cache,      \* the informer's copy
  cacheFresh, \* cache is the latest version
  pc,         \* the next step of the reconcile, "idle" between two of them
  cr,         \* the copy this reconcile works on
  crFresh,    \* cr has the latest resource version
  obs,        \* the ExternalObservation of this reconcile
  inGrace,    \* the last creation is younger than the grace period
  owned,      \* history: the forProvider fields users have set
  chaos       \* disturbances so far

kubeVars    == <<mr, cache, cacheFresh, inGrace, owned>>
workerVars  == <<pc, cr, crFresh, obs>>
runtimeVars == <<kubeVars, workerVars, chaos>>

Steps == {"idle", "initialize", "connect", "observe", "delete", "removeFinalizer",
          "addFinalizer", "markPending", "create", "recordCreated",
          "recordFailed", "lateInit", "update",
          "archive", "deleteArchived",  \* in Feature's Delete only
          "publish"}                    \* for SDKConnection only

Observations == [exists : BOOLEAN, upToDate : BOOLEAN, lateInit : BOOLEAN]
NoObservation == [exists |-> FALSE, upToDate |-> FALSE, lateInit |-> FALSE]

Objects(forProviders, initProviders, names) ==
  [forProvider  : forProviders,
   initProvider : initProviders,
   externalName : names,
   create       : {"none", "pending", "succeeded", "failed"},
   finalizer    : BOOLEAN,
   deleting     : BOOLEAN]

NewObject(forProvider, initProvider, name) ==
  [forProvider |-> forProvider, initProvider |-> initProvider,
   externalName |-> name, create |-> "none",
   finalizer |-> FALSE, deleting |-> FALSE]

SetFields(p) == {f \in DOMAIN p : p[f] # Nil}

RuntimeTypeOK(forProviders, initProviders, names) ==
  LET objects == Objects(forProviders, initProviders, names) IN
  /\ mr \in objects \cup {NoObject}
  /\ cache \in objects \cup {NoObject}
  /\ pc \in Steps
  /\ IF pc = "idle" THEN cr = NoObject ELSE cr \in objects
  /\ obs \in Observations
  /\ {cacheFresh, crFresh, inGrace} \subseteq BOOLEAN
  /\ chaos \in 0..MaxChaos

RuntimeInit(object) ==
  /\ mr = object /\ cache = NoObject /\ cacheFresh = FALSE
  /\ pc = "idle" /\ cr = NoObject /\ crFresh = FALSE /\ obs = NoObservation
  /\ inGrace = FALSE /\ owned = SetFields(object.forProvider) /\ chaos = 0

Disturb == chaos < MaxChaos /\ chaos' = chaos + 1

(* A call of GrowthBook that goes wrong is a disturbance.                   *)
Charge(r) == IF r \in Faults THEN Disturb ELSE UNCHANGED chaos
-----------------------------------------------------------------------------
(* Control of one reconcile.                                                *)

EndReconcile ==
  pc' = "idle" /\ cr' = NoObject /\ crFresh' = FALSE /\ obs' = NoObservation

Continue(step, object, observation) ==
  IF step = "idle" THEN EndReconcile
  ELSE pc' = step /\ cr' = object /\ obs' = observation /\ UNCHANGED crFresh

(* An object whose creation was announced and never concluded is left alone *)
(* for good (ExternalCreateIncomplete); deletion with the object kept needs *)
(* no external call; "initialize" stands for the default initializers, which *)
(* name an object without external name after itself.                       *)
StartReconcile(initialized) ==
  /\ pc = "idle" /\ cache # NoObject /\ cache.create # "pending"
  /\ cr' = cache /\ crFresh' = cacheFresh
  /\ pc' = IF cache.deleting /\ "Delete" \notin Policies THEN "removeFinalizer"
           ELSE IF initialized THEN "connect" ELSE "initialize"
  /\ UNCHANGED <<kubeVars, obs, chaos>>

AfterLateInit(o) == IF o.upToDate THEN "idle" ELSE "update"

AfterFinalizer(o) ==
  IF ~o.exists THEN "markPending"
  ELSE IF o.lateInit /\ "LateInitialize" \in Policies THEN "lateInit"
  ELSE AfterLateInit(o)

AfterObserve(o) ==
  IF ~o.exists /\ cr.create = "succeeded" /\ inGrace THEN "idle"
  ELSE IF cr.deleting THEN IF o.exists THEN "delete" ELSE "removeFinalizer"
  ELSE IF ~cr.finalizer THEN "addFinalizer"
  ELSE AfterFinalizer(o)

Observed(o, forProvider) ==
  /\ Continue(AfterObserve(o), [cr EXCEPT !.forProvider = forProvider], o)
  /\ UNCHANGED kubeVars

NotObserved == EndReconcile /\ UNCHANGED kubeVars
-----------------------------------------------------------------------------
(* Writes to the API server.                                                *)

(* client.Update: everything in memory is written, on the latest version    *)
(* only; "stored" is what is left of the object once it is serialised.      *)
ClientUpdate(object, stored, next) ==
  /\ IF crFresh /\ mr # NoObject
     THEN /\ mr' = stored /\ cacheFresh' = FALSE
          /\ Continue(next, object, obs)
     ELSE EndReconcile /\ UNCHANGED <<mr, cacheFresh>>
  /\ UNCHANGED <<cache, inGrace, owned, chaos>>

WithSpec(object, forProvider) == [object EXCEPT !.forProvider = forProvider]

Initialize(name, stored) ==
  LET object == [cr EXCEPT !.externalName = name] IN
  /\ pc = "initialize"
  /\ ClientUpdate(object, WithSpec(object, stored), "connect")

AddFinalizer(stored) ==
  LET object == [cr EXCEPT !.finalizer = TRUE] IN
  /\ pc = "addFinalizer"
  /\ ClientUpdate(object, WithSpec(object, stored), AfterFinalizer(obs))

MarkPending(stored) ==
  LET object == [cr EXCEPT !.create = "pending"] IN
  /\ pc = "markPending"
  /\ ClientUpdate(object, WithSpec(object, stored), "create")

SaveLateInit(stored) ==
  /\ pc = "lateInit"
  /\ ClientUpdate(cr, WithSpec(cr, stored), AfterLateInit(obs))

RemoveFinalizer ==
  /\ pc = "removeFinalizer"
  /\ ClientUpdate([cr EXCEPT !.finalizer = FALSE], NoObject, "idle")

(* The outcome of a creation is patched into the annotations without any    *)
(* check of the version.                                                    *)
RecordCreation ==
  /\ pc \in {"recordCreated", "recordFailed"}
  /\ mr # NoObject
  /\ mr' = [mr EXCEPT !.externalName = cr.externalName,
                      !.create = IF pc = "recordCreated"
                                 THEN "succeeded" ELSE "failed"]
  /\ inGrace' = (pc = "recordCreated")
  /\ cacheFresh' = FALSE
  /\ EndReconcile
  /\ UNCHANGED <<cache, owned, chaos>>
-----------------------------------------------------------------------------
(* What happens around the worker.                                          *)

CacheSync ==
  /\ ~cacheFresh
  /\ cache' = mr /\ cacheFresh' = TRUE
  /\ UNCHANGED <<mr, inGrace, owned, workerVars, chaos>>

GraceEnds ==
  /\ inGrace /\ inGrace' = FALSE
  /\ UNCHANGED <<mr, cache, cacheFresh, owned, workerVars, chaos>>

(* The process dies, or a write to the API server fails for good.           *)
Crash == pc # "idle" /\ Disturb /\ EndReconcile /\ UNCHANGED kubeVars

ForeignWrite(object) ==
  /\ Disturb
  /\ mr' = object /\ cacheFresh' = FALSE /\ crFresh' = FALSE
  /\ UNCHANGED <<cache, inGrace, pc, cr, obs>>

UserDelete ==
  /\ mr # NoObject /\ ~mr.deleting
  /\ ForeignWrite(IF mr.finalizer THEN [mr EXCEPT !.deleting = TRUE]
                  ELSE NoObject)
  /\ UNCHANGED owned

UserEdit(field, value) ==
  /\ mr # NoObject /\ ~mr.deleting /\ mr.forProvider[field] # value
  /\ ForeignWrite([mr EXCEPT !.forProvider[field] = value])
  /\ owned' = owned \cup {field}

UserCreate(object) ==
  /\ mr = NoObject
  /\ ForeignWrite(object)
  /\ owned' = SetFields(object.forProvider)
-----------------------------------------------------------------------------
(* What the properties of every kind speak of.                              *)

(* The process died between announcing a creation and recording its outcome; *)
(* the reconciler waits for a human.                                        *)
Stuck == mr # NoObject /\ mr.create = "pending" /\ pc = "idle"

(* The fields users have put in initProvider and never in forProvider.       *)
InitOnly(object) ==
  {f \in DOMAIN object.forProvider \ owned : object.initProvider[f] # Nil}
=============================================================================
