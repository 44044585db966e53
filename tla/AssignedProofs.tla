---------------------------- MODULE AssignedProofs ----------------------------
(***************************************************************************)
(* What Project and SDKConnection owe to the reconciler and to ids that only *)
(* the answer to a POST tells, whatever they carry: P and IP stand for the   *)
(* parameters of a kind, O for its objects, R for the bodies of its          *)
(* requests.  AssignedStep is all that a step of either controller can be;   *)
(* it is shown here, once, to keep the types and the safety invariant and to *)
(* be a step of ExternalResource.  What a controller adds is that its steps  *)
(* are of these forms.                                                      *)
(***************************************************************************)
EXTENDS AssignedRemote, TLAPS

Things(P, IP) == Objects(P, IP, Opt(Ids))

(* What a kind's constants have to be.                                      *)
Sound(P, IP, O) ==
  /\ NoObject \notin Things(P, IP) /\ Unborn \notin O /\ Gone \notin O
  /\ \A s \in Specs : s.forProvider \in P /\ s.initProvider \in IP
  /\ \A e \in Edits : \A p \in P : [p EXCEPT ![e.field] = e.to] \in P
  /\ \A e \in OutOfBand : \A o \in O : [o EXCEPT ![e.field] = e.to] \in O

KubeOK(P, IP) ==
  /\ mr \in Things(P, IP) \cup {NoObject} /\ cache \in Things(P, IP) \cup {NoObject}
  /\ cacheFresh \in BOOLEAN /\ inGrace \in BOOLEAN

WorkerOK(P, IP) ==
  /\ pc \in Steps /\ obs \in Observations /\ crFresh \in BOOLEAN
  /\ IF pc = "idle" THEN cr = NoObject ELSE cr \in Things(P, IP)

RemoteOK(O, R) ==
  /\ remote \in [Ids -> O \cup {Unborn, Gone}]
  /\ inFlight \subseteq RequestsWith(R)
  /\ lost \subseteq Ids

ChaosOK == chaos \in 0..MaxChaos

(* The type invariant is what these four say.                               *)
LEMMA AssignedTypeParts ==
  ASSUME NEW P, NEW IP, NEW O, NEW R
  PROVE  /\ AssignedTypeOK(P, IP, O, R)
              <=> KubeOK(P, IP) /\ WorkerOK(P, IP) /\ RemoteOK(O, R) /\ ChaosOK
         /\ AssignedTypeOK(P, IP, O, R)'
              <=> KubeOK(P, IP)' /\ WorkerOK(P, IP)' /\ RemoteOK(O, R)' /\ ChaosOK'
BY DEF AssignedTypeOK, RuntimeTypeOK, KubeOK, WorkerOK, RemoteOK, ChaosOK, Things

(* A new resource is one of its kind.                                       *)
LEMMA NewTyped ==
  ASSUME NEW P, NEW IP, NEW O, Sound(P, IP, O), NEW s \in Specs, NEW id \in Opt(Ids)
  PROVE  /\ NewObject(s.forProvider, s.initProvider, id) \in Things(P, IP)
         /\ NewObject(s.forProvider, s.initProvider, id) # NoObject
<1>1. NewObject(s.forProvider, s.initProvider, id) \in Things(P, IP)
  BY DEF Sound, NewObject, Things, Objects
<1> QED BY <1>1 DEF Sound

(* The initial states are well typed.                                       *)
LEMMA StartTyped ==
  ASSUME NEW P, NEW IP, NEW O, NEW R, Sound(P, IP, O),
         NEW s \in Specs, NEW id \in Imported \cup {Nil}, NEW object \in O,
         Starts(s, id, object)
  PROVE  AssignedTypeOK(P, IP, O, R)
<1>1. id \in Opt(Ids)
  BY IdsAssumption DEF Opt
<1>2. RuntimeInit(NewObject(s.forProvider, s.initProvider, id))
  BY DEF Starts
<1>3. KubeOK(P, IP)
  BY <1>1, <1>2, NewTyped DEF KubeOK, RuntimeInit
<1>4. WorkerOK(P, IP)
  BY <1>2 DEF WorkerOK, RuntimeInit, Steps, Observations, NoObservation
<1>5. RemoteOK(O, R)
  BY DEF RemoteOK, Starts
<1>6. ChaosOK
  BY <1>2, MaxChaosAssumption DEF ChaosOK, RuntimeInit
<1> QED BY <1>3, <1>4, <1>5, <1>6, AssignedTypeParts

CopiesOK(P, IP) == NoObject \notin Things(P, IP) /\ KubeOK(P, IP) /\ WorkerOK(P, IP)

(* The copies of the object are there, and carry an id or none.              *)
LEMMA Copies ==
  ASSUME NEW P, NEW IP, CopiesOK(P, IP)
  PROVE  /\ pc # "idle" => cr \in Things(P, IP) /\ cr # NoObject /\ obs \in Observations
                             /\ cr.externalName \in Opt(Ids)
         /\ mr # NoObject => mr \in Things(P, IP) /\ mr.externalName \in Opt(Ids)
         /\ cache # NoObject => cache \in Things(P, IP) /\ cache.externalName \in Opt(Ids)
         /\ cr # NoObject => cr.externalName \in Opt(Ids)
BY DEF CopiesOK, KubeOK, WorkerOK, Things, Objects
-----------------------------------------------------------------------------
(* What steps there are.                                                    *)

(* GrowthBook makes an object, as id; or changes or deletes one that is live.*)
Makes(O, id) == \E object \in O : PostAs(id, object)

Changes(O, id) ==
  \/ UNCHANGED remote
  \/ Live(id) /\ \E object \in O \cup {Gone} : remote' = [remote EXCEPT ![id] = object]

(* The id stands for no object any more, or there never was one.             *)
Free(id) == id = Nil \/ remote[id] = Gone

Connects ==
  /\ pc = "connect" /\ UNCHANGED <<kubeVars, remote, lost>>
  /\ EndReconcile \/ (pc' = "observe" /\ UNCHANGED <<cr, crFresh, obs>>)

(* An observation that denies the object is only taken over when there is    *)
(* none, or none any more: the reconcile may then create or let go.          *)
Justified(step, o) ==
  /\ step \in {"idle", "publish", "delete", "lateInit", "update",
               "removeFinalizer", "addFinalizer", "markPending"}
  /\ (step = "addFinalizer" => o.exists) \/ Free(cr.externalName)
  /\ step \in {"removeFinalizer", "markPending"} => Free(cr.externalName)
  /\ step = "markPending" => cr.finalizer

GoesOn(P) ==
  /\ pc \in {"observe", "publish"} /\ UNCHANGED <<kubeVars, remote, lost>>
  /\ \E step \in Steps : \E p \in P : \E o \in Observations :
       Continue(step, WithSpec(cr, p), o) /\ Justified(step, o)

(* The object was made as id: its id is learned, or it is lost.              *)
CreateEnds(id) ==
  \/ Returned("recordFailed", cr.externalName) /\ lost' = lost \cup {id}
  \/ Returned("recordCreated", id) /\ UNCHANGED lost
  \/ Returned("recordCreated", Nil) /\ lost' = lost \cup {id}

Creates(O) ==
  /\ pc = "create" /\ UNCHANGED kubeVars
  /\ \/ Returned("recordFailed", cr.externalName) /\ UNCHANGED <<remote, lost>>
     \/ \E id \in Ids : Makes(O, id) /\ CreateEnds(id)

(* Update and Delete.                                                       *)
Calls(O) ==
  /\ pc \in {"update", "delete"} /\ UNCHANGED <<kubeVars, lost>>
  /\ EndReconcile /\ \E id \in Opt(Ids) : Changes(O, id)

Between(P) == \E stored : (pc # "idle" => stored \in P) /\ ReconcilerStep(stored)

(* A late request, somebody at work in GrowthBook, or nobody.                *)
Outside(O) ==
  /\ UNCHANGED <<kubeVars, workerVars>>
  /\ \/ \E id \in Opt(Ids) : Changes(O, id) /\ UNCHANGED lost
     \/ \E id \in Ids : Makes(O, id) /\ lost' = lost \cup {id}

Around == (Users \/ CacheSync \/ GraceEnds) /\ UNCHANGED growthbook

AssignedStep(P, O, R) ==
  /\ UNCHANGED chaos \/ Disturb
  /\ inFlight' \subseteq RequestsWith(R)
  /\ \/ Between(P) \/ Connects \/ GoesOn(P) \/ Creates(O) \/ Calls(O)
     \/ CrashStep \/ Around \/ Outside(O)
-----------------------------------------------------------------------------
(* GrowthBook keeps what is known of an id: a deleted object never comes     *)
(* back, a given id is never given again, and no object comes up but id.     *)
OnlyMoves(id) ==
  \A i \in Ids : (remote[i] = Gone => remote'[i] = Gone)
                   /\ (remote[i] # Unborn => remote'[i] # Unborn)
                   /\ (i # id /\ Live(i)' => Live(i))

RemoteTyped(O) == remote \in [Ids -> O \cup {Unborn, Gone}]

(* That is all that making an object does,                                  *)
LEMMA MakesMoves ==
  ASSUME NEW P, NEW IP, NEW O, Sound(P, IP, O), RemoteTyped(O), NEW id \in Ids, Makes(O, id)
  PROVE  /\ RemoteTyped(O)' /\ OnlyMoves(id) /\ remote[id] = Unborn /\ Live(id)'
         /\ \A i \in Ids \ {id} : Live(i)' = Live(i)
<1>1. PICK object \in O : remote[id] = Unborn /\ remote' = [remote EXCEPT ![id] = object]
  BY DEF Makes, PostAs
<1>2. object \notin {Unborn, Gone}
  BY DEF Sound
<1> QED BY <1>1, <1>2, IdsAssumption DEF RemoteTyped, OnlyMoves, Live

(* and changing or deleting one brings none into being.                     *)
LEMMA ChangesMoves ==
  ASSUME NEW P, NEW IP, NEW O, Sound(P, IP, O), RemoteTyped(O), NEW id \in Opt(Ids),
         Changes(O, id)
  PROVE  /\ RemoteTyped(O)' /\ OnlyMoves(Nil)
         /\ \A i \in Ids \ {id} : Live(i)' = Live(i)
         /\ Live(id)' /\ id \in Ids => Live(id)
<1>1. CASE UNCHANGED remote
  BY <1>1 DEF RemoteTyped, OnlyMoves, Live
<1>2. CASE ~UNCHANGED remote
  <2>1. PICK object \in O \cup {Gone} : Live(id) /\ remote' = [remote EXCEPT ![id] = object]
    BY <1>2 DEF Changes
  <2>2. object # Unborn
    BY IdsAssumption DEF Sound
  <2>3. CASE id \in Ids
    BY <2>1, <2>2, <2>3, IdsAssumption DEF RemoteTyped, OnlyMoves, Live
  <2>4. CASE id \notin Ids
    BY <1>2, <2>1, <2>4 DEF RemoteTyped
  <2> QED BY <2>3, <2>4
<1> QED BY <1>1, <1>2

(* A PUT or a DELETE, served whenever, at most changes its object,           *)
LEMMA PutChanges ==
  ASSUME NEW O, RemoteTyped(O), NEW id \in Opt(Ids), NEW body,
         \A object \in O : Overlay(object, body) \in O, Put(id, body)
  PROVE  Changes(O, id)
<1>1. CASE Live(id) /\ id \in Ids
  <2>1. remote[id] \in O
    BY <1>1 DEF RemoteTyped, Live
  <2> QED BY <1>1, <2>1 DEF Put, Changes
<1>2. CASE ~(Live(id) /\ id \in Ids)
  BY <1>2 DEF Put, Changes, RemoteTyped
<1> QED BY <1>1, <1>2

LEMMA RemoveChanges ==
  ASSUME NEW O, NEW id, Remove(id)
  PROVE  Changes(O, id)
BY DEF Remove, Changes

(* and so do edits and deletions in GrowthBook itself.                      *)
LEMMA OutOfBandChanges ==
  ASSUME NEW P, NEW IP, NEW O, Sound(P, IP, O), RemoteTyped(O), NEW id \in Ids,
         OutOfBandDelete(id) \/ \E e \in OutOfBand : OutOfBandEdit(id, e)
  PROVE  Changes(O, id)
<1>1. CASE OutOfBandDelete(id)
  BY <1>1 DEF OutOfBandDelete, Changes
<1>2. ASSUME NEW e \in OutOfBand, OutOfBandEdit(id, e)
      PROVE  Changes(O, id)
  <2>1. Live(id) /\ remote[id] \in O
    BY <1>2 DEF OutOfBandEdit, Live, RemoteTyped
  <2>2. remote' = [remote EXCEPT ![id] = [remote[id] EXCEPT ![e.field] = e.to]]
    BY <1>2 DEF OutOfBandEdit
  <2> QED BY <2>1, <2>2 DEF Changes, Sound
<1> QED BY <1>1, <1>2
-----------------------------------------------------------------------------
(* Types are preserved, one lemma for each form of a step.                   *)

(* Whatever was observed, the reconcile goes on with a step it has.         *)
LEMMA NextSteps ==
  ASSUME NEW o \in Observations
  PROVE  /\ AfterLateInit(o) \in Steps
         /\ AfterFinalizer(o) \in Steps
         /\ AfterObserve(o) \in Steps
BY DEF AfterLateInit, AfterFinalizer, AfterObserve, Steps

(* The observation of an absent object is an observation.                   *)
LEMMA NoObservationTyped == NoObservation \in Observations /\ ~NoObservation.exists
BY DEF Observations, NoObservation

(* A worker that ends its reconcile is well typed.                          *)
LEMMA EndTyped ==
  ASSUME NEW P, NEW IP, EndReconcile
  PROVE  WorkerOK(P, IP)'
<1>1. crFresh' \in BOOLEAN
  BY DEF EndReconcile
<1> QED BY <1>1, NoObservationTyped DEF WorkerOK, EndReconcile, Steps

(* So is one that goes on to a step with an object.                         *)
LEMMA ContinueTyped ==
  ASSUME NEW P, NEW IP, WorkerOK(P, IP), NEW step \in Steps, NEW object \in Things(P, IP),
         NEW o \in Observations, Continue(step, object, o)
  PROVE  WorkerOK(P, IP)'
<1>1. CASE step = "idle"
  BY <1>1, EndTyped DEF Continue
<1>2. CASE step # "idle"
  BY <1>2 DEF Continue, WorkerOK
<1> QED BY <1>1, <1>2

(* The form of a full write of the copy in memory, with the fields in stored: *)
(* the name stays, the finalizer is not taken off.                           *)
Saves(P, IP, object, stored, next) ==
  /\ ClientUpdate(object, WithSpec(object, stored), next)
  /\ pc \in {"addFinalizer", "markPending", "lateInit"}
  /\ cr \in Things(P, IP) /\ object \in Things(P, IP) /\ WithSpec(object, stored) \in Things(P, IP)
  /\ WithSpec(object, stored).externalName = object.externalName
  /\ WithSpec(object, stored).finalizer = object.finalizer
  /\ WithSpec(object, stored).create = object.create
  /\ WithSpec(object, stored).deleting = object.deleting
  /\ object.externalName = cr.externalName
  /\ object.deleting = cr.deleting /\ (cr.finalizer => object.finalizer)
  /\ object.create = cr.create \/ next = "create"
  /\ next \in {"idle", "lateInit", "update", "markPending", "create"}
  /\ next \in {"markPending", "create"} => Free(cr.externalName) /\ object.finalizer
  /\ next = "create" => object.create = "pending"

(* On its way to Create the reconciler knows that the copy in memory names no *)
(* object, or one that is gone.                                              *)
OnTheWay ==
  /\ \/ pc \in {"markPending", "create", "recordFailed"}
     \/ pc = "addFinalizer" /\ ~obs.exists
     \/ pc = "removeFinalizer" /\ "Delete" \in Policies
     => Free(cr.externalName)
  /\ pc \in {"markPending", "create", "recordCreated", "recordFailed"} => cr.finalizer

(* Between two calls every write but the removal of the finalizer and the     *)
(* record of a creation is of that form.                                     *)
LEMMA BetweenForms ==
  ASSUME NEW P, NEW IP, WorkerOK(P, IP), OnTheWay, Between(P)
  PROVE  \/ StartReconcile(TRUE) \/ RemoveFinalizer \/ RecordCreation
         \/ \E object, stored, next : Saves(P, IP, object, stored, next)
<1>1. PICK stored : (pc # "idle" => stored \in P) /\ ReconcilerStep(stored)
  BY DEF Between
<1>2. ASSUME NEW object \in Things(P, IP), pc # "idle"
      PROVE  /\ WithSpec(object, stored) \in Things(P, IP)
             /\ WithSpec(object, stored).externalName = object.externalName
             /\ WithSpec(object, stored).finalizer = object.finalizer
             /\ WithSpec(object, stored).create = object.create
             /\ WithSpec(object, stored).deleting = object.deleting
  BY <1>1, <1>2 DEF WithSpec, Things, Objects
<1>3. ASSUME pc # "idle" PROVE cr \in Things(P, IP) /\ obs \in Observations
  BY <1>3 DEF WorkerOK
<1>4. CASE AddFinalizer(stored)
  <2> DEFINE object == [cr EXCEPT !.finalizer = TRUE]
             next   == AfterFinalizer(obs)
  <2>1. pc = "addFinalizer" /\ ClientUpdate(object, WithSpec(object, stored), next)
    BY <1>4 DEF AddFinalizer
  <2>2. /\ cr \in Things(P, IP) /\ object \in Things(P, IP)
        /\ object.externalName = cr.externalName
        /\ object.deleting = cr.deleting /\ object.finalizer /\ object.create = cr.create
    BY <1>3, <2>1 DEF Things, Objects
  <2>3. next \in {"idle", "lateInit", "update"} \/ (next = "markPending" /\ ~obs.exists)
    BY DEF AfterFinalizer, AfterLateInit
  <2> HIDE DEF object, next
  <2>4. next = "markPending" => Free(cr.externalName)
    BY <2>1, <2>3 DEF OnTheWay
  <2>5. Saves(P, IP, object, stored, next)
    BY <1>2, <2>1, <2>2, <2>3, <2>4 DEF Saves
  <2> QED BY <2>5
<1>5. CASE MarkPending(stored)
  <2> DEFINE object == [cr EXCEPT !.create = "pending"]
  <2>1. pc = "markPending" /\ ClientUpdate(object, WithSpec(object, stored), "create")
    BY <1>5 DEF MarkPending
  <2>2. /\ cr \in Things(P, IP) /\ object \in Things(P, IP)
        /\ object.externalName = cr.externalName /\ object.create = "pending"
        /\ object.deleting = cr.deleting /\ object.finalizer = cr.finalizer
    BY <1>3, <2>1 DEF Things, Objects
  <2> HIDE DEF object
  <2>3. Saves(P, IP, object, stored, "create")
    BY <1>2, <2>1, <2>2 DEF Saves, OnTheWay
  <2> QED BY <2>3
<1>6. CASE SaveLateInit(stored)
  <2> DEFINE next == AfterLateInit(obs)
  <2>1. pc = "lateInit" /\ ClientUpdate(cr, WithSpec(cr, stored), next)
    BY <1>6 DEF SaveLateInit
  <2>2. next \in {"idle", "update"}
    BY DEF AfterLateInit
  <2> HIDE DEF next
  <2>3. Saves(P, IP, cr, stored, next)
    BY <1>2, <1>3, <2>1, <2>2 DEF Saves
  <2> QED BY <2>3
<1> QED BY <1>1, <1>4, <1>5, <1>6 DEF ReconcilerStep
-----------------------------------------------------------------------------
(* A full write, accepted or refused, leaves typed objects behind.          *)
LEMMA ClientUpdateTyped ==
  ASSUME NEW P, NEW IP, KubeOK(P, IP), WorkerOK(P, IP), NEW object \in Things(P, IP),
         NEW stored \in Things(P, IP) \cup {NoObject}, NEW next \in Steps,
         ClientUpdate(object, stored, next)
  PROVE  KubeOK(P, IP)' /\ WorkerOK(P, IP)' /\ UNCHANGED chaos
<1>1. CASE crFresh /\ mr # NoObject
  <2>1. obs \in Observations
    BY DEF WorkerOK
  <2>2. WorkerOK(P, IP)'
    BY <1>1, <2>1, ContinueTyped DEF ClientUpdate
  <2> QED BY <1>1, <2>2 DEF ClientUpdate, KubeOK
<1>2. CASE ~(crFresh /\ mr # NoObject)
  BY <1>2, EndTyped DEF ClientUpdate, KubeOK
<1> QED BY <1>1, <1>2

(* The steps between the controller's calls keep the types.                 *)
LEMMA BetweenTyped ==
  ASSUME NEW P, NEW IP, KubeOK(P, IP), WorkerOK(P, IP), OnTheWay, Between(P)
  PROVE  KubeOK(P, IP)' /\ WorkerOK(P, IP)' /\ UNCHANGED growthbook
<1>1. UNCHANGED growthbook
  BY DEF Between, ReconcilerStep
<1>2. CASE StartReconcile(TRUE)
  BY <1>1, <1>2 DEF StartReconcile, KubeOK, WorkerOK, kubeVars, Steps
<1>3. CASE RemoveFinalizer
  <2>1. [cr EXCEPT !.finalizer = FALSE] \in Things(P, IP)
    BY <1>3 DEF RemoveFinalizer, WorkerOK, Things, Objects
  <2>2. "idle" \in Steps
    BY DEF Steps
  <2> QED BY <1>1, <1>3, <2>1, <2>2, ClientUpdateTyped DEF RemoveFinalizer
<1>4. CASE RecordCreation
  <2>1. cr \in Things(P, IP)
    BY <1>4 DEF RecordCreation, WorkerOK
  <2>2. mr' \in Things(P, IP)
    BY <1>4, <2>1 DEF RecordCreation, KubeOK, Things, Objects
  <2>3. KubeOK(P, IP)'
    BY <1>4, <2>2 DEF RecordCreation, KubeOK
  <2> QED BY <1>1, <1>4, <2>3, EndTyped DEF RecordCreation
<1>5. ASSUME NEW object, NEW stored, NEW next, Saves(P, IP, object, stored, next)
      PROVE  KubeOK(P, IP)' /\ WorkerOK(P, IP)'
  <2>1. next \in Steps
    BY <1>5 DEF Saves, Steps
  <2> QED BY <1>5, <2>1, ClientUpdateTyped DEF Saves
<1> QED BY <1>1, <1>2, <1>3, <1>4, <1>5, BetweenForms

(* A counted disturbance stays within its bound, and so does none.          *)
LEMMA ChaosTyped ==
  ASSUME ChaosOK, UNCHANGED chaos \/ Disturb
  PROVE  ChaosOK'
BY MaxChaosAssumption DEF ChaosOK, Disturb

(* The charge of an answer is one or the other.                             *)
LEMMA Charged ==
  ASSUME NEW r, Charge(r)
  PROVE  UNCHANGED chaos \/ Disturb
BY DEF Charge

(* What the API server holds stays typed when nobody writes to it.          *)
LEMMA KubeUnchanged ==
  ASSUME NEW P, NEW IP, KubeOK(P, IP), UNCHANGED kubeVars
  PROVE  KubeOK(P, IP)'
BY DEF KubeOK, kubeVars

(* So does the worker that does nothing.                                    *)
LEMMA WorkerUnchanged ==
  ASSUME NEW P, NEW IP, WorkerOK(P, IP), UNCHANGED workerVars
  PROVE  WorkerOK(P, IP)'
BY DEF WorkerOK, workerVars

(* An answer taken over, or turned into the end of the reconcile.            *)
LEMMA GoesOnTyped ==
  ASSUME NEW P, NEW IP, WorkerOK(P, IP), GoesOn(P)
  PROVE  WorkerOK(P, IP)'
<1>1. PICK step \in Steps : \E p \in P : \E o \in Observations :
        Continue(step, WithSpec(cr, p), o)
  BY DEF GoesOn
<1>2. PICK p \in P : \E o \in Observations : Continue(step, WithSpec(cr, p), o)
  BY <1>1
<1>3. WithSpec(cr, p) \in Things(P, IP)
  BY DEF GoesOn, WorkerOK, WithSpec, Things, Objects
<1> QED BY <1>2, <1>3, ContinueTyped

(* Create hands a typed object back, with the id it learned or none.        *)
LEMMA CreatesTyped ==
  ASSUME NEW P, NEW IP, NEW O, Sound(P, IP, O), WorkerOK(P, IP), RemoteTyped(O),
         lost \subseteq Ids, Creates(O)
  PROVE  WorkerOK(P, IP)' /\ RemoteTyped(O)' /\ lost' \subseteq Ids
<1>1. cr \in Things(P, IP) /\ cr.externalName \in Opt(Ids)
  BY DEF Creates, WorkerOK, Things, Objects
<1>2. ASSUME NEW step \in {"recordFailed", "recordCreated"}, NEW name \in Opt(Ids),
             Returned(step, name)
      PROVE  WorkerOK(P, IP)'
  <2>1. [cr EXCEPT !.externalName = name] \in Things(P, IP)
    BY <1>1 DEF Things, Objects
  <2> QED BY <1>2, <2>1 DEF Returned, WorkerOK, Steps
<1>3. CASE Returned("recordFailed", cr.externalName) /\ UNCHANGED <<remote, lost>>
  BY <1>1, <1>2, <1>3 DEF RemoteTyped
<1>4. ASSUME NEW id \in Ids, Makes(O, id), CreateEnds(id)
      PROVE  WorkerOK(P, IP)' /\ RemoteTyped(O)' /\ lost' \subseteq Ids
  <2>1. RemoteTyped(O)'
    BY <1>4, MakesMoves
  <2>2. id \in Opt(Ids) /\ Nil \in Opt(Ids)
    BY DEF Opt
  <2> QED BY <1>1, <1>2, <1>4, <2>1, <2>2 DEF CreateEnds
<1> QED BY <1>3, <1>4 DEF Creates

(* What users do, the informer and the grace period keep the types.         *)
LEMMA AroundTyped ==
  ASSUME NEW P, NEW IP, NEW O, Sound(P, IP, O), KubeOK(P, IP), WorkerOK(P, IP), Around
  PROVE  KubeOK(P, IP)' /\ WorkerOK(P, IP)'
<1>1. ASSUME NEW object \in Things(P, IP) \cup {NoObject}, ForeignWrite(object)
      PROVE  KubeOK(P, IP)' /\ WorkerOK(P, IP)'
  <2>1. KubeOK(P, IP)'
    BY <1>1 DEF ForeignWrite, KubeOK
  <2>2. crFresh' \in BOOLEAN
    BY <1>1 DEF ForeignWrite
  <2> QED BY <1>1, <2>1, <2>2 DEF ForeignWrite, WorkerOK
<1>2. CASE UserDelete
  <2>1. mr \in Things(P, IP)
    BY <1>2 DEF UserDelete, KubeOK
  <2>2. [mr EXCEPT !.deleting = TRUE] \in Things(P, IP)
    BY <2>1 DEF Things, Objects
  <2> QED BY <1>1, <1>2, <2>2 DEF UserDelete
<1>3. ASSUME NEW e \in Edits, UserEdit(e.field, e.to)
      PROVE  KubeOK(P, IP)' /\ WorkerOK(P, IP)'
  <2> DEFINE object == [mr EXCEPT !.forProvider[e.field] = e.to]
  <2>1. mr \in Things(P, IP) /\ mr.forProvider \in P
    BY <1>3 DEF UserEdit, KubeOK, Things, Objects
  <2>2. [mr.forProvider EXCEPT ![e.field] = e.to] \in P
    BY <2>1 DEF Sound
  <2>3. object = [mr EXCEPT !.forProvider = [mr.forProvider EXCEPT ![e.field] = e.to]]
    OBVIOUS
  <2>4. object \in Things(P, IP)
    BY <2>1, <2>2, <2>3 DEF Things, Objects
  <2>5. ForeignWrite(object)
    BY <1>3 DEF UserEdit
  <2> HIDE DEF object
  <2> QED BY <1>1, <2>4, <2>5
<1>4. ASSUME NEW s \in Specs, UserCreate(NewObject(s.forProvider, s.initProvider, Nil))
      PROVE  KubeOK(P, IP)' /\ WorkerOK(P, IP)'
  <2>1. Nil \in Opt(Ids)
    BY DEF Opt
  <2>2. NewObject(s.forProvider, s.initProvider, Nil) \in Things(P, IP)
    BY <2>1, NewTyped
  <2> QED BY <1>1, <1>4, <2>2 DEF UserCreate
<1>5. CASE CacheSync
  <2>1. cacheFresh' \in BOOLEAN
    BY <1>5 DEF CacheSync
  <2> QED BY <1>5, <2>1, WorkerUnchanged DEF CacheSync, KubeOK
<1>6. CASE GraceEnds
  <2>1. inGrace' \in BOOLEAN
    BY <1>6 DEF GraceEnds
  <2> QED BY <1>6, <2>1, WorkerUnchanged DEF GraceEnds, KubeOK
<1> QED BY <1>2, <1>3, <1>4, <1>5, <1>6 DEF Around, Users, UserChange

(* Every step of either controller keeps the types.                          *)
LEMMA StepTyped ==
  ASSUME NEW P, NEW IP, NEW O, NEW R, Sound(P, IP, O), AssignedTypeOK(P, IP, O, R),
         OnTheWay, AssignedStep(P, O, R)
  PROVE  AssignedTypeOK(P, IP, O, R)'
<1>1. KubeOK(P, IP) /\ WorkerOK(P, IP) /\ RemoteTyped(O) /\ lost \subseteq Ids /\ ChaosOK'
  BY AssignedTypeParts, ChaosTyped DEF RemoteOK, RemoteTyped, AssignedStep
<1>2. SUFFICES KubeOK(P, IP)' /\ WorkerOK(P, IP)' /\ RemoteTyped(O)' /\ lost' \subseteq Ids
  BY <1>1, AssignedTypeParts DEF RemoteOK, RemoteTyped, AssignedStep
<1>3. CASE Between(P)
  BY <1>1, <1>3, BetweenTyped DEF growthbook, RemoteTyped
<1>4. CASE Connects
  <2>1. WorkerOK(P, IP)'
    BY <1>1, <1>4, EndTyped DEF Connects, WorkerOK, Steps
  <2> QED BY <1>1, <1>4, <2>1, KubeUnchanged DEF Connects, RemoteTyped
<1>5. CASE GoesOn(P)
  <2>1. WorkerOK(P, IP)' /\ KubeOK(P, IP)'
    BY <1>1, <1>5, GoesOnTyped, KubeUnchanged DEF GoesOn
  <2> QED BY <1>1, <1>5, <2>1 DEF GoesOn, RemoteTyped
<1>6. CASE Creates(O)
  <2>1. KubeOK(P, IP)'
    BY <1>1, <1>6, KubeUnchanged DEF Creates
  <2> QED BY <1>1, <1>6, <2>1, CreatesTyped
<1>7. CASE Calls(O)
  BY <1>1, <1>7, ChangesMoves, EndTyped, KubeUnchanged DEF Calls
<1>8. CASE CrashStep
  <2>1. KubeOK(P, IP)' /\ WorkerOK(P, IP)' /\ RemoteTyped(O)'
    BY <1>1, <1>8, KubeUnchanged, EndTyped DEF CrashStep, Crash, RemoteTyped
  <2>2. pc # "idle" /\ cr.externalName \in Opt(Ids)
    BY <1>1, <1>8, Copies DEF CrashStep, Crash, CopiesOK, Sound
  <2>3. lost' \subseteq Ids
    BY <1>1, <1>8, <2>2 DEF CrashStep, Opt
  <2> QED BY <2>1, <2>3
<1>9. CASE Around
  <2>1. UNCHANGED <<remote, lost>>
    BY <1>9 DEF Around, growthbook
  <2> QED BY <1>1, <1>9, <2>1, AroundTyped DEF RemoteTyped
<1>10. CASE Outside(O)
  <2>1. KubeOK(P, IP)' /\ WorkerOK(P, IP)'
    BY <1>1, <1>10, KubeUnchanged, WorkerUnchanged DEF Outside
  <2> QED BY <1>1, <1>10, <2>1, ChangesMoves, MakesMoves DEF Outside
<1> QED BY <1>3, <1>4, <1>5, <1>6, <1>7, <1>8, <1>9, <1>10 DEF AssignedStep
-----------------------------------------------------------------------------
(* The inductive invariant: what each copy of the object knows, what a step   *)
(* of the reconcile may rely on, and where the id of every live object is.   *)

(* The reconciler is about to create, or has just tried.                     *)
Creating == {"create", "recordCreated", "recordFailed"}

(* What a copy with the latest resource version says is what the API server  *)
(* has (forProvider aside, which Observe changes in memory).                 *)
CopiesAgree ==
  /\ cacheFresh => cache = mr
  /\ pc # "idle" /\ crFresh =>
       /\ mr # NoObject
       /\ cr.finalizer = mr.finalizer /\ cr.create = mr.create /\ cr.deleting = mr.deleting
       /\ pc \notin {"recordCreated", "recordFailed"} => cr.externalName = mr.externalName

(* A name that was ever recorded is the id of an object that was made.       *)
Given(o) == o = NoObject \/ o.externalName = Nil \/ remote[o.externalName] # Unborn

NamesWereGiven == Given(mr) /\ Given(cache) /\ Given(cr)

(* Where the reconciler stands, what it has found out and done before.       *)
Protocol ==
  /\ OnTheWay
  /\ pc \in Creating => CreateAnnounced /\ Free(mr.externalName)

(* No live object is out of everybody's sight: the ids in others are those     *)
(* that another process has learned and not recorded yet.                     *)
NoLeakBut(others) ==
  "Delete" \in Policies =>
    \A id \in Made : Holds(id) \/ Learned(id) \/ id \in lost \/ id \in others

SafeBut(others) == CopiesAgree /\ NamesWereGiven /\ Protocol /\ NoLeakBut(others)

(* With one process there are no others.                                     *)
Safe == CopiesAgree /\ NamesWereGiven /\ Protocol /\ NoSilentLeak

LEMMA Alone == (Safe <=> SafeBut({})) /\ (Safe' <=> SafeBut({})')
BY DEF Safe, SafeBut, NoSilentLeak, NoLeakBut

(* It holds initially.                                                      *)
LEMMA StartSafe ==
  ASSUME NEW P, NEW IP, NEW O, Sound(P, IP, O),
         NEW s \in Specs, NEW id \in Imported \cup {Nil}, NEW object \in O,
         Starts(s, id, object)
  PROVE  Safe
<1>1. /\ RuntimeInit(NewObject(s.forProvider, s.initProvider, id))
      /\ remote = [i \in Ids |-> IF i \in Imported THEN object ELSE Unborn]
      /\ inFlight = {} /\ lost = {}
  BY DEF Starts
<1>2. pc = "idle" /\ cacheFresh = FALSE /\ cache = NoObject /\ cr = NoObject
      /\ mr.externalName = id
  BY <1>1 DEF RuntimeInit, NewObject
<1>3. CopiesAgree
  BY <1>2 DEF CopiesAgree
<1>4. object # Unborn
  BY DEF Sound
<1>5. NamesWereGiven
  BY <1>1, <1>2, <1>4, IdsAssumption DEF NamesWereGiven, Given
<1>6. Protocol
  BY <1>2 DEF Protocol, OnTheWay, Creating
<1>7. NoSilentLeak
  BY <1>1 DEF NoSilentLeak, Made, Live
<1> QED BY <1>3, <1>5, <1>6, <1>7 DEF Safe

(* What GrowthBook does cannot take back what is known of an id.             *)
LEMMA KnownStays ==
  ASSUME NEW id, OnlyMoves(id), NEW n \in Opt(Ids)
  PROVE  /\ Free(n) => Free(n)'
         /\ n = Nil \/ remote[n] # Unborn => n = Nil \/ remote'[n] # Unborn
BY DEF OnlyMoves, Opt, Free

(* A step in which GrowthBook does nothing moves no object.                  *)
LEMMA NothingMoves ==
  ASSUME UNCHANGED remote
  PROVE  OnlyMoves(Nil) /\ Nil \in Opt(Ids)
BY DEF OnlyMoves, Live, Opt

(* GrowthBook moves, and perhaps the worker, but what the API server holds   *)
(* stays: objects that it held, or that were lost, are still accounted for.  *)
LEMMA LeakStays ==
  ASSUME NEW X, NoLeakBut(X), UNCHANGED mr, NEW id, OnlyMoves(id), lost \subseteq lost',
         \A i \in Ids : Learned(i) => Learned(i)' \/ i \in lost',
         id \in Ids => id \in lost' \/ Learned(id)'
  PROVE  NoLeakBut(X)'
<1> SUFFICES ASSUME "Delete" \in Policies, NEW i \in Ids, i \notin Imported, Live(i)'
             PROVE  Holds(i)' \/ Learned(i)' \/ i \in lost' \/ i \in X
  BY DEF NoLeakBut, Made
<1>1. CASE i = id
  BY <1>1
<1>2. CASE i # id
  <2>1. i \in Made
    BY <1>2 DEF OnlyMoves, Made
  <2>2. Holds(i) => Holds(i)'
    BY DEF Holds
  <2> QED BY <2>1, <2>2 DEF NoLeakBut
<1> QED BY <1>1, <1>2

(* The names that copies carry stay ids that were given.                     *)
LEMMA GivenStays ==
  ASSUME NEW P, NEW IP, CopiesOK(P, IP), NEW id, OnlyMoves(id),
         NEW o \in {mr, cache, cr}, Given(o)
  PROVE  o = NoObject \/ o.externalName = Nil \/ remote'[o.externalName] # Unborn
<1>1. o = NoObject \/ o.externalName \in Opt(Ids)
  BY Copies
<1> QED BY <1>1, KnownStays DEF Given

(* The reconcile ends, whatever GrowthBook did meanwhile.                   *)
LEMMA EndSafe ==
  ASSUME NEW X, NEW P, NEW IP, CopiesOK(P, IP), SafeBut(X), EndReconcile,
         UNCHANGED kubeVars,
         NEW id \in Opt(Ids), OnlyMoves(id), lost \subseteq lost', id # Nil => id \in lost',
         \A i \in Ids : Learned(i) => i \in lost'
  PROVE  SafeBut(X)'
<1> USE DEF SafeBut
<1>1. pc' = "idle" /\ cr' = NoObject /\ UNCHANGED <<mr, cache, cacheFresh>>
  BY DEF EndReconcile, kubeVars
<1>2. CopiesAgree'
  BY <1>1 DEF CopiesAgree
<1>3. NamesWereGiven'
  BY <1>1, GivenStays DEF NamesWereGiven, Given
<1>4. Protocol'
  BY <1>1 DEF Protocol, OnTheWay, Creating
<1>5. NoLeakBut(X)'
  BY <1>1, LeakStays, IdsAssumption DEF Opt
<1> QED BY <1>2, <1>3, <1>4, <1>5

(* GrowthBook moves and nobody else.                                        *)
LEMMA RemoteSafe ==
  ASSUME NEW X, NEW P, NEW IP, CopiesOK(P, IP), SafeBut(X), UNCHANGED <<kubeVars,
         workerVars>>,
         NEW id \in Opt(Ids), OnlyMoves(id), lost \subseteq lost', id # Nil => id \in lost'
  PROVE  SafeBut(X)'
<1> USE DEF SafeBut
<1>1. UNCHANGED <<mr, cache, cacheFresh, pc, cr, crFresh, obs>>
  BY DEF kubeVars, workerVars
<1>2. CopiesAgree'
  BY <1>1 DEF CopiesAgree
<1>3. NamesWereGiven'
  BY <1>1, GivenStays DEF NamesWereGiven, Given
<1>4. Protocol'
  <2>1. CreateAnnounced => CreateAnnounced'
    BY <1>1 DEF CreateAnnounced
  <2>2. pc # "idle" /\ Free(cr.externalName) => Free(cr.externalName)'
    BY <1>1, KnownStays, Copies DEF Free
  <2>3. mr # NoObject /\ Free(mr.externalName) => Free(mr.externalName)'
    BY <1>1, KnownStays, Copies DEF Free
  <2>4. pc \in Creating /\ CreateAnnounced => mr # NoObject
    BY DEF Creating, CreateAnnounced
  <2> QED BY <1>1, <2>1, <2>2, <2>3, <2>4 DEF Protocol, OnTheWay, Creating
<1>5. NoLeakBut(X)'
  <2>1. \A i \in Ids : Learned(i) => Learned(i)'
    BY <1>1 DEF Learned
  <2> QED BY <1>1, <2>1, LeakStays, IdsAssumption DEF Opt
<1> QED BY <1>2, <1>3, <1>4, <1>5
-----------------------------------------------------------------------------
(* The invariant is preserved, one lemma for each form of a step.            *)

(* A full write that keeps the name and does not drop the finalizer.         *)
LEMMA SavesSafe ==
  ASSUME NEW X, NEW P, NEW IP, CopiesOK(P, IP), SafeBut(X), UNCHANGED growthbook,
         NEW object, NEW stored, NEW next, Saves(P, IP, object, stored, next)
  PROVE  SafeBut(X)'
<1> USE DEF SafeBut
<1> DEFINE written == WithSpec(object, stored)
<1>1. OnlyMoves(Nil) /\ Nil \in Opt(Ids) /\ UNCHANGED <<remote, lost, cache>>
  BY NothingMoves DEF growthbook, ClientUpdate, Saves
<1>2. CASE ~(crFresh /\ mr # NoObject)
  <2>1. EndReconcile /\ UNCHANGED kubeVars
    BY <1>2 DEF ClientUpdate, kubeVars, Saves
  <2> QED BY <1>1, <2>1, EndSafe DEF Learned, Saves
<1>3. CASE crFresh /\ mr # NoObject
  <2>1. /\ mr' = written /\ mr' # NoObject /\ ~cacheFresh' /\ UNCHANGED cache
        /\ Continue(next, object, obs) /\ pc \in {"addFinalizer", "markPending", "lateInit"}
    BY <1>3 DEF ClientUpdate, Saves, CopiesOK
  <2>2. /\ mr'.externalName = cr.externalName /\ mr.externalName = cr.externalName
        /\ object.externalName = cr.externalName
        /\ mr'.finalizer = object.finalizer /\ mr'.create = object.create
        /\ mr'.deleting = object.deleting
        /\ mr.finalizer = cr.finalizer /\ (cr.finalizer => object.finalizer)
    BY <1>3, <2>1 DEF CopiesAgree, Saves
  <2>3. /\ next \in {"idle", "lateInit", "update", "markPending", "create"}
        /\ next \in {"markPending", "create"} => Free(cr.externalName) /\ object.finalizer
        /\ next = "create" => object.create = "pending"
    BY DEF Saves
  <2> HIDE DEF written
  <2>4. \/ next = "idle" /\ pc' = "idle" /\ cr' = NoObject
        \/ next # "idle" /\ pc' = next /\ cr' = object /\ crFresh' = crFresh
    BY <2>1 DEF Continue, EndReconcile
  <2>5. CopiesAgree'
    BY <2>1, <2>2, <2>3, <2>4 DEF CopiesAgree
  <2>6. Given(cr) /\ cr # NoObject
    BY <2>1, Copies DEF NamesWereGiven
  <2>7. NamesWereGiven'
    BY <1>1, <2>2, <2>4, <2>6 DEF NamesWereGiven, Given
  <2>8. Protocol'
    BY <1>1, <2>1, <2>2, <2>3, <2>4 DEF Protocol, OnTheWay, Creating, CreateAnnounced, Free
  <2>9. NoLeakBut(X)'
    <3>1. \A i \in Made : Holds(i) => Holds(i)'
      BY <2>1, <2>2 DEF Holds
    <3>2. \A i \in Made : ~Learned(i)
      BY <2>1 DEF Learned
    <3> QED BY <1>1, <3>1, <3>2 DEF NoLeakBut, Made, Live
  <2> QED BY <2>5, <2>7, <2>8, <2>9
<1> QED BY <1>2, <1>3

(* The finalizer is only taken off when GrowthBook has no object any more.   *)
LEMMA RemoveFinalizerSafe ==
  ASSUME NEW X, NEW P, NEW IP, CopiesOK(P, IP), SafeBut(X), UNCHANGED growthbook,
         RemoveFinalizer
  PROVE  SafeBut(X)'
<1> USE DEF SafeBut
<1>1. UNCHANGED <<remote, lost>> /\ OnlyMoves(Nil) /\ Nil \in Opt(Ids)
  BY NothingMoves DEF growthbook
<1>2. EndReconcile /\ pc = "removeFinalizer" /\ UNCHANGED cache
  BY DEF RemoveFinalizer, ClientUpdate, Continue
<1>3. CASE UNCHANGED <<mr, cacheFresh>>
  <2>1. UNCHANGED kubeVars
    BY <1>3 DEF RemoveFinalizer, ClientUpdate, kubeVars
  <2> QED BY <1>1, <1>2, <2>1, EndSafe DEF Learned
<1>4. CASE mr' = NoObject /\ ~cacheFresh' /\ crFresh /\ mr # NoObject
  <2>1. pc' = "idle" /\ cr' = NoObject
    BY <1>2 DEF EndReconcile
  <2>2. CopiesAgree' /\ Protocol'
    BY <1>4, <2>1 DEF CopiesAgree, Protocol, OnTheWay, Creating
  <2>3. NamesWereGiven'
    BY <1>1, <1>2, <1>4, <2>1 DEF NamesWereGiven, Given
  <2>4. mr.externalName = cr.externalName
    BY <1>2, <1>4 DEF CopiesAgree
  <2>5. "Delete" \in Policies => Free(mr.externalName)
    BY <1>2, <2>4 DEF Protocol, OnTheWay
  <2>6. "Delete" \in Policies => \A i \in Made : ~Holds(i) /\ ~Learned(i)
    BY <1>2, <2>5, IdsAssumption DEF Free, Holds, Learned, Made, Live
  <2>7. NoLeakBut(X)'
    BY <1>1, <2>6 DEF NoLeakBut, Made, Live
  <2> QED BY <2>2, <2>3, <2>7
<1> QED BY <1>3, <1>4 DEF RemoveFinalizer, ClientUpdate

(* The name a creation is recorded under is the one that was learned.        *)
LEMMA RecordCreationSafe ==
  ASSUME NEW X, NEW P, NEW IP, CopiesOK(P, IP), SafeBut(X), UNCHANGED growthbook,
         RecordCreation
  PROVE  SafeBut(X)'
<1> USE DEF SafeBut
<1>1. UNCHANGED <<remote, lost>>
  BY DEF growthbook
<1>2. /\ EndReconcile /\ UNCHANGED cache /\ ~cacheFresh' /\ pc \in Creating
      /\ mr # NoObject /\ mr \in Things(P, IP) /\ cr \in Things(P, IP) /\ cr # NoObject
  BY Copies DEF RecordCreation, Creating
<1>3. pc' = "idle" /\ cr' = NoObject
  BY <1>2 DEF EndReconcile
<1>4. /\ mr'.externalName = cr.externalName /\ mr'.finalizer = mr.finalizer
      /\ mr' \in Things(P, IP)
  BY <1>2 DEF RecordCreation, Things, Objects
<1>5. CopiesAgree' /\ Protocol'
  BY <1>2, <1>3 DEF CopiesAgree, Protocol, OnTheWay, Creating
<1>6. NamesWereGiven'
  BY <1>1, <1>2, <1>3, <1>4 DEF NamesWereGiven, Given
<1>7. CreateAnnounced /\ Free(mr.externalName)
  BY <1>2 DEF Protocol
<1>8. mr.finalizer
  BY <1>2, <1>7 DEF CreateAnnounced, Creating
<1>9. \A i \in Made : ~Holds(i)
  BY <1>7, IdsAssumption DEF Free, Holds, Made, Live
<1>10. mr' # NoObject
  BY <1>4 DEF CopiesOK
<1>11. \A i \in Made : Learned(i) => Holds(i)'
  BY <1>4, <1>8, <1>10 DEF Learned, Holds
<1>12. NoLeakBut(X)'
  BY <1>1, <1>9, <1>11 DEF NoLeakBut, Made, Live
<1> QED BY <1>5, <1>6, <1>12

(* Between two calls the reconciler keeps what is known.                     *)
LEMMA BetweenSafe ==
  ASSUME NEW X, NEW P, NEW IP, CopiesOK(P, IP), SafeBut(X), Between(P)
  PROVE  SafeBut(X)'
<1>1. UNCHANGED growthbook
  BY DEF Between, ReconcilerStep
<1>2. CASE StartReconcile(TRUE)
  <2> USE DEF SafeBut
  <2>1. /\ UNCHANGED <<mr, cache, cacheFresh>> /\ cr' = cache /\ crFresh' = cacheFresh
        /\ cache # NoObject /\ pc = "idle"
        /\ pc' = "connect" \/ (pc' = "removeFinalizer" /\ "Delete" \notin Policies)
    BY <1>2 DEF StartReconcile, kubeVars
  <2>2. UNCHANGED <<remote, lost>> /\ OnlyMoves(Nil)
    BY <1>1, NothingMoves DEF growthbook
  <2>3. CopiesAgree' /\ Protocol'
    BY <2>1 DEF CopiesAgree, Protocol, OnTheWay, Creating
  <2>4. NamesWereGiven'
    BY <2>1, <2>2 DEF NamesWereGiven, Given
  <2>5. NoLeakBut(X)'
    BY <2>1, <2>2, LeakStays, IdsAssumption DEF Learned
  <2> QED BY <2>3, <2>4, <2>5
<1>3. WorkerOK(P, IP) /\ OnTheWay
  BY DEF CopiesOK, SafeBut, Protocol
<1> QED BY <1>1, <1>2, <1>3, BetweenForms, SavesSafe, RemoveFinalizerSafe, RecordCreationSafe

(* Connect learns nothing and changes nothing.                               *)
LEMMA ConnectsSafe ==
  ASSUME NEW X, NEW P, NEW IP, CopiesOK(P, IP), SafeBut(X), Connects
  PROVE  SafeBut(X)'
<1>1. pc = "connect" /\ UNCHANGED <<kubeVars, mr, cache, cacheFresh, remote, lost>>
      /\ OnlyMoves(Nil) /\ Nil \in Opt(Ids)
  BY NothingMoves DEF Connects, kubeVars
<1>2. CASE EndReconcile
  BY <1>1, <1>2, EndSafe DEF Learned
<1>3. CASE pc' = "observe" /\ UNCHANGED <<cr, crFresh, obs>>
  <2> USE DEF SafeBut
  <2>1. CopiesAgree' /\ Protocol'
    BY <1>1, <1>3 DEF CopiesAgree, Protocol, OnTheWay, Creating
  <2>2. NamesWereGiven'
    BY <1>1, <1>3 DEF NamesWereGiven, Given
  <2>3. NoLeakBut(X)'
    BY <1>1, <1>3, LeakStays, IdsAssumption DEF Learned
  <2> QED BY <2>1, <2>2, <2>3
<1> QED BY <1>2, <1>3 DEF Connects
-----------------------------------------------------------------------------
(* Observe believes GrowthBook only when it may.                             *)
LEMMA GoesOnSafe ==
  ASSUME NEW X, NEW P, NEW IP, CopiesOK(P, IP), SafeBut(X), GoesOn(P)
  PROVE  SafeBut(X)'
<1> USE DEF SafeBut
<1>1. /\ pc \in {"observe", "publish"}
      /\ UNCHANGED <<kubeVars, mr, cache, cacheFresh, remote, lost>>
      /\ OnlyMoves(Nil) /\ Nil \in Opt(Ids)
  BY NothingMoves DEF GoesOn, kubeVars
<1>2. PICK step \in Steps : \E p \in P : \E o \in Observations :
        Continue(step, WithSpec(cr, p), o) /\ Justified(step, o)
  BY DEF GoesOn
<1>3. PICK p \in P : \E o \in Observations :
        Continue(step, WithSpec(cr, p), o) /\ Justified(step, o)
  BY <1>2
<1>4. PICK o \in Observations : Continue(step, WithSpec(cr, p), o) /\ Justified(step, o)
  BY <1>3
<1>5. CASE step = "idle"
  <2>1. EndReconcile
    BY <1>4, <1>5 DEF Continue
  <2> QED BY <1>1, <2>1, EndSafe DEF Learned
<1>6. CASE step # "idle"
  <2>1. pc' = step /\ obs' = o /\ crFresh' = crFresh /\ cr' = WithSpec(cr, p)
    BY <1>4, <1>6 DEF Continue
  <2>2. cr \in Things(P, IP) /\ cr # NoObject
    BY <1>1, Copies
  <2>3. cr'.externalName = cr.externalName /\ cr'.finalizer = cr.finalizer
        /\ cr'.create = cr.create /\ cr'.deleting = cr.deleting
    BY <2>1, <2>2 DEF WithSpec, Things, Objects
  <2>4. CopiesAgree'
    BY <1>1, <1>4, <2>1, <2>3 DEF CopiesAgree, Justified
  <2>5. NamesWereGiven'
    BY <1>1, <2>2, <2>3 DEF NamesWereGiven, Given
  <2>6. Free(cr.externalName) => Free(cr.externalName)'
    BY <1>1, <2>3 DEF Free
  <2>7. Protocol'
    BY <1>4, <2>1, <2>3, <2>6 DEF Protocol, OnTheWay, Creating, Justified
  <2>8. NoLeakBut(X)'
    BY <1>1, LeakStays, IdsAssumption DEF Learned
  <2> QED BY <2>4, <2>5, <2>7, <2>8
<1> QED BY <1>5, <1>6

(* Create returns with the id it learned, with none, or with an error.       *)
LEMMA ReturnedSafe ==
  ASSUME NEW X, NEW P, NEW IP, CopiesOK(P, IP), SafeBut(X), pc = "create",
         NEW step \in {"recordCreated", "recordFailed"}, NEW name \in Opt(Ids),
         Returned(step, name), UNCHANGED kubeVars, NEW id \in Opt(Ids), OnlyMoves(id),
         lost \subseteq lost',
         id \in lost' \/ id = Nil \/ (step = "recordCreated" /\ name = id),
         step = "recordFailed" => name = cr.externalName,
         step = "recordCreated" => name = Nil \/ remote'[name] # Unborn
  PROVE  SafeBut(X)'
<1> USE DEF SafeBut
<1>1. /\ UNCHANGED <<mr, cache, cacheFresh, crFresh>>
      /\ pc' = step /\ cr' = [cr EXCEPT !.externalName = name]
  BY DEF Returned, kubeVars
<1>2. cr \in Things(P, IP) /\ cr # NoObject /\ cr.externalName \in Opt(Ids)
  BY Copies
<1>3. cr'.externalName = name /\ cr'.finalizer = cr.finalizer /\ cr'.create = cr.create
      /\ cr'.deleting = cr.deleting
  BY <1>1, <1>2 DEF Things, Objects
<1>4. CreateAnnounced /\ Free(mr.externalName) /\ cr.finalizer /\ Free(cr.externalName)
  BY DEF Protocol, OnTheWay, Creating
<1>5. mr # NoObject /\ mr.externalName \in Opt(Ids)
  BY <1>4, Copies DEF CreateAnnounced
<1>6. Free(mr.externalName)' /\ (step = "recordFailed" => Free(cr.externalName)')
  BY <1>1, <1>2, <1>3, <1>4, <1>5, KnownStays DEF Free
<1>7. CopiesAgree'
  BY <1>1, <1>3 DEF CopiesAgree
<1>8. NamesWereGiven'
  <2>1. Given(mr)' /\ Given(cache)'
    BY <1>1, GivenStays DEF NamesWereGiven, Given
  <2>2. cr.externalName = Nil \/ remote'[cr.externalName] # Unborn
    BY <1>2, GivenStays DEF NamesWereGiven, Given
  <2>3. Given(cr)'
    BY <1>3, <2>2 DEF Given
  <2> QED BY <2>1, <2>3 DEF NamesWereGiven
<1>9. Protocol'
  BY <1>1, <1>3, <1>4, <1>6 DEF Protocol, OnTheWay, Creating, CreateAnnounced
<1>10. NoLeakBut(X)'
  BY <1>1, <1>3, LeakStays, IdsAssumption DEF Learned
<1> QED BY <1>7, <1>8, <1>9, <1>10

(* Create keeps account of the object its POST makes.                        *)
LEMMA CreatesSafe ==
  ASSUME NEW X, NEW P, NEW IP, NEW O, Sound(P, IP, O), RemoteTyped(O), CopiesOK(P,
         IP), SafeBut(X), Creates(O)
  PROVE  SafeBut(X)'
<1>1. pc = "create" /\ UNCHANGED kubeVars /\ cr.externalName \in Opt(Ids) /\ Nil \in Opt(Ids)
  BY Copies DEF Creates, Opt
<1>2. CASE Returned("recordFailed", cr.externalName) /\ UNCHANGED <<remote, lost>>
  BY <1>1, <1>2, NothingMoves, ReturnedSafe
<1>3. ASSUME NEW id \in Ids, Makes(O, id), CreateEnds(id)
      PROVE  SafeBut(X)'
  <2>1. id \in Opt(Ids) /\ OnlyMoves(id) /\ Live(id)'
    BY <1>3, MakesMoves DEF Opt
  <2>2. id # Nil /\ remote'[id] # Unborn
    BY <2>1, IdsAssumption DEF Live
  <2>3. CASE Returned("recordFailed", cr.externalName) /\ lost' = lost \cup {id}
    BY <1>1, <2>1, <2>3, ReturnedSafe
  <2>4. CASE Returned("recordCreated", id) /\ UNCHANGED lost
    BY <1>1, <2>1, <2>2, <2>4, ReturnedSafe
  <2>5. CASE Returned("recordCreated", Nil) /\ lost' = lost \cup {id}
    BY <1>1, <2>1, <2>5, ReturnedSafe
  <2> QED BY <1>3, <2>3, <2>4, <2>5 DEF CreateEnds
<1> QED BY <1>2, <1>3 DEF Creates

(* A crash forgets the id in memory, which is accounted for.                 *)
LEMMA CrashSafe ==
  ASSUME NEW X, NEW P, NEW IP, CopiesOK(P, IP), SafeBut(X), CrashStep
  PROVE  SafeBut(X)'
<1>1. EndReconcile /\ UNCHANGED kubeVars /\ OnlyMoves(Nil) /\ Nil \in Opt(Ids)
      /\ lost \subseteq lost'
  BY NothingMoves DEF CrashStep, Crash
<1>2. \A i \in Ids : Learned(i) => i \in lost'
  BY IdsAssumption DEF CrashStep, Learned
<1> QED BY <1>1, <1>2, EndSafe

(* Users neither rename the object, nor take its finalizer off, nor put one  *)
(* on a new object.                                                         *)
Leaves(object) ==
  \/ /\ mr # NoObject /\ object # NoObject
     /\ object.externalName = mr.externalName /\ object.deleting \in {mr.deleting, TRUE}
     /\ object.finalizer = mr.finalizer /\ object.create = mr.create
     /\ object.deleting # mr.deleting => mr.finalizer
  \/ mr # NoObject /\ ~mr.finalizer /\ object = NoObject
  \/ mr = NoObject /\ object # NoObject /\ object.externalName = Nil
       /\ ~object.finalizer /\ ~object.deleting

LEMMA UsersLeave ==
  ASSUME NEW P, NEW IP, NEW O, Sound(P, IP, O), CopiesOK(P, IP), Users
  PROVE  \E object : ForeignWrite(object) /\ Leaves(object)
<1>1. CASE UserDelete
  <2>1. mr # NoObject /\ mr \in Things(P, IP) /\ ~mr.deleting
    BY <1>1, Copies DEF UserDelete
  <2> DEFINE object == [mr EXCEPT !.deleting = TRUE]
  <2>2. /\ object \in Things(P, IP) /\ object # NoObject
        /\ object.externalName = mr.externalName /\ object.deleting = TRUE
        /\ object.finalizer = mr.finalizer /\ object.create = mr.create
    BY <2>1 DEF Things, Objects, CopiesOK
  <2> HIDE DEF object
  <2>3. ForeignWrite(IF mr.finalizer THEN object ELSE NoObject)
    BY <1>1 DEF UserDelete, object
  <2>4. CASE mr.finalizer
    BY <2>1, <2>2, <2>3, <2>4 DEF Leaves
  <2>5. CASE ~mr.finalizer
    BY <2>1, <2>3, <2>5 DEF Leaves
  <2> QED BY <2>4, <2>5
<1>2. ASSUME NEW e \in Edits, UserEdit(e.field, e.to)
      PROVE  \E object : ForeignWrite(object) /\ Leaves(object)
  <2>1. mr # NoObject /\ mr \in Things(P, IP)
    BY <1>2, Copies DEF UserEdit
  <2> DEFINE object == [mr EXCEPT !.forProvider[e.field] = e.to]
  <2>2. mr.forProvider \in P
    BY <2>1 DEF Things, Objects
  <2>3. [mr.forProvider EXCEPT ![e.field] = e.to] \in P
    BY <2>2 DEF Sound
  <2>4. object = [mr EXCEPT !.forProvider = [mr.forProvider EXCEPT ![e.field] = e.to]]
    OBVIOUS
  <2>5. object \in Things(P, IP)
    BY <2>1, <2>3, <2>4 DEF Things, Objects
  <2>6. /\ object # NoObject /\ object.deleting = mr.deleting
        /\ object.externalName = mr.externalName
        /\ object.finalizer = mr.finalizer /\ object.create = mr.create
    BY <2>1, <2>4, <2>5 DEF Things, Objects, CopiesOK
  <2>7. ForeignWrite(object)
    BY <1>2 DEF UserEdit
  <2> HIDE DEF object
  <2> QED BY <2>1, <2>6, <2>7 DEF Leaves
<1>3. ASSUME NEW s \in Specs, UserCreate(NewObject(s.forProvider, s.initProvider, Nil))
      PROVE  \E object : ForeignWrite(object) /\ Leaves(object)
  <2> DEFINE object == NewObject(s.forProvider, s.initProvider, Nil)
  <2>1. Nil \in Opt(Ids)
    BY DEF Opt
  <2>2. object # NoObject
    BY <2>1, NewTyped
  <2>3. object.externalName = Nil /\ ~object.finalizer /\ ~object.deleting
    BY DEF NewObject
  <2>4. mr = NoObject /\ ForeignWrite(object)
    BY <1>3 DEF UserCreate
  <2> HIDE DEF object
  <2> QED BY <2>2, <2>3, <2>4 DEF Leaves
<1> QED BY <1>1, <1>2, <1>3 DEF Users, UserChange

(* What users do to the object puts no object of GrowthBook out of its sight; *)
(* the informer's copy is the latest one right after it caught up.           *)
LEMMA AroundSafe ==
  ASSUME NEW X, NEW P, NEW IP, NEW O, Sound(P, IP, O), CopiesOK(P, IP), SafeBut(X),
         Around
  PROVE  SafeBut(X)'
<1> USE DEF SafeBut
<1>1. UNCHANGED <<remote, lost>>
  BY DEF Around, growthbook
<1>2. CASE Users
  <2>1. PICK object : ForeignWrite(object) /\ Leaves(object)
    BY <1>2, UsersLeave
  <2>2. mr' = object /\ ~cacheFresh' /\ ~crFresh' /\ UNCHANGED <<cache, pc, cr, obs>>
    BY <2>1 DEF ForeignWrite
  <2>3. CopiesAgree'
    BY <2>2 DEF CopiesAgree
  <2>4. NamesWereGiven'
    BY <1>1, <2>1, <2>2 DEF NamesWereGiven, Given, Leaves
  <2>5. Protocol'
    BY <1>1, <2>1, <2>2 DEF Protocol, OnTheWay, Creating, CreateAnnounced, Free, Leaves
  <2>6. \A i : Holds(i) => Holds(i)'
    BY <2>1, <2>2 DEF Holds, Leaves
  <2>7. NoLeakBut(X)'
    BY <1>1, <2>2, <2>6 DEF NoLeakBut, Made, Live, Learned
  <2> QED BY <2>3, <2>4, <2>5, <2>7
<1>3. CASE CacheSync \/ GraceEnds
  <2>1. /\ UNCHANGED <<mr, pc, cr, crFresh, obs>>
        /\ UNCHANGED <<cache, cacheFresh>> \/ (cacheFresh' /\ cache' = mr)
    BY <1>3 DEF CacheSync, GraceEnds, workerVars
  <2>2. CopiesAgree'
    BY <2>1 DEF CopiesAgree
  <2>3. NamesWereGiven'
    BY <1>1, <2>1 DEF NamesWereGiven, Given
  <2>4. Protocol'
    BY <1>1, <2>1 DEF Protocol, OnTheWay, Creating, CreateAnnounced, Free
  <2>5. NoLeakBut(X)'
    BY <1>1, <2>1 DEF NoLeakBut, Made, Live, Holds, Learned
  <2> QED BY <2>2, <2>3, <2>4, <2>5
<1> QED BY <1>2, <1>3 DEF Around

(* Whatever happens outside, what it makes is lost, not leaked.              *)
LEMMA OutsideSafe ==
  ASSUME NEW X, NEW P, NEW IP, NEW O, Sound(P, IP, O), RemoteTyped(O), CopiesOK(P,
         IP), SafeBut(X), Outside(O)
  PROVE  SafeBut(X)'
<1>1. CASE \E id \in Opt(Ids) : Changes(O, id) /\ UNCHANGED lost
  <2>1. OnlyMoves(Nil) /\ Nil \in Opt(Ids)
    BY <1>1, ChangesMoves DEF Opt
  <2> QED BY <1>1, <2>1, RemoteSafe DEF Outside
<1>2. CASE \E id \in Ids : Makes(O, id) /\ lost' = lost \cup {id}
  <2>1. PICK id \in Ids : Makes(O, id) /\ lost' = lost \cup {id}
    BY <1>2
  <2>2. OnlyMoves(id) /\ id \in Opt(Ids)
    BY <2>1, MakesMoves DEF Opt
  <2> QED BY <2>1, <2>2, RemoteSafe DEF Outside
<1> QED BY <1>1, <1>2 DEF Outside

(* Every step of either controller keeps the invariant.                      *)
LEMMA StepSafeBut ==
  ASSUME NEW X, NEW P, NEW IP, NEW O, NEW R, Sound(P, IP, O), AssignedTypeOK(P, IP,
         O, R),
         SafeBut(X), AssignedStep(P, O, R)
  PROVE  SafeBut(X)'
<1>1. CopiesOK(P, IP) /\ RemoteTyped(O)
  BY AssignedTypeParts DEF CopiesOK, Sound, RemoteOK, RemoteTyped
<1>2. CASE Calls(O)
  <2>1. OnlyMoves(Nil) /\ Nil \in Opt(Ids)
    BY <1>1, <1>2, ChangesMoves DEF Calls, Opt
  <2> QED BY <1>1, <1>2, <2>1, EndSafe DEF Calls, Learned
<1> QED BY <1>1, <1>2, BetweenSafe, ConnectsSafe, GoesOnSafe, CreatesSafe, CrashSafe,
           AroundSafe, OutsideSafe DEF AssignedStep

LEMMA StepSafe ==
  ASSUME NEW P, NEW IP, NEW O, NEW R, Sound(P, IP, O), AssignedTypeOK(P, IP, O, R),
         Safe, AssignedStep(P, O, R)
  PROVE  Safe'
BY StepSafeBut, Alone
-----------------------------------------------------------------------------
(* What the invariant says.                                                 *)

(* Create is never retried over a live object whose id was not lost.         *)
LEMMA SafeMeansOne == Safe => NoDuplicate
<1> SUFFICES ASSUME Safe, "Delete" \in Policies, NEW i \in Made \ lost, NEW j \in Made \ lost
             PROVE  i = j
  BY DEF NoDuplicate
<1>1. (Holds(i) \/ Learned(i)) /\ (Holds(j) \/ Learned(j))
  BY DEF Safe, NoSilentLeak
<1>2. ASSUME pc = "recordCreated", NEW k \in Made PROVE ~Holds(k)
  BY <1>2, IdsAssumption DEF Safe, Protocol, Creating, Free, Holds, Made, Live
<1> QED BY <1>1, <1>2 DEF Holds, Learned

(* Every POST is announced and guarded by the finalizer, and all this while   *)
(* the resource names no object, or one that is gone.                        *)
LEMMA ProtocolJustifies == Protocol => CreateJustified
<1> SUFFICES ASSUME Protocol PROVE CreateJustified
  OBVIOUS
<1>1. CreateAnnounced
  BY DEF Protocol, Creating, CreateAnnounced
<1>2. ASSUME pc \in Creating PROVE mr.externalName = Nil \/ ~Live(mr.externalName)
  BY <1>2 DEF Protocol, Free, Live
<1> QED BY <1>1, <1>2 DEF CreateJustified, Creating

(* Only RemoveFinalizer takes a resource away that has its finalizer, with    *)
(* the latest copy, on which it knows that the object is gone.               *)
LEMMA StepGuards ==
  ASSUME NEW P, NEW IP, NEW O, NEW R, Sound(P, IP, O), AssignedTypeOK(P, IP, O, R),
         Safe, AssignedStep(P, O, R), mr # NoObject, mr' = NoObject, mr.finalizer,
         mr.externalName # Nil, "Delete" \in Policies
  PROVE  ~Live(mr.externalName)
<1>1. CopiesOK(P, IP)
  BY AssignedTypeParts DEF CopiesOK, Sound
<1>2. CASE Between(P)
  <2>1. ~StartReconcile(TRUE)
    BY DEF StartReconcile, kubeVars
  <2>2. ASSUME NEW object, NEW stored, NEW next, Saves(P, IP, object, stored, next)
        PROVE  FALSE
    BY <1>1, <2>2 DEF Saves, ClientUpdate, CopiesOK
  <2>3. ~RecordCreation
    <3> SUFFICES ASSUME RecordCreation PROVE FALSE
      OBVIOUS
    <3>1. mr \in Things(P, IP) /\ cr.externalName \in Opt(Ids)
      BY <1>1, Copies DEF RecordCreation
    <3>2. mr' \in Things(P, IP)
      BY <3>1 DEF RecordCreation, Things, Objects
    <3> QED BY <1>1, <3>2 DEF CopiesOK
  <2>4. WorkerOK(P, IP) /\ OnTheWay
    BY <1>1 DEF CopiesOK, Safe, Protocol
  <2>5. RemoveFinalizer
    BY <1>2, <2>1, <2>2, <2>3, <2>4, BetweenForms
  <2>6. pc = "removeFinalizer" /\ crFresh
    BY <2>5 DEF RemoveFinalizer, ClientUpdate
  <2>7. Free(cr.externalName) /\ cr.externalName = mr.externalName
    BY <2>6 DEF Safe, Protocol, OnTheWay, CopiesAgree
  <2> QED BY <2>7 DEF Free, Live
<1>3. CASE Around
  <2>1. CASE Users
    <3>1. PICK object : ForeignWrite(object) /\ Leaves(object)
      BY <1>1, <2>1, UsersLeave
    <3> QED BY <3>1 DEF ForeignWrite, Leaves
  <2> QED BY <1>3, <2>1 DEF Around, CacheSync, GraceEnds
<1>4. CASE Connects \/ GoesOn(P) \/ Creates(O) \/ Calls(O) \/ CrashStep \/ Outside(O)
  <2>1. UNCHANGED kubeVars
    BY <1>4 DEF Connects, GoesOn, Creates, Calls, CrashStep, Crash, Outside
  <2> QED BY <2>1 DEF kubeVars
<1> QED BY <1>2, <1>3, <1>4 DEF AssignedStep
-----------------------------------------------------------------------------
(* One step, as the abstract specification allows it, said of the detailed    *)
(* state: nobody's standing changes, and the resource is declared, is told to *)
(* go or stays; it goes; or one object changes its standing.                  *)
NobodyStirs == \A i \in Ids : Standing(i)' = Standing(i)

(* Of all objects only id may change its standing.                          *)
OthersStand(id) == \A i \in Ids \ {id} : Standing(i)' = Standing(i)

Goes ==
  /\ Resource # "none" /\ Resource' = "none"
  /\ "Delete" \in Policies => \A i \in Ids : Standing(i) # "held"
  /\ \A i \in Ids : Standing(i)' = IF Standing(i) = "held" THEN "loose" ELSE Standing(i)

Turns(id) ==
  \/ /\ Standing(id)' = "held" /\ Resource # "none"
     /\ \A i \in Ids : Standing(i) # "held"
  \/ /\ Standing(id)' = "loose"
     /\ Standing(id) = "absent" \/ (Standing(id) = "held" /\ Resource # "none")
  \/ Standing(id)' = "absent" /\ Standing(id) # "absent"

Allowed ==
  \/ /\ NobodyStirs
     /\ \/ UNCHANGED Resource
        \/ Resource = "none" /\ Resource' = "declared"
        \/ Resource = "declared" /\ Resource' = "deleting"
  \/ Goes
  \/ UNCHANGED Resource /\ \E id \in Ids : OthersStand(id) /\ Turns(id)

(* Those are the steps of ExternalResource.                                 *)
LEMMA AllowedIsAbstract ==
  ASSUME Allowed
  PROVE  [Abstract!Next]_(Abstract!vars)
<1>1. CASE NobodyStirs /\ UNCHANGED Resource
  BY <1>1 DEF NobodyStirs, Abstract!vars
<1>2. CASE NobodyStirs /\ Resource = "none" /\ Resource' = "declared"
  <2>1. Abstract!Declare
    BY <1>2 DEF NobodyStirs, Abstract!Declare
  <2> QED BY <2>1 DEF Abstract!Next
<1>3. CASE NobodyStirs /\ Resource = "declared" /\ Resource' = "deleting"
  <2>1. Abstract!RequestDeletion
    BY <1>3 DEF NobodyStirs, Abstract!RequestDeletion
  <2> QED BY <2>1 DEF Abstract!Next
<1>4. CASE Goes
  <2>1. Abstract!Forget
    BY <1>4 DEF Goes, Abstract!Forget, Abstract!Held
  <2> QED BY <2>1 DEF Abstract!Next
<1>5. ASSUME UNCHANGED Resource, NEW id \in Ids, OthersStand(id), Turns(id)
      PROVE  Abstract!Hold(id) \/ Abstract!Lose(id) \/ Abstract!Vanish(id)
  <2>1. CASE /\ Standing(id)' = "held" /\ Resource # "none"
             /\ \A i \in Ids : Standing(i) # "held"
    <3>1. Abstract!Held = {}
      BY <2>1 DEF Abstract!Held
    <3>2. Abstract!Hold(id)
      BY <1>5, <2>1, <3>1 DEF Abstract!Hold, OthersStand
    <3> QED BY <3>2
  <2>2. CASE /\ Standing(id)' = "loose"
             /\ Standing(id) = "absent" \/ (Standing(id) = "held" /\ Resource # "none")
    <3>1. Abstract!Lose(id)
      BY <1>5, <2>2 DEF Abstract!Lose, OthersStand
    <3> QED BY <3>1
  <2>3. CASE Standing(id)' = "absent" /\ Standing(id) # "absent"
    <3>1. Abstract!Vanish(id)
      BY <1>5, <2>3 DEF Abstract!Vanish, OthersStand
    <3> QED BY <3>1
  <2> QED BY <1>5, <2>1, <2>2, <2>3 DEF Turns
<1> QED BY <1>1, <1>2, <1>3, <1>4, <1>5 DEF Allowed, Abstract!Next
-----------------------------------------------------------------------------
(* How the abstract steps look from below.                                  *)

(* A step that touches neither the resource in the API server, nor GrowthBook,*)
(* nor the losses is not seen.                                              *)
LEMMA Unseen ==
  ASSUME UNCHANGED <<mr, remote, lost>>
  PROVE  Allowed
BY DEF Allowed, NobodyStirs, Resource, Standing, AnswersFor, Made, Live, Holds

(* Nor is one that changes nobody's standing.                               *)
LEMMA NobodyMoves ==
  ASSUME UNCHANGED Resource, \A i \in Ids : Standing(i)' = Standing(i)
  PROVE  Allowed
BY DEF Allowed, NobodyStirs

(* An object comes into being, or is lost sight of, as a loose one.          *)
LEMMA LosesOne ==
  ASSUME UNCHANGED Resource, NEW id \in Ids, OthersStand(id), Standing(id)' = "loose",
         Standing(id) = "held" => mr # NoObject
  PROVE  Allowed
<1>1. CASE Standing(id) = "loose"
  BY <1>1, NobodyMoves DEF OthersStand
<1>2. CASE Standing(id) # "loose"
  <2>1. Standing(id) = "held" \/ Standing(id) = "absent"
    BY <1>2 DEF Standing
  <2>2. Turns(id)
    BY <2>1 DEF Turns, Resource
  <2> QED BY <2>2 DEF Allowed
<1> QED BY <1>1, <1>2

(* An object goes.                                                          *)
LEMMA VanishesOne ==
  ASSUME UNCHANGED Resource, NEW id \in Ids, OthersStand(id), Standing(id)' = "absent"
  PROVE  Allowed
<1>1. CASE Standing(id) = "absent"
  BY <1>1, NobodyMoves DEF OthersStand
<1>2. CASE Standing(id) # "absent"
  BY <1>2 DEF Allowed, Turns
<1> QED BY <1>1, <1>2

(* A resource that is there and holds nothing takes hold of an object.       *)
LEMMA HoldsOne ==
  ASSUME UNCHANGED Resource, NEW id \in Ids, OthersStand(id), Standing(id)' = "held",
         mr # NoObject, \A i \in Ids : Standing(i) # "held"
  PROVE  Allowed
<1>1. Turns(id)
  BY DEF Turns, Resource
<1> QED BY <1>1 DEF Allowed

(* The resource goes when nothing is held, or leaves what it holds behind.   *)
LEMMA Forgets ==
  ASSUME mr # NoObject, mr' = NoObject,
         "Delete" \in Policies => \A i \in Ids : Standing(i) # "held",
         \A i \in Ids : Standing(i)' = IF Standing(i) = "held" THEN "loose" ELSE Standing(i)
  PROVE  Allowed
<1>1. Goes
  BY DEF Goes, Resource
<1> QED BY <1>1 DEF Allowed
-----------------------------------------------------------------------------
(* What the inductive invariant says about the objects that are held.        *)

(* A held object is live, and named by the resource or on its way there.     *)
LEMMA HeldIsKnown ==
  ASSUME Safe, NEW id \in Ids, Standing(id) = "held"
  PROVE  Live(id) /\ (Holds(id) \/ Learned(id))
BY DEF Safe, NoSilentLeak, Standing, AnswersFor

(* Nothing is held while the resource has no finalizer, or names an object   *)
(* that is gone or none, unless Create has just come back.                   *)
LEMMA NothingHeld ==
  ASSUME Safe, pc # "recordCreated" \/ (mr # NoObject => ~mr.finalizer),
         mr = NoObject \/ ~mr.finalizer \/ Free(mr.externalName)
  PROVE  \A i \in Ids : Standing(i) # "held"
<1> SUFFICES ASSUME NEW i \in Ids, Standing(i) = "held" PROVE FALSE
  OBVIOUS
<1>1. ~Holds(i)
  BY HeldIsKnown, IdsAssumption DEF Holds, Free, Live
<1>2. pc = "recordCreated" => CreateAnnounced
  BY DEF Safe, Protocol, Creating
<1> QED BY <1>1, <1>2, HeldIsKnown DEF Learned, CreateAnnounced

(* GrowthBook moves only object id,  and nothing else happens.               *)
LEMMA OthersStay ==
  ASSUME NEW id, UNCHANGED mr, \A i \in Ids \ {id} : Live(i)' = Live(i),
         lost' \ {id} = lost \ {id}
  PROVE  OthersStand(id) /\ UNCHANGED Resource
BY DEF OthersStand, Resource, Standing, AnswersFor, Made, Holds
-----------------------------------------------------------------------------
(* Every form of a step is a step of the abstract resource, or not seen.     *)

(* A change is not seen unless it is a deletion.                             *)
LEMMA ChangesAllowed ==
  ASSUME NEW P, NEW IP, NEW O, Sound(P, IP, O), RemoteTyped(O), NEW id \in Opt(Ids),
         Changes(O, id), UNCHANGED <<mr, lost>>
  PROVE  Allowed
<1>1. /\ \A i \in Ids \ {id} : Live(i)' = Live(i)
      /\ Live(id)' /\ id \in Ids => Live(id)
  BY ChangesMoves
<1>2. OthersStand(id) /\ UNCHANGED Resource
  BY <1>1, OthersStay
<1>3. CASE id \in Ids /\ ~Live(id)'
  <2>1. Standing(id)' = "absent"
    BY <1>3 DEF Standing
  <2> QED BY <1>2, <1>3, <2>1, VanishesOne
<1>4. CASE id \notin Ids \/ Live(id)'
  <2>1. \A i \in Ids : Live(i)' = Live(i)
    BY <1>1, <1>4 DEF Live
  <2>2. \A i \in Ids : Standing(i)' = Standing(i)
    BY <2>1 DEF Standing, AnswersFor, Made, Holds
  <2> QED BY <1>2, <2>2, NobodyMoves
<1> QED BY <1>3, <1>4

(* An object made by a POST nobody waits for is a loose one.                 *)
LEMMA MakesLoose ==
  ASSUME NEW P, NEW IP, NEW O, Sound(P, IP, O), RemoteTyped(O), NamesWereGiven,
         NEW id \in Ids, Makes(O, id), UNCHANGED mr, lost' = lost \cup {id}
  PROVE  Allowed
<1>1. remote[id] = Unborn /\ \A i \in Ids \ {id} : Live(i)' = Live(i)
  BY MakesMoves
<1>2. OthersStand(id) /\ UNCHANGED Resource
  BY <1>1, OthersStay
<1>3. mr # NoObject => mr.externalName # id
  BY <1>1, IdsAssumption DEF NamesWereGiven, Given
<1>4. Standing(id) = "absent" /\ Standing(id)' \in {"absent", "loose"}
  BY <1>1, <1>3 DEF Standing, AnswersFor, Made, Live, Holds
<1> QED BY <1>2, <1>4, LosesOne, VanishesOne

(* A POST makes an object that the resource holds, when Create waits for the *)
(* answer and learns the id; any other object it makes is a loose one.       *)
LEMMA MakesAllowed ==
  ASSUME NEW P, NEW IP, NEW O, Sound(P, IP, O), RemoteTyped(O), Safe, NEW id \in Ids,
         Makes(O, id), UNCHANGED mr, lost' \in {lost, lost \cup {id}},
         id \in lost' \/ pc = "create"
  PROVE  Allowed
<1> USE DEF Safe
<1>1. remote[id] = Unborn /\ \A i \in Ids \ {id} : Live(i)' = Live(i)
  BY MakesMoves
<1>2. OthersStand(id) /\ UNCHANGED Resource
  BY <1>1, OthersStay
<1>3. Standing(id) = "absent"
  BY <1>1 DEF Standing, Live
<1>4. CASE Standing(id)' # "held"
  <2>1. Standing(id)' = "loose" \/ Standing(id)' = "absent"
    BY <1>4 DEF Standing
  <2> QED BY <1>2, <1>3, <2>1, LosesOne, VanishesOne
<1>5. CASE Standing(id)' = "held"
  <2>1. mr # NoObject => mr.externalName # id
    BY <1>1, IdsAssumption DEF NamesWereGiven, Given
  <2>2. pc = "create"
    BY <1>5, <2>1 DEF Standing, AnswersFor, Holds
  <2>3. mr # NoObject /\ Free(mr.externalName)
    BY <2>2 DEF Protocol, Creating, CreateAnnounced
  <2>4. \A i \in Ids : Standing(i) # "held"
    BY <2>2, <2>3, NothingHeld
  <2> QED BY <1>2, <1>5, <2>3, <2>4, HoldsOne
<1> QED BY <1>4, <1>5

(* A write that keeps the name and the deletion mark and takes no finalizer  *)
(* off: the resource may take hold of the object it names.                   *)
LEMMA WriteHolds ==
  ASSUME Safe, UNCHANGED <<remote, lost>>, mr # NoObject, mr' # NoObject,
         mr'.externalName = mr.externalName, mr'.deleting = mr.deleting,
         mr.finalizer => mr'.finalizer, pc # "recordCreated"
  PROVE  Allowed
<1>0. PICK id : id = mr.externalName
  OBVIOUS
<1>1. UNCHANGED Resource
  BY DEF Resource
<1>2. OthersStand(id)
  BY <1>0 DEF OthersStand, Standing, AnswersFor, Made, Live, Holds
<1>3. CASE mr.finalizer \/ id \notin Ids
  <2>1. \A i \in Ids : Holds(i)' <=> Holds(i)
    BY <1>0, <1>3 DEF Holds
  <2>2. \A i \in Ids : Standing(i)' = Standing(i)
    BY <2>1 DEF Standing, AnswersFor, Made, Live
  <2> QED BY <1>1, <2>2, NobodyMoves
<1>4. CASE ~mr.finalizer /\ id \in Ids
  <2>1. \A i \in Ids : Standing(i) # "held"
    BY <1>4, NothingHeld
  <2>2. Standing(id)' \in {"held", "loose", "absent"}
    BY DEF Standing
  <2> QED BY <1>1, <1>2, <1>4, <2>1, <2>2, HoldsOne, LosesOne, VanishesOne
<1> QED BY <1>3, <1>4

(* So every full write of a copy that is the latest version is allowed.      *)
LEMMA SavesAllowed ==
  ASSUME NEW P, NEW IP, CopiesOK(P, IP), Safe, UNCHANGED growthbook,
         NEW object, NEW stored, NEW next, Saves(P, IP, object, stored, next)
  PROVE  Allowed
<1>1. UNCHANGED <<remote, lost>>
  BY DEF growthbook
<1>2. CASE ~(crFresh /\ mr # NoObject)
  BY <1>1, <1>2, Unseen DEF ClientUpdate, Saves
<1>3. CASE crFresh /\ mr # NoObject
  <2>1. mr' = WithSpec(object, stored) /\ mr' # NoObject /\ pc \notin {"idle", "recordCreated"}
        /\ pc # "recordFailed"
    BY <1>3 DEF ClientUpdate, Saves, CopiesOK
  <2>2. /\ cr.externalName = mr.externalName /\ cr.deleting = mr.deleting
        /\ cr.finalizer = mr.finalizer
    BY <1>3, <2>1 DEF Safe, CopiesAgree
  <2>3. /\ mr'.externalName = mr.externalName /\ mr'.deleting = mr.deleting
        /\ mr.finalizer => mr'.finalizer
    BY <2>1, <2>2 DEF Saves
  <2> QED BY <1>1, <1>3, <2>1, <2>3, WriteHolds
<1> QED BY <1>2, <1>3

(* The finalizer goes only when nothing is held, or may be left behind.      *)
LEMMA RemoveFinalizerAllowed ==
  ASSUME NEW P, NEW IP, CopiesOK(P, IP), Safe, RemoveFinalizer, UNCHANGED growthbook
  PROVE  Allowed
<1>1. UNCHANGED <<remote, lost>> /\ pc = "removeFinalizer"
  BY DEF growthbook, RemoveFinalizer
<1>2. CASE ~(crFresh /\ mr # NoObject)
  BY <1>1, <1>2, Unseen DEF RemoveFinalizer, ClientUpdate
<1>3. CASE crFresh /\ mr # NoObject
  <2>1. mr' = NoObject /\ cr.externalName = mr.externalName
    BY <1>1, <1>3 DEF RemoveFinalizer, ClientUpdate, Safe, CopiesAgree
  <2>2. ASSUME "Delete" \in Policies PROVE \A i \in Ids : Standing(i) # "held"
    <3>1. Free(mr.externalName)
      BY <1>1, <2>1, <2>2 DEF Safe, Protocol, OnTheWay
    <3> QED BY <1>1, <3>1, NothingHeld
  <2>3. ASSUME NEW i \in Ids
        PROVE  Standing(i)' = IF Standing(i) = "held" THEN "loose" ELSE Standing(i)
    <3>1. ~Holds(i)' /\ (Live(i)' <=> Live(i)) /\ (i \in Made' <=> i \in Made)
      BY <1>1, <2>1 DEF Holds, Live, Made
    <3>2. "Delete" \in Policies => Standing(i) # "held"
      BY <2>2
    <3> QED BY <1>1, <3>1, <3>2 DEF Standing, AnswersFor
  <2> QED BY <1>3, <2>1, <2>2, <2>3, Forgets
<1> QED BY <1>2, <1>3

(* Recording the outcome of Create names no object that was not learned;     *)
(* the resource takes hold of that one unless it held it from the POST on.   *)
LEMMA RecordCreationAllowed ==
  ASSUME NEW P, NEW IP, CopiesOK(P, IP), Safe, RecordCreation, UNCHANGED growthbook
  PROVE  Allowed
<1>0. PICK id : id = cr.externalName
  OBVIOUS
<1>1. /\ UNCHANGED <<remote, lost>> /\ pc \in {"recordCreated", "recordFailed"}
      /\ mr # NoObject /\ mr \in Things(P, IP) /\ id \in Opt(Ids)
  BY <1>0, Copies DEF growthbook, RecordCreation
<1>2. /\ mr'.externalName = id /\ mr'.finalizer = mr.finalizer /\ mr'.deleting = mr.deleting
      /\ mr' \in Things(P, IP)
  BY <1>0, <1>1 DEF RecordCreation, Things, Objects
<1>3. UNCHANGED Resource
  BY <1>1, <1>2 DEF Resource, CopiesOK
<1>4. Free(mr.externalName)
  BY <1>1 DEF Safe, Protocol, Creating
<1>5. \A i \in Ids : Live(i) => ~Holds(i)
  BY <1>4, IdsAssumption DEF Free, Holds, Live
<1>6. OthersStand(id)
  BY <1>1, <1>2, <1>5 DEF OthersStand, Standing, AnswersFor, Made, Live, Holds
<1>7. CASE id \notin Ids
  BY <1>3, <1>6, <1>7, NobodyMoves DEF OthersStand
<1>8. CASE id \in Ids /\ Standing(id)' = Standing(id)
  BY <1>3, <1>6, <1>8, NobodyMoves DEF OthersStand
<1>9. CASE id \in Ids /\ Standing(id)' # Standing(id)
  <2>1. Live(id) /\ ~(id \in Made /\ "Delete" \in Policies)
    BY <1>1, <1>9 DEF Standing, AnswersFor, Made, Live
  <2>2. Standing(id)' = "held"
    BY <1>1, <1>5, <1>9, <2>1 DEF Standing, AnswersFor, Made, Live
  <2>3. \A i \in Ids : Standing(i) # "held"
    <3> SUFFICES ASSUME NEW i \in Ids, Standing(i) = "held" PROVE FALSE
      OBVIOUS
    <3>1. Learned(i)
      BY <1>5, HeldIsKnown
    <3>2. i = id
      BY <1>0, <3>1 DEF Learned
    <3> QED BY <1>5, <2>1, <3>2 DEF Standing, AnswersFor
  <2> QED BY <1>1, <1>3, <1>6, <1>9, <2>2, <2>3, HoldsOne
<1> QED BY <1>7, <1>8, <1>9

(* Between two calls the reconciler does what the abstract resource may do.  *)
LEMMA BetweenAllowed ==
  ASSUME NEW P, NEW IP, CopiesOK(P, IP), Safe, Between(P)
  PROVE  Allowed
<1>1. UNCHANGED growthbook /\ WorkerOK(P, IP) /\ OnTheWay
  BY DEF Between, ReconcilerStep, CopiesOK, Safe, Protocol
<1>2. CASE StartReconcile(TRUE)
  BY <1>1, <1>2, Unseen DEF StartReconcile, kubeVars, growthbook
<1> QED BY <1>1, <1>2, BetweenForms, SavesAllowed, RemoveFinalizerAllowed,
           RecordCreationAllowed

(* Create makes one object or none.                                         *)
LEMMA CreatesAllowed ==
  ASSUME NEW P, NEW IP, NEW O, Sound(P, IP, O), RemoteTyped(O), Safe, Creates(O)
  PROVE  Allowed
<1>1. pc = "create" /\ UNCHANGED mr
  BY DEF Creates, kubeVars
<1>2. ASSUME NEW id \in Ids, Makes(O, id), CreateEnds(id)
      PROVE  Allowed
  <2>1. lost' \in {lost, lost \cup {id}}
    BY <1>2 DEF CreateEnds
  <2> QED BY <1>1, <1>2, <2>1, MakesAllowed
<1> QED BY <1>1, <1>2, Unseen DEF Creates

(* A crash loses the object whose  id was only in memory.                    *)
LEMMA CrashAllowed ==
  ASSUME NEW P, NEW IP, CopiesOK(P, IP), Safe, CrashStep
  PROVE  Allowed
<1>1. UNCHANGED <<mr, remote>> /\ pc # "idle"
  BY DEF CrashStep, Crash, kubeVars
<1>2. CASE lost' = lost
  BY <1>1, <1>2, Unseen
<1>3. CASE pc = "recordCreated" /\ cr.externalName # Nil
  <2>1. PICK id : id = cr.externalName
    OBVIOUS
  <2>2. id \in Ids /\ lost' = lost \cup {id}
    BY <1>1, <1>3, <2>1, Copies DEF CrashStep, Opt
  <2>3. OthersStand(id) /\ UNCHANGED Resource
    BY <1>1, <2>2, OthersStay DEF Live
  <2>4. mr # NoObject
    BY <1>3 DEF Safe, Protocol, Creating, CreateAnnounced
  <2>5. ~Holds(id) \/ ~Live(id)
    BY <1>3, <2>2, IdsAssumption DEF Safe, Protocol, Creating, Holds, Free, Live
  <2>6. Standing(id)' = "loose" \/ Standing(id)' = "absent"
    BY <1>1, <2>2, <2>5 DEF Standing, AnswersFor, Made, Live, Holds
  <2> QED BY <2>2, <2>3, <2>4, <2>6, LosesOne, VanishesOne
<1> QED BY <1>2, <1>3 DEF CrashStep

(* What users do is what the abstract resource is told.                      *)
LEMMA UsersAllowed ==
  ASSUME NEW P, NEW IP, NEW O, Sound(P, IP, O), CopiesOK(P, IP), Users, UNCHANGED growthbook,
         mr # NoObject /\ ~mr.finalizer => \A i \in Ids : Standing(i) # "held"
  PROVE  Allowed
<1>0. UNCHANGED <<remote, lost>>
  BY DEF growthbook
<1>1. PICK object : ForeignWrite(object) /\ Leaves(object)
  BY UsersLeave
<1>2. mr' = object
  BY <1>1 DEF ForeignWrite
<1>3. CASE mr # NoObject /\ object # NoObject
  <2>1. object.externalName = mr.externalName /\ object.finalizer = mr.finalizer
    BY <1>1, <1>3 DEF Leaves
  <2>2. \A i \in Ids : Standing(i)' = Standing(i)
    BY <1>0, <1>2, <1>3, <2>1 DEF Standing, AnswersFor, Made, Live, Holds
  <2>3. CASE object.deleting = mr.deleting
    <3>1. UNCHANGED Resource
      BY <1>2, <1>3, <2>3 DEF Resource
    <3> QED BY <2>2, <3>1, NobodyMoves
  <2>4. CASE object.deleting # mr.deleting
    <3>1. object.deleting /\ (mr.deleting \in BOOLEAN => ~mr.deleting)
      BY <1>1, <1>3, <2>4 DEF Leaves
    <3>2. mr.deleting \in BOOLEAN
      BY <1>3, Copies DEF Things, Objects
    <3>3. Resource = "declared" /\ Resource' = "deleting"
      BY <1>2, <1>3, <3>1, <3>2 DEF Resource
    <3> QED BY <2>2, <3>3 DEF Allowed, NobodyStirs
  <2> QED BY <2>3, <2>4
<1>4. CASE mr # NoObject /\ object = NoObject
  <2>1. ~mr.finalizer
    BY <1>1, <1>4 DEF Leaves
  <2>2. \A i \in Ids : Standing(i) # "held"
    BY <1>4, <2>1
  <2>3. \A i \in Ids : Standing(i)' = Standing(i)
    BY <1>0, <1>2, <1>4, <2>1 DEF Standing, AnswersFor, Made, Live, Holds
  <2> QED BY <1>2, <1>4, <2>2, <2>3, Forgets
<1>5. CASE mr = NoObject
  <2>1. object # NoObject /\ ~object.finalizer /\ ~object.deleting
    BY <1>1, <1>5 DEF Leaves
  <2>2. \A i \in Ids : Standing(i)' = Standing(i)
    BY <1>0, <1>2, <1>5, <2>1 DEF Standing, AnswersFor, Made, Live, Holds
  <2>3. Resource = "none" /\ Resource' = "declared"
    BY <1>2, <1>5, <2>1 DEF Resource
  <2> QED BY <2>2, <2>3 DEF Allowed, NobodyStirs
<1> QED BY <1>3, <1>4, <1>5

LEMMA AroundAllowed ==
  ASSUME NEW P, NEW IP, NEW O, Sound(P, IP, O), CopiesOK(P, IP), Safe, Around
  PROVE  Allowed
<1>1. CASE CacheSync \/ GraceEnds
  BY <1>1, Unseen DEF Around, CacheSync, GraceEnds, growthbook
<1>2. CASE Users
  <2>1. mr # NoObject /\ ~mr.finalizer => \A i \in Ids : Standing(i) # "held"
    BY NothingHeld
  <2> QED BY <1>2, <2>1, UsersAllowed DEF Around
<1> QED BY <1>1, <1>2 DEF Around

(* Every step of either controller is one the abstract resource may take.    *)
LEMMA StepAllowed ==
  ASSUME NEW P, NEW IP, NEW O, NEW R, Sound(P, IP, O), AssignedTypeOK(P, IP, O, R),
         Safe, AssignedStep(P, O, R)
  PROVE  Allowed
<1>1. CopiesOK(P, IP) /\ RemoteTyped(O)
  BY AssignedTypeParts DEF CopiesOK, Sound, RemoteOK, RemoteTyped
<1>2. CASE Connects \/ GoesOn(P)
  BY <1>2, Unseen DEF Connects, GoesOn, kubeVars
<1>3. CASE Calls(O)
  BY <1>1, <1>3, ChangesAllowed DEF Calls, kubeVars
<1>4. CASE Outside(O)
  <2>1. UNCHANGED mr
    BY <1>4 DEF Outside, kubeVars
  <2>2. CASE \E id \in Opt(Ids) : Changes(O, id) /\ UNCHANGED lost
    BY <1>1, <2>1, <2>2, ChangesAllowed
  <2>3. CASE \E id \in Ids : Makes(O, id) /\ lost' = lost \cup {id}
    BY <1>1, <2>1, <2>3, MakesAllowed
  <2> QED BY <1>4, <2>2, <2>3 DEF Outside
<1> QED BY <1>1, <1>2, <1>3, <1>4, BetweenAllowed, CreatesAllowed, CrashAllowed,
           AroundAllowed DEF AssignedStep

(* A new resource, whether it names an imported object or not, holds none.   *)
LEMMA AbstractStart ==
  ASSUME NEW P, NEW IP, NEW O, Sound(P, IP, O),
         NEW s \in Specs, NEW id \in Imported \cup {Nil}, NEW object \in O,
         Starts(s, id, object)
  PROVE  Abstract!Init
<1>1. /\ RuntimeInit(NewObject(s.forProvider, s.initProvider, id))
      /\ remote = [i \in Ids |-> IF i \in Imported THEN object ELSE Unborn]
      /\ id \in Opt(Ids)
  BY IdsAssumption DEF Starts, Opt
<1>2. mr = NewObject(s.forProvider, s.initProvider, id) /\ mr # NoObject
  BY <1>1, NewTyped DEF RuntimeInit
<1>3. Resource = "declared"
  BY <1>2 DEF Resource, NewObject
<1>4. \A i \in Ids : Standing(i) \in {"absent", "loose"}
  BY <1>1, <1>2 DEF Standing, AnswersFor, Made, Live, Holds, NewObject
<1> QED BY <1>3, <1>4 DEF Abstract!Init
-----------------------------------------------------------------------------
(* What the controllers need to see that their steps are of these forms.     *)

(* The answer of a GrowthBook that is well denies nothing.                   *)
LEMMA AnswerShows == ~IsNotFound(Answered)
BY DEF IsNotFound, Answered, Response

(* Only a well GrowthBook shows an object, and only one that is there.       *)
LEMMA ShownIsLive ==
  ASSUME NEW O, RemoteTyped(O), NEW id \in Ids, NEW r \in Answers(id),
         ~IsNotFound(r), ~Fails(r, TRUE), r.body = "object"
  PROVE  remote[id] \in O
<1>1. r \notin Faults
  BY FaultsAssumption
<1>2. r \notin Missing
  <2>1. IsNotFound(Response(404, "none", "object"))
    BY DEF IsNotFound, Response
  <2>2. IsNotFound(Response(400, "could not find", "object"))
    BY DEF IsNotFound, Response
  <2> QED BY <2>1, <2>2 DEF Missing
<1>3. Live(id)
  BY <1>1, <1>2 DEF Answers
<1> QED BY <1>3 DEF Live, RemoteTyped

(* GrowthBook only denies having an object that is gone, once its id is known.*)
LEMMA DeniedIsGone ==
  ASSUME NEW P, NEW IP, CopiesOK(P, IP), NamesWereGiven, pc # "idle", cr.externalName # Nil,
         NEW r \in Answers(cr.externalName), IsNotFound(r)
  PROVE  Free(cr.externalName)
<1>1. r \in Missing /\ ~Live(cr.externalName)
  BY AnswerShows, FaultsAssumption DEF Answers
<1>2. remote[cr.externalName] # Unborn
  BY Copies DEF NamesWereGiven, Given
<1> QED BY <1>1, <1>2 DEF Live, Free

(* What the reconciler does after an observation is justified by it,         *)
LEMMA ObservedGoesOn ==
  ASSUME NEW P, pc = "observe", NEW o \in Observations, NEW p \in P, Observed(o, p),
         UNCHANGED <<remote, lost>>, ~o.exists => Free(cr.externalName)
  PROVE  GoesOn(P)
<1>1. AfterObserve(o) \in Steps
  BY NextSteps
<1>2. Justified(AfterObserve(o), o)
  BY DEF Justified, AfterObserve, AfterFinalizer, AfterLateInit
<1>3. Continue(AfterObserve(o), WithSpec(cr, p), o) /\ UNCHANGED kubeVars
  BY DEF Observed, WithSpec
<1> QED BY <1>1, <1>2, <1>3 DEF GoesOn

(* and the end of the reconcile needs no justification.                      *)
LEMMA EndGoesOn ==
  ASSUME NEW P, NEW IP, WorkerOK(P, IP), pc \in {"observe", "publish"}, EndReconcile,
         UNCHANGED <<kubeVars, remote, lost>>
  PROVE  GoesOn(P)
<1>1. cr.forProvider \in P
  BY DEF WorkerOK, Things, Objects
<1>2. Continue("idle", WithSpec(cr, cr.forProvider), NoObservation) /\ "idle" \in Steps
  BY DEF Continue, Steps
<1>3. Justified("idle", NoObservation)
  BY DEF Justified
<1> QED BY <1>1, <1>2, <1>3, NoObservationTyped DEF GoesOn

(* A POST carries no id, the others the one of the copy in memory.           *)
LEMMA RequestsTyped ==
  ASSUME NEW P, NEW IP, NEW R, WorkerOK(P, IP), pc # "idle"
  PROVE  /\ \A body \in R : Request("POST", Nil, body) \in RequestsWith(R)
         /\ \A body \in R : Request("PUT", cr.externalName, body) \in RequestsWith(R)
         /\ Request("DELETE", cr.externalName, Nil) \in RequestsWith(R)
         /\ cr.externalName \in Opt(Ids)
<1>1. cr.externalName \in Opt(Ids) /\ Nil \in Opt(Ids)
  BY DEF WorkerOK, Things, Objects, Opt
<1> QED BY <1>1 DEF Request, RequestsWith

(* A request that is not served leaves GrowthBook as it is, and may stay on    *)
(* its way.                                                                 *)
LEMMA NotServedForms ==
  ASSUME NEW R, inFlight \subseteq RequestsWith(R), NEW q \in RequestsWith(R), NEW r,
         NotServed(q, r)
  PROVE  UNCHANGED remote /\ inFlight' \subseteq RequestsWith(R)
BY DEF NotServed

(* Others at work in GrowthBook itself take a step of their own.             *)
LEMMA OutOfBandForms ==
  ASSUME NEW P, NEW IP, NEW O, NEW R, Sound(P, IP, O), RemoteOK(O, R), NEW id \in Ids,
         OutOfBandDelete(id) \/ \E e \in OutOfBand : OutOfBandEdit(id, e)
  PROVE  AssignedStep(P, O, R)
<1>1. Changes(O, id) /\ id \in Opt(Ids)
  BY OutOfBandChanges DEF RemoteOK, RemoteTyped, Opt
<1>2. UNCHANGED <<kubeVars, workerVars, inFlight, lost>> /\ Disturb
  BY DEF OutOfBandDelete, OutOfBandEdit
<1>3. Outside(O)
  BY <1>1, <1>2 DEF Outside
<1> QED BY <1>2, <1>3 DEF AssignedStep, RemoteOK

(* Nor does anything else that leaves all this alone do more.                *)
LEMMA StutterForms ==
  ASSUME NEW P, NEW O, NEW R, inFlight \subseteq RequestsWith(R),
         UNCHANGED <<runtimeVars, growthbook>>
  PROVE  AssignedStep(P, O, R)
<1>1. UNCHANGED <<kubeVars, workerVars, chaos, remote, inFlight, lost>>
  BY DEF runtimeVars, growthbook
<1>2. Changes(O, Nil) /\ Nil \in Opt(Ids)
  BY <1>1 DEF Changes, Opt
<1>3. Outside(O)
  BY <1>1, <1>2 DEF Outside
<1> QED BY <1>1, <1>3 DEF AssignedStep

(* The reconciler's own steps, a crash, the users and the informer are of     *)
(* these forms whatever the kind.                                           *)
LEMMA RuntimeForms ==
  ASSUME NEW P, NEW O, NEW R, inFlight \subseteq RequestsWith(R),
         Between(P) \/ CrashStep \/ Around
  PROVE  AssignedStep(P, O, R)
<1>1. UNCHANGED inFlight
  BY DEF Between, ReconcilerStep, CrashStep, Around, growthbook
<1>2. UNCHANGED chaos \/ Disturb
  <2>1. CASE Between(P)
    BY <2>1 DEF Between, ReconcilerStep, StartReconcile, AddFinalizer, MarkPending, SaveLateInit,
       RemoveFinalizer, ClientUpdate, RecordCreation
  <2>2. CASE CrashStep \/ Around
    BY <2>2 DEF CrashStep, Crash, Around, Users, UserChange, UserDelete, UserEdit, UserCreate,
       ForeignWrite, CacheSync, GraceEnds
  <2> QED BY <2>1, <2>2
<1> QED BY <1>1, <1>2 DEF AssignedStep
-----------------------------------------------------------------------------
(* Only users say which fields are theirs.                                   *)
LEMMA OwnedStays ==
  ASSUME NEW P, NEW O, NEW R, AssignedStep(P, O, R), ~UNCHANGED owned
  PROVE  Users
<1>1. ~Between(P)
  BY DEF Between, ReconcilerStep, StartReconcile, AddFinalizer, MarkPending, SaveLateInit,
     RemoveFinalizer, ClientUpdate, RecordCreation, kubeVars
<1>2. ~Connects /\ ~GoesOn(P) /\ ~Creates(O) /\ ~Calls(O) /\ ~Outside(O)
  BY DEF Connects, GoesOn, Creates, Calls, Outside, kubeVars
<1>3. ~CrashStep /\ ~CacheSync /\ ~GraceEnds
  BY DEF CrashStep, Crash, CacheSync, GraceEnds, kubeVars
<1> QED BY <1>1, <1>2, <1>3 DEF AssignedStep, Around

(* No step takes back what is known of an id.                                *)
LEMMA StepMoves ==
  ASSUME NEW P, NEW IP, NEW O, NEW R, Sound(P, IP, O), AssignedTypeOK(P, IP, O, R),
         AssignedStep(P, O, R)
  PROVE  \E id : OnlyMoves(id)
<1>1. RemoteTyped(O)
  BY AssignedTypeParts DEF RemoteOK, RemoteTyped
<1>2. CASE UNCHANGED remote
  BY <1>2, NothingMoves
<1>3. CASE Calls(O) \/ Outside(O)
  BY <1>1, <1>3, ChangesMoves, MakesMoves DEF Calls, Outside
<1>4. CASE Creates(O)
  BY <1>1, <1>2, <1>4, MakesMoves DEF Creates
<1> QED BY <1>2, <1>3, <1>4 DEF AssignedStep, Between, ReconcilerStep, Connects, GoesOn,
           CrashStep, Around, growthbook

(* A resource only gets another name when its creation is recorded, and the   *)
(* one it had then stands for no object.                                    *)
LEMMA StepNames ==
  ASSUME NEW P, NEW IP, NEW O, NEW R, Sound(P, IP, O), AssignedTypeOK(P, IP, O, R),
         Safe, AssignedStep(P, O, R), mr # NoObject, mr' # NoObject,
         mr'.externalName # mr.externalName
  PROVE  RecordCreation /\ Free(mr.externalName) /\ mr'.externalName = cr.externalName
<1>1. CopiesOK(P, IP)
  BY AssignedTypeParts DEF CopiesOK, Sound
<1>2. CASE Between(P)
  <2>1. ~StartReconcile(TRUE)
    BY DEF StartReconcile, kubeVars
  <2>2. ~RemoveFinalizer
    BY DEF RemoveFinalizer, ClientUpdate
  <2>3. ASSUME NEW object, NEW stored, NEW next, Saves(P, IP, object, stored, next)
        PROVE  FALSE
    <3>1. mr' = WithSpec(object, stored) /\ crFresh
      BY <2>3 DEF Saves, ClientUpdate
    <3> QED BY <2>3, <3>1 DEF Saves, Safe, CopiesAgree
  <2>4. WorkerOK(P, IP) /\ OnTheWay
    BY <1>1 DEF CopiesOK, Safe, Protocol
  <2>5. RecordCreation
    BY <1>2, <2>1, <2>2, <2>3, <2>4, BetweenForms
  <2>6. Free(mr.externalName)
    BY <2>5 DEF RecordCreation, Safe, Protocol, Creating
  <2>7. mr \in Things(P, IP)
    BY <1>1, Copies
  <2> QED BY <2>5, <2>6, <2>7 DEF RecordCreation, Things, Objects
<1>3. CASE Around
  <2>1. CASE Users
    <3>1. PICK object : ForeignWrite(object) /\ Leaves(object)
      BY <1>1, <2>1, UsersLeave
    <3> QED BY <3>1 DEF ForeignWrite, Leaves
  <2> QED BY <1>3, <2>1 DEF Around, CacheSync, GraceEnds
<1>4. CASE Connects \/ GoesOn(P) \/ Creates(O) \/ Calls(O) \/ CrashStep \/ Outside(O)
  <2>1. UNCHANGED kubeVars
    BY <1>4 DEF Connects, GoesOn, Creates, Calls, CrashStep, Crash, Outside
  <2> QED BY <2>1 DEF kubeVars
<1> QED BY <1>2, <1>3, <1>4 DEF AssignedStep

(* The copy in memory is dropped, learns an id, is a copy of the informer's,  *)
(* or keeps its name.                                                       *)
LEMMA CopyNames ==
  ASSUME NEW P, NEW IP, NEW O, NEW R, Sound(P, IP, O), AssignedTypeOK(P, IP, O, R),
         Safe, AssignedStep(P, O, R)
  PROVE  \/ cr' = NoObject \/ pc' = "recordCreated" \/ UNCHANGED <<pc, cr>>
         \/ cr' = cache /\ UNCHANGED mr
         \/ pc \notin {"idle", "recordCreated"} /\ cr'.externalName = cr.externalName
<1>1. CopiesOK(P, IP)
  BY AssignedTypeParts DEF CopiesOK, Sound
<1>2. pc # "idle" => cr \in Things(P, IP)
  BY <1>1, Copies
<1>3. CASE Between(P)
  <2>1. CASE StartReconcile(TRUE)
    BY <2>1 DEF StartReconcile, kubeVars
  <2>2. CASE RemoveFinalizer \/ RecordCreation
    BY <2>2 DEF RemoveFinalizer, ClientUpdate, Continue, RecordCreation, EndReconcile
  <2>3. ASSUME NEW object, NEW stored, NEW next, Saves(P, IP, object, stored, next)
        PROVE  /\ cr' = NoObject \/ cr'.externalName = cr.externalName
               /\ pc \notin {"idle", "recordCreated"}
    BY <2>3 DEF Saves, ClientUpdate, Continue, EndReconcile
  <2>4. WorkerOK(P, IP) /\ OnTheWay
    BY <1>1 DEF CopiesOK, Safe, Protocol
  <2> QED BY <1>3, <2>1, <2>2, <2>3, <2>4, BetweenForms
<1>4. CASE GoesOn(P)
  <2>1. PICK step \in Steps, p \in P, o \in Observations : Continue(step, WithSpec(cr, p), o)
    BY <1>4 DEF GoesOn
  <2>2. pc \in {"observe", "publish"} /\ WithSpec(cr, p).externalName = cr.externalName
    BY <1>2, <1>4 DEF GoesOn, WithSpec, Things, Objects
  <2> QED BY <2>1, <2>2 DEF Continue, EndReconcile
<1>5. CASE Creates(O)
  <2>1. pc = "create" /\ \E step, name :
          /\ Returned(step, name)
          /\ step = "recordCreated" \/ name = cr.externalName
    BY <1>5 DEF Creates, CreateEnds
  <2> QED BY <1>2, <2>1 DEF Returned, Things, Objects
<1>6. CASE Connects \/ Calls(O) \/ CrashStep
  BY <1>6 DEF Connects, Calls, CrashStep, Crash, EndReconcile
<1>7. CASE Around \/ Outside(O)
  BY <1>7 DEF Around, Users, UserChange, UserDelete, UserEdit, UserCreate, ForeignWrite,
     CacheSync, GraceEnds, Outside, workerVars
<1> QED BY <1>3, <1>4, <1>5, <1>6, <1>7 DEF AssignedStep
-----------------------------------------------------------------------------
(* Two processes reconcile the object, each from copies of its own.  While    *)
(* one of them creates, the API server has the announced creation, which the  *)
(* other finds in its informer's copy and waits, or has not seen and then     *)
(* writes nothing: its copy is not the latest version.                        *)

(* A reconcile works on a copy without an announced creation, unless it has   *)
(* announced one itself.                                                     *)
Ready == pc \notin Creating \cup {"idle"} => cr.create # "pending"

Announced == mr # NoObject /\ mr.finalizer /\ mr.create = "pending"

LEMMA StepReady ==
  ASSUME NEW P, NEW IP, NEW O, NEW R, Sound(P, IP, O), AssignedTypeOK(P, IP, O, R),
         OnTheWay, Ready, AssignedStep(P, O, R)
  PROVE  Ready'
<1>1. CopiesOK(P, IP)
  BY AssignedTypeParts DEF CopiesOK, Sound
<1>2. pc # "idle" => cr \in Things(P, IP)
  BY <1>1, Copies
<1>3. CASE Between(P)
  <2>1. CASE StartReconcile(TRUE)
    BY <2>1 DEF StartReconcile, Ready
  <2>2. CASE RemoveFinalizer \/ RecordCreation
    BY <2>2 DEF RemoveFinalizer, ClientUpdate, Continue, RecordCreation, EndReconcile, Ready
  <2>3. ASSUME NEW object, NEW stored, NEW next, Saves(P, IP, object, stored, next)
        PROVE  Ready'
    BY <2>3 DEF Saves, ClientUpdate, Continue, EndReconcile, Ready, Creating
  <2>4. WorkerOK(P, IP)
    BY <1>1 DEF CopiesOK
  <2> QED BY <1>3, <2>1, <2>2, <2>3, <2>4, BetweenForms
<1>4. CASE GoesOn(P)
  <2>1. PICK step \in Steps, p \in P, o \in Observations :
          Continue(step, WithSpec(cr, p), o) /\ Justified(step, o)
    BY <1>4 DEF GoesOn
  <2>2. pc \in {"observe", "publish"} /\ WithSpec(cr, p).create = cr.create
    BY <1>2, <1>4 DEF GoesOn, WithSpec, Things, Objects
  <2> QED BY <2>1, <2>2 DEF Continue, EndReconcile, Ready, Creating
<1>5. CASE Creates(O)
  <2>1. pc' \in Creating
    BY <1>5 DEF Creates, CreateEnds, Returned, Creating
  <2> QED BY <2>1 DEF Ready
<1>6. CASE Connects \/ Calls(O) \/ CrashStep
  BY <1>6 DEF Connects, Calls, CrashStep, Crash, EndReconcile, Ready, Creating
<1>7. CASE Around \/ Outside(O)
  <2>1. UNCHANGED <<pc, cr>>
    BY <1>7 DEF Around, Users, UserChange, UserDelete, UserEdit, UserCreate, ForeignWrite,
       CacheSync, GraceEnds, Outside, workerVars
  <2> QED BY <2>1 DEF Ready
<1> QED BY <1>3, <1>4, <1>5, <1>6, <1>7 DEF AssignedStep

(* While another process creates, this one only makes way: nothing that it    *)
(* writes is accepted, and users leave the finalizer and the announcement.    *)
LEMMA StandsBack ==
  ASSUME NEW P, NEW IP, NEW O, NEW R, Sound(P, IP, O), AssignedTypeOK(P, IP, O, R),
         CopiesAgree, OnTheWay, Ready, pc \notin Creating, Announced, AssignedStep(P, O, R)
  PROVE  /\ UNCHANGED mr \/ (Users /\ UNCHANGED growthbook)
         /\ Announced' /\ mr'.externalName = mr.externalName
         /\ pc' \notin Creating
<1>1. CopiesOK(P, IP)
  BY AssignedTypeParts DEF CopiesOK, Sound
<1>2. pc # "idle" => ~crFresh
  BY DEF CopiesAgree, Ready, Announced
<1>3. SUFFICES /\ UNCHANGED mr \/ (Users /\ UNCHANGED growthbook)
               /\ pc' \notin Creating
  <2>1. CASE Users
    <3>1. PICK object : ForeignWrite(object) /\ Leaves(object)
      BY <1>1, <2>1, UsersLeave
    <3> QED BY <3>1 DEF ForeignWrite, Leaves, Announced
  <2> QED BY <1>3, <2>1 DEF Announced
<1>4. CASE Between(P)
  <2>1. CASE StartReconcile(TRUE)
    BY <2>1 DEF StartReconcile, kubeVars, Creating
  <2>2. CASE RemoveFinalizer
    BY <1>2, <2>2 DEF RemoveFinalizer, ClientUpdate, EndReconcile, Creating
  <2>3. ~RecordCreation
    BY DEF RecordCreation, Creating
  <2>4. ASSUME NEW object, NEW stored, NEW next, Saves(P, IP, object, stored, next)
        PROVE  UNCHANGED mr /\ pc' \notin Creating
    BY <1>2, <2>4 DEF Saves, ClientUpdate, EndReconcile, Creating
  <2>5. WorkerOK(P, IP)
    BY <1>1 DEF CopiesOK
  <2> QED BY <1>4, <2>1, <2>2, <2>3, <2>4, <2>5, BetweenForms
<1>5. CASE GoesOn(P)
  BY <1>5 DEF GoesOn, Continue, EndReconcile, Justified, Creating, kubeVars
<1>6. CASE Connects \/ Calls(O) \/ CrashStep
  BY <1>6 DEF Connects, Calls, CrashStep, Crash, EndReconcile, Creating, kubeVars
<1>7. ~Creates(O)
  BY DEF Creates, Creating
<1>8. CASE Around
  <2>1. UNCHANGED pc /\ (Users \/ UNCHANGED mr) /\ UNCHANGED growthbook
    BY <1>8 DEF Around, Users, UserChange, UserDelete, UserEdit, UserCreate, ForeignWrite,
       CacheSync, GraceEnds, workerVars
  <2> QED BY <2>1
<1>9. CASE Outside(O)
  BY <1>9 DEF Outside, kubeVars, workerVars
<1> QED BY <1>4, <1>5, <1>6, <1>7, <1>8, <1>9 DEF AssignedStep

(* What it does to the object and to GrowthBook is allowed, whatever it       *)
(* knows of what the other has learned.                                      *)
LEMMA StandsBackAllowed ==
  ASSUME NEW P, NEW IP, NEW O, NEW R, Sound(P, IP, O), AssignedTypeOK(P, IP, O, R),
         CopiesAgree, NamesWereGiven, OnTheWay, Ready, pc \notin Creating, Announced,
         AssignedStep(P, O, R)
  PROVE  Allowed
<1>1. CopiesOK(P, IP) /\ RemoteTyped(O)
  BY AssignedTypeParts DEF CopiesOK, Sound, RemoteOK, RemoteTyped
<1>2. CASE Users /\ UNCHANGED growthbook
  BY <1>1, <1>2, UsersAllowed DEF Announced
<1>3. CASE UNCHANGED mr
  <2>1. CASE Between(P) \/ Connects \/ GoesOn(P) \/ Around
    BY <1>3, <2>1, Unseen DEF Between, ReconcilerStep, Connects, GoesOn, Around, growthbook
  <2>2. CASE Calls(O)
    BY <1>1, <1>3, <2>2, ChangesAllowed DEF Calls
  <2>3. CASE CrashStep
    BY <1>3, <2>3, Unseen DEF CrashStep, Creating
  <2>4. CASE Outside(O)
    BY <1>1, <1>3, <2>4, ChangesAllowed, MakesLoose DEF Outside
  <2> QED BY <2>1, <2>2, <2>3, <2>4 DEF AssignedStep, Creates, Creating
<1> QED BY <1>2, <1>3, StandsBack

(* The process that looks on, while the other takes a step: it has lost the   *)
(* latest version when that one wrote the object.                            *)
LooksOn ==
  /\ UNCHANGED <<pc, cr, obs, cache>>
  /\ crFresh' = (crFresh /\ mr' = mr) /\ cacheFresh' = (cacheFresh /\ mr' = mr)

LEMMA LooksOnTyped ==
  ASSUME NEW P, NEW IP, KubeOK(P, IP), WorkerOK(P, IP), LooksOn,
         mr' \in Things(P, IP) \cup {NoObject}, inGrace' \in BOOLEAN
  PROVE  KubeOK(P, IP)' /\ WorkerOK(P, IP)'
BY DEF KubeOK, WorkerOK, LooksOn

LEMMA LooksOnSafe ==
  ASSUME NEW P, NEW IP, CopiesOK(P, IP), CopiesAgree, NamesWereGiven, Protocol, Ready, LooksOn,
         NEW id, OnlyMoves(id), Given(mr)',
         pc \in Creating => Announced' /\ mr'.externalName = mr.externalName
  PROVE  (CopiesAgree /\ NamesWereGiven /\ Protocol /\ Ready)'
<1> USE DEF LooksOn
<1>1. CopiesAgree' /\ Ready'
  BY DEF CopiesAgree, Ready
<1>2. NamesWereGiven'
  <2>1. Given(cache)' /\ Given(cr)'
    BY GivenStays DEF NamesWereGiven, Given
  <2> QED BY <2>1 DEF NamesWereGiven
<1>3. pc # "idle" /\ Free(cr.externalName) => Free(cr.externalName)'
  BY KnownStays, Copies DEF Free
<1>4. mr # NoObject /\ Free(mr.externalName) /\ mr'.externalName = mr.externalName
        => Free(mr.externalName)'
  BY KnownStays, Copies DEF Free
<1>5. pc \in Creating => mr # NoObject
  BY DEF Protocol, CreateAnnounced, Creating
<1>6. OnTheWay'
  BY <1>3 DEF Protocol, OnTheWay
<1>7. Protocol'
  BY <1>4, <1>5, <1>6 DEF Protocol, CreateAnnounced, Announced, Creating
<1> QED BY <1>1, <1>2, <1>7
=============================================================================
