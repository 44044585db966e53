------------------------------ MODULE NamedProofs ------------------------------
(***************************************************************************)
(* What Environment and Feature owe to the reconciler and to GrowthBook's    *)
(* names, whatever parameters they carry: P stands for them.  A resource     *)
(* keeps its finalizer while it answers for the object of its name, and so   *)
(* implements ExternalResource.  Each lemma is about one kind of step; what a *)
(* controller adds is only which requests it sends and what they leave.      *)
(***************************************************************************)
EXTENDS NamedRemote, TLAPS

Things(P) == Objects(P, P, {Nil, Name})

KubeOK(P) ==
  /\ mr \in Things(P) \cup {NoObject} /\ cache \in Things(P) \cup {NoObject}
  /\ cacheFresh \in BOOLEAN /\ inGrace \in BOOLEAN

WorkerOK(P) ==
  /\ pc \in Steps /\ obs \in Observations /\ crFresh \in BOOLEAN
  /\ IF pc = "idle" THEN cr = NoObject ELSE cr \in Things(P)

ChaosOK == chaos \in 0..MaxChaos

RemoteOK(O, R) ==
  /\ remote \in O \cup {Absent}
  /\ inFlight \subseteq [verb : {"POST", "PUT", "DELETE"}, body : Opt(R)]
  /\ made \in BOOLEAN /\ hidden \in BOOLEAN

(* The type invariant is what these four say.                               *)
LEMMA NamedTypeParts ==
  ASSUME NEW P, NEW O, NEW R
  PROVE  /\ NamedTypeOK(P, O, R) <=> KubeOK(P) /\ WorkerOK(P) /\ ChaosOK /\ RemoteOK(O, R)
         /\ NamedTypeOK(P, O, R)' <=> KubeOK(P)' /\ WorkerOK(P)' /\ ChaosOK' /\ RemoteOK(O, R)'
BY DEF NamedTypeOK, RuntimeTypeOK, KubeOK, WorkerOK, ChaosOK, RemoteOK, Things

(* The initial states are well typed.                                       *)
LEMMA NamedTypeInit ==
  ASSUME NEW P, NEW O, NEW R, NEW present, NamedInit(present), present \subseteq O,
         \A s \in Specs : s.forProvider \in P /\ s.initProvider \in P
  PROVE  NamedTypeOK(P, O, R)
<1>1. PICK s \in Specs : RuntimeInit(NewObject(s.forProvider, s.initProvider, Nil))
  BY DEF NamedInit
<1>2. NewObject(s.forProvider, s.initProvider, Nil) \in Things(P)
  BY DEF NewObject, Things, Objects
<1>3. KubeOK(P)
  BY <1>1, <1>2 DEF KubeOK, RuntimeInit
<1>4. WorkerOK(P)
  BY <1>1 DEF WorkerOK, RuntimeInit, Steps, Observations, NoObservation
<1>5. ChaosOK
  BY <1>1, MaxChaosAssumption DEF ChaosOK, RuntimeInit
<1>6. RemoteOK(O, R)
  BY DEF RemoteOK, NamedInit
<1> QED BY <1>3, <1>4, <1>5, <1>6, NamedTypeParts
-----------------------------------------------------------------------------
(* The steps between the controller's calls.                                *)

Between(named, stored) ==
  \/ StartReconcile(named) \/ Initialize(Name, stored) \/ AddFinalizer(stored)
  \/ MarkPending(stored) \/ SaveLateInit(stored) \/ RemoveFinalizer \/ RecordCreation

(* Steps of a reconcile that goes on with an object it holds by its finalizer.*)
Holding == {"markPending", "create", "recordCreated", "recordFailed", "lateInit", "update"}

Protocol ==
  /\ pc \in Holding \cup {"addFinalizer"} => ~cr.deleting
  /\ pc \in Holding => cr.finalizer
  /\ pc = "removeFinalizer" => cr.deleting /\ ("Delete" \in Policies => Standing # "held")

(* A full write of the copy in memory, with the fields in stored: it keeps    *)
(* the mark of deletion, and takes no finalizer off.                         *)
Saves(P, object, stored, next) ==
  /\ ClientUpdate(object, WithSpec(object, stored), next)
  /\ pc \in {"initialize", "addFinalizer", "markPending", "lateInit"}
  /\ object \in Things(P) /\ WithSpec(object, stored) \in Things(P)
  /\ object.forProvider = cr.forProvider /\ object.initProvider = cr.initProvider
  /\ object.deleting = cr.deleting /\ (cr.finalizer => object.finalizer)
  /\ next \in {"idle", "connect"} \cup Holding
  /\ next \in Holding => object.finalizer /\ ~object.deleting

(* All full writes but the removal of the finalizer are of this form.        *)
LEMMA BetweenForms ==
  ASSUME NEW P, WorkerOK(P), Protocol, NEW named, NEW stored,
         pc # "idle" => stored \in P, Between(named, stored)
  PROVE  \/ StartReconcile(named) \/ RemoveFinalizer \/ RecordCreation
         \/ \E object, next : Saves(P, object, stored, next)
<1>1. ASSUME NEW object \in Things(P), pc # "idle"
      PROVE  WithSpec(object, stored) \in Things(P)
  BY <1>1 DEF WithSpec, Things, Objects
<1>2. ASSUME pc # "idle" PROVE cr \in Things(P)
  BY <1>2 DEF WorkerOK
<1>3. CASE Initialize(Name, stored)
  <2> DEFINE object == [cr EXCEPT !.externalName = Name]
  <2>1. pc = "initialize" /\ ClientUpdate(object, WithSpec(object, stored), "connect")
    BY <1>3 DEF Initialize
  <2>2. /\ object \in Things(P) /\ object.forProvider = cr.forProvider
        /\ object.initProvider = cr.initProvider
        /\ object.deleting = cr.deleting /\ object.finalizer = cr.finalizer
    BY <1>2, <2>1 DEF Things, Objects
  <2> HIDE DEF object
  <2>3. Saves(P, object, stored, "connect")
    BY <1>1, <2>1, <2>2 DEF Saves, Holding
  <2> QED BY <2>3
<1>4. CASE AddFinalizer(stored)
  <2> DEFINE object == [cr EXCEPT !.finalizer = TRUE]
             next   == AfterFinalizer(obs)
  <2>1. pc = "addFinalizer" /\ ClientUpdate(object, WithSpec(object, stored), next)
    BY <1>4 DEF AddFinalizer
  <2>2. /\ object \in Things(P) /\ object.forProvider = cr.forProvider
        /\ object.initProvider = cr.initProvider
        /\ object.deleting = cr.deleting /\ object.finalizer
    BY <1>2, <2>1 DEF Things, Objects
  <2>3. next \in {"idle"} \cup Holding
    BY DEF AfterFinalizer, AfterLateInit, Holding
  <2> HIDE DEF object, next
  <2>4. Saves(P, object, stored, next)
    BY <1>1, <2>1, <2>2, <2>3 DEF Saves, Protocol
  <2> QED BY <2>4
<1>5. CASE MarkPending(stored)
  <2> DEFINE object == [cr EXCEPT !.create = "pending"]
  <2>1. pc = "markPending" /\ ClientUpdate(object, WithSpec(object, stored), "create")
    BY <1>5 DEF MarkPending
  <2>2. /\ object \in Things(P) /\ object.forProvider = cr.forProvider
        /\ object.initProvider = cr.initProvider
        /\ object.deleting = cr.deleting /\ object.finalizer = cr.finalizer
    BY <1>2, <2>1 DEF Things, Objects
  <2> HIDE DEF object
  <2>3. Saves(P, object, stored, "create")
    BY <1>1, <2>1, <2>2 DEF Saves, Holding, Protocol
  <2> QED BY <2>3
<1>6. CASE SaveLateInit(stored)
  <2> DEFINE next == AfterLateInit(obs)
  <2>1. pc = "lateInit" /\ ClientUpdate(cr, WithSpec(cr, stored), next)
    BY <1>6 DEF SaveLateInit
  <2>2. next \in {"idle", "update"}
    BY DEF AfterLateInit
  <2> HIDE DEF next
  <2>3. Saves(P, cr, stored, next)
    BY <1>1, <1>2, <2>1, <2>2 DEF Saves, Holding, Protocol
  <2> QED BY <2>3
<1> QED BY <1>3, <1>4, <1>5, <1>6 DEF Between
-----------------------------------------------------------------------------
(* Types are preserved.                                                     *)

(* Whatever was observed, the reconcile goes on with a step it has.         *)
LEMMA NextSteps ==
  ASSUME NEW o
  PROVE  /\ AfterFinalizer(o) \in {"idle"} \cup Holding
         /\ AfterObserve(o) \in {"idle", "delete", "removeFinalizer", "addFinalizer"} \cup Holding
         /\ Holding \cup {"addFinalizer", "removeFinalizer", "idle", "connect", "delete"}
              \subseteq Steps
BY DEF AfterLateInit, AfterFinalizer, AfterObserve, Steps, Holding

(* A worker that ends its reconcile is well typed.                          *)
LEMMA EndTyped ==
  ASSUME NEW P, EndReconcile
  PROVE  WorkerOK(P)'
<1>1. crFresh' \in BOOLEAN /\ NoObservation \in Observations
  BY DEF EndReconcile, Observations, NoObservation
<1> QED BY <1>1 DEF WorkerOK, EndReconcile, Steps

(* So is one that goes on to a step with an object.                         *)
LEMMA ContinueTyped ==
  ASSUME NEW P, WorkerOK(P), NEW step \in Steps, NEW object \in Things(P),
         NEW o \in Observations, Continue(step, object, o)
  PROVE  WorkerOK(P)'
<1>1. CASE step = "idle"
  BY <1>1, EndTyped DEF Continue
<1>2. CASE step # "idle"
  BY <1>2 DEF Continue, WorkerOK
<1> QED BY <1>1, <1>2

(* A full write, accepted or refused, leaves typed objects behind.          *)
LEMMA ClientUpdateTyped ==
  ASSUME NEW P, KubeOK(P), WorkerOK(P), NEW object \in Things(P),
         NEW stored \in Things(P) \cup {NoObject}, NEW next \in Steps,
         ClientUpdate(object, stored, next)
  PROVE  KubeOK(P)' /\ WorkerOK(P)' /\ UNCHANGED chaos
<1>1. CASE crFresh /\ mr # NoObject
  <2>1. obs \in Observations
    BY DEF WorkerOK
  <2>2. WorkerOK(P)'
    BY <1>1, <2>1, ContinueTyped DEF ClientUpdate
  <2> QED BY <1>1, <2>2 DEF ClientUpdate, KubeOK
<1>2. CASE ~(crFresh /\ mr # NoObject)
  BY <1>2, EndTyped DEF ClientUpdate, KubeOK
<1> QED BY <1>1, <1>2

(* The steps between the controller's calls keep the types.                 *)
LEMMA BetweenTyped ==
  ASSUME NEW P, KubeOK(P), WorkerOK(P), Protocol, NEW named, NEW stored,
         pc # "idle" => stored \in P, Between(named, stored)
  PROVE  KubeOK(P)' /\ WorkerOK(P)' /\ UNCHANGED <<chaos, owned>>
<1>1. CASE StartReconcile(named)
  BY <1>1 DEF StartReconcile, KubeOK, WorkerOK, kubeVars, Steps
<1>2. CASE RemoveFinalizer
  <2>1. [cr EXCEPT !.finalizer = FALSE] \in Things(P)
    BY <1>2 DEF RemoveFinalizer, WorkerOK, Things, Objects
  <2> QED BY <1>2, <2>1, ClientUpdateTyped, NextSteps DEF RemoveFinalizer, ClientUpdate
<1>3. CASE RecordCreation
  <2>1. mr \in Things(P) /\ cr \in Things(P)
    BY <1>3 DEF RecordCreation, KubeOK, WorkerOK
  <2>2. mr' \in Things(P) /\ UNCHANGED <<chaos, owned>>
    BY <1>3, <2>1 DEF RecordCreation, Things, Objects
  <2>3. KubeOK(P)'
    BY <1>3, <2>2 DEF RecordCreation, KubeOK
  <2> QED BY <1>3, <2>2, <2>3, EndTyped DEF RecordCreation
<1>4. ASSUME NEW object, NEW next, Saves(P, object, stored, next)
      PROVE  KubeOK(P)' /\ WorkerOK(P)' /\ UNCHANGED <<chaos, owned>>
  BY <1>4, ClientUpdateTyped, NextSteps DEF Saves, ClientUpdate
<1> QED BY <1>1, <1>2, <1>3, <1>4, BetweenForms

(* A counted disturbance stays within its bound.                            *)
LEMMA DisturbTyped ==
  ASSUME ChaosOK, Disturb
  PROVE  ChaosOK'
BY MaxChaosAssumption DEF ChaosOK, Disturb

(* So does the charge of an answer, which may be none.                      *)
LEMMA ChargeTyped ==
  ASSUME ChaosOK, NEW r, Charge(r)
  PROVE  ChaosOK'
BY DisturbTyped DEF Charge, ChaosOK

(* What the API server holds stays typed when nobody writes to it.          *)
LEMMA KubeUnchanged ==
  ASSUME NEW P, KubeOK(P), UNCHANGED kubeVars
  PROVE  KubeOK(P)'
BY DEF KubeOK, kubeVars

(* What GrowthBook holds stays typed when nobody asks it for anything.      *)
LEMMA RemoteUnchanged ==
  ASSUME NEW O, NEW R, RemoteOK(O, R), UNCHANGED growthbook
  PROVE  RemoteOK(O, R)'
BY DEF RemoteOK, growthbook

(* A worker that stays where it is stays typed.                             *)
LEMMA WorkerUnchanged ==
  ASSUME NEW P, WorkerOK(P), UNCHANGED workerVars
  PROVE  WorkerOK(P)'
BY DEF WorkerOK, workerVars

(* An observation is taken over without breaking the types.                 *)
LEMMA ObservedTyped ==
  ASSUME NEW P, WorkerOK(P), pc # "idle", NEW o \in Observations, NEW p \in P, Observed(o, p)
  PROVE  WorkerOK(P)' /\ UNCHANGED kubeVars
<1>1. [cr EXCEPT !.forProvider = p] \in Things(P)
  BY DEF WorkerOK, Things, Objects
<1>2. AfterObserve(o) \in Steps
  BY NextSteps
<1> QED BY <1>1, <1>2, ContinueTyped DEF Observed

(* What is served leaves a typed object, or none.                           *)
LEMMA ServeTyped ==
  ASSUME NEW O, NEW after \in O \cup {Absent}, NEW q, made \in BOOLEAN, Serve(q, after)
  PROVE  remote' \in O \cup {Absent} /\ made' \in BOOLEAN
BY DEF Serve, Creates

(* So does every call, however it ends; a request that is given up may still  *)
(* arrive.                                                                  *)
LEMMA CallTyped ==
  ASSUME NEW O, NEW R, RemoteOK(O, R), ChaosOK, NEW after \in O \cup {Absent},
         NEW q \in [verb : {"POST", "PUT", "DELETE"}, body : Opt(R)], NEW r,
         Call(q, after, r)
  PROVE  RemoteOK(O, R)' /\ ChaosOK'
<1>1. ChaosOK'
  BY ChargeTyped DEF Call
<1>2. CASE Serve(q, after) /\ UNCHANGED inFlight
  <2>1. remote' \in O \cup {Absent} /\ made' \in BOOLEAN
    BY <1>2, ServeTyped DEF RemoteOK
  <2> QED BY <1>1, <1>2, <2>1 DEF Call, RemoteOK
<1>3. CASE NotServed(q, r)
  BY <1>1, <1>3 DEF Call, NotServed, RemoteOK
<1> QED BY <1>2, <1>3 DEF Call

(* A late request too.                                                      *)
LEMMA ServeLateTyped ==
  ASSUME NEW O, NEW R, RemoteOK(O, R), NEW after \in O \cup {Absent}, NEW q \in inFlight,
         ServeLate(q, after)
  PROVE  RemoteOK(O, R)' /\ UNCHANGED runtimeVars
<1>0. made \in BOOLEAN /\ Serve(q, after)
  BY DEF RemoteOK, ServeLate
<1>1. remote' \in O \cup {Absent} /\ made' \in BOOLEAN
  BY <1>0, ServeTyped
<1>2. hidden' \in BOOLEAN
  BY DEF ServeLate, RemoteOK, Creates
<1> QED BY <1>1, <1>2 DEF ServeLate, RemoteOK

(* What users write is typed when what they declare is.                      *)
LEMMA UsersTyped ==
  ASSUME NEW P, KubeOK(P), WorkerOK(P), ChaosOK, Users,
         \A s \in Specs : s.forProvider \in P /\ s.initProvider \in P,
         \A e \in Edits, p \in P : [p EXCEPT ![e.field] = e.to] \in P
  PROVE  KubeOK(P)' /\ WorkerOK(P)' /\ ChaosOK'
<1>1. ASSUME NEW object \in Things(P) \cup {NoObject}, ForeignWrite(object)
      PROVE  KubeOK(P)' /\ WorkerOK(P)' /\ ChaosOK'
  BY <1>1, DisturbTyped DEF ForeignWrite, KubeOK, WorkerOK
<1>2. CASE UserDelete
  <2>1. mr \in Things(P)
    BY <1>2 DEF UserDelete, KubeOK
  <2>2. [mr EXCEPT !.deleting = TRUE] \in Things(P)
    BY <2>1 DEF Things, Objects
  <2> QED BY <1>1, <1>2, <2>2 DEF UserDelete
<1>3. ASSUME NEW e \in Edits, UserEdit(e.field, e.to)
      PROVE  KubeOK(P)' /\ WorkerOK(P)' /\ ChaosOK'
  <2>1. mr \in Things(P)
    BY <1>3 DEF UserEdit, KubeOK
  <2>2. mr.forProvider \in P
    BY <2>1 DEF Things, Objects
  <2>3. [mr.forProvider EXCEPT ![e.field] = e.to] \in P
    BY <2>2
  <2>4. [mr EXCEPT !.forProvider = [mr.forProvider EXCEPT ![e.field] = e.to]] \in Things(P)
    BY <2>1, <2>3 DEF Things, Objects
  <2> QED BY <1>1, <1>3, <2>4 DEF UserEdit
<1>4. ASSUME NEW s \in Specs, UserCreate(NewObject(s.forProvider, s.initProvider, Nil))
      PROVE  KubeOK(P)' /\ WorkerOK(P)' /\ ChaosOK'
  <2>1. NewObject(s.forProvider, s.initProvider, Nil) \in Things(P)
    BY DEF NewObject, Things, Objects
  <2> QED BY <1>1, <1>4, <2>1 DEF UserCreate
<1> QED BY <1>2, <1>3, <1>4 DEF Users

(* Crashes, the informer and the clock keep the types.                      *)
LEMMA AroundTyped ==
  ASSUME NEW P, KubeOK(P), WorkerOK(P), ChaosOK, Crash \/ CacheSync \/ GraceEnds
  PROVE  KubeOK(P)' /\ WorkerOK(P)' /\ ChaosOK' /\ UNCHANGED owned
<1>1. CASE Crash
  BY <1>1, DisturbTyped, EndTyped, KubeUnchanged DEF Crash, kubeVars
<1>2. CASE CacheSync \/ GraceEnds
  BY <1>2, WorkerUnchanged DEF CacheSync, GraceEnds, KubeOK, ChaosOK, workerVars
<1> QED BY <1>1, <1>2

(* Others change, delete and make objects of the name that are objects.      *)
LEMMA OutOfBandTyped ==
  ASSUME NEW P, NEW O, NEW R, KubeOK(P), WorkerOK(P), ChaosOK, RemoteOK(O, R),
         NEW blank \in O, OutOfBandChange(blank),
         \A e \in OutOfBand, o \in O : [o EXCEPT ![e.field] = e.to] \in O
  PROVE  KubeOK(P)' /\ WorkerOK(P)' /\ ChaosOK' /\ RemoteOK(O, R)' /\ UNCHANGED kubeVars
<1>1. KubeOK(P)' /\ WorkerOK(P)' /\ ChaosOK' /\ UNCHANGED kubeVars
  BY DisturbTyped, KubeUnchanged, WorkerUnchanged DEF OutOfBandChange
<1>2. remote' \in O \cup {Absent} /\ made' \in BOOLEAN
  BY DEF OutOfBandChange, RemoteOK, Exists
<1> QED BY <1>1, <1>2 DEF OutOfBandChange, RemoteOK
-----------------------------------------------------------------------------
(* Why the resource keeps its finalizer while it answers for an object.      *)

(* A copy that the controller may act on for the sake of the resource.       *)
Live(o) == o # NoObject /\ o.finalizer /\ ~o.deleting

(* Such a copy is of a resource that has its finalizer still: no stale copy   *)
(* has the worker act for nobody.                                           *)
Follows(o) == Live(o) => mr # NoObject /\ mr.finalizer

CopiesFollow == Follows(cache) /\ Follows(cr)

(* A copy with the latest version agrees with the API server, and the         *)
(* informer knows at least of the deletions that the worker knows of.        *)
CopiesAgree ==
  /\ cacheFresh => cache = mr
  /\ pc # "idle" /\ crFresh =>
       /\ mr # NoObject /\ cr.finalizer = mr.finalizer /\ cr.deleting = mr.deleting
       /\ cr.deleting => cache # NoObject /\ cache.deleting

HeldIsHeld == Standing = "held" => mr # NoObject /\ mr.finalizer

Safe == CopiesFollow /\ CopiesAgree /\ Protocol /\ HeldIsHeld

(* Nothing is safer than no copy at all.                                    *)
LEMMA SafeInit ==
  ASSUME NEW present, NamedInit(present)
  PROVE  Safe
<1>1. pc = "idle" /\ cr = NoObject /\ cache = NoObject /\ ~cacheFresh /\ made = FALSE
  BY DEF NamedInit, RuntimeInit
<1> QED BY <1>1 DEF Safe, CopiesFollow, Follows, Live, CopiesAgree, Protocol, Holding, HeldIsHeld,
           Standing, AnswersFor

(* A reconcile that ends leaves only the object's standing to look at.       *)
LEMMA EndSafe ==
  ASSUME Safe, EndReconcile, UNCHANGED kubeVars,
         Standing' = "held" => Standing = "held" \/ (mr # NoObject /\ mr.finalizer)
  PROVE  Safe'
<1>1. /\ UNCHANGED <<mr, cache, cacheFresh>> /\ pc' = "idle" /\ cr' = NoObject
  BY DEF EndReconcile, kubeVars
<1>2. CopiesFollow' /\ CopiesAgree' /\ Protocol'
  BY <1>1 DEF Safe, CopiesFollow, Follows, Live, CopiesAgree, Protocol, Holding
<1>3. HeldIsHeld'
  BY <1>1 DEF Safe, HeldIsHeld
<1> QED BY <1>2, <1>3 DEF Safe

(* A reconcile that goes on: the steps that need something have it.          *)
LEMMA GoesOnSafe ==
  ASSUME Safe, pc # "idle", UNCHANGED <<kubeVars, crFresh>>, cr' # NoObject,
         cr'.finalizer = cr.finalizer, cr'.deleting = cr.deleting,
         Standing' = "held" => Standing = "held" \/ (mr # NoObject /\ mr.finalizer),
         pc' \in Holding \cup {"addFinalizer"} => ~cr.deleting,
         pc' \in Holding => cr.finalizer,
         pc' = "removeFinalizer"
           => cr.deleting /\ ("Delete" \in Policies => Standing' # "held"),
         cr # NoObject
  PROVE  Safe'
<1>1. UNCHANGED <<mr, cache, cacheFresh>>
  BY DEF kubeVars
<1>2. CopiesFollow'
  BY <1>1 DEF Safe, CopiesFollow, Follows, Live
<1>3. CopiesAgree'
  BY <1>1 DEF Safe, CopiesAgree
<1>4. Protocol'
  BY DEF Protocol
<1>5. HeldIsHeld'
  BY <1>1 DEF Safe, HeldIsHeld
<1> QED BY <1>2, <1>3, <1>4, <1>5 DEF Safe

(* GrowthBook can only take an object away from what the resource answers     *)
(* for, unless it serves the POST that Create waits for.                     *)
LEMMA ServeStands ==
  ASSUME NEW q, NEW after, Serve(q, after), UNCHANGED <<mr, hidden>>,
         after # Absent => Exists \/ Creates(q)
  PROVE  Standing' = "held" => Standing = "held" \/ Creates(q)
BY DEF Serve, Creates, Standing, AnswersFor, Exists, Held

(* So it is with a call, and nobody but Create sends a POST.                 *)
LEMMA CallStands ==
  ASSUME Safe, NEW q, NEW after, NEW r, Call(q, after, r), UNCHANGED kubeVars,
         after # Absent => Exists \/ Creates(q), q.verb = "POST" => pc = "create",
         cr # NoObject
  PROVE  Standing' = "held" => Standing = "held" \/ (mr # NoObject /\ mr.finalizer)
<1>1. UNCHANGED <<mr, hidden>>
  BY DEF kubeVars, Call
<1>2. CASE Serve(q, after)
  <2>1. Creates(q) => mr # NoObject /\ mr.finalizer
    BY DEF Creates, Safe, Protocol, CopiesFollow, Follows, Live, Holding
  <2> QED BY <1>1, <1>2, <2>1, ServeStands
<1>3. CASE NotServed(q, r)
  BY <1>1, <1>3 DEF NotServed, Standing, AnswersFor, Exists, Held
<1> QED BY <1>2, <1>3 DEF Call

(* What an answer to a GET says may restore what was hidden only while        *)
(* somebody holds the object.                                               *)
LEMMA SeenStands ==
  ASSUME NEW r, Seen(r), UNCHANGED <<mr, remote, made>>
  PROVE  /\ Standing' = "held" => Standing = "held" \/ (mr # NoObject /\ mr.finalizer)
         /\ r # Answered /\ r \in Missing => Standing' # "held"
BY DEF Seen, Standing, AnswersFor, Exists, Held

(* The answer that shows the object is none that denies it.                  *)
LEMMA AnsweredFound == ~IsNotFound(Answered)
BY DEF IsNotFound, Answered, Response

(* An observation is taken over safely: when it says that there is nothing,   *)
(* there is nothing, or nothing to answer for.                               *)
LEMMA ObservedSafe ==
  ASSUME NEW P, WorkerOK(P), NoObject \notin Things(P), Safe, pc = "observe",
         NEW r, Seen(r), UNCHANGED <<remote, made>>, NEW o \in Observations, NEW p \in P,
         ~o.exists => r # Answered /\ r \in Missing, Observed(o, p)
  PROVE  Safe'
<1>1. cr \in Things(P) /\ cr # NoObject
  BY DEF WorkerOK
<1>2. UNCHANGED <<kubeVars, mr>>
  BY DEF Observed, kubeVars
<1>3. Standing' = "held" => Standing = "held" \/ (mr # NoObject /\ mr.finalizer)
  BY <1>2, SeenStands
<1>4. CASE AfterObserve(o) = "idle"
  BY <1>2, <1>3, <1>4, EndSafe DEF Observed, Continue
<1>5. CASE AfterObserve(o) # "idle"
  <2> DEFINE object == [cr EXCEPT !.forProvider = p]
  <2>1. /\ object \in Things(P) /\ object # NoObject
        /\ object.finalizer = cr.finalizer /\ object.deleting = cr.deleting
    BY <1>1 DEF Things, Objects
  <2>2. pc' = AfterObserve(o) /\ cr' = object /\ UNCHANGED crFresh
    BY <1>5 DEF Observed, Continue
  <2> HIDE DEF object
  <2>3. /\ pc' \in Holding \cup {"addFinalizer"} => ~cr.deleting
        /\ pc' \in Holding => cr.finalizer
        /\ pc' = "removeFinalizer" => cr.deleting /\ ~o.exists
    BY <1>5, <2>2 DEF AfterObserve, AfterFinalizer, AfterLateInit, Holding
  <2>4. pc' = "removeFinalizer" => Standing' # "held"
    BY <1>2, <2>3, SeenStands
  <2> QED BY <1>1, <1>2, <1>3, <2>1, <2>2, <2>3, <2>4, GoesOnSafe
<1> QED BY <1>4, <1>5

(* Connect gets through to Observe or gives up.                              *)
LEMMA ConnectSafe ==
  ASSUME NEW P, WorkerOK(P), NoObject \notin Things(P), Safe, pc = "connect",
         UNCHANGED <<kubeVars, growthbook>>,
         \/ pc' = "observe" /\ UNCHANGED <<cr, crFresh>>
         \/ EndReconcile
  PROVE  Safe'
<1>1. cr # NoObject /\ Standing' = Standing
  BY DEF WorkerOK, kubeVars, growthbook, Standing, AnswersFor, Exists, Held
<1>2. CASE EndReconcile
  BY <1>1, <1>2, EndSafe
<1>3. CASE pc' = "observe" /\ UNCHANGED <<cr, crFresh>>
  BY <1>1, <1>3, GoesOnSafe DEF Holding
<1> QED BY <1>2, <1>3

(* So is every call of GrowthBook, however it ends.                          *)
LEMMA CallSafe ==
  ASSUME NEW P, WorkerOK(P), NoObject \notin Things(P), Safe, pc # "idle",
         NEW q, NEW after, NEW r, Call(q, after, r), UNCHANGED kubeVars,
         after # Absent => Exists \/ Creates(q), q.verb = "POST" => pc = "create",
         \/ EndReconcile
         \/ /\ UNCHANGED <<cr, crFresh>>
            /\ pc' \in Holding => pc \in Holding
            /\ pc' \notin {"addFinalizer", "removeFinalizer"}
  PROVE  Safe'
<1>1. cr # NoObject
  BY DEF WorkerOK
<1>2. Standing' = "held" => Standing = "held" \/ (mr # NoObject /\ mr.finalizer)
  BY <1>1, CallStands
<1>3. CASE EndReconcile
  BY <1>2, <1>3, EndSafe
<1>4. CASE ~EndReconcile
  BY <1>1, <1>2, <1>4, GoesOnSafe DEF Safe, Protocol
<1> QED BY <1>3, <1>4
-----------------------------------------------------------------------------
(* Writes to the API server are safe.                                       *)

(* A write that leaves the object with its finalizer, if it had it.          *)
LEMMA SavesSafe ==
  ASSUME NEW P, NoObject \notin Things(P), KubeOK(P), Safe, UNCHANGED growthbook,
         NEW object, NEW stored, NEW next, Saves(P, object, stored, next)
  PROVE  Safe'
<1>1. CASE ~(crFresh /\ mr # NoObject)
  <2>1. EndReconcile /\ UNCHANGED kubeVars
    BY <1>1 DEF Saves, ClientUpdate, kubeVars
  <2>2. Standing' = Standing
    BY <2>1 DEF kubeVars, growthbook, Standing, AnswersFor, Exists, Held
  <2> QED BY <2>1, <2>2, EndSafe
<1>2. CASE crFresh /\ mr # NoObject
  <2> DEFINE written == WithSpec(object, stored)
  <2>1. /\ written # NoObject /\ object # NoObject
        /\ written.finalizer = object.finalizer /\ written.deleting = object.deleting
    BY DEF Saves, WithSpec, Things, Objects
  <2>2. mr' = written /\ cacheFresh' = FALSE /\ UNCHANGED cache /\ Continue(next, object, obs)
    BY <1>2 DEF Saves, ClientUpdate
  <2> HIDE DEF written
  <2>3. \/ pc' = "idle" /\ cr' = NoObject
        \/ pc' = next /\ next # "idle" /\ cr' = object /\ UNCHANGED crFresh
    BY <2>2 DEF Continue, EndReconcile
  <2>4. /\ cr.finalizer = mr.finalizer /\ cr.deleting = mr.deleting
        /\ cr.deleting => cache # NoObject /\ cache.deleting
        /\ object.deleting = cr.deleting /\ (cr.finalizer => object.finalizer)
    BY <1>2 DEF Saves, Safe, CopiesAgree
  <2>5. CopiesFollow'
    BY <2>1, <2>2, <2>3, <2>4 DEF Safe, CopiesFollow, Follows, Live
  <2>6. CopiesAgree'
    BY <2>1, <2>2, <2>3, <2>4 DEF CopiesAgree
  <2>7. Protocol'
    BY <2>3, <2>4 DEF Saves, Protocol, Holding
  <2>8. HeldIsHeld'
    <3>1. Standing' = "held" => Standing = "held" \/ mr'.finalizer
      BY <1>2, <2>1, <2>2 DEF growthbook, Standing, AnswersFor, Exists, Held
    <3> QED BY <2>1, <2>2, <2>4, <3>1 DEF Safe, HeldIsHeld
  <2> QED BY <2>5, <2>6, <2>7, <2>8 DEF Safe
<1> QED BY <1>1, <1>2

(* The finalizer goes with the last of what it was for.                      *)
LEMMA RemoveFinalizerSafe ==
  ASSUME Safe, UNCHANGED growthbook, RemoveFinalizer
  PROVE  Safe'
<1>1. EndReconcile /\ UNCHANGED cache
  BY DEF RemoveFinalizer, ClientUpdate, Continue
<1>2. CASE ~(crFresh /\ mr # NoObject)
  <2>1. UNCHANGED kubeVars
    BY <1>2 DEF RemoveFinalizer, ClientUpdate, kubeVars
  <2>2. Standing' = Standing
    BY <2>1 DEF kubeVars, growthbook, Standing, AnswersFor, Exists, Held
  <2> QED BY <1>1, <2>1, <2>2, EndSafe
<1>3. CASE crFresh /\ mr # NoObject
  <2>1. mr' = NoObject /\ cacheFresh' = FALSE
    BY <1>3 DEF RemoveFinalizer, ClientUpdate
  <2>2. pc = "removeFinalizer" /\ pc' = "idle" /\ cr' = NoObject
    BY <1>1 DEF RemoveFinalizer, EndReconcile
  <2>3. cr.deleting /\ cache # NoObject /\ cache.deleting
    BY <1>3, <2>2 DEF Safe, Protocol, CopiesAgree
  <2>4. Standing' # "held"
    BY <2>1, <2>2 DEF Safe, Protocol, growthbook, Standing, AnswersFor, Exists, Held
  <2> QED BY <1>1, <2>1, <2>2, <2>3, <2>4
          DEF Safe, CopiesFollow, Follows, Live, CopiesAgree, Protocol, Holding, HeldIsHeld
<1> QED BY <1>2, <1>3

(* The steps between the controller's calls are safe.                        *)
LEMMA BetweenSafe ==
  ASSUME NEW P, NoObject \notin Things(P), KubeOK(P), WorkerOK(P), Safe,
         NEW named, NEW stored, pc # "idle" => stored \in P,
         Between(named, stored), UNCHANGED growthbook
  PROVE  Safe'
<1>1. CASE StartReconcile(named)
  <2>1. /\ UNCHANGED <<mr, cache, cacheFresh>> /\ cache # NoObject
        /\ cr' = cache /\ crFresh' = cacheFresh
        /\ pc' \in {"removeFinalizer", "connect", "initialize"}
        /\ pc' = "removeFinalizer" => cache.deleting /\ "Delete" \notin Policies
    BY <1>1 DEF StartReconcile, kubeVars
  <2>2. Standing' = Standing
    BY <2>1 DEF growthbook, Standing, AnswersFor, Exists, Held
  <2> QED BY <2>1, <2>2
          DEF Safe, CopiesFollow, Follows, Live, CopiesAgree, Protocol, Holding, HeldIsHeld
<1>2. CASE RemoveFinalizer
  BY <1>2, RemoveFinalizerSafe
<1>3. CASE RecordCreation
  <2>1. /\ mr \in Things(P) /\ UNCHANGED cache /\ cacheFresh' = FALSE
        /\ pc' = "idle" /\ cr' = NoObject
    BY <1>3 DEF RecordCreation, KubeOK, EndReconcile
  <2>2. mr'.finalizer = mr.finalizer
    BY <1>3, <2>1 DEF RecordCreation, Things, Objects
  <2>3. mr' # NoObject /\ mr # NoObject /\ cr # NoObject
    <3>1. cr \in Things(P)
      BY <1>3 DEF RecordCreation, WorkerOK
    <3>2. mr' \in Things(P)
      BY <1>3, <2>1, <3>1 DEF RecordCreation, Things, Objects
    <3> QED BY <2>1, <3>1, <3>2
  <2>4. mr.finalizer
    BY <1>3, <2>3 DEF RecordCreation, Safe, CopiesFollow, Follows, Live, Protocol, Holding
  <2> QED BY <2>1, <2>2, <2>3, <2>4
          DEF Safe, CopiesFollow, Follows, Live, CopiesAgree, Protocol, Holding, HeldIsHeld
<1>4. ASSUME NEW object, NEW next, Saves(P, object, stored, next)
      PROVE  Safe'
  BY <1>4, SavesSafe
<1> QED BY <1>1, <1>2, <1>3, <1>4, BetweenForms DEF Safe
-----------------------------------------------------------------------------
(* What happens around the worker is safe.                                  *)

(* Somebody else writes the object, and leaves it its finalizer.             *)
LEMMA ForeignWriteSafe ==
  ASSUME Safe, UNCHANGED growthbook, NEW object, ForeignWrite(object),
         mr # NoObject /\ mr.finalizer => object # NoObject /\ object.finalizer
  PROVE  Safe'
<1>1. /\ mr' = object /\ cacheFresh' = FALSE /\ crFresh' = FALSE
      /\ UNCHANGED <<cache, pc, cr>>
  BY DEF ForeignWrite
<1>2. CopiesFollow' /\ CopiesAgree'
  BY <1>1 DEF Safe, CopiesFollow, Follows, Live, CopiesAgree
<1>3. Standing' = "held" => Standing = "held" \/ (mr' # NoObject /\ mr'.finalizer)
  BY DEF growthbook, Standing, AnswersFor, Exists, Held
<1>4. HeldIsHeld'
  BY <1>1, <1>3 DEF Safe, HeldIsHeld
<1>5. Protocol'
  <2>1. pc = "removeFinalizer" /\ "Delete" \in Policies => Standing' # "held"
    BY DEF Safe, Protocol, growthbook, Standing, AnswersFor, Exists
  <2> QED BY <1>1, <2>1 DEF Safe, Protocol
<1> QED BY <1>2, <1>4, <1>5 DEF Safe

(* Users take no finalizer off.                                             *)
LEMMA UsersSafe ==
  ASSUME NEW P, NoObject \notin Things(P), KubeOK(P), Safe, Users, UNCHANGED growthbook,
         \A e \in Edits, p \in P : [p EXCEPT ![e.field] = e.to] \in P
  PROVE  Safe'
<1>1. CASE UserDelete
  <2> DEFINE marked == [mr EXCEPT !.deleting = TRUE]
  <2>1. mr \in Things(P) /\ mr # NoObject
    BY <1>1 DEF UserDelete, KubeOK
  <2>2. marked # NoObject /\ marked.finalizer = mr.finalizer
    BY <2>1 DEF Things, Objects
  <2>3. ForeignWrite(IF mr.finalizer THEN marked ELSE NoObject)
    BY <1>1 DEF UserDelete
  <2> HIDE DEF marked
  <2> QED BY <2>2, <2>3, ForeignWriteSafe
<1>2. ASSUME NEW e \in Edits, UserEdit(e.field, e.to)
      PROVE  Safe'
  <2> DEFINE fields == [mr.forProvider EXCEPT ![e.field] = e.to]
             edited == [mr EXCEPT !.forProvider = fields]
  <2>1. mr \in Things(P) /\ mr # NoObject /\ mr.forProvider \in P
    BY <1>2 DEF UserEdit, KubeOK, Things, Objects
  <2>2. fields \in P
    BY <2>1
  <2> HIDE DEF fields
  <2>3. edited # NoObject /\ edited.finalizer = mr.finalizer
    BY <2>1, <2>2 DEF Things, Objects
  <2>4. ForeignWrite(edited)
    BY <1>2 DEF UserEdit, fields
  <2> HIDE DEF edited
  <2> QED BY <2>3, <2>4, ForeignWriteSafe
<1>3. ASSUME NEW s \in Specs, UserCreate(NewObject(s.forProvider, s.initProvider, Nil))
      PROVE  Safe'
  BY <1>3, ForeignWriteSafe DEF UserCreate
<1> QED BY <1>1, <1>2, <1>3 DEF Users

(* Crashes lose only the copy in memory; the informer learns what there is.  *)
LEMMA AroundSafe ==
  ASSUME Safe, Crash \/ CacheSync \/ GraceEnds, UNCHANGED growthbook
  PROVE  Safe'
<1>1. UNCHANGED mr
  BY DEF Crash, CacheSync, GraceEnds, kubeVars
<1>2. Standing' = Standing
  BY <1>1 DEF growthbook, Standing, AnswersFor, Exists, Held
<1>3. CASE Crash
  BY <1>2, <1>3, EndSafe DEF Crash
<1>4. CASE CacheSync \/ GraceEnds
  <2>1. /\ UNCHANGED <<pc, cr, crFresh>>
        /\ UNCHANGED <<cache, cacheFresh>> \/ cache' = mr
    BY <1>4 DEF CacheSync, GraceEnds, workerVars
  <2> QED BY <1>1, <1>2, <2>1
          DEF Safe, CopiesFollow, Follows, Live, CopiesAgree, Protocol, HeldIsHeld
<1> QED BY <1>3, <1>4

(* What others do in GrowthBook, nobody answers for.                        *)
LEMMA OutOfBandSafe ==
  ASSUME Safe, NEW blank, OutOfBandChange(blank)
  PROVE  Safe'
<1>1. UNCHANGED <<mr, cache, cacheFresh, pc, cr, crFresh, hidden>>
  BY DEF OutOfBandChange, kubeVars, workerVars
<1>2. Standing' = "held" => Standing = "held"
  BY <1>1 DEF OutOfBandChange, Standing, AnswersFor, Exists, Held
<1> QED BY <1>1, <1>2 DEF Safe, CopiesFollow, Follows, Live, CopiesAgree, Protocol, HeldIsHeld

(* Nor for what a request makes that was given up.                           *)
LEMMA ServeLateSafe ==
  ASSUME Safe, NEW q, NEW after, ServeLate(q, after), after # Absent => Exists \/ Creates(q)
  PROVE  Safe'
<1>1. UNCHANGED <<mr, cache, cacheFresh, pc, cr, crFresh>>
  BY DEF ServeLate, runtimeVars, kubeVars, workerVars
<1>2. Standing' = "held" => Standing = "held"
  BY <1>1 DEF ServeLate, Serve, Creates, Standing, AnswersFor, Exists, Held
<1> QED BY <1>1, <1>2 DEF Safe, CopiesFollow, Follows, Live, CopiesAgree, Protocol, HeldIsHeld
-----------------------------------------------------------------------------
(* The abstract resource.                                                   *)

Allowed == Abstract!Next \/ UNCHANGED Abstract!vars

(* As long as the resource stays as it is, whatever becomes of the object is  *)
(* allowed: there is no second one to hold, and nothing is held for nobody.  *)
LEMMA SameResourceAllowed ==
  ASSUME HeldIsHeld, HeldIsHeld', UNCHANGED Resource
  PROVE  Allowed
<1>1. /\ Standing \in {"absent", "held", "loose"}
      /\ Standing' \in {"absent", "held", "loose"}
  BY DEF Standing
<1>2. CASE Standing' = Standing
  BY <1>2 DEF Allowed, Abstract!vars
<1>3. CASE Standing' # Standing /\ Standing' = "absent"
  <2>1. Abstract!Vanish(Name)
    BY <1>3 DEF Abstract!Vanish
  <2> QED BY <2>1 DEF Allowed, Abstract!Next
<1>4. CASE Standing' # Standing /\ Standing' = "loose"
  <2>1. Abstract!Lose(Name)
    BY <1>1, <1>4 DEF Abstract!Lose, HeldIsHeld, Resource
  <2> QED BY <2>1 DEF Allowed, Abstract!Next
<1>5. CASE Standing' # Standing /\ Standing' = "held"
  <2>1. Resource # "none"
    BY <1>5 DEF HeldIsHeld, Resource
  <2>2. Abstract!Held = {}
    BY <1>5 DEF Abstract!Held
  <2>3. Abstract!Hold(Name)
    BY <1>5, <2>1, <2>2 DEF Abstract!Hold
  <2> QED BY <2>3 DEF Allowed, Abstract!Next
<1> QED BY <1>1, <1>2, <1>3, <1>4, <1>5

(* The resource goes when nothing is held, or leaves what it holds behind.   *)
LEMMA Forgets ==
  ASSUME mr # NoObject, mr' = NoObject, "Delete" \in Policies => Standing # "held",
         UNCHANGED growthbook
  PROVE  Allowed
<1>1. "Delete" \in Policies => Abstract!Held = {}
  BY DEF Abstract!Held
<1>2. Standing' = IF Standing = "held" THEN "loose" ELSE Standing
  BY DEF growthbook, Standing, AnswersFor, Exists, Held
<1>3. Abstract!Forget
  BY <1>1, <1>2 DEF Abstract!Forget, Abstract!Held, Resource
<1> QED BY <1>3 DEF Allowed, Abstract!Next

(* Between the calls the resource goes only by the removal of its finalizer. *)
LEMMA BetweenAllowed ==
  ASSUME NEW P, NoObject \notin Things(P), KubeOK(P), WorkerOK(P), Safe,
         NEW named, NEW stored, pc # "idle" => stored \in P,
         Between(named, stored), UNCHANGED growthbook
  PROVE  Allowed
<1>1. HeldIsHeld /\ HeldIsHeld'
  BY BetweenSafe DEF Safe
<1>2. CASE StartReconcile(named)
  BY <1>1, <1>2, SameResourceAllowed DEF StartReconcile, kubeVars, Resource
<1>3. CASE RemoveFinalizer
  <2>1. CASE ~(crFresh /\ mr # NoObject)
    BY <1>1, <1>3, <2>1, SameResourceAllowed DEF RemoveFinalizer, ClientUpdate, Resource
  <2>2. CASE crFresh /\ mr # NoObject
    <3>1. mr' = NoObject /\ ("Delete" \in Policies => Standing # "held")
      BY <1>3, <2>2 DEF RemoveFinalizer, ClientUpdate, Safe, Protocol
    <3> QED BY <2>2, <3>1, Forgets
  <2> QED BY <2>1, <2>2
<1>4. CASE RecordCreation
  <2>1. mr \in Things(P) /\ cr \in Things(P)
    BY <1>4 DEF RecordCreation, KubeOK, WorkerOK
  <2>2. mr' \in Things(P) /\ mr'.deleting = mr.deleting
    BY <1>4, <2>1 DEF RecordCreation, Things, Objects
  <2>3. UNCHANGED Resource
    BY <2>1, <2>2 DEF Resource
  <2> QED BY <1>1, <2>3, SameResourceAllowed
<1>5. ASSUME NEW object, NEW next, Saves(P, object, stored, next)
      PROVE  Allowed
  <2>1. CASE ~(crFresh /\ mr # NoObject)
    BY <1>1, <1>5, <2>1, SameResourceAllowed DEF Saves, ClientUpdate, Resource
  <2>2. CASE crFresh /\ mr # NoObject
    <3>1. mr' \in Things(P) /\ mr'.deleting = object.deleting
      BY <1>5, <2>2 DEF Saves, ClientUpdate, WithSpec, Things, Objects
    <3>2. object.deleting = cr.deleting /\ cr.deleting = mr.deleting
      BY <1>5, <2>2 DEF Saves, Safe, CopiesAgree
    <3>3. UNCHANGED Resource
      BY <2>2, <3>1, <3>2 DEF Resource
    <3> QED BY <1>1, <3>3, SameResourceAllowed
  <2> QED BY <2>1, <2>2
<1> QED BY <1>2, <1>3, <1>4, <1>5, BetweenForms DEF Safe

(* Users declare the resource, and delete it for good while it has no         *)
(* finalizer.                                                               *)
LEMMA UsersAllowed ==
  ASSUME NEW P, NoObject \notin Things(P), KubeOK(P), Safe, Users, UNCHANGED growthbook,
         \A e \in Edits, p \in P : [p EXCEPT ![e.field] = e.to] \in P,
         \A s \in Specs : s.forProvider \in P /\ s.initProvider \in P
  PROVE  Allowed
<1>1. HeldIsHeld /\ HeldIsHeld'
  BY UsersSafe DEF Safe
<1>2. CASE UserDelete
  <2>1. mr \in Things(P) /\ mr # NoObject /\ ~mr.deleting
    BY <1>2 DEF UserDelete, KubeOK
  <2>2. CASE ~mr.finalizer
    <3>1. mr' = NoObject
      BY <1>2, <2>2 DEF UserDelete, ForeignWrite
    <3> QED BY <1>1, <2>1, <2>2, <3>1, Forgets DEF HeldIsHeld
  <2>3. CASE mr.finalizer
    <3> DEFINE marked == [mr EXCEPT !.deleting = TRUE]
    <3>1. mr' = marked
      BY <1>2, <2>3 DEF UserDelete, ForeignWrite
    <3>2. marked # NoObject /\ marked.deleting
      BY <2>1 DEF Things, Objects
    <3>3. marked.finalizer = mr.finalizer /\ marked.externalName = mr.externalName
      BY <2>1 DEF Things, Objects
    <3> HIDE DEF marked
    <3>4. Resource = "declared" /\ Resource' = "deleting"
      BY <2>1, <3>1, <3>2 DEF Resource
    <3>5. Standing' = Standing
      BY <2>1, <3>1, <3>2, <3>3 DEF growthbook, Standing, AnswersFor, Exists, Held
    <3>6. Abstract!RequestDeletion
      BY <3>4, <3>5 DEF Abstract!RequestDeletion
    <3> QED BY <3>6 DEF Allowed, Abstract!Next
  <2> QED BY <2>2, <2>3
<1>3. ASSUME NEW e \in Edits, UserEdit(e.field, e.to)
      PROVE  Allowed
  <2> DEFINE fields == [mr.forProvider EXCEPT ![e.field] = e.to]
  <2>1. mr \in Things(P) /\ mr # NoObject /\ mr.forProvider \in P
    BY <1>3 DEF UserEdit, KubeOK, Things, Objects
  <2>2. fields \in P
    BY <2>1
  <2>3. mr' = [mr EXCEPT !.forProvider = fields]
    BY <1>3 DEF UserEdit, ForeignWrite
  <2> HIDE DEF fields
  <2>4. mr' # NoObject /\ mr'.deleting = mr.deleting
    BY <2>1, <2>2, <2>3 DEF Things, Objects
  <2>5. UNCHANGED Resource
    BY <2>1, <2>4 DEF Resource
  <2> QED BY <1>1, <2>5, SameResourceAllowed
<1>4. ASSUME NEW s \in Specs, UserCreate(NewObject(s.forProvider, s.initProvider, Nil))
      PROVE  Allowed
  <2> DEFINE object == NewObject(s.forProvider, s.initProvider, Nil)
  <2>1. object \in Things(P) /\ ~object.deleting /\ ~object.finalizer
    BY DEF NewObject, Things, Objects
  <2>2. mr = NoObject /\ mr' = object
    BY <1>4 DEF UserCreate, ForeignWrite
  <2> HIDE DEF object
  <2>3. Resource = "none" /\ Resource' = "declared"
    BY <2>1, <2>2 DEF Resource
  <2>4. Standing' = Standing
    BY <2>1, <2>2 DEF growthbook, Standing, AnswersFor, Exists, Held
  <2>5. Abstract!Declare
    BY <2>3, <2>4 DEF Abstract!Declare
  <2> QED BY <2>5 DEF Allowed, Abstract!Next
<1> QED BY <1>2, <1>3, <1>4 DEF Users

(* At first the resource is declared, and holds nothing.                     *)
LEMMA AbstractInit ==
  ASSUME NEW P, NoObject \notin Things(P), NEW present, NamedInit(present),
         \A s \in Specs : s.forProvider \in P /\ s.initProvider \in P
  PROVE  Abstract!Init
<1>1. PICK s \in Specs : mr = NewObject(s.forProvider, s.initProvider, Nil)
  BY DEF NamedInit, RuntimeInit
<1>2. mr \in Things(P) /\ ~mr.deleting
  BY <1>1 DEF NewObject, Things, Objects
<1>3. Resource = "declared"
  BY <1>2 DEF Resource
<1>4. Standing \in {"absent", "loose"}
  BY DEF NamedInit, Standing, AnswersFor
<1> QED BY <1>3, <1>4 DEF Abstract!Init
-----------------------------------------------------------------------------
(* What the copies of the object know of the fields nobody has set.          *)

(* Of the fields users never set, those that initProvider has, and those that *)
(* Observe never adopts, are not in forProvider.                             *)
Clean(never, o) ==
  \A f \in DOMAIN o.forProvider \ owned :
    o.initProvider[f] # Nil \/ f \in never => o.forProvider[f] = Nil

(* So it is in the API server, in the copy that may be written back, and in   *)
(* every copy, however stale, from which GrowthBook may be written: a         *)
(* resource of the same name that is declared anew finds none of them left.  *)
CopiesClean(never) ==
  /\ mr # NoObject => Clean(never, mr)
  /\ pc # "idle" /\ crFresh => Clean(never, cr)
  /\ \A o \in {cache, cr} : Live(o) => Clean(never, o)

(* What a copy has of the other fields users never set, the resource has too: *)
(* it was adopted and saved.                                                *)
Backed(o) ==
  /\ mr # NoObject
  /\ \A f \in DOMAIN o.forProvider \ owned : o.forProvider[f] # Nil => mr.forProvider[f] # Nil

CopiesBacked ==
  /\ Live(cache) => Backed(cache)
  /\ Live(cr) /\ pc \in {"initialize", "connect", "observe", "update"} => Backed(cr)
  /\ pc # "idle" /\ crFresh =>
       \A f \in DOMAIN mr.forProvider \ owned :
         mr.forProvider[f] # Nil => cr.forProvider[f] # Nil

(* Observe adopts only what nobody has set, and none of the fields in never.  *)
Adopted(never, p) ==
  /\ DOMAIN p = DOMAIN cr.forProvider
  /\ \A f \in DOMAIN p : p[f] # cr.forProvider[f] =>
       cr.forProvider[f] = Nil /\ cr.initProvider[f] = Nil /\ f \notin never

(* Serialised, the object loses at most some of the fields in never.         *)
Serialised(never, stored) ==
  /\ DOMAIN stored = DOMAIN cr.forProvider
  /\ \A f \in DOMAIN stored :
       stored[f] = cr.forProvider[f] \/ (f \in never /\ stored[f] = Nil)

(* What users declare, they have set.                                       *)
LEMMA CleanInit ==
  ASSUME NEW never, NEW present, NamedInit(present)
  PROVE  CopiesClean(never)
<1>1. PICK s \in Specs : RuntimeInit(NewObject(s.forProvider, s.initProvider, Nil))
  BY DEF NamedInit
<1>2. Clean(never, mr)
  BY <1>1 DEF RuntimeInit, NewObject, Clean, SetFields
<1> QED BY <1>1, <1>2 DEF CopiesClean, Live, RuntimeInit

(* Nothing is known of less when nobody writes, and the copy in memory is     *)
(* dropped or has the fields it had.                                        *)
LEMMA StaysClean ==
  ASSUME NEW never, CopiesClean(never), UNCHANGED <<mr, cache, owned>>,
         \/ pc' = "idle" /\ cr' = NoObject
         \/ pc # "idle" /\ UNCHANGED <<cr, crFresh>>
         \/ UNCHANGED <<pc, cr, crFresh>>
  PROVE  CopiesClean(never)'
BY DEF CopiesClean, Live, Clean

(* Serialised, the object has no field that it did not have.                 *)
LEMMA BetweenClean ==
  ASSUME NEW never, NEW P, NoObject \notin Things(P), KubeOK(P), WorkerOK(P), Safe, CopiesClean(never),
         NEW named, NEW stored, pc # "idle" => stored \in P, Between(named, stored),
         pc # "idle" => Serialised(never, stored)
  PROVE  CopiesClean(never)'
<1>0. UNCHANGED owned
  BY BetweenTyped DEF Safe
<1>1. CASE StartReconcile(named)
  <2>1. /\ UNCHANGED <<mr, cache>> /\ cache # NoObject
        /\ cr' = cache /\ crFresh' = cacheFresh
    BY <1>1 DEF StartReconcile, kubeVars
  <2>2. cacheFresh => cache = mr
    BY DEF Safe, CopiesAgree
  <2> QED BY <1>0, <2>1, <2>2 DEF CopiesClean, Live, Clean
<1>2. CASE RemoveFinalizer
  <2>1. /\ pc' = "idle" /\ cr' = NoObject /\ UNCHANGED cache
        /\ mr' = NoObject \/ UNCHANGED mr
    BY <1>2 DEF RemoveFinalizer, ClientUpdate, Continue, EndReconcile
  <2> QED BY <1>0, <2>1 DEF CopiesClean, Live, Clean
<1>3. CASE RecordCreation
  <2>1. mr \in Things(P) /\ mr # NoObject
    BY <1>3 DEF RecordCreation, KubeOK
  <2>2. /\ mr'.forProvider = mr.forProvider /\ mr'.initProvider = mr.initProvider
        /\ pc' = "idle" /\ cr' = NoObject /\ UNCHANGED cache
    BY <1>3, <2>1 DEF RecordCreation, EndReconcile, Things, Objects
  <2> QED BY <1>0, <2>1, <2>2 DEF CopiesClean, Live, Clean
<1>4. ASSUME NEW object, NEW next, Saves(P, object, stored, next)
      PROVE  CopiesClean(never)'
  <2>1. CASE ~(crFresh /\ mr # NoObject)
    <3>1. UNCHANGED <<mr, cache>> /\ pc' = "idle" /\ cr' = NoObject
      BY <1>4, <2>1 DEF Saves, ClientUpdate, EndReconcile
    <3> QED BY <1>0, <3>1, StaysClean
  <2>2. CASE crFresh /\ mr # NoObject
    <3> DEFINE written == WithSpec(object, stored)
    <3>1. written.forProvider = stored /\ written.initProvider = cr.initProvider
      BY <1>4 DEF Saves, WithSpec, Things, Objects
    <3>2. /\ mr' = written /\ UNCHANGED cache
          /\ \/ pc' = "idle" /\ cr' = NoObject
             \/ cr' = object
      BY <1>4, <2>2 DEF Saves, ClientUpdate, Continue, EndReconcile
    <3> HIDE DEF written
    <3>3. /\ Clean(never, cr) /\ pc # "idle"
          /\ object.forProvider = cr.forProvider /\ object.initProvider = cr.initProvider
      BY <1>4, <2>2 DEF CopiesClean, Live, Saves
    <3>4. Clean(never, object) /\ Clean(never, written)
      BY <1>4, <3>1, <3>3 DEF Clean, Serialised, Saves
    <3> QED BY <1>0, <3>2, <3>4 DEF CopiesClean, Live, Clean
  <2> QED BY <2>1, <2>2
<1> QED BY <1>1, <1>2, <1>3, <1>4, BetweenForms DEF Safe

(* Observe adopts nothing that initProvider has.                             *)
LEMMA ObservedClean ==
  ASSUME NEW never, NEW P, NoObject \notin Things(P), WorkerOK(P), pc = "observe", CopiesClean(never),
         UNCHANGED owned,
         NEW o, NEW p \in P, Observed(o, p), Adopted(never, p)
  PROVE  CopiesClean(never)'
<1> DEFINE object == [cr EXCEPT !.forProvider = p]
<1>1. /\ object.forProvider = p /\ object.initProvider = cr.initProvider
      /\ object.finalizer = cr.finalizer /\ object.deleting = cr.deleting
  BY DEF WorkerOK, Things, Objects
<1>2. /\ UNCHANGED <<mr, cache>>
      /\ \/ pc' = "idle" /\ cr' = NoObject
         \/ cr' = object /\ UNCHANGED crFresh
  BY DEF Observed, Continue, EndReconcile, kubeVars
<1> HIDE DEF object
<1>3. Clean(never, cr) => Clean(never, object)
  BY <1>1 DEF Clean, Adopted
<1>4. CASE pc' = "idle" /\ cr' = NoObject
  BY <1>2, <1>4, StaysClean
<1>5. CASE cr' = object /\ UNCHANGED crFresh
  <2>1. cr # NoObject
    BY DEF WorkerOK
  <2>2. \/ ~(crFresh \/ (cr.finalizer /\ ~cr.deleting))
        \/ Clean(never, cr)
    BY <2>1 DEF CopiesClean, Live
  <2> QED BY <1>1, <1>2, <1>3, <1>5, <2>2 DEF CopiesClean, Live, Clean
<1> QED BY <1>2, <1>4, <1>5

(* Users set what they edit, and declare a resource anew only when no copy of *)
(* the former one is used any more.                                         *)
LEMMA UsersClean ==
  ASSUME NEW never, NEW P, KubeOK(P), Safe, CopiesClean(never), Users,
         \A e \in Edits, p \in P : [p EXCEPT ![e.field] = e.to] \in P
  PROVE  CopiesClean(never)'
<1>1. CASE UserDelete
  <2>1. mr \in Things(P) /\ mr # NoObject
    BY <1>1 DEF UserDelete, KubeOK
  <2>2. /\ crFresh' = FALSE /\ UNCHANGED <<cache, cr, owned>>
        /\ \/ mr' = NoObject
           \/ mr'.forProvider = mr.forProvider /\ mr'.initProvider = mr.initProvider
    BY <1>1, <2>1 DEF UserDelete, ForeignWrite, Things, Objects
  <2> QED BY <2>1, <2>2 DEF CopiesClean, Live, Clean
<1>2. ASSUME NEW e \in Edits, UserEdit(e.field, e.to)
      PROVE  CopiesClean(never)'
  <2> DEFINE fields == [mr.forProvider EXCEPT ![e.field] = e.to]
  <2>1. mr \in Things(P) /\ mr # NoObject
    BY <1>2 DEF UserEdit, KubeOK
  <2>2. mr'.forProvider = fields /\ mr'.initProvider = mr.initProvider
    BY <1>2, <2>1 DEF UserEdit, ForeignWrite, Things, Objects
  <2>3. /\ crFresh' = FALSE /\ UNCHANGED <<cache, cr>>
        /\ owned' = owned \cup {e.field}
    BY <1>2 DEF UserEdit, ForeignWrite
  <2>4. /\ DOMAIN fields = DOMAIN mr.forProvider
        /\ \A f \in DOMAIN fields : f # e.field => fields[f] = mr.forProvider[f]
    OBVIOUS
  <2> HIDE DEF fields
  <2>5. Clean(never, mr)'
    BY <2>1, <2>2, <2>3, <2>4 DEF CopiesClean, Live, Clean
  <2>6. ASSUME NEW o, Clean(never, o)
        PROVE  \A f \in DOMAIN o.forProvider \ owned' :
                 o.initProvider[f] # Nil \/ f \in never => o.forProvider[f] = Nil
    BY <2>3, <2>6 DEF Clean
  <2>7. \A o \in {cache, cr} : Live(o)
           => \A f \in DOMAIN o.forProvider \ owned' :
                 o.initProvider[f] # Nil \/ f \in never => o.forProvider[f] = Nil
    BY <2>6 DEF CopiesClean, Live
  <2> QED BY <2>3, <2>5, <2>7 DEF CopiesClean, Live, Clean
<1>3. ASSUME NEW s \in Specs, UserCreate(NewObject(s.forProvider, s.initProvider, Nil))
      PROVE  CopiesClean(never)'
  <2>1. /\ mr = NoObject /\ mr' = NewObject(s.forProvider, s.initProvider, Nil)
        /\ crFresh' = FALSE /\ UNCHANGED <<cache, cr>>
        /\ owned' = SetFields(s.forProvider)
    BY <1>3 DEF UserCreate, ForeignWrite, NewObject
  <2>2. Clean(never, mr)'
    BY <2>1 DEF NewObject, Clean, SetFields
  <2>3. \A o \in {cache, cr} : ~Live(o)
    BY <2>1 DEF Safe, CopiesFollow, Follows, Live
  <2> QED BY <2>1, <2>2, <2>3 DEF CopiesClean, Live
<1> QED BY <1>1, <1>2, <1>3 DEF Users

(* Crashes, the informer and the clock change no fields.                     *)
LEMMA AroundClean ==
  ASSUME NEW never, CopiesClean(never), Crash \/ CacheSync \/ GraceEnds
  PROVE  CopiesClean(never)'
<1>1. CASE Crash
  BY <1>1, StaysClean DEF Crash, EndReconcile, kubeVars
<1>2. CASE CacheSync \/ GraceEnds
  <2>1. /\ UNCHANGED <<mr, pc, cr, crFresh, owned>>
        /\ cache' = mr \/ UNCHANGED cache
    BY <1>2 DEF CacheSync, GraceEnds, workerVars
  <2> QED BY <2>1 DEF CopiesClean, Live, Clean
<1> QED BY <1>1, <1>2
-----------------------------------------------------------------------------
(* What is sent was saved before, under a policy to save it.                 *)

(* Without copies there is nothing to back.                                  *)
LEMMA BackedInit ==
  ASSUME NEW present, NamedInit(present)
  PROVE  CopiesBacked
BY DEF NamedInit, RuntimeInit, CopiesBacked, Live

(* A step that leaves the copies and the resource alone, and does not go to   *)
(* an update, takes nothing back.                                           *)
LEMMA StaysBacked ==
  ASSUME CopiesBacked, UNCHANGED <<mr, cache, owned>>,
         \/ pc' = "idle" /\ cr' = NoObject
         \/ UNCHANGED <<pc, cr, crFresh>>
         \/ pc = "connect" /\ pc' = "observe" /\ UNCHANGED <<cr, crFresh>>
         \/ /\ pc # "idle" /\ UNCHANGED <<cr, crFresh>>
            /\ pc' \notin {"initialize", "connect", "observe", "update"}
  PROVE  CopiesBacked'
BY DEF CopiesBacked, Backed, Live

(* A step after which the resource is gone leaves no copy to act on.         *)
LEMMA GoneBacked ==
  ASSUME CopiesFollow', CopiesAgree', mr' = NoObject
  PROVE  CopiesBacked'
BY DEF CopiesFollow, Follows, CopiesAgree, CopiesBacked

(* A full write saves everything that was adopted.                           *)
LEMMA SavesBacked ==
  ASSUME NEW never, NEW P, NoObject \notin Things(P), NEW D, \A p \in P : DOMAIN p = D,
         KubeOK(P), WorkerOK(P), CopiesClean(never), CopiesBacked, UNCHANGED owned,
         NEW object, NEW stored, NEW next, Saves(P, object, stored, next),
         Serialised(never, stored)
  PROVE  CopiesBacked'
<1>1. CASE ~(crFresh /\ mr # NoObject)
  <2>1. UNCHANGED <<mr, cache>> /\ pc' = "idle" /\ cr' = NoObject
    BY <1>1 DEF Saves, ClientUpdate, EndReconcile
  <2> QED BY <2>1, StaysBacked
<1>2. CASE crFresh /\ mr # NoObject
  <2> DEFINE written == WithSpec(object, stored)
  <2>1. written.forProvider = stored /\ written # NoObject
    BY DEF Saves, WithSpec, Things, Objects
  <2>2. /\ mr' = written /\ UNCHANGED cache
        /\ \/ pc' = "idle" /\ cr' = NoObject
           \/ cr' = object
    BY <1>2 DEF Saves, ClientUpdate, Continue, EndReconcile
  <2> HIDE DEF written
  <2>3. /\ pc # "idle" /\ cr \in Things(P) /\ mr \in Things(P)
        /\ object.forProvider = cr.forProvider
    BY <1>2 DEF Saves, WorkerOK, KubeOK
  <2>4. DOMAIN cr.forProvider = D /\ DOMAIN mr.forProvider = D /\ DOMAIN stored = D
    BY <2>3 DEF Things, Objects, Serialised
  <2>5. \A f \in D \ owned : (cr.forProvider[f] # Nil => stored[f] # Nil)
                           /\ (stored[f] # Nil => cr.forProvider[f] # Nil)
    <3>1. Clean(never, cr)
      BY <1>2, <2>3 DEF CopiesClean
    <3> QED BY <2>4, <3>1 DEF Clean, Serialised
  <2>6. \A f \in D \ owned : mr.forProvider[f] # Nil => stored[f] # Nil
    <3>1. \A f \in D \ owned : mr.forProvider[f] # Nil => cr.forProvider[f] # Nil
      BY <1>2, <2>3, <2>4 DEF CopiesBacked
    <3> QED BY <2>5, <3>1
  <2>7. Live(cache) => Backed(cache)'
    <3> SUFFICES ASSUME Live(cache) PROVE Backed(cache)'
      OBVIOUS
    <3>1. Backed(cache) /\ DOMAIN cache.forProvider = D
      BY DEF CopiesBacked, Live, KubeOK, Things, Objects
    <3> QED BY <2>1, <2>2, <2>6, <3>1 DEF Backed
  <2>8. cr' = object => Backed(cr)'
    BY <2>1, <2>2, <2>3, <2>4, <2>5 DEF Backed
  <2>9. cr' = object => \A f \in DOMAIN mr'.forProvider \ owned' :
                          mr'.forProvider[f] # Nil => cr'.forProvider[f] # Nil
    BY <2>1, <2>2, <2>3, <2>4, <2>5
  <2> QED BY <2>2, <2>7, <2>8, <2>9 DEF CopiesBacked, Live
<1> QED BY <1>1, <1>2

(* The steps between the controller's calls take nothing back.               *)
LEMMA BetweenBacked ==
  ASSUME NEW never, NEW P, NoObject \notin Things(P), NEW D, \A p \in P : DOMAIN p = D,
         KubeOK(P), WorkerOK(P), Safe, CopiesClean(never), CopiesBacked,
         NEW named, NEW stored, pc # "idle" => stored \in P /\ Serialised(never, stored),
         Between(named, stored), UNCHANGED growthbook
  PROVE  CopiesBacked'
<1>0. UNCHANGED owned /\ CopiesFollow' /\ CopiesAgree'
  BY BetweenTyped, BetweenSafe DEF Safe
<1>1. CASE StartReconcile(named)
  <2>1. /\ UNCHANGED <<mr, cache>> /\ cr' = cache /\ crFresh' = cacheFresh
    BY <1>1 DEF StartReconcile, kubeVars
  <2>2. cacheFresh => cache = mr
    BY DEF Safe, CopiesAgree
  <2> QED BY <1>0, <2>1, <2>2 DEF CopiesBacked, Backed, Live
<1>2. CASE RemoveFinalizer
  <2>1. /\ pc' = "idle" /\ cr' = NoObject /\ UNCHANGED cache
        /\ mr' = NoObject \/ UNCHANGED mr
    BY <1>2 DEF RemoveFinalizer, ClientUpdate, Continue, EndReconcile
  <2> QED BY <1>0, <2>1, StaysBacked, GoneBacked
<1>3. CASE RecordCreation
  <2>1. mr \in Things(P) /\ cr \in Things(P)
    BY <1>3 DEF RecordCreation, KubeOK, WorkerOK
  <2>2. mr' \in Things(P) /\ mr'.forProvider = mr.forProvider
    BY <1>3, <2>1 DEF RecordCreation, Things, Objects
  <2>3. pc' = "idle" /\ cr' = NoObject /\ UNCHANGED cache
    BY <1>3 DEF RecordCreation, EndReconcile
  <2> QED BY <1>0, <2>2, <2>3 DEF CopiesBacked, Backed, Live
<1>4. ASSUME NEW object, NEW next, Saves(P, object, stored, next)
      PROVE  CopiesBacked'
  <2>1. Serialised(never, stored)
    BY <1>4 DEF Saves
  <2> QED BY <1>0, <1>4, <2>1, SavesBacked
<1> QED BY <1>1, <1>2, <1>3, <1>4, BetweenForms DEF Safe

(* Observe goes straight to an update only when it adopts nothing that is to  *)
(* be saved.                                                                *)
LEMMA ObservedBacked ==
  ASSUME NEW never, NEW P, NoObject \notin Things(P), WorkerOK(P), KubeOK(P), pc = "observe",
         NEW D, \A p \in P : DOMAIN p = D,
         Safe, CopiesBacked, NEW o, NEW p \in P, Observed(o, p), Adopted(never, p),
         "LateInitialize" \in Policies, o.exists /\ ~o.lateInit => p = cr.forProvider
  PROVE  CopiesBacked'
<1> DEFINE object == [cr EXCEPT !.forProvider = p]
<1>1. /\ cr \in Things(P) /\ cr # NoObject
      /\ object.forProvider = p
      /\ object.finalizer = cr.finalizer /\ object.deleting = cr.deleting
  BY DEF WorkerOK, Things, Objects
<1>2. /\ UNCHANGED <<mr, cache, owned>>
      /\ \/ pc' = "idle" /\ cr' = NoObject
         \/ pc' = AfterObserve(o) /\ cr' = object /\ UNCHANGED crFresh
  BY DEF Observed, Continue, EndReconcile, kubeVars
<1> HIDE DEF object
<1>3. CASE pc' = "idle" /\ cr' = NoObject
  BY <1>2, <1>3, StaysBacked
<1>4. CASE pc' = AfterObserve(o) /\ cr' = object /\ UNCHANGED crFresh
  <2>1. /\ pc' \notin {"initialize", "connect", "observe"}
        /\ pc' = "update" => p = cr.forProvider
    BY <1>4 DEF AfterObserve, AfterFinalizer, AfterLateInit
  <2>2. Live(cr)' => Live(cr)
    BY <1>1, <1>4 DEF Live
  <2>3. Live(cr) => Backed(cr)
    BY DEF CopiesBacked
  <2>4. Live(cr)' /\ pc' = "update" => Backed(cr)'
    BY <1>1, <1>2, <1>4, <2>1, <2>2, <2>3 DEF Backed
  <2>5. pc' # "idle" /\ crFresh' =>
          \A f \in DOMAIN mr'.forProvider \ owned' :
            mr'.forProvider[f] # Nil => cr'.forProvider[f] # Nil
    <3> SUFFICES ASSUME crFresh PROVE \A f \in DOMAIN mr.forProvider \ owned :
                                       mr.forProvider[f] # Nil => p[f] # Nil
      BY <1>1, <1>2, <1>4
    <3>1. mr \in Things(P)
      BY DEF Safe, CopiesAgree, KubeOK
    <3>2. DOMAIN mr.forProvider = D /\ DOMAIN p = D
      BY <3>1 DEF Things, Objects
    <3> QED BY <3>2 DEF CopiesBacked, Adopted
  <2>6. Live(cache)' => Backed(cache)'
    BY <1>2 DEF CopiesBacked, Backed, Live
  <2> QED BY <2>1, <2>4, <2>5, <2>6 DEF CopiesBacked
<1> QED BY <1>2, <1>3, <1>4

(* Users set what they edit, and declare nothing anew while a copy is live.   *)
LEMMA UsersBacked ==
  ASSUME NEW P, NoObject \notin Things(P), KubeOK(P), WorkerOK(P), Safe, CopiesBacked, Users,
         UNCHANGED growthbook,
         NEW D, \A p \in P : DOMAIN p = D,
         \A e \in Edits, p \in P : [p EXCEPT ![e.field] = e.to] \in P
  PROVE  CopiesBacked'
<1>0. CopiesFollow' /\ CopiesAgree'
  BY UsersSafe DEF Safe
<1>1. CASE UserDelete
  <2> DEFINE marked == [mr EXCEPT !.deleting = TRUE]
  <2>1. mr \in Things(P) /\ mr # NoObject
    BY <1>1 DEF UserDelete, KubeOK
  <2>2. marked # NoObject /\ marked.forProvider = mr.forProvider
    BY <2>1 DEF Things, Objects
  <2>3. /\ crFresh' = FALSE /\ UNCHANGED <<cache, cr, pc, owned>>
        /\ mr' = NoObject \/ mr' = marked
    BY <1>1 DEF UserDelete, ForeignWrite
  <2> HIDE DEF marked
  <2>4. CASE mr' = NoObject
    BY <1>0, <2>4, GoneBacked
  <2>5. CASE mr' = marked
    BY <2>1, <2>2, <2>3, <2>5 DEF CopiesBacked, Backed, Live
  <2> QED BY <2>3, <2>4, <2>5
<1>2. ASSUME NEW e \in Edits, UserEdit(e.field, e.to)
      PROVE  CopiesBacked'
  <2> DEFINE fields == [mr.forProvider EXCEPT ![e.field] = e.to]
  <2>1. mr \in Things(P) /\ mr # NoObject /\ mr.forProvider \in P
    BY <1>2 DEF UserEdit, KubeOK, Things, Objects
  <2>2. mr' = [mr EXCEPT !.forProvider = fields]
    BY <1>2 DEF UserEdit, ForeignWrite
  <2>3. /\ crFresh' = FALSE /\ UNCHANGED <<cache, cr, pc>>
        /\ owned' = owned \cup {e.field}
    BY <1>2 DEF UserEdit, ForeignWrite
  <2>4. /\ fields \in P /\ DOMAIN mr.forProvider = D
        /\ \A f \in D : f # e.field => fields[f] = mr.forProvider[f]
    BY <2>1
  <2> HIDE DEF fields
  <2>5. mr' # NoObject /\ mr'.forProvider = fields
    BY <2>1, <2>2, <2>4 DEF Things, Objects
  <2>6. \A f \in D \ owned' : mr.forProvider[f] # Nil => mr'.forProvider[f] # Nil
    BY <2>3, <2>4, <2>5
  <2>7. Live(cache) => Backed(cache)'
    <3> SUFFICES ASSUME Live(cache) PROVE Backed(cache)'
      OBVIOUS
    <3>1. Backed(cache) /\ DOMAIN cache.forProvider = D
      BY DEF CopiesBacked, Live, KubeOK, Things, Objects
    <3> QED BY <2>3, <2>5, <2>6, <3>1 DEF Backed
  <2>8. Live(cr) /\ pc \in {"initialize", "connect", "observe", "update"} => Backed(cr)'
    <3> SUFFICES ASSUME Live(cr), pc \in {"initialize", "connect", "observe", "update"}
                 PROVE Backed(cr)'
      OBVIOUS
    <3>1. Backed(cr) /\ DOMAIN cr.forProvider = D
      BY DEF CopiesBacked, Live, WorkerOK, Things, Objects
    <3> QED BY <2>3, <2>5, <2>6, <3>1 DEF Backed
  <2> QED BY <2>3, <2>7, <2>8 DEF CopiesBacked, Live
<1>3. ASSUME NEW s \in Specs, UserCreate(NewObject(s.forProvider, s.initProvider, Nil))
      PROVE  CopiesBacked'
  <2>1. mr = NoObject /\ crFresh' = FALSE /\ UNCHANGED <<cache, cr>>
    BY <1>3 DEF UserCreate, ForeignWrite
  <2>2. ~Live(cache) /\ ~Live(cr)
    BY <2>1 DEF Safe, CopiesFollow, Follows
  <2> QED BY <2>1, <2>2 DEF CopiesBacked, Live
<1> QED BY <1>1, <1>2, <1>3 DEF Users

(* Crashes, the informer and the clock take nothing back.                    *)
LEMMA AroundBacked ==
  ASSUME CopiesBacked, Crash \/ CacheSync \/ GraceEnds
  PROVE  CopiesBacked'
<1>1. CASE Crash
  BY <1>1, StaysBacked DEF Crash, EndReconcile, kubeVars
<1>2. CASE CacheSync \/ GraceEnds
  <2>1. /\ UNCHANGED <<mr, pc, cr, crFresh, owned>>
        /\ cache' = mr \/ UNCHANGED cache
    BY <1>2 DEF CacheSync, GraceEnds, workerVars
  <2> QED BY <2>1 DEF CopiesBacked, Backed, Live
<1> QED BY <1>1, <1>2
=============================================================================
