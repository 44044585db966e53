---------------------------- MODULE ProjectProofs ----------------------------
(***************************************************************************)
(* What holds of Project for any ids, declarations, faults and bounds.       *)
(* First, that its steps are of the forms of AssignedProofs: its conversions *)
(* yield what GrowthBook and the API server take, and it creates or lets go  *)
(* only after an answer that justifies it.  The types, the safety invariant  *)
(* and the refinement follow.  Then what it writes: one call is enough, what *)
(* it asks for after a write is what it has written; and it writes nothing   *)
(* that users did not ask for.                                               *)
(***************************************************************************)
EXTENDS Project, AssignedProofs

(* A decimal that parses is sent as a number (convert.go parseDecimal).     *)
LEMMA ParseDecimalTyped ==
  ASSUME NEW d \in Opt(Decimals), ~Unparsable(d)
  PROVE  parseDecimal(d) \in Opt(Numbers)
BY DEF Opt, Unparsable, parseDecimal, Numbers

(* A request that can be built is one GrowthBook takes (convert.go request).*)
LEMMA RequestTyped ==
  ASSUME NEW p \in ProjectParameters, ~requestFails(p)
  PROVE  request(p) \in ProjectRequests
<1>1. CASE p.settings = Nil
  BY <1>1 DEF request, ProjectParameters, ProjectRequests, Opt
<1>2. CASE p.settings # Nil
  <2>1. p.settings \in ProjectSettings(Decimals)
    BY <1>2 DEF ProjectParameters, Opt
  <2>2. /\ parseDecimal(p.settings.confidenceLevel) \in Opt(Numbers)
        /\ parseDecimal(p.settings.pValueThreshold) \in Opt(Numbers)
    BY <1>2, <2>1, ParseDecimalTyped DEF requestFails, ProjectSettings
  <2>3. [statsEngine     |-> p.settings.statsEngine,
         confidenceLevel |-> parseDecimal(p.settings.confidenceLevel),
         pValueThreshold |-> parseDecimal(p.settings.pValueThreshold)]
          \in ProjectSettings(Numbers)
    BY <2>1, <2>2 DEF ProjectSettings
  <2> QED BY <1>2, <2>3 DEF request, ProjectParameters, ProjectRequests, Opt
<1> QED BY <1>1, <1>2

(* Filling in initProvider gives the parameters of a project again.         *)
LEMMA MergeTyped ==
  ASSUME NEW p \in ProjectParameters, NEW ip \in ProjectInitParameters
  PROVE  mergeInitProvider(p, ip) \in ProjectParameters
BY DEF mergeInitProvider, ProjectParameters, ProjectInitParameters, Opt

(* What GrowthBook stores after a write is a project again.                 *)
LEMMA OverlayTyped ==
  ASSUME NEW base \in Projects, NEW over \in ProjectRequests
  PROVE  Overlay(base, over) \in Projects
BY DEF Overlay, Projects, ProjectRequests, Opt

(* Late initialization gives the parameters of a project again.             *)
LEMMA LateInitTyped ==
  ASSUME NEW p \in ProjectParameters, NEW ip \in ProjectInitParameters, NEW ext \in Projects
  PROVE  lateInitialize(p, ip, ext) \in ProjectParameters
BY DEF lateInitialize, lateInitializes, ProjectParameters, Projects, Opt
-----------------------------------------------------------------------------
(* The steps of Project.                                                    *)

Resources == Things(ProjectParameters, ProjectInitParameters)
Requests == RequestsWith(ProjectRequests)

ProjectStep == AssignedStep(ProjectParameters, Projects, ProjectRequests)

(* The constants of Project are what AssignedProofs asks for.                *)
LEMMA ProjectIsSound == Sound(ProjectParameters, ProjectInitParameters, Projects)
BY NoObjectAssumption, ProjectsAssumption, InputsAssumption DEF Sound, Things

(* What the type invariant says of each part of the state.                   *)
LEMMA TypeParts ==
  ASSUME TypeOK
  PROVE  /\ CopiesOK(ProjectParameters, ProjectInitParameters)
         /\ KubeOK(ProjectParameters, ProjectInitParameters)
         /\ WorkerOK(ProjectParameters, ProjectInitParameters)
         /\ RemoteOK(Projects, ProjectRequests) /\ RemoteTyped(Projects)
         /\ inFlight \subseteq Requests
BY AssignedTypeParts, NoObjectAssumption
   DEF TypeOK, CopiesOK, RemoteOK, RemoteTyped, Requests, Things

(* A project without anything is one, and so is one with a name and a slug.  *)
LEMMA ZeroTyped ==
  /\ ZeroProject \in Projects
  /\ \A slug \in PublicIds : [ZeroProject EXCEPT !.publicId = slug] \in Projects
  /\ \A name \in Names, slug \in PublicIds :
       [ZeroProject EXCEPT !.name = name, !.publicId = slug] \in Projects
BY DEF ZeroProject, Projects, Opt

(* Only a POST makes a project, the one it is served as.                     *)
LEMMA ServeForms ==
  ASSUME RemoteTyped(Projects), NEW q \in Requests, NEW id \in Opt(Ids), Serve(q, id)
  PROVE  /\ q.verb = "POST" => Makes(Projects, id)
         /\ q.verb # "POST" => Changes(Projects, id)
<1>1. CASE q.verb = "POST"
  <2>1. q.body \in ProjectRequests
    BY <1>1 DEF Requests, RequestsWith
  <2>2. PICK slug \in PublicIds :
          PostAs(id, Overlay([ZeroProject EXCEPT !.publicId = slug], q.body))
    BY <1>1 DEF Serve, Post
  <2>3. Overlay([ZeroProject EXCEPT !.publicId = slug], q.body) \in Projects
    BY <2>1, ZeroTyped, OverlayTyped
  <2> QED BY <1>1, <2>2, <2>3 DEF Makes
<1>2. CASE q.verb = "PUT"
  <2>1. q.body \in ProjectRequests /\ Put(id, q.body)
    BY <1>2 DEF Requests, RequestsWith, Serve
  <2> QED BY <1>2, <2>1, OverlayTyped, PutChanges
<1>3. CASE q.verb = "DELETE"
  BY <1>3, RemoveChanges DEF Serve
<1> QED BY <1>1, <1>2, <1>3 DEF Requests, RequestsWith

(* The same of one exchange that is no POST, whatever its answer.            *)
LEMMA ExchangeForms ==
  ASSUME TypeOK, NEW q \in Requests, NEW r, Exchange(q, r), q.verb # "POST"
  PROVE  inFlight' \subseteq Requests /\ \E id \in Opt(Ids) : Changes(Projects, id)
<1>1. q.id \in Opt(Ids)
  BY DEF Requests, RequestsWith
<1>2. CASE Serve(q, q.id) /\ UNCHANGED inFlight
  BY <1>1, <1>2, TypeParts, ServeForms
<1>3. CASE NotServed(q, r)
  BY <1>1, <1>3, TypeParts, NotServedForms DEF Changes, Requests
<1> QED BY <1>2, <1>3 DEF Exchange

(* The bodies of the two writes are well formed, when there are any.         *)
LEMMA RequestsAreTyped ==
  ASSUME TypeOK, pc # "idle"
  PROVE  /\ ~requestFails(mergeInitProvider(cr.forProvider, cr.initProvider)) =>
              Request("POST", Nil, createRequest(cr.forProvider, cr.initProvider)) \in Requests
         /\ ~requestFails(cr.forProvider) =>
              Request("PUT", cr.externalName, request(cr.forProvider)) \in Requests
         /\ Request("DELETE", cr.externalName, Nil) \in Requests
         /\ cr.forProvider \in ProjectParameters /\ cr.initProvider \in ProjectInitParameters
         /\ cr.externalName \in Opt(Ids)
<1>1. WorkerOK(ProjectParameters, ProjectInitParameters)
  BY TypeParts
<1>2. cr.forProvider \in ProjectParameters /\ cr.initProvider \in ProjectInitParameters
  BY <1>1 DEF WorkerOK, Things, Objects
<1>3. mergeInitProvider(cr.forProvider, cr.initProvider) \in ProjectParameters
  BY <1>2, MergeTyped
<1>4. ASSUME ~requestFails(mergeInitProvider(cr.forProvider, cr.initProvider))
      PROVE  createRequest(cr.forProvider, cr.initProvider) \in ProjectRequests
  BY <1>3, <1>4, RequestTyped DEF createRequest
<1>5. ASSUME ~requestFails(cr.forProvider)
      PROVE  request(cr.forProvider) \in ProjectRequests
  BY <1>2, <1>5, RequestTyped
<1> QED BY <1>1, <1>2, <1>4, <1>5, RequestsTyped DEF Requests

(* Connect gets the reconcile on, or ends it.                               *)
LEMMA ConnectForms ==
  ASSUME TypeOK, Connect
  PROVE  ProjectStep
<1>1. Connects /\ (UNCHANGED chaos \/ Disturb) /\ UNCHANGED inFlight
  BY DEF Connect, Connects, growthbook
<1> QED BY <1>1, TypeParts DEF ProjectStep, AssignedStep, Requests

(* Observe only denies a project when GrowthBook does.                       *)
LEMMA ObserveForms ==
  ASSUME TypeOK, NamesWereGiven, Observe
  PROVE  ProjectStep
<1> DEFINE id == cr.externalName
<1>1. /\ pc = "observe" /\ UNCHANGED <<remote, inFlight, lost>>
      /\ id \in Opt(Ids)
      /\ cr.forProvider \in ProjectParameters /\ cr.initProvider \in ProjectInitParameters
  BY RequestsAreTyped DEF Observe, growthbook
<1>2. SUFFICES GoesOn(ProjectParameters) /\ (UNCHANGED chaos \/ Disturb)
  BY <1>1, TypeParts DEF ProjectStep, AssignedStep, Requests
<1>3. ASSUME Observed(NoObservation, cr.forProvider), Free(id)
      PROVE  GoesOn(ProjectParameters)
  BY <1>1, <1>3, NoObservationTyped, ObservedGoesOn
<1>4. CASE id = Nil
  BY <1>3, <1>4 DEF Observe, Free
<1>5. CASE id # Nil
  <2>1. PICK r \in Answers(id) :
          /\ Charge(r)
          /\ ObserveReply(r, IF r.body = "object" THEN remote[id] ELSE ZeroProject)
    BY <1>5 DEF Observe
  <2>2. UNCHANGED chaos \/ Disturb
    BY <2>1, Charged
  <2>3. CASE IsNotFound(r)
    <3>1. Free(id)
      BY <1>1, <1>5, <2>3, TypeParts, DeniedIsGone
    <3> QED BY <1>3, <2>1, <2>2, <2>3, <3>1 DEF ObserveReply
  <2>4. CASE ~IsNotFound(r) /\ Fails(r, TRUE)
    <3>1. EndReconcile /\ UNCHANGED kubeVars
      BY <2>1, <2>4 DEF ObserveReply, NotObserved
    <3> QED BY <1>1, <2>2, <3>1, TypeParts, EndGoesOn
  <2>5. CASE ~IsNotFound(r) /\ ~Fails(r, TRUE)
    <3> DEFINE ext == IF r.body = "object" THEN remote[id] ELSE ZeroProject
               p   == lateInitialize(cr.forProvider, cr.initProvider, ext)
               o   == [exists   |-> TRUE,
                       upToDate |-> isUpToDate(p, ext),
                       lateInit |-> lateInitializes(cr.forProvider, cr.initProvider, ext)]
    <3>1. ext \in Projects
      BY <1>1, <1>5, <2>5, ZeroTyped, TypeParts, ShownIsLive DEF Opt
    <3>2. p \in ProjectParameters
      BY <1>1, <3>1, LateInitTyped
    <3>3. o \in Observations
      <4>1. isUpToDate(p, ext) \in BOOLEAN
        BY DEF isUpToDate
      <4>2. lateInitializes(cr.forProvider, cr.initProvider, ext) \in BOOLEAN
        BY DEF lateInitializes
      <4> QED BY <4>1, <4>2 DEF Observations
    <3>4. Observed(o, p)
      BY <2>1, <2>5 DEF ObserveReply
    <3>5. o.exists
      OBVIOUS
    <3> HIDE DEF o, p, ext
    <3> QED BY <1>1, <2>2, <3>2, <3>3, <3>4, <3>5, ObservedGoesOn
  <2> QED BY <2>3, <2>4, <2>5
<1> QED BY <1>4, <1>5

(* Create learns the id of the project it has made, or loses it.             *)
LEMMA CreateForms ==
  ASSUME TypeOK, Create
  PROVE  ProjectStep
<1> DEFINE q == Request("POST", Nil, createRequest(cr.forProvider, cr.initProvider))
           p == mergeInitProvider(cr.forProvider, cr.initProvider)
<1>1. pc = "create" /\ UNCHANGED kubeVars
  BY DEF Create
<1>2. SUFFICES /\ Creates(Projects) /\ (UNCHANGED chaos \/ Disturb)
               /\ inFlight' \subseteq Requests
  BY DEF ProjectStep, AssignedStep, Requests
<1>3. CASE requestFails(p)
  BY <1>1, <1>3, TypeParts DEF Create, Creates, growthbook
<1>4. CASE ~requestFails(p)
  <2>1. q \in Requests /\ q.verb = "POST"
    BY <1>1, <1>4, RequestsAreTyped DEF Request
  <2> HIDE DEF q
  <2>2. PICK r \in {Answered} \cup Faults :
          /\ Charge(r)
          /\ \/ \E id \in Ids : CreateServed(q, r, id)
             \/ /\ NotServed(q, r) /\ UNCHANGED lost
                /\ Returned("recordFailed", cr.externalName)
    BY <1>4 DEF Create, q
  <2>3. UNCHANGED chaos \/ Disturb
    BY <2>2, Charged
  <2>4. ASSUME NEW id \in Ids, CreateServed(q, r, id)
        PROVE  Creates(Projects) /\ inFlight' \subseteq Requests
    <3>1. Makes(Projects, id)
      BY <2>1, <2>4, TypeParts, ServeForms DEF CreateServed, Opt
    <3>2. CreateEnds(id)
      BY <2>4 DEF CreateServed, CreateEnds
    <3> QED BY <1>1, <2>4, <3>1, <3>2, TypeParts DEF Creates, CreateServed
  <2>5. CASE NotServed(q, r) /\ UNCHANGED lost /\ Returned("recordFailed", cr.externalName)
    <3>1. UNCHANGED remote /\ inFlight' \subseteq Requests
      BY <2>1, <2>5, TypeParts, NotServedForms DEF Requests
    <3> QED BY <1>1, <2>3, <2>5, <3>1 DEF Creates
  <2> QED BY <2>2, <2>3, <2>4, <2>5
<1> QED BY <1>3, <1>4

(* Update and Delete make no project.                                        *)
LEMMA CallForms ==
  ASSUME TypeOK, Update \/ Delete
  PROVE  ProjectStep /\ Calls(Projects)
<1>1. /\ pc \in {"update", "delete"} /\ UNCHANGED <<kubeVars, lost>> /\ EndReconcile
      /\ inFlight \subseteq Requests /\ Nil \in Opt(Ids)
  BY TypeParts DEF Update, Delete, Opt
<1>2. SUFFICES /\ \E id \in Opt(Ids) : Changes(Projects, id)
               /\ UNCHANGED chaos \/ Disturb
               /\ inFlight' \subseteq Requests
  BY <1>1 DEF ProjectStep, AssignedStep, Calls, Requests
<1>3. ASSUME NEW q \in Requests, q.verb # "POST", NEW r, Charge(r) /\ Exchange(q, r)
      PROVE  /\ \E id \in Opt(Ids) : Changes(Projects, id)
             /\ UNCHANGED chaos \/ Disturb
             /\ inFlight' \subseteq Requests
  BY <1>3, Charged, ExchangeForms
<1>4. CASE Update
  <2>1. CASE UNCHANGED <<remote, inFlight, chaos>>
    BY <1>1, <2>1 DEF Changes
  <2>2. CASE ~requestFails(cr.forProvider) /\ ~UNCHANGED <<remote, inFlight, chaos>>
    <3> DEFINE q == Request("PUT", cr.externalName, request(cr.forProvider))
    <3>1. q \in Requests /\ q.verb # "POST"
      BY <1>1, <2>2, RequestsAreTyped DEF Request
    <3>2. \E r \in Answers(cr.externalName) : Charge(r) /\ Exchange(q, r)
      BY <1>4, <2>2 DEF Update
    <3> QED BY <1>3, <3>1, <3>2
  <2> QED BY <1>4, <2>1, <2>2 DEF Update
<1>5. CASE Delete
  <2> DEFINE q == Request("DELETE", cr.externalName, Nil)
  <2>1. q \in Requests /\ q.verb # "POST"
    BY <1>1, RequestsAreTyped DEF Request
  <2>2. \E r \in Answers(cr.externalName) : Charge(r) /\ Exchange(q, r)
    BY <1>5 DEF Delete
  <2> QED BY <1>3, <2>1, <2>2
<1> QED BY <1>4, <1>5

(* A request served late changes a project, or makes one that is lost.       *)
LEMMA ServeLateForms ==
  ASSUME TypeOK, NEW q \in inFlight, ServeLate(q)
  PROVE  ProjectStep /\ Outside(Projects)
<1>1. /\ q \in Requests /\ RemoteTyped(Projects)
      /\ inFlight' \subseteq Requests /\ UNCHANGED <<kubeVars, workerVars, chaos>>
  BY TypeParts DEF ServeLate, runtimeVars
<1>2. PICK id \in IF q.verb = "POST" THEN Ids ELSE {q.id} :
        Serve(q, id) /\ lost' = IF q.verb = "POST" THEN lost \cup {id} ELSE lost
  BY DEF ServeLate
<1>3. id \in Opt(Ids) /\ (q.verb = "POST" => id \in Ids)
  BY <1>1, <1>2 DEF Requests, RequestsWith, Opt
<1>4. /\ q.verb = "POST" => Makes(Projects, id)
      /\ q.verb # "POST" => Changes(Projects, id)
  BY <1>1, <1>2, <1>3, ServeForms
<1>5. Outside(Projects)
  BY <1>1, <1>2, <1>3, <1>4 DEF Outside
<1> QED BY <1>1, <1>5 DEF ProjectStep, AssignedStep, Requests

(* Every step of Project is of one of the forms.                            *)
LEMMA NextForms ==
  ASSUME TypeOK, NamesWereGiven, [Next]_vars
  PROVE  ProjectStep
<1> USE DEF ProjectStep
<1>1. /\ inFlight \subseteq RequestsWith(ProjectRequests)
      /\ RemoteOK(Projects, ProjectRequests)
  BY TypeParts DEF Requests
<1>2. CASE RuntimeStep
  <2>1. pc # "idle" => cr.forProvider \in ProjectParameters
    BY RequestsAreTyped
  <2>2. Between(ProjectParameters)
    BY <1>2, <2>1 DEF RuntimeStep, Between
  <2> QED BY <1>1, <2>2, RuntimeForms
<1>3. CASE Worker
  BY <1>2, <1>3, ConnectForms, ObserveForms, CreateForms, CallForms DEF Worker
<1>4. CASE CrashStep \/ Kubernetes
  BY <1>1, <1>4, RuntimeForms DEF Kubernetes, Around
<1>5. CASE \E id \in Ids : OutOfBandDelete(id) \/ \E e \in OutOfBand : OutOfBandEdit(id, e)
  BY <1>1, <1>5, ProjectIsSound, OutOfBandForms
<1>6. CASE UNCHANGED vars
  BY <1>1, <1>6, StutterForms DEF vars
<1> QED BY <1>3, <1>4, <1>5, <1>6, ServeLateForms DEF Next, Others
-----------------------------------------------------------------------------
(* What follows from that.                                                  *)

IInv == TypeOK /\ Safe

(* It holds initially, and a new resource is one of the abstract ones.       *)
LEMMA InitHolds == Init => IInv /\ Abstract!Init
<1> SUFFICES ASSUME Init PROVE IInv /\ Abstract!Init
  OBVIOUS
<1>1. PICK s \in Specs, id \in Imported \cup {Nil}, name \in Names, slug \in PublicIds :
        Starts(s, id, [ZeroProject EXCEPT !.name = name, !.publicId = slug])
  BY DEF Init
<1> DEFINE object == [ZeroProject EXCEPT !.name = name, !.publicId = slug]
<1>2. object \in Projects
  BY ZeroTyped
<1> HIDE DEF object
<1>3. Starts(s, id, object)
  BY <1>1 DEF object
<1>4. AssignedTypeOK(ProjectParameters, ProjectInitParameters, Projects, ProjectRequests)
  BY <1>2, <1>3, ProjectIsSound, StartTyped
<1>5. owned \subseteq DOMAIN ZeroProject
  <2>1. s.forProvider \in ProjectParameters
    BY InputsAssumption
  <2> QED BY <1>3, <2>1 DEF Starts, RuntimeInit, NewObject, SetFields, ProjectParameters,
             ZeroProject
<1>6. Safe /\ Abstract!Init
  BY <1>2, <1>3, ProjectIsSound, StartSafe, AbstractStart
<1> QED BY <1>4, <1>5, <1>6 DEF IInv, TypeOK

(* Users set fields of a project only.                                       *)
LEMMA OwnedTyped ==
  ASSUME TypeOK, ProjectStep
  PROVE  owned' \subseteq DOMAIN ZeroProject
<1>1. CASE UNCHANGED owned
  BY <1>1 DEF TypeOK
<1>2. CASE ~UNCHANGED owned
  <2>1. Users
    BY <1>2, OwnedStays DEF ProjectStep
  <2>2. \A s \in Specs : SetFields(s.forProvider) \subseteq DOMAIN ZeroProject
    BY InputsAssumption DEF SetFields, ProjectParameters, ZeroProject
  <2>3. \A e \in Edits : e.field \in DOMAIN ZeroProject
    BY InputsAssumption
  <2>4. /\ UserDelete => UNCHANGED owned
        /\ \A e \in Edits : UserEdit(e.field, e.to) => owned' = owned \cup {e.field}
        /\ \A s \in Specs : UserCreate(NewObject(s.forProvider, s.initProvider, Nil))
                            => owned' = SetFields(s.forProvider)
    BY DEF UserDelete, UserEdit, UserCreate, NewObject
  <2> QED BY <1>2, <2>1, <2>2, <2>3, <2>4 DEF Users, UserChange, TypeOK
<1> QED BY <1>1, <1>2

(* And every step keeps it.                                                 *)
LEMMA NextHolds == IInv /\ [Next]_vars => IInv'
<1> SUFFICES ASSUME IInv, [Next]_vars PROVE IInv'
  OBVIOUS
<1>1. TypeOK /\ Safe /\ ProjectStep
  BY NextForms DEF IInv, Safe
<1>2. AssignedTypeOK(ProjectParameters, ProjectInitParameters, Projects, ProjectRequests)
  BY <1>1 DEF TypeOK
<1>3. AssignedTypeOK(ProjectParameters, ProjectInitParameters, Projects, ProjectRequests)'
  BY <1>1, <1>2, ProjectIsSound, StepTyped DEF ProjectStep, Safe, Protocol
<1>4. Safe'
  BY <1>1, <1>2, ProjectIsSound, StepSafe DEF ProjectStep
<1> QED BY <1>1, <1>3, <1>4, OwnedTyped DEF IInv, TypeOK

(* The inductive invariant holds of every behaviour: what each copy of the    *)
(* object knows, what a step of the reconcile may rely on, and where the id   *)
(* of every live project is.                                                 *)
THEOREM Invariant == Spec => []IInv
<1>1. Init => IInv
  BY InitHolds
<1> QED BY <1>1, NextHolds, PTL DEF Spec

(* The types hold for any projects, specifications, faults and bounds.       *)
THEOREM TypeCorrect == Spec => []TypeOK
<1>1. IInv => TypeOK
  BY DEF IInv
<1> QED BY <1>1, Invariant, PTL

(* No project leaks silently: whatever fails, crashes, comes late or is       *)
(* stale, a live project made for the resource is named and held by it, is on *)
(* its way there, or is one of the accounted losses (project.go Create).      *)
THEOREM NeverLeaksSilently == Spec => []NoSilentLeak
<1>1. IInv => NoSilentLeak
  BY DEF IInv, Safe
<1> QED BY <1>1, Invariant, PTL

(* Create is never retried over a live project whose id was not lost.         *)
THEOREM NeverDuplicates == Spec => []NoDuplicate
<1>1. IInv => NoDuplicate
  BY SafeMeansOne DEF IInv
<1> QED BY <1>1, Invariant, PTL

(* Every POST is announced and guarded by the finalizer in the API server     *)
(* before it is sent, and until its outcome is recorded; and all this while   *)
(* the resource names no project, or one that is gone.                       *)
THEOREM CreationsJustified == Spec => []CreateJustified
<1>1. IInv => CreateJustified
  BY ProtocolJustifies DEF IInv, Safe
<1> QED BY <1>1, Invariant, PTL

(* The finalizer is taken off only after GrowthBook has said that the project *)
(* the resource names is gone.                                               *)
THEOREM FinalizerHolds == Spec => FinalizerGuards
<1> DEFINE Guards == mr # NoObject /\ mr' = NoObject /\ mr.finalizer
                       /\ mr.externalName # Nil /\ "Delete" \in Policies
                     => ~Live(mr.externalName)
<1>1. ASSUME IInv, [Next]_vars PROVE Guards
  BY <1>1, NextForms, ProjectIsSound, StepGuards DEF IInv, Safe, TypeOK, ProjectStep
<1>2. IInv /\ [Next]_vars => [Guards]_<<runtimeVars, remote>>
  BY <1>1
<1> QED BY <1>2, Invariant, PTL DEF Spec, FinalizerGuards

(* Every step is one that the abstract resource may take, or none.           *)
LEMMA NextAllowed == IInv /\ [Next]_vars => [Abstract!Next]_(Abstract!vars)
<1> SUFFICES ASSUME IInv, [Next]_vars PROVE Allowed
  BY AllowedIsAbstract
<1> QED BY NextForms, ProjectIsSound, StepAllowed DEF IInv, Safe, TypeOK, ProjectStep

(* The Project controller keeps the promise of ExternalResource: a resource  *)
(* that goes leaves nothing behind that it answers for, and never answers    *)
(* for two projects, whatever fails, crashes, comes late or is stale.        *)
THEOREM ImplementsResource == Spec => Implements
BY InitHolds, NextAllowed, Invariant, PTL DEF Spec, Implements, Abstract!Spec
-----------------------------------------------------------------------------
(* What it writes.                                                          *)

(* No resource is the absent one,                                           *)
LEMMA ResourceIsThere == \A o \in Resources : o # NoObject
BY NoObjectAssumption DEF Resources, Things

(* and the copies of it carry an id or none.                                *)
LEMMA ResourceCopies ==
  ASSUME TypeOK
  PROVE  /\ pc # "idle" => cr \in Resources /\ cr # NoObject /\ obs \in Observations
                             /\ cr.externalName \in Opt(Ids)
         /\ mr # NoObject => mr \in Resources /\ mr.externalName \in Opt(Ids)
         /\ cache # NoObject => cache \in Resources /\ cache.externalName \in Opt(Ids)
BY TypeParts, Copies DEF Resources

(* Update and Delete bring no project up,                                    *)
LEMMA CallMoves ==
  ASSUME TypeOK, Update \/ Delete
  PROVE  OnlyMoves(Nil)
BY CallForms, TypeParts, ProjectIsSound, ChangesMoves DEF Calls

(* nor do edits and deletions in GrowthBook itself,                          *)
LEMMA OutOfBandMoves ==
  ASSUME TypeOK, NEW id \in Ids,
         OutOfBandDelete(id) \/ \E e \in OutOfBand : OutOfBandEdit(id, e)
  PROVE  OnlyMoves(Nil)
<1>1. Changes(Projects, id) /\ id \in Opt(Ids)
  BY TypeParts, ProjectIsSound, OutOfBandChanges DEF Opt
<1> QED BY <1>1, TypeParts, ProjectIsSound, ChangesMoves

(* and a late request at most the one that it is served as.                  *)
LEMMA LateMoves ==
  ASSUME TypeOK, NEW q \in inFlight, ServeLate(q)
  PROVE  \E id : OnlyMoves(id)
BY ServeLateForms, TypeParts, ProjectIsSound, ChangesMoves, MakesMoves DEF Outside

(* The settings that were sent are up to date (convert.go request against    *)
(* settingsUpToDate and decimalEqual).                                       *)
LEMMA SentSettingsAreUpToDate ==
  ASSUME NEW p \in ProjectParameters, ~requestFails(p), p.settings # Nil
  PROVE  /\ request(p).settings # Nil
         /\ settingsUpToDate(p.settings, request(p).settings)
<1> DEFINE s == p.settings
           sent == [statsEngine     |-> s.statsEngine,
                    confidenceLevel |-> parseDecimal(s.confidenceLevel),
                    pValueThreshold |-> parseDecimal(s.pValueThreshold)]
<1>1. s \in ProjectSettings(Decimals)
  BY DEF ProjectParameters, Opt
<1>2. request(p).settings = sent
  BY DEF request, ProjectParameters
<1>3. sent \in ProjectSettings(Numbers)
  <2>1. /\ parseDecimal(s.confidenceLevel) \in Opt(Numbers)
        /\ parseDecimal(s.pValueThreshold) \in Opt(Numbers)
    BY <1>1, ParseDecimalTyped DEF requestFails, ProjectSettings
  <2> QED BY <1>1, <2>1 DEF ProjectSettings
<1>4. sent # Nil
  BY <1>3, NilAssumption
<1>5. s.statsEngine \in {Nil, derefString(sent.statsEngine)}
  BY DEF derefString
<1>6. /\ decimalEqual(s.confidenceLevel, sent.confidenceLevel)
      /\ decimalEqual(s.pValueThreshold, sent.pValueThreshold)
  BY DEF decimalEqual, parseDecimal, requestFails, Unparsable
<1> HIDE DEF s, sent
<1> QED BY <1>2, <1>4, <1>5, <1>6 DEF settingsUpToDate, s

(* What a request leaves in GrowthBook is what its parameters ask for.       *)
LEMMA SentIsUpToDate ==
  ASSUME NEW p \in ProjectParameters, ~requestFails(p), NEW base \in Projects
  PROVE  isUpToDate(p, Overlay(base, request(p)))
<1> DEFINE ext == Overlay(base, request(p))
<1>1. /\ DOMAIN base = DOMAIN ZeroProject /\ DOMAIN request(p) = DOMAIN ZeroProject
      /\ \A f \in DOMAIN ZeroProject \ {"settings"} : request(p)[f] = p[f]
  BY DEF Projects, ZeroProject, ProjectParameters, request
<1>2. \A f \in DOMAIN ZeroProject :
        ext[f] = IF request(p)[f] # Nil THEN request(p)[f] ELSE base[f]
  BY <1>1 DEF Overlay
<1> HIDE DEF ext
<1>3. \A f \in DOMAIN ZeroProject \ {"settings"} : p[f] \in {Nil, ext[f]}
  BY <1>1, <1>2
<1>4. {"name", "description", "publicId", "restrictAccess"}
        \subseteq DOMAIN ZeroProject \ {"settings"}
  BY DEF ZeroProject
<1>5. p.name = ext.name
  <2>1. p.name # Nil
    BY NilAssumption DEF ProjectParameters
  <2> QED BY <1>3, <1>4, <2>1
<1>6. p.restrictAccess \in {Nil, derefBool(ext.restrictAccess)}
  <2>1. p.restrictAccess \in {Nil, TRUE, FALSE}
    BY DEF ProjectParameters, Opt
  <2> QED BY <1>3, <1>4, <2>1 DEF derefBool
<1>7. fieldsUpToDate(p, ext)
  BY <1>3, <1>4, <1>5, <1>6 DEF fieldsUpToDate
<1>8. settingsUpToDate(p.settings, ext.settings)
  <2>1. CASE p.settings = Nil
    BY <2>1 DEF settingsUpToDate
  <2>2. CASE p.settings # Nil
    <3>1. ext.settings = request(p).settings
      BY <1>2, <2>2, SentSettingsAreUpToDate DEF ZeroProject
    <3> QED BY <2>2, <3>1, SentSettingsAreUpToDate
  <2> QED BY <2>1, <2>2
<1> QED BY <1>7, <1>8 DEF isUpToDate, ext

(* A PUT that changed something was served to a project that is there.       *)
LEMMA PutSettles ==
  ASSUME TypeOK, Update, remote' # remote
  PROVE  isUpToDate(cr.forProvider, remote'[cr.externalName])
<1> DEFINE id == cr.externalName
           q  == Request("PUT", id, request(cr.forProvider))
<1>1. cr \in Resources /\ cr.forProvider \in ProjectParameters /\ id \in Opt(Ids)
  BY ResourceCopies DEF Update, Resources, Things, Objects
<1>2. ~requestFails(cr.forProvider) /\ Serve(q, q.id)
  BY DEF Update, Exchange, NotServed
<1>3. remote' = [remote EXCEPT ![id] = Overlay(remote[id], request(cr.forProvider))] /\ Live(id)
  BY <1>2 DEF Serve, Put, Request
<1>4. id \in Ids
  BY <1>3, TypeParts DEF RemoteTyped
<1>5. remote[id] \in Projects
  BY <1>3, <1>4, TypeParts DEF RemoteTyped, Live
<1>6. remote'[id] = Overlay(remote[id], request(cr.forProvider))
  BY <1>3, <1>4, TypeParts DEF RemoteTyped
<1> QED BY <1>1, <1>2, <1>5, <1>6, SentIsUpToDate

(* A POST whose answer names a project has made the one that was asked for.  *)
LEMMA PostSettles ==
  ASSUME TypeOK, Create, pc' = "recordCreated", cr'.externalName # Nil
  PROVE  isUpToDate(mergeInitProvider(cr.forProvider, cr.initProvider),
                    remote'[cr'.externalName])
<1> DEFINE p == mergeInitProvider(cr.forProvider, cr.initProvider)
           q == Request("POST", Nil, request(p))
<1>1. cr \in Resources
  BY ResourceCopies DEF Create
<1>2. p \in ProjectParameters
  BY <1>1, MergeTyped DEF Resources, Things, Objects
<1>3. PICK r \in {Answered} \cup Faults, id \in Ids :
        ~requestFails(p) /\ CreateServed(q, r, id)
  BY DEF Create, Returned, createRequest
<1>4. cr'.externalName = id
  BY <1>1, <1>3 DEF CreateServed, Returned, Resources, Things, Objects
<1>5. PICK slug \in PublicIds :
        remote' = [remote EXCEPT
                     ![id] = Overlay([ZeroProject EXCEPT !.publicId = slug], request(p))]
  BY <1>3 DEF CreateServed, Serve, Post, PostAs, Request
<1>6. [ZeroProject EXCEPT !.publicId = slug] \in Projects
  BY DEF ZeroProject, Projects, Opt
<1>7. remote'[id] = Overlay([ZeroProject EXCEPT !.publicId = slug], request(p))
  BY <1>5, TypeParts DEF RemoteTyped
<1> QED BY <1>2, <1>3, <1>4, <1>6, <1>7, SentIsUpToDate

(* No poll repeats a write that was served: the project it leaves passes the *)
(* controller's own test.                                                    *)
THEOREM WritesSettle == Spec => RequestsSettle
<1> DEFINE Settles ==
      /\ pc = "update" /\ pc' = "idle" /\ remote' # remote
           => isUpToDate(cr.forProvider, remote'[cr.externalName])
      /\ pc = "create" /\ pc' = "recordCreated" /\ cr'.externalName # Nil
           => isUpToDate(mergeInitProvider(cr.forProvider, cr.initProvider),
                         remote'[cr'.externalName])
<1>1. ASSUME TypeOK, [Next]_vars PROVE Settles
  <2>1. ASSUME pc = "update", pc' = "idle", remote' # remote PROVE Update
    BY <1>1, <2>1 DEF Next, Worker, RuntimeStep, ReconcilerStep, StartReconcile, AddFinalizer, MarkPending,
       SaveLateInit, RemoveFinalizer, RecordCreation, Connect, Observe, Create, Delete,
       Others, Kubernetes, CrashStep, OutOfBandDelete, OutOfBandEdit, ServeLate, growthbook, vars,
       runtimeVars, workerVars
  <2>2. ASSUME pc = "create", pc' = "recordCreated" PROVE Create
    BY <1>1, <2>2 DEF Next, Worker, RuntimeStep, ReconcilerStep, StartReconcile, AddFinalizer, MarkPending,
       SaveLateInit, RemoveFinalizer, RecordCreation, Connect, Observe, Update, Delete,
       Others, Kubernetes, CrashStep, Crash, EndReconcile, Users, UserChange, UserDelete, UserEdit, UserCreate,
       ForeignWrite, CacheSync, GraceEnds, OutOfBandDelete, OutOfBandEdit, ServeLate,
       vars, runtimeVars, workerVars
  <2> QED BY <1>1, <2>1, <2>2, PutSettles, PostSettles
<1>2. TypeOK /\ [Next]_vars => [Settles]_vars
  BY <1>1
<1> QED BY <1>2, TypeCorrect, PTL DEF Spec, RequestsSettle
-----------------------------------------------------------------------------
(* What the copies of the object know of the fields nobody has set.          *)

Unowned == DOMAIN ZeroProject \ owned

(* No field that initProvider has, and users never set, is in forProvider.   *)
Clean(o) == \A f \in InitOnly(o) : o.forProvider[f] = Nil

(* The latest copies are clean, and Observe only adds to what they have.     *)
CopiesClean ==
  /\ mr # NoObject => Clean(mr)
  /\ pc # "idle" /\ crFresh =>
       /\ Clean(cr)
       /\ \A f \in DOMAIN ZeroProject : mr.forProvider[f] # Nil => cr.forProvider[f] # Nil

(* A PUT of these fields to project id sets nothing that the resource leaves *)
(* unset: the project is gone, or the resource holds it and has the fields.  *)
Backed(id, fields) ==
  \/ Free(id)
  \/ /\ mr # NoObject /\ mr.finalizer /\ mr.externalName = id
     /\ \A f \in Unowned : fields[f] # Nil => mr.forProvider[f] # Nil

(* So it is with every PUT that is still to come: those in flight, those that *)
(* this reconcile may send, and those of reconciles that start from a copy   *)
(* of the informer, however stale.                                          *)
PutsBacked ==
  /\ cache # NoObject /\ cache.finalizer => Backed(cache.externalName, cache.forProvider)
  /\ pc \in {"connect", "observe", "update"} /\ cr.finalizer
       => Backed(cr.externalName, cr.forProvider)
  /\ pc \in {"lateInit", "update"} => cr.finalizer
  /\ \A q \in inFlight : q.verb = "PUT" => Backed(q.id, q.body)

(* The provider deletes what it lets go of, and saves what it adopts.        *)
Managed == {"Delete", "LateInitialize"} \subseteq Policies

Known == CopiesClean /\ (Managed => PutsBacked)

(* A PUT that nothing stands against yet stays so.                           *)
BackedKept ==
  Managed => \A n \in Opt(Ids) : \A fields : Backed(n, fields) => Backed(n, fields)'

FInv == TypeOK /\ CopiesAgree /\ Protocol /\ Known
-----------------------------------------------------------------------------
(* The initial states know nothing.                                         *)
LEMMA KnownInit == Init => Known
<1> SUFFICES ASSUME Init PROVE Known
  OBVIOUS
<1>1. PICK s \in Specs, id \in Imported \cup {Nil}, name \in Names, slug \in PublicIds :
        /\ RuntimeInit(NewObject(s.forProvider, s.initProvider, id))
        /\ remote = [i \in Ids |-> IF i \in Imported
                                   THEN [ZeroProject EXCEPT !.name = name, !.publicId = slug]
                                   ELSE Unborn]
        /\ inFlight = {} /\ lost = {}
  BY DEF Init, Starts
<1>2. /\ mr.forProvider = s.forProvider /\ owned = SetFields(s.forProvider)
      /\ pc = "idle" /\ cache = NoObject
  BY <1>1 DEF RuntimeInit, NewObject
<1>3. Clean(mr)
  BY <1>2 DEF Clean, InitOnly, SetFields
<1> QED BY <1>1, <1>2, <1>3 DEF Known, CopiesClean, PutsBacked

(* The fields of typed objects and requests.                                *)
LEMMA FieldsOf ==
  ASSUME TypeOK
  PROVE  /\ \A p \in ProjectParameters \cup ProjectInitParameters \cup ProjectRequests :
              DOMAIN p = DOMAIN ZeroProject
         /\ \A o \in Resources : /\ o.forProvider \in ProjectParameters
                                 /\ o.initProvider \in ProjectInitParameters
                                 /\ o.externalName \in Opt(Ids)
         /\ \A q \in inFlight : /\ q \in Requests /\ q.id \in Opt(Ids)
                                /\ q.verb = "PUT" => q.body \in ProjectRequests
<1>1. \A q \in inFlight : q \in Requests
  BY TypeParts DEF RemoteTyped
<1> QED BY <1>1 DEF ProjectParameters, ProjectInitParameters, ProjectRequests, ZeroProject,
           Resources, Things, Objects, Requests, RequestsWith

(* What GrowthBook does keeps a PUT backed.                                 *)
LEMMA BackedStays ==
  ASSUME TypeOK, NEW id, OnlyMoves(id), UNCHANGED <<mr, owned>>,
         NEW n \in Opt(Ids), NEW fields, Backed(n, fields)
  PROVE  Backed(n, fields)'
BY KnownStays DEF Backed, Unowned, Free

LEMMA BackedUnseen ==
  ASSUME UNCHANGED <<mr, owned, remote>>
  PROVE  BackedKept
BY DEF BackedKept, Backed, Unowned, Free

(* Of a step that leaves the API server alone only new PUTs matter, and where *)
(* the reconcile stands.                                                    *)
LEMMA RemoteKnown ==
  ASSUME FInv, UNCHANGED kubeVars, NEW id, OnlyMoves(id),
         \A q \in inFlight' \ inFlight : Managed /\ q.verb = "PUT" =>
             q.id \in Opt(Ids) /\ Backed(q.id, q.body),
         pc' = "idle" \/ UNCHANGED workerVars
  PROVE  Known' /\ BackedKept
<1> USE DEF FInv, Known
<1>1. TypeOK /\ UNCHANGED <<mr, cache, owned>>
  BY DEF kubeVars
<1>2. CopiesClean'
  BY <1>1 DEF CopiesClean, Clean, InitOnly, workerVars
<1>3. ASSUME Managed PROVE PutsBacked'
  <2>1. \A q \in inFlight' : q.verb = "PUT" => Backed(q.id, q.body)'
    BY <1>1, <1>3, BackedStays, FieldsOf DEF PutsBacked
  <2>2. cache # NoObject /\ cache.finalizer => Backed(cache.externalName, cache.forProvider)'
    BY <1>1, <1>3, BackedStays, FieldsOf, ResourceCopies DEF PutsBacked
  <2>3. pc \in {"connect", "observe", "update"} /\ cr.finalizer /\ UNCHANGED workerVars
          => Backed(cr.externalName, cr.forProvider)'
    BY <1>1, <1>3, BackedStays, FieldsOf, ResourceCopies DEF PutsBacked, workerVars
  <2> QED BY <1>1, <1>3, <2>1, <2>2, <2>3 DEF PutsBacked, workerVars
<1>4. BackedKept
  BY <1>1, BackedStays DEF BackedKept
<1> QED BY <1>2, <1>3, <1>4 DEF Managed
-----------------------------------------------------------------------------
(* The steps between the controller's calls.                                *)

(* A full write puts what the copy in memory has into the API server.        *)
LEMMA ClientUpdateKnown ==
  ASSUME FInv, pc \in {"addFinalizer", "markPending", "lateInit"}, UNCHANGED growthbook,
         NEW object \in Resources, NEW stored \in Resources, NEW next,
         ClientUpdate(object, stored, next),
         object.forProvider = cr.forProvider, object.initProvider = cr.initProvider,
         object.externalName = cr.externalName, cr.finalizer => object.finalizer,
         stored.forProvider = cr.forProvider, stored.initProvider = cr.initProvider,
         stored.externalName = cr.externalName, stored.finalizer = object.finalizer,
         Managed /\ next \in {"lateInit", "update"} => object.finalizer,
         next \notin {"connect", "observe"}
  PROVE  Known' /\ BackedKept
<1> USE DEF FInv, Known
<1>1. TypeOK /\ UNCHANGED <<remote, inFlight, cache, owned>> /\ OnlyMoves(Nil)
  BY NothingMoves DEF growthbook, ClientUpdate
<1>2. CASE ~(crFresh /\ mr # NoObject)
  <2>1. pc' = "idle" /\ UNCHANGED kubeVars
    BY <1>2 DEF ClientUpdate, EndReconcile, kubeVars
  <2> QED BY <1>1, <2>1, RemoteKnown
<1>3. CASE crFresh /\ mr # NoObject
  <2>1. mr' = stored /\ mr' # NoObject /\ Continue(next, object, obs)
    BY <1>3, ResourceIsThere DEF ClientUpdate
  <2>2. \/ pc' = "idle"
        \/ next # "idle" /\ pc' = next /\ cr' = object /\ crFresh' = crFresh
    BY <2>1 DEF Continue, EndReconcile
  <2>3. /\ cr.externalName = mr.externalName /\ cr.finalizer = mr.finalizer
        /\ Clean(cr)
        /\ \A f \in DOMAIN ZeroProject : mr.forProvider[f] # Nil => cr.forProvider[f] # Nil
    BY <1>3 DEF CopiesAgree, CopiesClean
  <2>4. Clean(object) /\ Clean(stored)
    BY <2>3 DEF Clean, InitOnly
  <2>5. CopiesClean'
    BY <1>1, <2>1, <2>2, <2>4 DEF CopiesClean, Clean, InitOnly
  <2>6. ASSUME NEW n, NEW fields, Backed(n, fields)
        PROVE  Backed(n, fields)'
    BY <1>1, <2>1, <2>3, <2>6 DEF Backed, Free, Unowned
  <2>7. ASSUME Managed PROVE PutsBacked'
    <3>1. cache # NoObject /\ cache.finalizer => Backed(cache.externalName, cache.forProvider)'
      BY <1>1, <2>6, <2>7 DEF PutsBacked
    <3>2. \A q \in inFlight' : q.verb = "PUT" => Backed(q.id, q.body)'
      BY <1>1, <2>6, <2>7 DEF PutsBacked
    <3>3. pc' = "update" => Backed(object.externalName, object.forProvider)'
      BY <2>1, <2>2, <2>7 DEF Backed
    <3> QED BY <1>1, <2>2, <2>7, <3>1, <3>2, <3>3 DEF PutsBacked
  <2> QED BY <2>5, <2>6, <2>7 DEF Managed, BackedKept
<1> QED BY <1>2, <1>3

(* When the resource goes, or gets another name, every project that a PUT    *)
(* could still be for is gone.                                              *)
LEMMA NameFreed ==
  ASSUME FInv, UNCHANGED <<remote, inFlight, cache, owned>>, mr # NoObject,
         Managed => Free(mr.externalName), pc' = "idle", mr' # NoObject => Clean(mr)'
  PROVE  Known' /\ BackedKept
<1>1. CopiesClean'
  BY DEF CopiesClean
<1>2. \A n, fields : Managed /\ Backed(n, fields) => Backed(n, fields)'
  BY DEF Backed, Free
<1>3. Managed => PutsBacked'
  BY <1>2 DEF FInv, Known, PutsBacked
<1> QED BY <1>1, <1>2, <1>3 DEF Known, Managed, BackedKept

(* Between two calls the reconciler keeps what is known of the fields.       *)
LEMMA RuntimeStepKnown ==
  ASSUME FInv, RuntimeStep
  PROVE  Known' /\ BackedKept
<1> USE DEF FInv, Known
<1>1. TypeOK /\ UNCHANGED <<growthbook, remote, inFlight>>
  BY DEF RuntimeStep, ReconcilerStep, growthbook
<1>2. CASE StartReconcile(TRUE)
  <2>1. /\ UNCHANGED <<mr, cache, owned>> /\ cr' = cache /\ cache # NoObject
        /\ crFresh' => cache = mr
        /\ pc' \in {"connect", "removeFinalizer"}
    BY <1>2 DEF StartReconcile, kubeVars, CopiesAgree
  <2>2. CopiesClean'
    BY <2>1 DEF CopiesClean, Clean, InitOnly
  <2>3. ASSUME Managed PROVE PutsBacked'
    BY <1>1, <2>1, <2>3 DEF PutsBacked, Backed, Free, Unowned
  <2> QED BY <1>1, <2>1, <2>2, <2>3, BackedUnseen DEF Managed
<1>3. ASSUME pc # "idle", NEW object \in Resources
      PROVE  LET stored == WithSpec(object, cr.forProvider) IN
             /\ stored \in Resources /\ stored.externalName = object.externalName
             /\ stored.finalizer = object.finalizer /\ stored.initProvider = object.initProvider
             /\ stored.forProvider = cr.forProvider
  BY <1>1, <1>3, ResourceCopies DEF WithSpec, Resources, Things, Objects
<1>4. CASE AddFinalizer(cr.forProvider)
  <2> DEFINE object == [cr EXCEPT !.finalizer = TRUE]
             next   == AfterFinalizer(obs)
  <2>1. pc = "addFinalizer" /\ cr \in Resources
    BY <1>1, <1>4, ResourceCopies DEF AddFinalizer
  <2>2. /\ object \in Resources /\ object.externalName = cr.externalName
        /\ object.forProvider = cr.forProvider /\ object.initProvider = cr.initProvider
        /\ object.finalizer
    BY <2>1 DEF Resources, Things, Objects
  <2>3. ClientUpdate(object, WithSpec(object, cr.forProvider), next)
    BY <1>4 DEF AddFinalizer
  <2>4. next \notin {"connect", "observe"}
    BY DEF AfterFinalizer, AfterLateInit
  <2> HIDE DEF object, next, FInv, Known
  <2> QED BY <1>1, <1>3, <2>1, <2>2, <2>3, <2>4, ClientUpdateKnown
<1>5. CASE MarkPending(cr.forProvider)
  <2> DEFINE object == [cr EXCEPT !.create = "pending"]
  <2>1. pc = "markPending" /\ cr \in Resources
    BY <1>1, <1>5, ResourceCopies DEF MarkPending
  <2>2. /\ object \in Resources /\ object.externalName = cr.externalName
        /\ object.forProvider = cr.forProvider /\ object.initProvider = cr.initProvider
        /\ object.finalizer = cr.finalizer
    BY <2>1 DEF Resources, Things, Objects
  <2>3. ClientUpdate(object, WithSpec(object, cr.forProvider), "create")
    BY <1>5 DEF MarkPending
  <2> HIDE DEF object, FInv, Known
  <2> QED BY <1>1, <1>3, <2>1, <2>2, <2>3, ClientUpdateKnown
<1>6. CASE SaveLateInit(cr.forProvider)
  <2> DEFINE next == AfterLateInit(obs)
  <2>1. pc = "lateInit" /\ cr \in Resources
    BY <1>1, <1>6, ResourceCopies DEF SaveLateInit
  <2>2. ClientUpdate(cr, WithSpec(cr, cr.forProvider), next)
    BY <1>6 DEF SaveLateInit
  <2>3. next \notin {"connect", "observe"}
    BY DEF AfterLateInit
  <2>4. Managed => cr.finalizer
    BY <2>1 DEF PutsBacked
  <2> HIDE DEF next, FInv, Known
  <2> QED BY <1>1, <1>3, <2>1, <2>2, <2>3, <2>4, ClientUpdateKnown
<1>7. CASE RemoveFinalizer
  <2>1. /\ pc = "removeFinalizer" /\ pc' = "idle" /\ UNCHANGED <<cache, owned>>
    BY <1>7 DEF RemoveFinalizer, ClientUpdate, Continue, EndReconcile
  <2>2. CASE UNCHANGED <<mr, cacheFresh>>
    <3>1. UNCHANGED kubeVars
      BY <1>7, <2>2 DEF RemoveFinalizer, ClientUpdate, kubeVars
    <3> QED BY <1>1, <2>1, <3>1, NothingMoves, RemoteKnown
  <2>3. CASE mr' = NoObject /\ crFresh /\ mr # NoObject
    <3>1. Managed => Free(mr.externalName)
      BY <2>1, <2>3 DEF CopiesAgree, Protocol, OnTheWay, Managed
    <3> QED BY <1>1, <2>1, <2>3, <3>1, NameFreed
  <2> QED BY <1>7, <2>2, <2>3 DEF RemoveFinalizer, ClientUpdate
<1>8. CASE RecordCreation
  <2>1. /\ pc' = "idle" /\ UNCHANGED <<cache, owned>> /\ pc \in Creating
        /\ mr # NoObject /\ mr \in Resources
    BY <1>1, <1>8, ResourceCopies DEF RecordCreation, EndReconcile, Creating
  <2>2. mr'.forProvider = mr.forProvider /\ mr'.initProvider = mr.initProvider
    BY <1>8, <2>1 DEF RecordCreation, Resources, Things, Objects
  <2>3. Clean(mr)'
    BY <2>1, <2>2 DEF CopiesClean, Clean, InitOnly
  <2>4. Free(mr.externalName)
    BY <2>1 DEF Protocol
  <2> QED BY <1>1, <2>1, <2>3, <2>4, NameFreed
<1> QED BY <1>2, <1>4, <1>5, <1>6, <1>7, <1>8 DEF RuntimeStep, ReconcilerStep
-----------------------------------------------------------------------------
(* The controller's calls.                                                  *)

(* Late initialization only adds a field, and none that initProvider has     *)
(* (convert.go lateInitialize).                                             *)
LEMMA LateInitAdds ==
  ASSUME NEW p \in ProjectParameters, NEW ip \in ProjectInitParameters, NEW ext
  PROVE  LET adopted == lateInitialize(p, ip, ext) IN
         /\ \A f \in DOMAIN ZeroProject : p[f] # Nil => adopted[f] # Nil
         /\ \A f \in DOMAIN ZeroProject : ip[f] # Nil => adopted[f] = p[f]
         /\ ~lateInitializes(p, ip, ext) => adopted = p
BY DEF lateInitialize, lateInitializes, ProjectParameters, ZeroProject

(* An observation that is taken over may add fields to the copy in memory.   *)
LEMMA ObservedKnown ==
  ASSUME FInv, pc = "observe", NEW o, NEW p \in ProjectParameters,
         Observed(o, p), UNCHANGED growthbook,
         \A f \in DOMAIN ZeroProject : cr.forProvider[f] # Nil => p[f] # Nil,
         \A f \in DOMAIN ZeroProject : cr.initProvider[f] # Nil => p[f] = cr.forProvider[f],
         ~o.lateInit => p = cr.forProvider
  PROVE  Known' /\ BackedKept
<1> USE DEF FInv, Known
<1> DEFINE step == AfterObserve(o)
<1>1. TypeOK /\ UNCHANGED <<kubeVars, mr, cache, owned, remote, inFlight>> /\ OnlyMoves(Nil)
  BY NothingMoves DEF Observed, kubeVars, growthbook
<1>2. CASE step = "idle"
  <2>1. pc' = "idle"
    BY <1>2 DEF Observed, Continue, EndReconcile
  <2> QED BY <1>1, <2>1, RemoteKnown
<1>3. CASE step # "idle"
  <2>1. pc' = step /\ crFresh' = crFresh /\ cr' = [cr EXCEPT !.forProvider = p]
    BY <1>3 DEF Observed, Continue
  <2>2. cr \in Resources
    BY <1>1, ResourceCopies
  <2>3. /\ cr'.externalName = cr.externalName /\ cr'.finalizer = cr.finalizer
        /\ cr'.initProvider = cr.initProvider /\ cr'.forProvider = p
    BY <2>1, <2>2 DEF Resources, Things, Objects
  <2>4. /\ DOMAIN cr.forProvider = DOMAIN ZeroProject
        /\ DOMAIN p = DOMAIN ZeroProject
    BY <1>1, <2>2, FieldsOf
  <2>5. step \notin {"connect", "observe"} /\ (step = "update" /\ Managed => ~o.lateInit)
        /\ (step \in {"update", "lateInit"} => cr.finalizer)
    BY DEF AfterObserve, AfterFinalizer, AfterLateInit, Managed
  <2>6. Clean(cr) => Clean(cr)'
    BY <1>1, <2>3, <2>4 DEF Clean, InitOnly
  <2>7. CopiesClean'
    BY <1>1, <2>1, <2>3, <2>6 DEF CopiesClean, Clean, InitOnly
  <2> HIDE DEF step
  <2>8. ASSUME Managed PROVE PutsBacked'
    <3>1. cache # NoObject /\ cache.finalizer => Backed(cache.externalName, cache.forProvider)'
      BY <1>1, <2>8 DEF PutsBacked, Backed, Free, Unowned
    <3>2. \A q \in inFlight' : q.verb = "PUT" => Backed(q.id, q.body)'
      BY <1>1, <2>8 DEF PutsBacked, Backed, Free, Unowned
    <3>3. step = "update" => Backed(cr.externalName, cr.forProvider)'
      BY <1>1, <2>3, <2>5, <2>8 DEF PutsBacked, Backed, Free, Unowned
    <3> QED BY <1>1, <2>1, <2>3, <2>5, <3>1, <3>2, <3>3 DEF PutsBacked
  <2> QED BY <1>1, <2>7, <2>8, BackedUnseen DEF Managed
<1> QED BY <1>2, <1>3

(* Observe adopts the slug of the project, and nothing else.                 *)
LEMMA ObserveKnown ==
  ASSUME FInv, Observe
  PROVE  Known' /\ BackedKept
<1> DEFINE id == cr.externalName
<1>1. TypeOK /\ pc = "observe" /\ UNCHANGED growthbook
  BY DEF FInv, Observe
<1>2. cr \in Resources /\ id \in Opt(Ids)
  BY <1>1, ResourceCopies
<1>3. cr.forProvider \in ProjectParameters /\ cr.initProvider \in ProjectInitParameters
  BY <1>2 DEF Resources, Things, Objects
<1>4. CASE Observed(NoObservation, cr.forProvider)
  BY <1>1, <1>3, <1>4, ObservedKnown
<1>5. CASE NotObserved
  <2>1. pc' = "idle" /\ UNCHANGED <<kubeVars, remote, inFlight>>
    BY <1>1, <1>5 DEF NotObserved, EndReconcile, growthbook
  <2> QED BY <1>1, <2>1, NothingMoves, RemoteKnown
<1>6. ASSUME id # Nil, NEW r \in Answers(id), ~IsNotFound(r), ~Fails(r, TRUE),
             ObserveReply(r, IF r.body = "object" THEN remote[id] ELSE ZeroProject)
      PROVE  Known' /\ BackedKept
  <2> DEFINE ext == IF r.body = "object" THEN remote[id] ELSE ZeroProject
             p   == lateInitialize(cr.forProvider, cr.initProvider, ext)
             o   == [exists   |-> TRUE,
                     upToDate |-> isUpToDate(p, ext),
                     lateInit |-> lateInitializes(cr.forProvider, cr.initProvider, ext)]
  <2>1. id \in Ids /\ ZeroProject \in Projects
    BY <1>2, <1>6 DEF Opt, ZeroProject, Projects
  <2>2. p \in ProjectParameters
    BY <1>1, <1>3, <1>6, <2>1, TypeParts, ShownIsLive, LateInitTyped
  <2>3. Observed(o, p)
    BY <1>6 DEF ObserveReply
  <2>4. o.lateInit = lateInitializes(cr.forProvider, cr.initProvider, ext)
    OBVIOUS
  <2> HIDE DEF o, ext
  <2> QED BY <1>1, <1>3, <2>2, <2>3, <2>4, LateInitAdds, ObservedKnown
<1> QED BY <1>4, <1>5, <1>6 DEF Observe, ObserveReply

(* Create fills in initProvider for its request only.                        *)
LEMMA CreateKnown ==
  ASSUME FInv, Create
  PROVE  Known' /\ BackedKept
<1> USE DEF FInv, Known
<1> DEFINE q == Request("POST", Nil, createRequest(cr.forProvider, cr.initProvider))
           p == mergeInitProvider(cr.forProvider, cr.initProvider)
<1>1. TypeOK /\ pc = "create" /\ UNCHANGED <<mr, cache, owned>> /\ cr \in Resources
  BY ResourceCopies DEF Create, kubeVars
<1>2. \E name : \/ Returned("recordCreated", name)
               \/ Returned("recordFailed", name)
  BY DEF Create, CreateServed
<1>3. /\ pc' \in {"recordCreated", "recordFailed"} /\ crFresh' = crFresh
      /\ cr'.forProvider = cr.forProvider /\ cr'.initProvider = cr.initProvider
  BY <1>1, <1>2 DEF Returned, Resources, Things, Objects
<1>4. CopiesClean'
  BY <1>1, <1>3 DEF CopiesClean, Clean, InitOnly
<1>5. \E id : OnlyMoves(id)
  <2>1. CASE UNCHANGED remote
    BY <1>1, <2>1, NothingMoves
  <2>2. ASSUME NEW r, NEW id \in Ids, CreateServed(q, r, id), ~requestFails(p)
        PROVE  OnlyMoves(id)
    <3>1. q \in Requests /\ q.verb = "POST" /\ id \in Opt(Ids)
      BY <1>1, <2>2, RequestsAreTyped DEF Request, Opt
    <3>2. Makes(Projects, id)
      BY <1>1, <2>2, <3>1, TypeParts, ServeForms DEF CreateServed
    <3> QED BY <1>1, <3>2, TypeParts, ProjectIsSound, MakesMoves
  <2> QED BY <2>1, <2>2 DEF Create, NotServed, growthbook
<1>6. \A u \in inFlight' \ inFlight : u.verb = "POST"
  <2>1. inFlight' \subseteq inFlight \cup {q}
    BY DEF Create, CreateServed, NotServed, growthbook
  <2> QED BY <2>1 DEF Request
<1>7. ASSUME Managed PROVE PutsBacked'
  <2>1. \A u \in inFlight' : u.verb = "PUT" => Backed(u.id, u.body)'
    BY <1>1, <1>5, <1>6, <1>7, BackedStays, FieldsOf DEF PutsBacked
  <2>2. cache # NoObject /\ cache.finalizer => Backed(cache.externalName, cache.forProvider)'
    BY <1>1, <1>5, <1>7, BackedStays, FieldsOf, ResourceCopies DEF PutsBacked
  <2> QED BY <1>1, <1>3, <2>1, <2>2 DEF PutsBacked
<1>8. BackedKept
  BY <1>1, <1>5, BackedStays DEF BackedKept
<1> QED BY <1>4, <1>7, <1>8 DEF Managed

(* Update sends nothing that the copy in memory leaves unset.                *)
LEMMA SentIsBacked ==
  ASSUME FInv, Managed, pc = "update"
  PROVE  Backed(cr.externalName, request(cr.forProvider))
<1>1. TypeOK
  BY DEF FInv
<1>2. cr \in Resources
  BY <1>1, ResourceCopies
<1>3. Backed(cr.externalName, cr.forProvider)
  BY DEF FInv, Known, PutsBacked
<1>4. \A f \in DOMAIN ZeroProject :
        request(cr.forProvider)[f] # Nil => cr.forProvider[f] # Nil
  BY <1>2 DEF request, Resources, Things, Objects, ProjectParameters, ZeroProject
<1> QED BY <1>3, <1>4 DEF Backed, Unowned

(* Update sends what the copy in memory has, Delete sends nothing.           *)
LEMMA CallKnown ==
  ASSUME FInv, Update \/ Delete
  PROVE  Known' /\ BackedKept
<1>1. TypeOK /\ UNCHANGED kubeVars /\ pc' = "idle" /\ OnlyMoves(Nil)
  BY CallMoves, TypeParts DEF FInv, Update, Delete, EndReconcile
<1>2. ASSUME NEW q \in inFlight' \ inFlight, q.verb = "PUT", Managed
      PROVE  q.id \in Opt(Ids) /\ Backed(q.id, q.body)
  <2>1. pc = "update" /\ q = Request("PUT", cr.externalName, request(cr.forProvider))
    <3>1. CASE Update
      BY <1>2, <3>1 DEF Update, Exchange, NotServed
    <3>2. CASE Delete
      <4>1. q = Request("DELETE", cr.externalName, Nil)
        BY <1>2, <3>2 DEF Delete, Exchange, NotServed
      <4> QED BY <1>2, <4>1 DEF Request
    <3> QED BY <3>1, <3>2
  <2>2. cr.externalName \in Opt(Ids)
    BY <1>1, <2>1, ResourceCopies
  <2> QED BY <1>2, <2>1, <2>2, SentIsBacked DEF Request
<1> QED BY <1>1, <1>2, RemoteKnown

(* Connect only gets the reconcile on, or ends it.                           *)
LEMMA ConnectKnown ==
  ASSUME FInv, Connect
  PROVE  Known' /\ BackedKept
<1>1. TypeOK /\ UNCHANGED <<kubeVars, growthbook>> /\ pc = "connect"
  BY DEF FInv, Connect
<1>2. CASE pc' = "observe" /\ UNCHANGED <<cr, crFresh>>
  <2>1. BackedKept
    BY <1>1, BackedUnseen DEF kubeVars, growthbook
  <2>2. Known'
    BY <1>1, <1>2 DEF FInv, Known, CopiesClean, Clean, InitOnly, PutsBacked, Backed, Free,
       Unowned, Managed, kubeVars, growthbook
  <2> QED BY <2>1, <2>2
<1>3. CASE pc' = "idle"
  BY <1>1, <1>3, NothingMoves, RemoteKnown DEF growthbook
<1> QED BY <1>2, <1>3 DEF Connect, EndReconcile
-----------------------------------------------------------------------------
(* Everybody else.                                                          *)

(* Users make no copy stale that was not, set fields for good, and start     *)
(* again only when the provider has let go of every project.                 *)
LEMMA UsersKnown ==
  ASSUME FInv, Users, UNCHANGED growthbook
  PROVE  Known' /\ BackedKept
<1> USE DEF FInv, Known
<1>1. TypeOK /\ UNCHANGED <<remote, inFlight, cache, pc, cr>> /\ ~crFresh'
  BY DEF growthbook, Users, UserChange, UserDelete, UserEdit, UserCreate, ForeignWrite
<1>2. (\E n, fields : Backed(n, fields) /\ ~Free(n)) => mr # NoObject /\ mr.finalizer
  BY DEF Backed
<1>3. ASSUME owned \subseteq owned', mr' # NoObject => Clean(mr)',
             \A n, fields : Backed(n, fields) => Backed(n, fields)'
      PROVE  Known' /\ BackedKept
  BY <1>1, <1>3 DEF CopiesClean, PutsBacked, Managed, BackedKept
<1>4. CASE UserDelete
  <2>1. mr # NoObject /\ mr \in Resources /\ UNCHANGED owned
    BY <1>1, <1>4, ResourceCopies DEF UserDelete
  <2>2. IF mr.finalizer
        THEN /\ mr' # NoObject
             /\ mr'.forProvider = mr.forProvider /\ mr'.initProvider = mr.initProvider
             /\ mr'.externalName = mr.externalName /\ mr'.finalizer = mr.finalizer
        ELSE mr' = NoObject
    <3> DEFINE object == [mr EXCEPT !.deleting = TRUE]
    <3>1. /\ object \in Resources /\ object # NoObject
          /\ object.forProvider = mr.forProvider /\ object.initProvider = mr.initProvider
          /\ object.externalName = mr.externalName /\ object.finalizer = mr.finalizer
      BY <2>1, ResourceIsThere DEF Resources, Things, Objects
    <3> HIDE DEF object
    <3>2. mr' = IF mr.finalizer THEN object ELSE NoObject
      BY <1>4 DEF UserDelete, ForeignWrite, object
    <3> QED BY <3>1, <3>2
  <2>3. mr' # NoObject => Clean(mr)'
    BY <2>1, <2>2 DEF CopiesClean, Clean, InitOnly
  <2>4. \A n, fields : Backed(n, fields) => Backed(n, fields)'
    BY <1>1, <2>1, <2>2 DEF Backed, Free, Unowned
  <2> QED BY <1>3, <2>1, <2>3, <2>4
<1>5. CASE \E e \in Edits : UserEdit(e.field, e.to)
  <2>1. PICK e \in Edits : UserEdit(e.field, e.to)
    BY <1>5
  <2>2. mr # NoObject /\ mr \in Resources /\ owned' = owned \cup {e.field}
    BY <1>1, <2>1, ResourceCopies DEF UserEdit
  <2>3. mr.forProvider \in ProjectParameters /\ e.field \in DOMAIN ZeroProject
    BY <2>2, InputsAssumption DEF Resources, Things, Objects
  <2> DEFINE p == [mr.forProvider EXCEPT ![e.field] = e.to]
  <2>4. /\ p \in ProjectParameters
        /\ \A f \in DOMAIN mr.forProvider \ {e.field} : p[f] = mr.forProvider[f]
    BY <2>3, InputsAssumption
  <2>5. DOMAIN mr.forProvider = DOMAIN ZeroProject /\ DOMAIN p = DOMAIN ZeroProject
    BY <1>1, <2>3, <2>4, FieldsOf
  <2> HIDE DEF p
  <2>6. mr' = [mr EXCEPT !.forProvider = p]
    BY <2>1 DEF UserEdit, ForeignWrite, p
  <2>7. /\ mr' # NoObject /\ mr'.forProvider = p /\ mr'.initProvider = mr.initProvider
        /\ mr'.externalName = mr.externalName /\ mr'.finalizer = mr.finalizer
    BY <2>2, <2>4, <2>6, ResourceIsThere DEF Resources, Things, Objects
  <2>8. Clean(mr)'
    BY <2>2, <2>4, <2>5, <2>7 DEF CopiesClean, Clean, InitOnly
  <2>9. \A n, fields : Backed(n, fields) => Backed(n, fields)'
    BY <1>1, <2>2, <2>4, <2>5, <2>7 DEF Backed, Free, Unowned
  <2> QED BY <1>3, <2>2, <2>8, <2>9
<1>6. CASE \E s \in Specs : UserCreate(NewObject(s.forProvider, s.initProvider, Nil))
  <2>1. PICK s \in Specs : UserCreate(NewObject(s.forProvider, s.initProvider, Nil))
    BY <1>6
  <2>2. /\ mr = NoObject /\ owned' = SetFields(s.forProvider)
        /\ mr'.forProvider = s.forProvider
    BY <2>1 DEF UserCreate, ForeignWrite, NewObject
  <2>3. Clean(mr)'
    BY <2>2 DEF Clean, InitOnly, SetFields
  <2>4. \A n, fields : Backed(n, fields) => Backed(n, fields)'
    BY <1>1, <2>2 DEF Backed, Free
  <2> QED BY <1>1, <2>3, <2>4 DEF CopiesClean, PutsBacked, Managed, BackedKept
<1> QED BY <1>4, <1>5, <1>6 DEF Users, UserChange

(* The informer catches up with what the API server has.                     *)
LEMMA ClockKnown ==
  ASSUME FInv, CacheSync \/ GraceEnds, UNCHANGED growthbook
  PROVE  Known' /\ BackedKept
<1>1. /\ UNCHANGED <<mr, pc, cr, crFresh, remote, inFlight, owned>>
      /\ UNCHANGED cache \/ cache' = mr
  BY DEF CacheSync, GraceEnds, workerVars, growthbook
<1>2. CopiesClean'
  BY <1>1 DEF FInv, Known, CopiesClean, Clean, InitOnly
<1>3. Managed => PutsBacked'
  BY <1>1 DEF FInv, Known, PutsBacked, Backed, Free, Unowned
<1> QED BY <1>1, <1>2, <1>3, BackedUnseen DEF Known, Managed
-----------------------------------------------------------------------------
(* What is known stays known.                                               *)
LEMMA KnownNext == FInv /\ [Next]_vars => Known' /\ BackedKept
<1> SUFFICES ASSUME FInv, [Next]_vars PROVE Known' /\ BackedKept
  OBVIOUS
<1>1. TypeOK
  BY DEF FInv
<1>2. CASE Worker
  BY <1>2, RuntimeStepKnown, ConnectKnown, ObserveKnown, CreateKnown, CallKnown DEF Worker
<1>3. CASE Others
  <2>1. CASE CrashStep
    <3>1. pc' = "idle" /\ UNCHANGED <<kubeVars, remote, inFlight>>
      BY <2>1 DEF CrashStep, Crash, EndReconcile
    <3> QED BY <1>1, <3>1, NothingMoves, RemoteKnown
  <2>2. ASSUME NEW id \in Ids,
               OutOfBandDelete(id) \/ \E e \in OutOfBand : OutOfBandEdit(id, e)
        PROVE  Known' /\ BackedKept
    <3>1. UNCHANGED <<kubeVars, workerVars, inFlight>>
      BY <2>2 DEF OutOfBandDelete, OutOfBandEdit
    <3> QED BY <1>1, <2>2, <3>1, OutOfBandMoves, RemoteKnown
  <2>3. ASSUME NEW q \in inFlight, ServeLate(q)
        PROVE  Known' /\ BackedKept
    <3>1. UNCHANGED <<kubeVars, workerVars>> /\ inFlight' \subseteq inFlight
      BY <2>3 DEF ServeLate, runtimeVars
    <3> QED BY <1>1, <2>3, <3>1, LateMoves, RemoteKnown
  <2> QED BY <1>3, <2>1, <2>2, <2>3, UsersKnown, ClockKnown DEF Others, Kubernetes
<1>4. CASE UNCHANGED vars
  <2>1. UNCHANGED <<kubeVars, workerVars, remote, inFlight>>
    BY <1>4 DEF vars, growthbook, runtimeVars
  <2> QED BY <1>1, <2>1, NothingMoves, RemoteKnown
<1> QED BY <1>2, <1>3, <1>4 DEF Next

(* The strengthened invariant holds of every behaviour.                     *)
LEMMA FieldsInvariant == Spec => []FInv
<1>1. Init => Known
  BY KnownInit
<1>2. IInv /\ Known => FInv
  BY DEF IInv, Safe, FInv
<1>3. IInv /\ Known /\ [Next]_vars => Known'
  BY <1>2, KnownNext
<1> QED BY <1>1, <1>2, <1>3, Invariant, PTL DEF Spec

(* What users only put in initProvider is not written back into forProvider  *)
(* by any save of a copy, however stale it was when it was read              *)
(* (convert.go lateInitialize, project.go Observe).                          *)
THEOREM InitOnlyStaysOut == Spec => []InitOnlyNeverAdopted
<1>1. FInv => InitOnlyNeverAdopted
  BY DEF FInv, Known, CopiesClean, Clean, InitOnlyNeverAdopted
<1> QED BY <1>1, FieldsInvariant, PTL
-----------------------------------------------------------------------------
(* What a PUT leaves alone.                                                 *)

(* No field of a live project changes that the resource leaves unset.        *)
UnsetKept ==
  \A id \in Ids : Live(id) /\ Live(id)' /\ mr # NoObject =>
    \A f \in Unowned : mr.forProvider[f] = Nil => remote'[id][f] = remote[id][f]

(* A PUT that is backed keeps to it.                                        *)
LEMMA PutKeepsUnset ==
  ASSUME TypeOK, NEW n, NEW fields, Put(n, fields), Backed(n, fields)
  PROVE  UnsetKept
<1> SUFFICES ASSUME NEW id \in Ids, Live(id), mr # NoObject, NEW f \in Unowned,
                    mr.forProvider[f] = Nil
             PROVE  remote'[id][f] = remote[id][f]
  BY DEF UnsetKept
<1>1. CASE id # n \/ ~Live(n)
  BY <1>1, TypeParts DEF Put, RemoteTyped
<1>2. CASE id = n /\ Live(n)
  <2>1. fields[f] = Nil
    BY <1>2, IdsAssumption DEF Backed, Free, Live
  <2>2. remote'[id] = Overlay(remote[id], fields)
    BY <1>2, TypeParts DEF Put, RemoteTyped
  <2>3. f \in DOMAIN remote[id]
    BY <1>2, TypeParts DEF RemoteTyped, Live, Unowned, Projects, ZeroProject
  <2> QED BY <2>1, <2>2, <2>3 DEF Overlay
<1> QED BY <1>1, <1>2

(* A late request changes a live project only when it is a PUT.              *)
LEMMA LateKeepsUnset ==
  ASSUME FInv, Managed, NEW q \in inFlight, ServeLate(q)
  PROVE  UnsetKept
<1>1. TypeOK
  BY DEF FInv
<1>2. PICK id \in IF q.verb = "POST" THEN Ids ELSE {q.id} : Serve(q, id)
  BY DEF ServeLate
<1>3. q.verb \in {"POST", "PUT", "DELETE"}
  BY <1>1, TypeParts DEF RemoteTyped, Requests, RequestsWith
<1>4. CASE q.verb = "POST"
  BY <1>1, <1>2, <1>4, TypeParts DEF Serve, Post, PostAs, RemoteTyped, UnsetKept, Live
<1>5. CASE q.verb = "PUT"
  <2>1. Put(q.id, q.body) /\ Backed(q.id, q.body)
    BY <1>2, <1>5 DEF Serve, FInv, Known, PutsBacked
  <2> QED BY <1>1, <2>1, PutKeepsUnset
<1>6. CASE q.verb = "DELETE"
  BY <1>1, <1>2, <1>6, TypeParts DEF Serve, Remove, RemoteTyped, UnsetKept, Live
<1> QED BY <1>3, <1>4, <1>5, <1>6

(* Nothing that a step of the reconcile, or a late request, sends takes a     *)
(* field that is to be left alone.                                           *)
LEMMA StepKeepsUnset ==
  ASSUME FInv, Next, PutServed, Managed
  PROVE  UnsetKept
<1>1. TypeOK
  BY DEF FInv
<1>2. CASE UNCHANGED remote
  BY <1>1, <1>2 DEF UnsetKept
<1>3. CASE Update
  <2>1. CASE Put(cr.externalName, request(cr.forProvider))
    BY <1>1, <1>3, <2>1, SentIsBacked, PutKeepsUnset DEF Update
  <2>2. Put(cr.externalName, request(cr.forProvider)) \/ UNCHANGED remote
    BY <1>3 DEF Update, Exchange, NotServed, Serve, Request
  <2> QED BY <1>2, <2>1, <2>2
<1>4. CASE Delete
  <2>1. Remove(cr.externalName) \/ UNCHANGED remote
    BY <1>4 DEF Delete, Exchange, NotServed, Serve, Request
  <2> QED BY <1>1, <1>2, <2>1, TypeParts DEF Remove, RemoteTyped, UnsetKept, Live
<1>5. CASE Create
  <2>1. UNCHANGED remote \/ \E id, body : Post(id, body)
    BY <1>5 DEF Create, CreateServed, NotServed, Serve, Request, growthbook
  <2> QED BY <1>1, <1>2, <2>1, TypeParts DEF Post, PostAs, RemoteTyped, UnsetKept, Live
<1>6. ASSUME NEW q \in inFlight, ServeLate(q) PROVE UnsetKept
  BY <1>6, LateKeepsUnset
<1>7. CASE \E id \in Ids : OutOfBandDelete(id) \/ \E e \in OutOfBand : OutOfBandEdit(id, e)
  BY <1>7 DEF PutServed, OutOfBandDelete, OutOfBandEdit, workerVars
<1>8. CASE RuntimeStep \/ Connect \/ Observe \/ CrashStep \/ Kubernetes
  BY <1>2, <1>8 DEF RuntimeStep, ReconcilerStep, Connect, Observe, CrashStep, Kubernetes,
     growthbook
<1> QED BY <1>3, <1>4, <1>5, <1>6, <1>7, <1>8 DEF Next, Worker, Others

(* "Unset optional fields are left to GrowthBook": as long as the provider    *)
(* deletes what it lets go of and saves what it adopts, no PUT, on time or    *)
(* late, from the latest copy or from a stale one, of this resource or of an  *)
(* earlier one of its name, sets a field that users always left unset         *)
(* (convert.go request, project.go Update).                                  *)
THEOREM UnsetStaysUnset == Spec => UnsetLeftAlone
<1>1. FInv /\ [Next]_vars
        => [PutServed /\ Managed => UnsetKept]_vars
  BY StepKeepsUnset
<1> QED BY <1>1, FieldsInvariant, PTL DEF Spec, UnsetLeftAlone, Managed, UnsetKept, Unowned
-----------------------------------------------------------------------------
(* Two processes: what the one that looks on knows of the fields, while the   *)
(* other takes a step.                                                      *)

(* Only users change what they own, and with nothing else about the object    *)
(* they can only add to it.                                                 *)
LEMMA OwnedGrows ==
  ASSUME TypeOK, ProjectStep, UNCHANGED mr
  PROVE  owned \subseteq owned'
<1>1. CASE ~UNCHANGED owned
  <2>1. Users
    BY <1>1, OwnedStays DEF ProjectStep
  <2>2. \A s \in Specs : NewObject(s.forProvider, s.initProvider, Nil) # NoObject
    BY ProjectIsSound, NewTyped DEF Opt
  <2>3. \A s \in Specs : ~UserCreate(NewObject(s.forProvider, s.initProvider, Nil))
    BY <2>2 DEF UserCreate, ForeignWrite
  <2> QED BY <2>1, <2>3 DEF Users, UserChange, UserDelete, UserEdit
<1> QED BY <1>1

LEMMA LooksOnKnown ==
  ASSUME FInv, LooksOn, BackedKept, UNCHANGED mr => owned \subseteq owned',
         mr' # NoObject => Clean(mr)',
         Managed => \A q \in inFlight' : q.verb = "PUT" => Backed(q.id, q.body)'
  PROVE  Known'
<1> USE DEF FInv, Known, LooksOn
<1>1. CopiesClean'
  BY DEF CopiesClean, Clean, InitOnly
<1>2. ASSUME Managed PROVE PutsBacked'
  <2>1. cache # NoObject => cache.externalName \in Opt(Ids)
    BY ResourceCopies
  <2>2. pc # "idle" => cr.externalName \in Opt(Ids)
    BY ResourceCopies
  <2> QED BY <1>2, <2>1, <2>2 DEF PutsBacked, BackedKept
<1> QED BY <1>1, <1>2 DEF Managed
=============================================================================
