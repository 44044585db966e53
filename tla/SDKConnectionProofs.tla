------------------------- MODULE SDKConnectionProofs -------------------------
(***************************************************************************)
(* What holds of SDKConnection for any ids, declarations, faults and bounds. *)
(* Its steps are of the forms of AssignedProofs, so that the types, the      *)
(* safety invariant and the refinement hold of it as they do of Project.     *)
(* What it adds is the connection secret, which never shows another          *)
(* connection than the one the resource names, and that no PUT sets what     *)
(* users never set in forProvider.                                          *)
(***************************************************************************)
EXTENDS SDKConnection, AssignedProofs

(* What is written is well formed again, to GrowthBook and into the spec     *)
(* (convert.go request, and the omitempty of SDKConnectionParameters).       *)
LEMMA WrittenTyped ==
  ASSUME NEW p \in SDKConnectionParameters
  PROVE  request(p) \in SDKConnectionParameters /\ MarshalParameters(p) \in SDKConnectionParameters
BY DEF request, MarshalParameters, OmitEmpty, SDKConnectionParameters, Opt

(* Filling in initProvider gives the parameters of a connection again.       *)
LEMMA MergeTyped ==
  ASSUME NEW p \in SDKConnectionParameters, NEW ip \in SDKConnectionInitParameters
  PROVE  mergeInitProvider(p, ip) \in SDKConnectionParameters
BY DEF mergeInitProvider, SDKConnectionParameters, SDKConnectionInitParameters, Opt

(* The members of a request go by the fields of the object.                  *)
LEMMA MembersAre ==
  ASSUME NEW body \in SDKConnectionParameters
  PROVE  /\ DOMAIN Members(body) = DOMAIN ZeroConnection
         /\ Members(body).languages = {body.language}
         /\ \A f \in DOMAIN ZeroConnection \ {"languages"} : Members(body)[f] = body[f]
BY DEF Members, ZeroConnection

(* What GrowthBook stores after a write is a connection again.               *)
LEMMA OverlayTyped ==
  ASSUME NEW base \in SDKConnections, NEW body \in SDKConnectionParameters
  PROVE  Overlay(base, Members(body)) \in SDKConnections
<1> DEFINE m == Members(body)
<1>1. /\ DOMAIN base = DOMAIN m
      /\ m.name = body.name /\ m.languages = {body.language}
      /\ m.environment = body.environment /\ m.projects = body.projects
      /\ m.proxyHost = body.proxyHost /\ m.encryptPayload = body.encryptPayload
      /\ m.includeRuleIds = body.includeRuleIds
  BY MembersAre DEF SDKConnections, ZeroConnection
<1> HIDE DEF m
<1>2. Overlay(base, m) \in SDKConnections
  BY <1>1 DEF Overlay, SDKConnections, SDKConnectionParameters, Opt
<1> QED BY <1>2 DEF m

(* A connection without anything is one, and so is one that was set up in    *)
(* GrowthBook.                                                              *)
LEMMA ZeroTyped ==
  /\ ZeroConnection \in SDKConnections
  /\ \A name \in Names : \A languages \in SUBSET Languages : \A env \in Environments :
       [ZeroConnection EXCEPT !.name = name, !.languages = languages, !.environment = env]
         \in SDKConnections
BY DEF ZeroConnection, SDKConnections, Opt

(* What is published of a connection, or of none, is a secret's data.        *)
LEMMA DetailsTyped ==
  /\ NoDetails \in ConnectionDetails /\ NoDetails.key = Nil
  /\ \A id \in Opt(Ids) : \A sc \in SDKConnections :
       connectionDetails(id, sc) \in ConnectionDetails /\ connectionDetails(id, sc).key = id
  /\ \A old \in ConnectionDetails : \A ds \in ConnectionDetails :
       /\ Overlay(old, ds) \in ConnectionDetails
       /\ Overlay(old, ds).key = IF ds.key = Nil THEN old.key ELSE ds.key
BY DEF NoDetails, ConnectionDetails, connectionDetails, Overlay, SDKConnections, Opt
-----------------------------------------------------------------------------
(* The steps of SDKConnection.                                              *)

Resources == Things(SDKConnectionParameters, SDKConnectionInitParameters)
Requests == RequestsWith(SDKConnectionParameters)

ConnectionStep == AssignedStep(SDKConnectionParameters, SDKConnections, SDKConnectionParameters)

(* The constants of SDKConnection are what AssignedProofs asks for.          *)
LEMMA ConnectionIsSound ==
  Sound(SDKConnectionParameters, SDKConnectionInitParameters, SDKConnections)
BY ConnectionsAssumption, InputsAssumption DEF Sound, Things

(* What the type invariant says of each part of the state.                   *)
LEMMA TypeParts ==
  ASSUME TypeOK
  PROVE  /\ CopiesOK(SDKConnectionParameters, SDKConnectionInitParameters)
         /\ KubeOK(SDKConnectionParameters, SDKConnectionInitParameters)
         /\ WorkerOK(SDKConnectionParameters, SDKConnectionInitParameters)
         /\ RemoteOK(SDKConnections, SDKConnectionParameters) /\ RemoteTyped(SDKConnections)
         /\ inFlight \subseteq Requests
         /\ details \in ConnectionDetails /\ secret \in ConnectionDetails
BY AssignedTypeParts, ConnectionsAssumption
   DEF TypeOK, CopiesOK, RemoteOK, RemoteTyped, Requests, Things

(* The copies of the resource, of which none is the absent one.              *)
LEMMA ResourceCopies ==
  ASSUME TypeOK
  PROVE  /\ \A o \in Resources : o # NoObject
         /\ pc # "idle" => cr \in Resources /\ obs \in Observations
                             /\ cr.forProvider \in SDKConnectionParameters
                             /\ cr.initProvider \in SDKConnectionInitParameters
                             /\ cr.externalName \in Opt(Ids)
         /\ mr # NoObject => mr \in Resources /\ mr.externalName \in Opt(Ids)
                               /\ mr.forProvider \in SDKConnectionParameters
         /\ cache # NoObject => cache \in Resources /\ cache.externalName \in Opt(Ids)
                                  /\ cache.forProvider \in SDKConnectionParameters
<1>1. /\ CopiesOK(SDKConnectionParameters, SDKConnectionInitParameters)
      /\ \A o \in Resources : /\ o.forProvider \in SDKConnectionParameters
                              /\ o.initProvider \in SDKConnectionInitParameters
  BY TypeParts DEF Resources, Things, Objects
<1> QED BY <1>1, Copies, ConnectionsAssumption DEF Resources, Things

(* What the reconciler has found in GrowthBook it knows by name.              *)
FoundNamed ==
  /\ pc = "publish" => obs.exists
  /\ \/ pc \in {"publish", "delete", "lateInit", "update"}
     \/ pc = "addFinalizer" /\ obs.exists
     => cr.externalName # Nil

(* Details in memory are of the connection the copy in memory names.          *)
DetailsNamed ==
  details.key = Nil
    \/ (pc \in {"publish", "recordCreated"} /\ details.key = cr.externalName)

(* A name that a stale copy has, and the resource has not, is used up.        *)
Follows(o) == o = NoObject \/ Free(o.externalName) \/ o.externalName = mr.externalName

NamesFollow ==
  mr # NoObject => Follows(cache) /\ (pc # "recordCreated" => Follows(cr))

(* The secret is of the connection the resource names, or of one that is gone.*)
KeyNamed ==
  secret.key = Nil
    \/ (mr # NoObject /\ (secret.key = mr.externalName \/ remote[secret.key] = Gone))

(* No copy and no PUT has a field that users never set.                      *)
Owned(p) == SetFields(p) \subseteq owned

FieldsOwned ==
  /\ \A o \in {mr, cache, cr} : o # NoObject => Owned(o.forProvider)
  /\ \A q \in inFlight : q.verb = "PUT" => Owned(q.body)

IInv ==
  /\ TypeOK /\ Safe
  /\ FoundNamed /\ DetailsNamed /\ NamesFollow /\ KeyNamed /\ FieldsOwned

(* Only a POST makes a connection, the one it is served as.                  *)
LEMMA ServeForms ==
  ASSUME RemoteTyped(SDKConnections), NEW q \in Requests, NEW id \in Opt(Ids), Serve(q, id)
  PROVE  /\ q.verb = "POST" => Makes(SDKConnections, id)
         /\ q.verb # "POST" => Changes(SDKConnections, id)
<1>1. CASE q.verb = "POST"
  <2>1. q.body \in SDKConnectionParameters
    BY <1>1 DEF Requests, RequestsWith
  <2>2. Overlay(ZeroConnection, Members(q.body)) \in SDKConnections
    BY <2>1, ZeroTyped, OverlayTyped
  <2> QED BY <1>1, <2>2 DEF Serve, Makes
<1>2. CASE q.verb = "PUT"
  <2>1. q.body \in SDKConnectionParameters /\ Put(id, Members(q.body))
    BY <1>2 DEF Requests, RequestsWith, Serve
  <2>2. \A sc \in SDKConnections : Overlay(sc, Members(q.body)) \in SDKConnections
    BY <2>1, OverlayTyped
  <2> QED BY <1>2, <2>1, <2>2, PutChanges
<1>3. CASE q.verb = "DELETE"
  BY <1>3, RemoveChanges DEF Serve
<1> QED BY <1>1, <1>2, <1>3 DEF Requests, RequestsWith

(* The same of one exchange that is no POST, whatever its answer.            *)
LEMMA ExchangeForms ==
  ASSUME TypeOK, NEW q \in Requests, NEW r, Exchange(q, r), q.verb # "POST"
  PROVE  inFlight' \subseteq Requests /\ \E id \in Opt(Ids) : Changes(SDKConnections, id)
<1>1. q.id \in Opt(Ids)
  BY DEF Requests, RequestsWith
<1>2. CASE Serve(q, q.id) /\ UNCHANGED inFlight
  BY <1>1, <1>2, TypeParts, ServeForms
<1>3. CASE NotServed(q, r)
  BY <1>1, <1>3, TypeParts, NotServedForms DEF Changes, Requests
<1> QED BY <1>2, <1>3 DEF Exchange

(* The requests of the controller are well formed.                           *)
LEMMA RequestsAreTyped ==
  ASSUME TypeOK, pc # "idle"
  PROVE  /\ Request("POST", Nil, createRequest(cr.forProvider, cr.initProvider)) \in Requests
         /\ Request("PUT", cr.externalName, request(cr.forProvider)) \in Requests
         /\ Request("DELETE", cr.externalName, Nil) \in Requests
<1>1. /\ createRequest(cr.forProvider, cr.initProvider) \in SDKConnectionParameters
      /\ request(cr.forProvider) \in SDKConnectionParameters
  BY ResourceCopies, MergeTyped, WrittenTyped DEF createRequest
<1> QED BY <1>1, TypeParts, RequestsTyped DEF Requests

(* The answer that shows an object is the one of a GrowthBook that has it.    *)
LEMMA ShownIsTyped ==
  ASSUME TypeOK, pc # "idle", cr.externalName # Nil, NEW r \in Answers(cr.externalName),
         ~IsNotFound(r), ~Fails(r, TRUE)
  PROVE  /\ (IF r.body = "object" THEN remote[cr.externalName] ELSE ZeroConnection)
              \in SDKConnections
         /\ Replied(r, cr.externalName) \in {Nil, cr.externalName}
<1>1. cr.externalName \in Ids
  BY ResourceCopies DEF Opt
<1> QED BY <1>1, ZeroTyped, TypeParts, ShownIsLive DEF Replied

(* Connect gets the reconcile on, or ends it.                               *)
LEMMA ConnectForms ==
  ASSUME TypeOK, Connect
  PROVE  ConnectionStep
<1>1. Connects /\ (UNCHANGED chaos \/ Disturb) /\ UNCHANGED inFlight
  BY DEF Connect, Connects, growthbook
<1> QED BY <1>1, TypeParts DEF ConnectionStep, AssignedStep, Requests

(* A connection that was found is deleted, or published and gone on with.     *)
LEMMA FoundGoesOn ==
  ASSUME TypeOK, pc = "observe", NEW upToDate \in BOOLEAN, NEW ds, Found(upToDate, ds),
         UNCHANGED <<remote, lost>>
  PROVE  GoesOn(SDKConnectionParameters)
<1> DEFINE o == [exists |-> TRUE, upToDate |-> upToDate, lateInit |-> FALSE]
<1>1. o \in Observations /\ o.exists
  BY DEF Observations
<1>2. cr \in Resources /\ cr.forProvider \in SDKConnectionParameters
  BY ResourceCopies
<1>3. WithSpec(cr, cr.forProvider) = cr
  BY <1>2 DEF WithSpec, Resources, Things, Objects
<1>4. UNCHANGED kubeVars /\ (Continue("delete", cr, o) \/ Continue("publish", cr, o))
  BY DEF Found
<1> HIDE DEF o
<1>5. Justified("delete", o) /\ Justified("publish", o) /\ {"delete", "publish"} \subseteq Steps
  BY DEF Justified, Steps
<1> QED BY <1>1, <1>2, <1>3, <1>4, <1>5 DEF GoesOn

(* Observe only denies a connection when GrowthBook does.                    *)
LEMMA ObserveForms ==
  ASSUME TypeOK, Safe, Observe
  PROVE  ConnectionStep
<1> DEFINE id == cr.externalName
<1>1. /\ pc = "observe" /\ UNCHANGED <<remote, inFlight, lost>>
      /\ cr.forProvider \in SDKConnectionParameters
  BY ResourceCopies DEF Observe, growthbook
<1>2. SUFFICES GoesOn(SDKConnectionParameters) /\ (UNCHANGED chaos \/ Disturb)
  BY <1>1, TypeParts DEF ConnectionStep, AssignedStep, Requests
<1>3. ASSUME Observed(NoObservation, cr.forProvider), Free(id)
      PROVE  GoesOn(SDKConnectionParameters)
  BY <1>1, <1>3, NoObservationTyped, ObservedGoesOn
<1>4. CASE id = Nil
  BY <1>3, <1>4 DEF Observe, Free
<1>5. CASE id # Nil
  <2>1. PICK r \in Answers(id) :
          /\ Charge(r)
          /\ ObserveReply(r, IF r.body = "object" THEN remote[id] ELSE ZeroConnection)
    BY <1>5 DEF Observe
  <2>2. UNCHANGED chaos \/ Disturb
    BY <2>1, Charged
  <2>3. CASE IsNotFound(r)
    <3>1. Free(id)
      BY <1>1, <1>5, <2>3, TypeParts, DeniedIsGone DEF Safe
    <3> QED BY <1>3, <2>1, <2>2, <2>3, <3>1 DEF ObserveReply
  <2>4. CASE ~IsNotFound(r) /\ Fails(r, TRUE)
    <3>1. EndReconcile /\ UNCHANGED kubeVars
      BY <2>1, <2>4 DEF ObserveReply, NotObserved
    <3> QED BY <1>1, <2>2, <3>1, TypeParts, EndGoesOn
  <2>5. CASE ~IsNotFound(r) /\ ~Fails(r, TRUE)
    <3> DEFINE sc == IF r.body = "object" THEN remote[id] ELSE ZeroConnection
    <3>1. Found(isUpToDate(cr.forProvider, sc), connectionDetails(Replied(r, id), sc))
      BY <2>1, <2>5 DEF ObserveReply
    <3>2. isUpToDate(cr.forProvider, sc) \in BOOLEAN
      BY DEF isUpToDate
    <3> HIDE DEF sc
    <3> QED BY <1>1, <2>2, <3>1, <3>2, FoundGoesOn
  <2> QED BY <2>3, <2>4, <2>5
<1> QED BY <1>4, <1>5

(* Publishing is part of what Observe leads to.                              *)
LEMMA PublishForms ==
  ASSUME TypeOK, FoundNamed, Publish
  PROVE  ConnectionStep
<1>1. /\ pc = "publish" /\ obs.exists /\ Continue(AfterObserve(obs), cr, obs)
      /\ UNCHANGED <<kubeVars, chaos, remote, inFlight, lost>>
  BY DEF FoundNamed, Publish, growthbook
<1>2. cr \in Resources /\ cr.forProvider \in SDKConnectionParameters /\ obs \in Observations
  BY <1>1, ResourceCopies
<1>3. WithSpec(cr, cr.forProvider) = cr
  BY <1>2 DEF WithSpec, Resources, Things, Objects
<1>4. AfterObserve(obs) \in Steps /\ Justified(AfterObserve(obs), obs)
  BY <1>1, <1>2, NextSteps DEF Justified, AfterObserve, AfterFinalizer, AfterLateInit
<1>5. GoesOn(SDKConnectionParameters)
  BY <1>1, <1>2, <1>3, <1>4 DEF GoesOn
<1> QED BY <1>1, <1>5, TypeParts DEF ConnectionStep, AssignedStep, Requests

(* Create learns the id of the connection it has made, or loses it.          *)
LEMMA CreateForms ==
  ASSUME TypeOK, Create
  PROVE  ConnectionStep
<1> DEFINE q == Request("POST", Nil, createRequest(cr.forProvider, cr.initProvider))
<1>1. pc = "create" /\ UNCHANGED kubeVars
  BY DEF Create
<1>2. SUFFICES /\ Creates(SDKConnections) /\ (UNCHANGED chaos \/ Disturb)
               /\ inFlight' \subseteq Requests
  BY DEF ConnectionStep, AssignedStep, Requests
<1>3. q \in Requests /\ q.verb = "POST"
  BY <1>1, RequestsAreTyped DEF Request
<1> HIDE DEF q
<1>4. PICK r \in {Answered} \cup Faults :
        /\ Charge(r)
        /\ \/ \E id \in Ids : CreateServed(q, r, id)
           \/ /\ NotServed(q, r) /\ UNCHANGED <<lost, details>>
              /\ Returned("recordFailed", cr.externalName)
  BY DEF Create, q
<1>5. UNCHANGED chaos \/ Disturb
  BY <1>4, Charged
<1>6. ASSUME NEW id \in Ids, CreateServed(q, r, id)
      PROVE  Creates(SDKConnections) /\ inFlight' \subseteq Requests
  <2>1. Makes(SDKConnections, id)
    BY <1>3, <1>6, TypeParts, ServeForms DEF CreateServed, Opt
  <2>2. CreateEnds(id)
    BY <1>6 DEF CreateServed, CreateEnds
  <2> QED BY <1>1, <1>6, <2>1, <2>2, TypeParts DEF Creates, CreateServed
<1>7. CASE NotServed(q, r) /\ UNCHANGED lost /\ Returned("recordFailed", cr.externalName)
  <2>1. UNCHANGED remote /\ inFlight' \subseteq Requests
    BY <1>3, <1>7, TypeParts, NotServedForms DEF Requests
  <2> QED BY <1>1, <1>5, <1>7, <2>1 DEF Creates
<1> QED BY <1>4, <1>5, <1>6, <1>7

(* Update and Delete make no connection.                                     *)
LEMMA CallForms ==
  ASSUME TypeOK, Update \/ Delete
  PROVE  ConnectionStep /\ Calls(SDKConnections)
<1>1. /\ pc \in {"update", "delete"} /\ UNCHANGED <<kubeVars, lost>> /\ EndReconcile
  BY DEF Update, Delete
<1>2. PICK q \in Requests, r \in Answers(cr.externalName) :
        q.verb # "POST" /\ Charge(r) /\ Exchange(q, r)
  <2>1. CASE Update
    <3> DEFINE q == Request("PUT", cr.externalName, request(cr.forProvider))
    <3>1. q \in Requests /\ q.verb # "POST"
      BY <1>1, RequestsAreTyped DEF Request
    <3>2. \E r \in Answers(cr.externalName) : Charge(r) /\ Exchange(q, r)
      BY <2>1 DEF Update
    <3> HIDE DEF q
    <3> QED BY <3>1, <3>2
  <2>2. CASE Delete
    <3> DEFINE q == Request("DELETE", cr.externalName, Nil)
    <3>1. q \in Requests /\ q.verb # "POST"
      BY <1>1, RequestsAreTyped DEF Request
    <3>2. \E r \in Answers(cr.externalName) : Charge(r) /\ Exchange(q, r)
      BY <2>2 DEF Delete
    <3> HIDE DEF q
    <3> QED BY <3>1, <3>2
  <2> QED BY <2>1, <2>2
<1>3. /\ inFlight' \subseteq Requests /\ \E id \in Opt(Ids) : Changes(SDKConnections, id)
      /\ UNCHANGED chaos \/ Disturb
  BY <1>2, Charged, ExchangeForms
<1> QED BY <1>1, <1>3 DEF ConnectionStep, AssignedStep, Calls, Requests

(* A request served late changes a connection, or makes one that is lost.    *)
LEMMA ServeLateForms ==
  ASSUME TypeOK, NEW q \in inFlight, ServeLate(q)
  PROVE  ConnectionStep /\ Outside(SDKConnections)
<1>1. /\ q \in Requests /\ RemoteTyped(SDKConnections)
      /\ inFlight' \subseteq Requests /\ UNCHANGED <<kubeVars, workerVars, chaos>>
  BY TypeParts DEF ServeLate, runtimeVars
<1>2. PICK id \in IF q.verb = "POST" THEN Ids ELSE {q.id} :
        Serve(q, id) /\ lost' = IF q.verb = "POST" THEN lost \cup {id} ELSE lost
  BY DEF ServeLate
<1>3. id \in Opt(Ids) /\ (q.verb = "POST" => id \in Ids)
  BY <1>1, <1>2 DEF Requests, RequestsWith, Opt
<1>4. /\ q.verb = "POST" => Makes(SDKConnections, id)
      /\ q.verb # "POST" => Changes(SDKConnections, id)
  BY <1>1, <1>2, <1>3, ServeForms
<1>5. Outside(SDKConnections)
  BY <1>1, <1>2, <1>3, <1>4 DEF Outside
<1> QED BY <1>1, <1>5 DEF ConnectionStep, AssignedStep, Requests

(* The reconciler's own steps write what is left of a spec once serialised.   *)
LEMMA RuntimeStepForms ==
  ASSUME TypeOK, RuntimeStep
  PROVE  ConnectionStep /\ Between(SDKConnectionParameters)
<1>1. pc # "idle" => MarshalParameters(cr.forProvider) \in SDKConnectionParameters
  BY ResourceCopies, WrittenTyped
<1>2. Between(SDKConnectionParameters)
  BY <1>1 DEF RuntimeStep, Between
<1> QED BY <1>2, TypeParts, RuntimeForms DEF ConnectionStep, Requests

(* Every step of SDKConnection is of one of the forms.                       *)
LEMMA NextForms ==
  ASSUME IInv, [Next]_vars
  PROVE  ConnectionStep
<1>1. /\ inFlight \subseteq RequestsWith(SDKConnectionParameters)
      /\ RemoteOK(SDKConnections, SDKConnectionParameters)
      /\ TypeOK /\ Safe /\ FoundNamed
  BY TypeParts DEF Requests, IInv
<1>2. CASE Worker
  BY <1>1, <1>2, RuntimeStepForms, ConnectForms, ObserveForms, PublishForms, CreateForms,
     CallForms DEF Worker
<1>3. CASE CrashStep
  BY <1>1, <1>3, RuntimeForms DEF ConnectionStep
<1>4. CASE UserStep \/ ((CacheSync \/ GraceEnds) /\ UNCHANGED growthbook)
  <2>1. Around
    BY <1>4 DEF UserStep, Around, Users
  <2> QED BY <1>1, <2>1, RuntimeForms DEF ConnectionStep
<1>5. CASE Elsewhere
  BY <1>1, <1>5, ConnectionIsSound, OutOfBandForms DEF Elsewhere, ConnectionStep
<1>6. CASE \E q \in inFlight : ServeLate(q)
  BY <1>1, <1>6, ServeLateForms
<1>7. CASE UNCHANGED vars
  BY <1>1, <1>7, StutterForms DEF vars, ConnectionStep
<1> QED BY <1>2, <1>3, <1>4, <1>5, <1>6, <1>7 DEF Next, Others

-----------------------------------------------------------------------------
(* The invariant: the reconcile, and what it publishes.                      *)

(* Where the reconcile has found nothing nothing is claimed.                 *)
LEMMA FoundElse ==
  ASSUME FoundNamed,
         \/ pc' \notin {"publish", "delete", "lateInit", "update", "addFinalizer"}
         \/ UNCHANGED <<pc, cr, obs>>
  PROVE  FoundNamed'
BY DEF FoundNamed

(* A write goes on with what was found, under the same name.                 *)
LEMMA RuntimeStepFound ==
  ASSUME TypeOK, FoundNamed, RuntimeStep
  PROVE  FoundNamed'
<1> DEFINE s == MarshalParameters(cr.forProvider)
<1>1. ASSUME NEW object, NEW stored, NEW next, ClientUpdate(object, stored, next),
             next \in {"lateInit", "update"} => object.externalName # Nil,
             next \notin {"publish", "delete", "addFinalizer"}
      PROVE  FoundNamed'
  BY <1>1 DEF ClientUpdate, Continue, EndReconcile, FoundNamed
<1>2. pc # "idle" => cr \in Resources
  BY ResourceCopies
<1>3. CASE AddFinalizer(s)
  <2> DEFINE object == [cr EXCEPT !.finalizer = TRUE]
             next   == AfterFinalizer(obs)
  <2>1. pc = "addFinalizer" /\ ClientUpdate(object, WithSpec(object, s), next)
    BY <1>3 DEF AddFinalizer
  <2>2. object.externalName = cr.externalName
    BY <1>2, <2>1 DEF Resources, Things, Objects
  <2>3. /\ next \in {"lateInit", "update"} => obs.exists
        /\ next \notin {"publish", "delete", "addFinalizer"}
    BY DEF AfterFinalizer, AfterLateInit
  <2> HIDE DEF object, next, s
  <2> QED BY <1>1, <2>1, <2>2, <2>3 DEF FoundNamed
<1>4. CASE MarkPending(s)
  BY <1>1, <1>4 DEF MarkPending
<1>5. CASE SaveLateInit(s)
  <2>1. /\ pc = "lateInit" /\ ClientUpdate(cr, WithSpec(cr, s), AfterLateInit(obs))
        /\ AfterLateInit(obs) \in {"idle", "update"}
    BY <1>5 DEF SaveLateInit, AfterLateInit
  <2> HIDE DEF s
  <2> QED BY <1>1, <2>1 DEF FoundNamed
<1>6. CASE StartReconcile(TRUE) \/ RemoveFinalizer \/ RecordCreation
  BY <1>6, FoundElse DEF StartReconcile, RemoveFinalizer, RecordCreation, ClientUpdate,
     Continue, EndReconcile
<1> QED BY <1>3, <1>4, <1>5, <1>6 DEF RuntimeStep, ReconcilerStep

(* Only a connection with a name is found.                                   *)
LEMMA ObserveFound ==
  ASSUME FoundNamed, Observe
  PROVE  FoundNamed'
<1>1. pc = "observe"
  BY DEF Observe
<1>2. ASSUME Observed(NoObservation, cr.forProvider)
      PROVE  FoundNamed'
  <2> DEFINE step == AfterObserve(NoObservation)
  <2>1. step \in {"idle", "removeFinalizer", "addFinalizer", "markPending"}
    BY DEF AfterObserve, AfterFinalizer, NoObservation
  <2>2. \/ pc' = "idle"
        \/ pc' = step /\ obs' = NoObservation
    BY <1>2 DEF Observed, Continue, EndReconcile
  <2> HIDE DEF step
  <2> QED BY <2>1, <2>2, NoObservationTyped DEF FoundNamed
<1>3. ASSUME NotObserved
      PROVE  FoundNamed'
  BY <1>3, FoundElse DEF NotObserved, EndReconcile
<1>4. ASSUME cr.externalName # Nil, NEW upToDate, NEW ds, Found(upToDate, ds)
      PROVE  FoundNamed'
  BY <1>4 DEF Found, Continue, FoundNamed
<1> QED BY <1>2, <1>3, <1>4 DEF Observe, ObserveReply

(* What was found stays named until the reconcile is over.                   *)
LEMMA NextFound ==
  ASSUME TypeOK, FoundNamed, [Next]_vars
  PROVE  FoundNamed'
<1>1. CASE RuntimeStep
  BY <1>1, RuntimeStepFound
<1>2. CASE Observe
  BY <1>2, ObserveFound
<1>3. CASE Publish
  BY <1>3 DEF Publish, Continue, EndReconcile, FoundNamed, AfterObserve, AfterFinalizer,
     AfterLateInit
<1>4. CASE Connect \/ Update \/ Delete \/ CrashStep
  BY <1>4, FoundElse DEF Connect, Update, Delete, CrashStep, Crash, EndReconcile
<1>5. CASE Create
  BY <1>5, FoundElse DEF Create, CreateServed, Returned
<1>6. CASE UserStep
  BY <1>6, FoundElse DEF UserStep, UserChange, UserDelete, UserEdit, ForeignWrite
<1>7. CASE CacheSync \/ GraceEnds \/ Elsewhere \/ (\E q \in inFlight : ServeLate(q))
           \/ UNCHANGED vars
  <2>1. UNCHANGED workerVars
    BY <1>7 DEF CacheSync, GraceEnds, Elsewhere, OutOfBandDelete, OutOfBandEdit, ServeLate,
       vars, runtimeVars
  <2> QED BY <2>1, FoundElse DEF workerVars
<1> QED BY <1>1, <1>2, <1>3, <1>4, <1>5, <1>6, <1>7 DEF Next, Worker, Others

-----------------------------------------------------------------------------
(* The invariant: the connection details and the secret.                     *)

(* What is known of a step, whoever takes it.                                *)
LEMMA StepKnown ==
  ASSUME IInv, [Next]_vars
  PROVE  /\ AssignedTypeOK(SDKConnectionParameters, SDKConnectionInitParameters,
                           SDKConnections, SDKConnectionParameters)
         /\ Safe /\ AssignedStep(SDKConnectionParameters, SDKConnections, SDKConnectionParameters)
         /\ Sound(SDKConnectionParameters, SDKConnectionInitParameters, SDKConnections)
BY NextForms, ConnectionIsSound DEF IInv, TypeOK, ConnectionStep

(* The answer to a PUT shows the connection as it then is.                   *)
LEMMA PutShowsTyped ==
  ASSUME TypeOK, pc = "update", cr.externalName # Nil, NEW r \in Answers(cr.externalName),
         Exchange(Request("PUT", cr.externalName, request(cr.forProvider)), r),
         ~Fails(r, TRUE), r.body = "object"
  PROVE  remote'[cr.externalName] \in SDKConnections
<1> DEFINE id == cr.externalName
           body == request(cr.forProvider)
<1>1. id \in Ids /\ body \in SDKConnectionParameters
  <2>1. cr.externalName \in Opt(Ids) /\ cr.forProvider \in SDKConnectionParameters
    BY ResourceCopies
  <2> QED BY <2>1, WrittenTyped DEF Opt
<1>2. ~IsNotFound(r)
  <2>1. r.status \in 200..299
    BY DEF Fails, DecodeResponse
  <2>2. 404 \notin 200..299 /\ 400 \notin 200..299
    OBVIOUS
  <2> QED BY <2>1, <2>2 DEF IsNotFound
<1>3. remote[id] \in SDKConnections
  BY <1>1, <1>2, TypeParts, ShownIsLive
<1>4. Put(id, Members(body)) \/ UNCHANGED remote
  BY DEF Exchange, Serve, NotServed, Request
<1>5. Overlay(remote[id], Members(body)) \in SDKConnections
  BY <1>1, <1>3, OverlayTyped
<1> QED BY <1>1, <1>3, <1>4, <1>5, TypeParts DEF Put, RemoteTyped

(* The answer to a POST shows the connection that was made.                  *)
LEMMA PostShowsTyped ==
  ASSUME TypeOK, pc = "create", NEW id \in Ids, NEW r,
         CreateServed(Request("POST", Nil, createRequest(cr.forProvider, cr.initProvider)), r, id)
  PROVE  remote'[id] \in SDKConnections
<1> DEFINE q == Request("POST", Nil, createRequest(cr.forProvider, cr.initProvider))
<1>1. q \in Requests /\ q.verb = "POST" /\ Serve(q, id) /\ id \in Opt(Ids)
  BY RequestsAreTyped DEF Request, CreateServed, Opt
<1>2. Makes(SDKConnections, id)
  BY <1>1, TypeParts, ServeForms
<1>3. RemoteTyped(SDKConnections)' /\ Live(id)'
  BY <1>2, TypeParts, ConnectionIsSound, MakesMoves
<1> QED BY <1>3 DEF RemoteTyped, Live

(* Details are kept from the call that returned them until they are          *)
(* published, with the copy in memory they belong to.                        *)
LEMMA NextDetails ==
  ASSUME IInv, [Next]_vars
  PROVE  details' \in ConnectionDetails /\ DetailsNamed'
<1>1. TypeOK /\ details \in ConnectionDetails /\ DetailsNamed
  BY TypeParts DEF IInv
<1>2. ASSUME pc \notin {"publish", "recordCreated"}, UNCHANGED details
      PROVE  details' \in ConnectionDetails /\ DetailsNamed'
  BY <1>1, <1>2 DEF DetailsNamed
<1>3. CASE details' = NoDetails
  BY <1>3, DetailsTyped DEF DetailsNamed
<1>4. CASE UNCHANGED <<details, pc, cr>>
  BY <1>1, <1>4 DEF DetailsNamed
<1>5. CASE RuntimeStep \/ Publish \/ (CrashStep /\ Unpublished)
  BY <1>3, <1>5 DEF RuntimeStep, Publish, Unpublished
<1>6. CASE Connect \/ Update \/ Delete
  BY <1>2, <1>6 DEF Connect, Update, Delete, published
<1>7. CASE Observe
  <2> DEFINE id == cr.externalName
  <2>1. pc = "observe" /\ id \in Opt(Ids)
    BY <1>1, <1>7, ResourceCopies DEF Observe
  <2>2. CASE UNCHANGED details
    BY <1>2, <2>1, <2>2
  <2>3. CASE id # Nil /\ ~UNCHANGED details
    <3>1. PICK r \in Answers(id) :
            ObserveReply(r, IF r.body = "object" THEN remote[id] ELSE ZeroConnection)
      BY <1>7, <2>3 DEF Observe
    <3> DEFINE sc == IF r.body = "object" THEN remote[id] ELSE ZeroConnection
               ds == connectionDetails(Replied(r, id), sc)
    <3>2. ~IsNotFound(r) /\ ~Fails(r, TRUE) /\ Found(isUpToDate(cr.forProvider, sc), ds)
      BY <2>3, <3>1 DEF ObserveReply
    <3>3. sc \in SDKConnections /\ Replied(r, id) \in {Nil, id}
      BY <1>1, <2>1, <2>3, <3>2, ShownIsTyped
    <3>4. ds \in ConnectionDetails /\ ds.key \in {Nil, id}
      <4>1. Replied(r, id) \in Opt(Ids)
        BY <2>1, <3>3 DEF Opt
      <4> HIDE DEF sc
      <4> QED BY <3>3, <4>1, DetailsTyped
    <3>5. details' = ds /\ pc' = "publish" /\ cr' = cr
      BY <2>3, <3>2 DEF Found, Continue
    <3> HIDE DEF ds, sc
    <3> QED BY <3>4, <3>5 DEF DetailsNamed
  <2> QED BY <1>7, <2>2, <2>3 DEF Observe
<1>8. CASE Create
  <2> DEFINE q == Request("POST", Nil, createRequest(cr.forProvider, cr.initProvider))
  <2>1. pc = "create" /\ cr \in Resources
    BY <1>1, <1>8, ResourceCopies DEF Create
  <2>2. CASE UNCHANGED details
    BY <1>2, <2>1, <2>2
  <2>3. ASSUME NEW r, NEW id \in Ids, CreateServed(q, r, id), ~UNCHANGED details
        PROVE  details' \in ConnectionDetails /\ DetailsNamed'
    <3>1. Returned("recordCreated", id) /\ details' = connectionDetails(id, remote'[id])
      BY <2>3 DEF CreateServed
    <3>2. remote'[id] \in SDKConnections
      BY <1>1, <2>1, <2>3, PostShowsTyped
    <3>3. details' \in ConnectionDetails /\ details'.key = id
      BY <3>1, <3>2, DetailsTyped DEF Opt
    <3>4. pc' = "recordCreated" /\ cr'.externalName = id
      BY <2>1, <3>1 DEF Returned, Resources, Things, Objects
    <3> QED BY <3>3, <3>4 DEF DetailsNamed
  <2> QED BY <1>8, <2>2, <2>3 DEF Create
<1>9. CASE UserStep
  BY <1>4, <1>9 DEF UserStep, UserChange, UserDelete, UserEdit, ForeignWrite
<1>10. CASE \/ (CacheSync \/ GraceEnds \/ Elsewhere) /\ UNCHANGED published
            \/ \E q \in inFlight : ServeLate(q)
            \/ UNCHANGED vars
  BY <1>4, <1>10 DEF CacheSync, GraceEnds, Elsewhere, OutOfBandDelete, OutOfBandEdit, ServeLate,
     vars, runtimeVars, workerVars, published
<1> QED BY <1>5, <1>6, <1>7, <1>8, <1>9, <1>10 DEF Next, Worker, Others


(* A resource that is gone stays so, the copies of the API server and of the  *)
(* informer are the same or one of the other.                                *)
LEMMA NextCopies ==
  ASSUME [Next]_vars
  PROVE  /\ mr' # NoObject => mr # NoObject
         /\ UNCHANGED cache \/ (cache' = mr /\ UNCHANGED mr)
<1>1. CASE RuntimeStep
  BY <1>1 DEF RuntimeStep, ReconcilerStep, StartReconcile, AddFinalizer, MarkPending,
     SaveLateInit, RemoveFinalizer, ClientUpdate, RecordCreation, kubeVars
<1>2. CASE Publish \/ Connect \/ Update \/ Delete \/ Create \/ CrashStep
  BY <1>2 DEF Publish, Connect, Update, Delete, Create, CrashStep, Crash, kubeVars
<1>3. CASE Observe
  BY <1>3 DEF Observe, ObserveReply, Observed, NotObserved, Found, kubeVars
<1>4. CASE UserStep
  BY <1>4 DEF UserStep, UserChange, UserDelete, UserEdit, ForeignWrite
<1>5. CASE CacheSync \/ GraceEnds \/ Elsewhere \/ (\E q \in inFlight : ServeLate(q))
           \/ UNCHANGED vars
  BY <1>5 DEF CacheSync, GraceEnds, Elsewhere, OutOfBandDelete, OutOfBandEdit, ServeLate,
     vars, runtimeVars, kubeVars
<1> QED BY <1>1, <1>2, <1>3, <1>4, <1>5 DEF Next, Worker, Others

(* What a name stands for when the resource does not have it any more.       *)
LEMMA NameStays ==
  ASSUME IInv, [Next]_vars, mr' # NoObject, NEW n \in Opt(Ids),
         Free(n) \/ n = mr.externalName
  PROVE  Free(n)' \/ n = mr'.externalName
<1>1. PICK id : OnlyMoves(id)
  BY StepKnown, StepMoves DEF ConnectionStep
<1>2. mr # NoObject
  BY NextCopies
<1>3. mr'.externalName = mr.externalName \/ Free(mr.externalName)
  BY <1>2, StepKnown, StepNames
<1>4. Free(n) => Free(n)'
  BY <1>1, KnownStays
<1> QED BY <1>3, <1>4

(* A stale copy never has a name that is in use.                             *)
LEMMA NextFollows ==
  ASSUME IInv, [Next]_vars
  PROVE  NamesFollow'
<1> SUFFICES ASSUME mr' # NoObject
             PROVE  Follows(cache)' /\ (pc' # "recordCreated" => Follows(cr)')
  BY DEF NamesFollow
<1>1. TypeOK /\ mr # NoObject /\ Follows(cache) /\ (pc # "recordCreated" => Follows(cr))
  BY NextCopies DEF IInv, NamesFollow
<1>2. /\ cache # NoObject => cache.externalName \in Opt(Ids)
      /\ pc # "idle" => cr # NoObject /\ cr.externalName \in Opt(Ids)
      /\ pc = "idle" => cr = NoObject
      /\ mr.externalName \in Opt(Ids)
  BY <1>1, ResourceCopies, TypeParts DEF WorkerOK
<1>3. ASSUME NEW o, NEW o1, Follows(o), o # NoObject => o.externalName \in Opt(Ids),
             o1 = NoObject \/ (o # NoObject /\ o1.externalName = o.externalName)
      PROVE  o1 = NoObject \/ Free(o1.externalName)' \/ o1.externalName = mr'.externalName
  BY <1>3, NameStays DEF Follows
<1>4. Follows(cache)'
  <2>1. CASE UNCHANGED cache
    BY <1>1, <1>2, <1>3, <2>1 DEF Follows
  <2>2. CASE cache' = mr /\ UNCHANGED mr
    BY <2>2 DEF Follows
  <2> QED BY <2>1, <2>2, NextCopies
<1>5. ASSUME pc' # "recordCreated" PROVE Follows(cr)'
  <2>1. \/ cr' = NoObject \/ UNCHANGED <<pc, cr>>
        \/ cr' = cache /\ UNCHANGED mr
        \/ pc \notin {"idle", "recordCreated"} /\ cr'.externalName = cr.externalName
    BY <1>5, StepKnown, CopyNames
  <2>2. CASE cr' = NoObject
    BY <2>2 DEF Follows
  <2>3. CASE UNCHANGED <<pc, cr>>
    BY <1>1, <1>2, <1>3, <1>5, <2>3 DEF Follows
  <2>4. CASE cr' = cache /\ UNCHANGED mr
    BY <1>1, <1>2, <1>3, <2>4 DEF Follows
  <2>5. CASE pc \notin {"idle", "recordCreated"} /\ cr'.externalName = cr.externalName
    BY <1>1, <1>2, <1>3, <2>5 DEF Follows
  <2> QED BY <2>1, <2>2, <2>3, <2>4, <2>5
<1> QED BY <1>4, <1>5

(* What is published is of the connection the resource names.                *)
LEMMA KeyPublished ==
  ASSUME IInv, [Next]_vars, NEW ds \in ConnectionDetails, PublishConnection(ds),
         mr # NoObject => /\ mr' # NoObject
                          /\ \/ ds.key = Nil \/ ds.key = mr'.externalName
                             \/ Free(ds.key) \/ ds.key = mr.externalName
  PROVE  secret' \in ConnectionDetails /\ KeyNamed'
<1>1. TypeOK /\ secret \in ConnectionDetails /\ KeyNamed
  BY TypeParts DEF IInv
<1>2. CASE mr = NoObject
  BY <1>2, DetailsTyped DEF PublishConnection, KeyNamed
<1>3. CASE mr # NoObject
  <2>1. secret' = Overlay(secret, ds) /\ mr' # NoObject
    BY <1>3 DEF PublishConnection
  <2>2. /\ secret' \in ConnectionDetails
        /\ secret'.key = IF ds.key = Nil THEN secret.key ELSE ds.key
    BY <1>1, <2>1, DetailsTyped
  <2>3. secret'.key \in Opt(Ids)
    BY <2>2 DEF ConnectionDetails
  <2>4. \/ secret'.key = Nil \/ secret'.key = mr'.externalName
        \/ Free(secret'.key) \/ secret'.key = mr.externalName
    BY <1>1, <1>3, <2>2 DEF KeyNamed, Free
  <2>5. secret'.key = Nil \/ secret'.key = mr'.externalName \/ remote'[secret'.key] = Gone
    <3> DEFINE key == secret'.key
    <3>1. Free(key) \/ key = mr.externalName
            => key = Nil \/ remote'[key] = Gone \/ key = mr'.externalName
      BY <2>1, <2>3, NameStays DEF Free
    <3> QED BY <2>4, <3>1
  <2> QED BY <2>1, <2>2, <2>5 DEF KeyNamed
<1> QED BY <1>2, <1>3

(* What is not published leaves the secret with its resource.                 *)
LEMMA KeyKept ==
  ASSUME IInv, [Next]_vars, KeepSecret \/ UNCHANGED <<mr, secret>>
  PROVE  secret' \in ConnectionDetails /\ KeyNamed'
<1>1. TypeOK /\ secret \in ConnectionDetails /\ KeyNamed
  BY TypeParts DEF IInv
<1>2. CASE secret' = NoDetails
  BY <1>2, DetailsTyped DEF KeyNamed
<1>3. CASE UNCHANGED secret /\ secret.key # Nil /\ mr' # NoObject
  <2>1. secret.key \in Opt(Ids)
    BY <1>1 DEF ConnectionDetails
  <2>2. Free(secret.key) \/ secret.key = mr.externalName
    BY <1>1, <1>3 DEF KeyNamed, Free
  <2>3. Free(secret.key)' \/ secret.key = mr'.externalName
    <3> DEFINE key == secret.key
    <3>1. Free(key)' \/ key = mr'.externalName
      BY <1>3, <2>1, <2>2, NameStays DEF Free
    <3> QED BY <1>3, <3>1 DEF Free
  <2> QED BY <1>1, <1>3, <2>3 DEF KeyNamed, Free
<1>4. CASE UNCHANGED secret /\ secret.key = Nil
  BY <1>1, <1>4 DEF KeyNamed
<1>5. secret' = NoDetails \/ (UNCHANGED secret /\ (mr' # NoObject \/ UNCHANGED mr))
  BY DEF KeepSecret
<1> QED BY <1>1, <1>2, <1>3, <1>4, <1>5 DEF KeyNamed


(* Whoever publishes has the details of the connection that the resource     *)
(* names, or of one that is gone: Observe and Update under the name of a     *)
(* copy, the reconciler under the name it records with them.                 *)
LEMMA NextKey ==
  ASSUME IInv, [Next]_vars
  PROVE  secret' \in ConnectionDetails /\ KeyNamed'
<1>1. TypeOK /\ details \in ConnectionDetails /\ DetailsNamed /\ NamesFollow /\ FoundNamed
  BY TypeParts DEF IInv
<1>2. CASE KeepSecret \/ UNCHANGED <<mr, secret>>
  BY <1>2, KeyKept
<1>3. CASE Publish
  <2>1. pc = "publish" /\ PublishConnection(details) /\ UNCHANGED mr
    BY <1>3 DEF Publish, kubeVars
  <2>2. cr # NoObject
    BY <1>1, <2>1, ResourceCopies
  <2>3. details.key = Nil \/ details.key = cr.externalName
    BY <2>1, <1>1 DEF DetailsNamed
  <2>4. mr # NoObject => Free(cr.externalName) \/ cr.externalName = mr.externalName
    BY <1>1, <2>1, <2>2 DEF NamesFollow, Follows
  <2> QED BY <1>1, <2>1, <2>3, <2>4, KeyPublished
<1>4. CASE RuntimeStep /\ pc = "recordCreated" /\ PublishConnection(details)
  <2>1. RecordCreation
    BY <1>4 DEF RuntimeStep, ReconcilerStep, StartReconcile, AddFinalizer, MarkPending,
       SaveLateInit, RemoveFinalizer
  <2>2. mr \in Resources /\ cr \in Resources
    BY <1>1, <2>1, ResourceCopies DEF RecordCreation
  <2>3. mr' \in Resources /\ mr'.externalName = cr.externalName
    BY <2>1, <2>2 DEF RecordCreation, Resources, Things, Objects
  <2>4. mr' # NoObject
    BY <1>1, <2>3, ResourceCopies
  <2>5. details.key = Nil \/ details.key = mr'.externalName
    BY <1>1, <2>3 DEF DetailsNamed
  <2> QED BY <1>1, <1>4, <2>4, <2>5, KeyPublished
<1>5. CASE Update
  <2> DEFINE id == cr.externalName
             ds == connectionDetails(id, remote'[id])
  <2>1. pc = "update" /\ UNCHANGED mr
    BY <1>5 DEF Update, kubeVars
  <2>2. cr # NoObject /\ id # Nil /\ id \in Opt(Ids)
    BY <1>1, <2>1, ResourceCopies DEF FoundNamed
  <2>3. PICK r \in Answers(id) :
          /\ Exchange(Request("PUT", id, request(cr.forProvider)), r)
          /\ \/ UNCHANGED secret
             \/ ~Fails(r, TRUE) /\ r.body = "object" /\ PublishConnection(ds)
    BY <1>5 DEF Update
  <2>4. CASE UNCHANGED secret
    BY <1>2, <2>1, <2>4
  <2>5. CASE ~Fails(r, TRUE) /\ r.body = "object" /\ PublishConnection(ds)
    <3>1. remote'[id] \in SDKConnections
      BY <1>1, <2>1, <2>2, <2>3, <2>5, PutShowsTyped
    <3>2. ds \in ConnectionDetails /\ ds.key = id
      BY <2>2, <3>1, DetailsTyped
    <3>3. mr # NoObject => Free(id) \/ id = mr.externalName
      BY <1>1, <2>1, <2>2 DEF NamesFollow, Follows
    <3> HIDE DEF ds
    <3> QED BY <2>1, <2>5, <3>2, <3>3, KeyPublished
  <2> QED BY <2>3, <2>4, <2>5
<1>6. CASE \/ Connect \/ Observe \/ Create \/ Delete \/ UserStep
           \/ (CrashStep /\ Unpublished) \/ (RuntimeStep /\ Unpublished)
           \/ ((CacheSync \/ GraceEnds \/ Elsewhere) /\ UNCHANGED published)
           \/ (\E q \in inFlight : ServeLate(q))
           \/ UNCHANGED vars
  <2>1. CASE UserStep \/ (CrashStep /\ Unpublished) \/ (RuntimeStep /\ Unpublished)
    BY <1>2, <2>1 DEF UserStep, Unpublished
  <2>2. CASE Connect \/ Create \/ Delete
    BY <1>2, <2>2 DEF Connect, Create, Delete, published, kubeVars
  <2>3. CASE Observe
    BY <1>2, <2>3 DEF Observe, ObserveReply, Observed, NotObserved, Found, kubeVars
  <2>4. CASE \/ ((CacheSync \/ GraceEnds \/ Elsewhere) /\ UNCHANGED published)
             \/ (\E q \in inFlight : ServeLate(q)) \/ UNCHANGED vars
    BY <1>2, <2>4 DEF CacheSync, GraceEnds, Elsewhere, OutOfBandDelete, OutOfBandEdit,
       ServeLate, vars, runtimeVars, kubeVars, published
  <2> QED BY <1>6, <2>1, <2>2, <2>3, <2>4
<1> QED BY <1>3, <1>4, <1>5, <1>6 DEF Next, Worker, Others, RuntimeStep

-----------------------------------------------------------------------------
(* The invariant: whose the fields are that are sent.                        *)

(* Serialising sets no field, and so sends none.                             *)
LEMMA WrittenOwned ==
  ASSUME NEW p \in SDKConnectionParameters, Owned(p)
  PROVE  Owned(request(p)) /\ Owned(MarshalParameters(p))
<1>1. /\ DOMAIN request(p) = DOMAIN p /\ MarshalParameters(p) = request(p)
      /\ \A f \in DOMAIN p : p[f] = Nil => request(p)[f] = Nil
  <2>1. \A f \in DOMAIN p \ {"projects"} : request(p)[f] = p[f]
    BY DEF request
  <2>2. p.projects = Nil => request(p).projects = Nil
    BY DEF request, OmitEmpty, SDKConnectionParameters
  <2> QED BY <2>1, <2>2 DEF request, MarshalParameters
<1> QED BY <1>1 DEF Owned, SetFields

(* A field is owned for as long as there is the resource, and an edit makes   *)
(* its field one.                                                           *)
LEMMA NextOwns ==
  ASSUME IInv, [Next]_vars
  PROVE  /\ owned \subseteq owned'
         /\ mr' # NoObject => Owned(mr.forProvider)
                                /\ SetFields(mr'.forProvider) \subseteq owned'
<1>1. TypeOK /\ FieldsOwned /\ (mr' # NoObject => mr # NoObject)
  BY NextCopies DEF IInv
<1>2. mr # NoObject => /\ Owned(mr.forProvider) /\ mr \in Resources
                       /\ mr.forProvider \in SDKConnectionParameters
  BY <1>1, ResourceCopies DEF FieldsOwned
<1>3. CASE UNCHANGED <<mr, owned>>
  BY <1>1, <1>2, <1>3 DEF Owned
<1>4. CASE RuntimeStep
  <2> DEFINE s == MarshalParameters(cr.forProvider)
  <2>1. UNCHANGED owned
    BY <1>4 DEF RuntimeStep, ReconcilerStep, StartReconcile, AddFinalizer, MarkPending,
       SaveLateInit, RemoveFinalizer, ClientUpdate, RecordCreation, kubeVars
  <2>2. \/ UNCHANGED mr \/ mr' = NoObject
        \/ RecordCreation
        \/ pc # "idle" /\ \E object \in Resources : mr' = WithSpec(object, s)
    <3>1. CASE AddFinalizer(s)
      <4>1. cr \in Resources /\ pc # "idle"
        BY <1>1, <3>1, ResourceCopies DEF AddFinalizer
      <4>2. [cr EXCEPT !.finalizer = TRUE] \in Resources
        BY <4>1 DEF Resources, Things, Objects
      <4> QED BY <3>1, <4>1, <4>2 DEF AddFinalizer, ClientUpdate
    <3>2. CASE MarkPending(s)
      <4>1. cr \in Resources /\ pc # "idle"
        BY <1>1, <3>2, ResourceCopies DEF MarkPending
      <4>2. [cr EXCEPT !.create = "pending"] \in Resources
        BY <4>1 DEF Resources, Things, Objects
      <4> QED BY <3>2, <4>1, <4>2 DEF MarkPending, ClientUpdate
    <3>3. CASE SaveLateInit(s)
      <4>1. cr \in Resources /\ pc # "idle"
        BY <1>1, <3>3, ResourceCopies DEF SaveLateInit
      <4> QED BY <3>3, <4>1 DEF SaveLateInit, ClientUpdate
    <3>4. CASE StartReconcile(TRUE) \/ RemoveFinalizer
      BY <3>4 DEF StartReconcile, RemoveFinalizer, ClientUpdate, kubeVars
    <3> QED BY <1>4, <3>1, <3>2, <3>3, <3>4 DEF RuntimeStep, ReconcilerStep
  <2>3. CASE RecordCreation
    <3>1. mr' # NoObject => mr'.forProvider = mr.forProvider
      BY <1>2, <2>3 DEF RecordCreation, Resources, Things, Objects
    <3> QED BY <1>1, <1>2, <2>1, <3>1 DEF Owned
  <2>4. ASSUME pc # "idle", NEW object \in Resources, mr' = WithSpec(object, s)
        PROVE  SetFields(mr'.forProvider) \subseteq owned
    <3>1. mr'.forProvider = s
      BY <2>4 DEF WithSpec, Resources, Things, Objects
    <3>2. cr # NoObject /\ cr.forProvider \in SDKConnectionParameters
      BY <1>1, <2>4, ResourceCopies
    <3>3. Owned(s)
      BY <1>1, <3>2, WrittenOwned DEF FieldsOwned
    <3> QED BY <3>1, <3>3 DEF Owned
  <2> QED BY <1>1, <1>2, <2>1, <2>2, <2>3, <2>4 DEF Owned
<1>5. CASE UserDelete
  <2>1. mr # NoObject /\ UNCHANGED owned
    BY <1>5 DEF UserDelete
  <2>2. mr' # NoObject => mr'.forProvider = mr.forProvider
    BY <1>2, <1>5, <2>1 DEF UserDelete, ForeignWrite, Resources, Things, Objects
  <2> QED BY <1>2, <2>1, <2>2 DEF Owned
<1>6. ASSUME NEW e \in Edits, UserEdit(e.field, e.to)
      PROVE  owned \subseteq owned' /\ (mr' # NoObject =>
               Owned(mr.forProvider) /\ SetFields(mr'.forProvider) \subseteq owned')
  <2> DEFINE p == [mr.forProvider EXCEPT ![e.field] = e.to]
  <2>1. mr # NoObject /\ owned' = owned \cup {e.field}
    BY <1>6 DEF UserEdit
  <2>2. mr'.forProvider = p
    BY <1>2, <1>6, <2>1 DEF UserEdit, ForeignWrite, Resources, Things, Objects
  <2>3. SetFields(p) \subseteq SetFields(mr.forProvider) \cup {e.field}
    BY DEF SetFields
  <2> QED BY <1>2, <2>1, <2>2, <2>3 DEF Owned
<1>7. CASE Connect \/ Observe \/ Publish \/ Create \/ Update \/ Delete \/ CrashStep
  BY <1>3, <1>7 DEF Connect, Observe, ObserveReply, Observed, NotObserved, Found, Publish,
     Create, Update, Delete, CrashStep, Crash, kubeVars
<1>8. CASE CacheSync \/ GraceEnds \/ Elsewhere \/ (\E q \in inFlight : ServeLate(q))
           \/ UNCHANGED vars
  BY <1>3, <1>8 DEF CacheSync, GraceEnds, Elsewhere, OutOfBandDelete, OutOfBandEdit, ServeLate,
     vars, runtimeVars, kubeVars
<1> QED BY <1>4, <1>5, <1>6, <1>7, <1>8 DEF Next, Worker, Others, UserStep, UserChange


(* The copy in memory never changes what users declare.                      *)
LEMMA CopyFields ==
  ASSUME TypeOK, [Next]_vars
  PROVE  \/ cr' = NoObject \/ cr' = cache
         \/ cr # NoObject /\ cr'.forProvider = cr.forProvider
         \/ UNCHANGED cr
<1>1. pc # "idle" => cr \in Resources /\ cr # NoObject
  BY ResourceCopies
<1>2. CASE RuntimeStep
  <2>1. CASE AddFinalizer(MarshalParameters(cr.forProvider))
    BY <1>1, <2>1 DEF AddFinalizer, ClientUpdate, Continue, EndReconcile, Resources, Things,
       Objects
  <2>2. CASE MarkPending(MarshalParameters(cr.forProvider))
    BY <1>1, <2>2 DEF MarkPending, ClientUpdate, Continue, EndReconcile, Resources, Things,
       Objects
  <2>3. CASE SaveLateInit(MarshalParameters(cr.forProvider)) \/ RemoveFinalizer
               \/ RecordCreation \/ StartReconcile(TRUE)
    BY <2>3 DEF SaveLateInit, RemoveFinalizer, RecordCreation, StartReconcile, ClientUpdate,
       Continue, EndReconcile
  <2> QED BY <1>2, <2>1, <2>2, <2>3 DEF RuntimeStep, ReconcilerStep
<1>3. CASE Observe
  <2>1. cr \in Resources /\ cr # NoObject
    BY <1>1, <1>3 DEF Observe
  <2>2. [cr EXCEPT !.forProvider = cr.forProvider].forProvider = cr.forProvider
    BY <2>1 DEF Resources, Things, Objects
  <2>3. \/ Observed(NoObservation, cr.forProvider) \/ NotObserved
        \/ \E upToDate, ds : Found(upToDate, ds)
    BY <1>3 DEF Observe, ObserveReply
  <2> QED BY <2>1, <2>2, <2>3 DEF Observed, NotObserved, Found, Continue, EndReconcile
<1>4. CASE Create
  <2>1. cr \in Resources /\ cr # NoObject
    BY <1>1, <1>4 DEF Create
  <2>2. \E step, name : Returned(step, name)
    BY <1>4 DEF Create, CreateServed
  <2> QED BY <2>1, <2>2 DEF Returned, Resources, Things, Objects
<1>5. CASE Connect \/ Publish \/ Update \/ Delete \/ CrashStep
  BY <1>5 DEF Connect, Publish, Update, Delete, CrashStep, Crash, Continue, EndReconcile
<1>6. CASE UserStep
  BY <1>6 DEF UserStep, UserChange, UserDelete, UserEdit, ForeignWrite
<1>7. CASE CacheSync \/ GraceEnds \/ Elsewhere \/ (\E q \in inFlight : ServeLate(q))
           \/ UNCHANGED vars
  BY <1>7 DEF CacheSync, GraceEnds, Elsewhere, OutOfBandDelete, OutOfBandEdit, ServeLate,
     vars, runtimeVars, workerVars
<1> QED BY <1>2, <1>3, <1>4, <1>5, <1>6, <1>7 DEF Next, Worker, Others

(* Only Update puts a PUT on its way.                                        *)
LEMMA NewPuts ==
  ASSUME [Next]_vars, NEW q \in inFlight', q.verb = "PUT", q \notin inFlight
  PROVE  pc = "update" /\ q = Request("PUT", cr.externalName, request(cr.forProvider))
<1>1. CASE Update
  <2>1. pc = "update" /\ inFlight' \subseteq inFlight \cup
          {Request("PUT", cr.externalName, request(cr.forProvider))}
    BY <1>1 DEF Update, Exchange, NotServed
  <2> QED BY <2>1
<1>2. ASSUME NEW u, inFlight' \subseteq inFlight \cup {u}, u.verb # "PUT" PROVE FALSE
  BY <1>2
<1>3. CASE Create
  <2> DEFINE u == Request("POST", Nil, createRequest(cr.forProvider, cr.initProvider))
  <2>1. inFlight' \subseteq inFlight \cup {u}
    BY <1>3 DEF Create, CreateServed, NotServed
  <2>2. u.verb = "POST"
    BY DEF Request
  <2> HIDE DEF u
  <2> QED BY <1>2, <2>1, <2>2
<1>4. CASE Delete
  <2> DEFINE u == Request("DELETE", cr.externalName, Nil)
  <2>1. inFlight' \subseteq inFlight \cup {u}
    BY <1>4 DEF Delete, Exchange, NotServed
  <2>2. u.verb = "DELETE"
    BY DEF Request
  <2> HIDE DEF u
  <2> QED BY <1>2, <2>1, <2>2
<1>5. CASE RuntimeStep \/ Connect \/ Observe \/ Publish
  BY <1>5 DEF RuntimeStep, ReconcilerStep, Connect, Observe, Publish, growthbook
<1>6. CASE Others \/ UNCHANGED vars
  BY <1>6 DEF Others, CrashStep, UserStep, Elsewhere, OutOfBandDelete, OutOfBandEdit,
     ServeLate, vars, growthbook
<1> QED BY <1>1, <1>3, <1>4, <1>5, <1>6 DEF Next, Worker

(* No step brings a field to a copy or to a request that users never set.    *)
LEMMA NextOwned ==
  ASSUME IInv, [Next]_vars
  PROVE  FieldsOwned'
<1>1. TypeOK /\ FieldsOwned /\ owned \subseteq owned'
  BY NextOwns DEF IInv
<1>2. mr' # NoObject => SetFields(mr'.forProvider) \subseteq owned'
  BY NextOwns
<1>3. cache' # NoObject => SetFields(cache'.forProvider) \subseteq owned'
  BY <1>1, NextCopies DEF FieldsOwned, Owned
<1>4. cr' # NoObject => SetFields(cr'.forProvider) \subseteq owned'
  BY <1>1, CopyFields DEF FieldsOwned, Owned
<1>5. ASSUME NEW q \in inFlight', q.verb = "PUT"
      PROVE  SetFields(q.body) \subseteq owned'
  <2>1. CASE q \in inFlight
    BY <1>1, <1>5, <2>1 DEF FieldsOwned, Owned
  <2>2. CASE q \notin inFlight
    <3>1. pc = "update" /\ q = Request("PUT", cr.externalName, request(cr.forProvider))
      BY <1>5, <2>2, NewPuts
    <3>2. cr # NoObject /\ cr.forProvider \in SDKConnectionParameters
      BY <1>1, <3>1, ResourceCopies
    <3>3. Owned(request(cr.forProvider)) /\ q.body = request(cr.forProvider)
      BY <1>1, <3>1, <3>2, WrittenOwned DEF FieldsOwned, Request
    <3> QED BY <1>1, <3>3 DEF Owned
  <2> QED BY <2>1, <2>2
<1> QED BY <1>2, <1>3, <1>4, <1>5 DEF FieldsOwned, Owned
-----------------------------------------------------------------------------
(* The invariant.                                                           *)

(* It holds initially, and the abstract resource starts with the controller. *)
LEMMA InitHolds == Init => IInv /\ Abstract!Init
<1> SUFFICES ASSUME Init PROVE IInv /\ Abstract!Init
  OBVIOUS
<1>1. PICK s \in Specs, id \in Imported \cup {Nil} :
        \E sc \in SDKConnections : Starts(s, id, sc)
  BY ZeroTyped DEF Init
<1>2. PICK sc \in SDKConnections : Starts(s, id, sc)
  BY <1>1
<1>3. details = NoDetails /\ secret = NoDetails
  BY DEF Init
<1>4. TypeOK
  BY <1>2, <1>3, ConnectionIsSound, StartTyped, DetailsTyped DEF TypeOK
<1>5. Safe /\ Abstract!Init
  BY <1>2, ConnectionIsSound, StartSafe, AbstractStart
<1>6. /\ mr = NewObject(s.forProvider, s.initProvider, id) /\ cache = NoObject
      /\ cr = NoObject /\ pc = "idle" /\ owned = SetFields(s.forProvider) /\ inFlight = {}
  BY <1>2 DEF Starts, RuntimeInit, NewObject
<1>7. FoundNamed /\ DetailsNamed /\ NamesFollow /\ KeyNamed
  BY <1>3, <1>6, DetailsTyped DEF FoundNamed, DetailsNamed, NamesFollow, Follows, KeyNamed
<1>8. FieldsOwned
  BY <1>6 DEF FieldsOwned, Owned, NewObject
<1> QED BY <1>4, <1>5, <1>7, <1>8 DEF IInv

(* Every step keeps it.                                                     *)
LEMMA NextHolds == IInv /\ [Next]_vars => IInv'
<1> SUFFICES ASSUME IInv, [Next]_vars PROVE IInv'
  OBVIOUS
<1>1. AssignedTypeOK(SDKConnectionParameters, SDKConnectionInitParameters,
                     SDKConnections, SDKConnectionParameters)'
  BY StepKnown, StepTyped DEF ConnectionStep, Safe, Protocol
<1>2. Safe'
  BY StepKnown, StepSafe
<1>3. TypeOK'
  BY <1>1, NextDetails, NextKey DEF TypeOK
<1> QED BY <1>2, <1>3, NextFound, NextDetails, NextFollows, NextKey, NextOwned DEF IInv


(* The inductive invariant holds of every behaviour: what each copy of the    *)
(* resource knows, what a step of the reconcile may rely on, where the id of  *)
(* every live connection is, and of which connection details and secret are. *)
THEOREM Invariant == Spec => []IInv
<1>1. Init => IInv
  BY InitHolds
<1> QED BY <1>1, NextHolds, PTL DEF Spec

(* The types hold for any declarations, faults and bounds.                   *)
THEOREM TypeCorrect == Spec => []TypeOK
<1>1. IInv => TypeOK
  BY DEF IInv
<1> QED BY <1>1, Invariant, PTL

(* The connection secret never has the key of a live connection other than    *)
(* the one the resource names, however late what Observe, Create or Update    *)
(* returned is published (sdkconnection.go connectionDetails).               *)
THEOREM KeyIsOfNamed == Spec => []KeyOfNamed
<1>1. IInv => KeyOfNamed
  BY DEF IInv, KeyNamed, KeyOfNamed, Live
<1> QED BY <1>1, Invariant, PTL

(* No connection leaks silently: whatever fails, crashes, comes late or is    *)
(* stale, a live connection made for the resource is named and held by it, is *)
(* on its way there, or is an accounted loss (sdkconnection.go Create).      *)
THEOREM NeverLeaksSilently == Spec => []NoSilentLeak
<1>1. IInv => NoSilentLeak
  BY DEF IInv, Safe
<1> QED BY <1>1, Invariant, PTL

(* Create is never retried over a live connection whose id was not lost.      *)
THEOREM NeverDuplicates == Spec => []NoDuplicate
<1>1. IInv => NoDuplicate
  BY SafeMeansOne DEF IInv
<1> QED BY <1>1, Invariant, PTL

(* Every POST of a connection is announced in the API server before it is     *)
(* sent, and sent only for a resource that names no live one.                *)
THEOREM CreationsJustified == Spec => []CreateJustified
<1>1. IInv => CreateJustified
  BY ProtocolJustifies DEF IInv, Safe
<1> QED BY <1>1, Invariant, PTL

(* The finalizer is taken off only after GrowthBook has said that the         *)
(* connection the resource names is gone (sdkconnection.go Observe, Delete).  *)
THEOREM FinalizerHolds == Spec => FinalizerGuards
<1> DEFINE Guards == mr # NoObject /\ mr' = NoObject /\ mr.finalizer
                       /\ mr.externalName # Nil /\ "Delete" \in Policies
                     => ~Live(mr.externalName)
<1>1. ASSUME IInv, [Next]_vars PROVE Guards
  BY <1>1, StepKnown, StepGuards DEF ConnectionStep
<1>2. IInv /\ [Next]_vars => [Guards]_<<runtimeVars, remote>>
  BY <1>1
<1> QED BY <1>2, Invariant, PTL DEF Spec, FinalizerGuards

(* Every step is one that the abstract resource may take, or none.           *)
LEMMA NextAllowed == IInv /\ [Next]_vars => [Abstract!Next]_(Abstract!vars)
<1> SUFFICES ASSUME IInv, [Next]_vars PROVE Allowed
  BY AllowedIsAbstract
<1> QED BY StepKnown, StepAllowed DEF ConnectionStep

(* The SDKConnection controller keeps the promise of ExternalResource: a      *)
(* resource that goes leaves no connection behind that it answers for, and    *)
(* never answers for two, whatever fails, crashes, comes late or is stale.   *)
THEOREM ImplementsResource == Spec => Implements
BY InitHolds, NextAllowed, Invariant, PTL DEF Spec, Implements, Abstract!Spec
-----------------------------------------------------------------------------
(* What a PUT leaves alone.                                                 *)

(* No field of a live connection changes that users never set.               *)
UnsetKept ==
  \A id \in Ids : Live(id) /\ Live(id)' =>
    \A f \in DOMAIN ZeroConnection \ (owned \cup {"languages"}) :
      remote'[id][f] = remote[id][f]

(* A PUT with owned fields only keeps to it.                                 *)
LEMMA PutKeepsUnset ==
  ASSUME TypeOK, NEW n, NEW body \in SDKConnectionParameters, Owned(body),
         Put(n, Members(body))
  PROVE  UnsetKept
<1> SUFFICES ASSUME NEW id \in Ids, Live(id),
                    NEW f \in DOMAIN ZeroConnection \ (owned \cup {"languages"})
             PROVE  remote'[id][f] = remote[id][f]
  BY DEF UnsetKept
<1>1. CASE id # n \/ ~Live(n)
  BY <1>1, TypeParts DEF Put, RemoteTyped
<1>2. CASE id = n /\ Live(n)
  <2>1. f \in DOMAIN body
    BY DEF ZeroConnection, SDKConnectionParameters
  <2>2. Members(body)[f] = Nil
    BY <2>1, MembersAre DEF Owned, SetFields
  <2>3. remote'[id] = Overlay(remote[id], Members(body)) /\ remote[id] \in SDKConnections
    BY <1>2, TypeParts DEF Put, RemoteTyped, Live
  <2>4. f \in DOMAIN remote[id]
    BY <2>3 DEF SDKConnections, ZeroConnection
  <2> QED BY <2>2, <2>3, <2>4 DEF Overlay
<1> QED BY <1>1, <1>2

(* A POST changes no live connection, a DELETE leaves none to look at.        *)
LEMMA OthersKeepUnset ==
  ASSUME TypeOK, NEW n, (\E sc : PostAs(n, sc)) \/ Remove(n) \/ UNCHANGED remote
  PROVE  UnsetKept
BY TypeParts DEF PostAs, Remove, RemoteTyped, UnsetKept, Live

(* A late request changes a live connection only when it is a PUT.           *)
LEMMA LateKeepsUnset ==
  ASSUME IInv, NEW q \in inFlight, ServeLate(q)
  PROVE  UnsetKept
<1>1. TypeOK /\ q \in Requests
  BY TypeParts DEF IInv
<1>2. PICK id \in IF q.verb = "POST" THEN Ids ELSE {q.id} : Serve(q, id)
  BY DEF ServeLate
<1>3. CASE q.verb = "PUT"
  <2>1. Put(id, Members(q.body)) /\ q.body \in SDKConnectionParameters
    BY <1>1, <1>2, <1>3 DEF Serve, Requests, RequestsWith
  <2>2. Owned(q.body)
    BY <1>3 DEF IInv, FieldsOwned
  <2> QED BY <1>1, <2>1, <2>2, PutKeepsUnset
<1>4. CASE q.verb \in {"POST", "DELETE"}
  BY <1>1, <1>2, <1>4, OthersKeepUnset DEF Serve
<1> QED BY <1>1, <1>3, <1>4 DEF Requests, RequestsWith

(* "Unset optional fields are left to GrowthBook": no PUT, on time or late,   *)
(* from the latest copy or from a stale one, changes a field that users never *)
(* set in forProvider, though Create may have sent one from initProvider     *)
(* (convert.go request and createRequest, sdkconnection.go Update).          *)
THEOREM UnsetStaysUnset == Spec => UnsetLeftAlone
<1>1. ASSUME IInv, Next, PutServed
      PROVE  UnsetKept
  <2>1. TypeOK
    BY <1>1 DEF IInv
  <2>2. CASE UNCHANGED remote
    BY <2>1, <2>2, OthersKeepUnset
  <2>3. CASE Update
    <3>1. cr # NoObject /\ cr.forProvider \in SDKConnectionParameters
      BY <2>1, <2>3, ResourceCopies DEF Update
    <3>2. request(cr.forProvider) \in SDKConnectionParameters /\ Owned(request(cr.forProvider))
      BY <1>1, <3>1, WrittenTyped, WrittenOwned DEF IInv, FieldsOwned
    <3>3. Put(cr.externalName, Members(request(cr.forProvider))) \/ UNCHANGED remote
      BY <2>3 DEF Update, Exchange, NotServed, Serve, Request
    <3> QED BY <2>1, <2>2, <3>2, <3>3, PutKeepsUnset
  <2>4. CASE Delete
    <3>1. Remove(cr.externalName) \/ UNCHANGED remote
      BY <2>4 DEF Delete, Exchange, NotServed, Serve, Request
    <3> QED BY <2>1, <3>1, OthersKeepUnset
  <2>5. CASE Create
    <3>1. UNCHANGED remote \/ \E id, sc : PostAs(id, sc)
      BY <2>5 DEF Create, CreateServed, NotServed, Serve, Request
    <3> QED BY <2>1, <3>1, OthersKeepUnset
  <2>6. ASSUME NEW q \in inFlight, ServeLate(q) PROVE UnsetKept
    BY <1>1, <2>6, LateKeepsUnset
  <2>7. CASE Elsewhere
    BY <1>1, <2>7 DEF PutServed, Elsewhere, OutOfBandDelete, OutOfBandEdit, workerVars
  <2>8. CASE \/ RuntimeStep \/ Connect \/ Observe \/ Publish \/ CrashStep \/ UserStep
             \/ ((CacheSync \/ GraceEnds) /\ UNCHANGED growthbook)
    <3>1. UNCHANGED remote
      BY <2>8 DEF RuntimeStep, ReconcilerStep, Connect, Observe, Publish, CrashStep, UserStep,
         growthbook
    <3> QED BY <2>2, <3>1
  <2> QED BY <1>1, <2>3, <2>4, <2>5, <2>6, <2>7, <2>8 DEF Next, Worker, Others, growthbook
<1>2. IInv /\ [Next]_vars => [PutServed => UnsetKept]_vars
  BY <1>1
<1> QED BY <1>2, Invariant, PTL DEF Spec, UnsetLeftAlone, UnsetKept
=============================================================================
