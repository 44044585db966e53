--------------------------- MODULE EnvironmentProofs ---------------------------
(***************************************************************************)
(* Environment, for any name, declarations, faults, policies and bounds: it  *)
(* is well typed, implements ExternalResource, adopts and sends nothing that *)
(* is create-only, and no poll repeats a write that was served.  The steps    *)
(* of the reconciler are those of NamedProofs; what is proved here is what    *)
(* convert.go and environment.go add.                                       *)
(***************************************************************************)
EXTENDS Environment, NamedProofs

P == EnvironmentParameters

Fields == DOMAIN NewEnvironment

(* The list of projects is never adopted, and only it is lost when empty.     *)
Never == {"projects"}

(* Parameters, requests and environments have the same fields.               *)
LEMMA SameFields ==
  /\ \A p \in P : DOMAIN p = Fields
  /\ \A o \in Environments : DOMAIN o = Fields
BY DEF P, EnvironmentParameters, Environments, Fields, NewEnvironment

(* What is written of an object has the parameters of an environment, none    *)
(* that the object does not have.                                           *)
LEMMA MarshalTyped ==
  ASSUME NEW p \in P
  PROVE  /\ MarshalParameters(p) \in P
         /\ \A f \in Fields : \/ MarshalParameters(p)[f] = p[f]
                              \/ f \in Never /\ MarshalParameters(p)[f] = Nil
BY DEF MarshalParameters, OmitEmpty, P, EnvironmentParameters, Opt, Fields, NewEnvironment, Never

(* A PUT carries parameters, but no parent, and what is unset stays unset.    *)
LEMMA UpdateRequestTyped ==
  ASSUME NEW p \in P
  PROVE  /\ updateRequest(p) \in P
         /\ updateRequest(p).parent = Nil
         /\ \A f \in Fields : p[f] = Nil => updateRequest(p)[f] = Nil
         /\ \A f \in {"description", "toggleOnList", "defaultState"} : updateRequest(p)[f] = p[f]
         /\ p.projects # <<>> => updateRequest(p).projects = p.projects
BY DEF updateRequest, MarshalRequest, OmitEmpty, P, EnvironmentParameters, Opt, Fields,
       NewEnvironment

(* A POST carries what forProvider and initProvider have together.           *)
LEMMA CreateRequestTyped ==
  ASSUME NEW p \in P, NEW ip \in P
  PROVE  createRequest(p, ip) \in P
<1> DEFINE merged == mergeInitProvider(p, ip)
<1>1. merged \in P
  BY DEF mergeInitProvider, P, EnvironmentParameters, Opt
<1>2. updateRequest(merged) \in P /\ merged.parent \in Opt(Parents)
  BY <1>1, UpdateRequestTyped DEF P, EnvironmentParameters
<1>3. createRequest(p, ip) = [updateRequest(merged) EXCEPT !.parent = merged.parent]
  BY DEF createRequest
<1> HIDE DEF merged
<1> QED BY <1>2, <1>3 DEF P, EnvironmentParameters

(* Late initialization gives parameters again, and changes only what is unset *)
(* in both.                                                                 *)
LEMMA LateInitTyped ==
  ASSUME NEW p \in P, NEW ip \in P, NEW ext \in Environments
  PROVE  /\ lateInitialize(p, ip, ext) \in P
         /\ \A f \in Fields : lateInitialize(p, ip, ext)[f] # p[f] =>
              p[f] = Nil /\ ip[f] = Nil /\ f \notin Never
<1>1. lateInitialize(p, ip, ext) \in P
  BY DescriptionsAssumption DEF lateInitialize, lateInitPtr, P, EnvironmentParameters,
     Environments, Opt
<1>2. ASSUME NEW f \in Fields, lateInitialize(p, ip, ext)[f] # p[f]
      PROVE  p[f] = Nil /\ ip[f] = Nil /\ f \notin Never
  BY <1>2, SameFields DEF lateInitialize, lateInitPtr, Never
<1> QED BY <1>1, <1>2

(* What GrowthBook stores after a write is an environment again.             *)
LEMMA OverlayTyped ==
  ASSUME NEW base \in Environments, NEW over \in P
  PROVE  Overlay(base, over) \in Environments
BY DEF Overlay, P, EnvironmentParameters, Environments, Opt

(* A new environment is one.                                                *)
LEMMA NewEnvironmentTyped == NewEnvironment \in Environments
BY DEF NewEnvironment, Environments

Requests == [verb : {"POST", "PUT", "DELETE"}, body : Opt(P)]

WellFormed(q) == q \in Requests /\ (q.verb # "DELETE" => q.body \in P)

(* What a request leaves is an environment or none, and only a POST makes one.*)
LEMMA ServedTyped ==
  ASSUME NEW q, WellFormed(q), remote \in Environments \cup {Absent}
  PROVE  /\ Served(q) \in Environments \cup {Absent}
         /\ Served(q) # Absent => Exists \/ Creates(q)
         /\ q.verb = "PUT" => Served(q) = IF Exists THEN Overlay(remote, q.body) ELSE remote
<1>1. CASE q.verb = "POST"
  <2>1. CASE Exists
    BY <1>1, <2>1 DEF Served, Creates
  <2>2. CASE ~Exists
    <3>1. Served(q) = Overlay(NewEnvironment, q.body) /\ Creates(q)
      BY <1>1, <2>2 DEF Served, Creates
    <3> QED BY <1>1, <3>1, OverlayTyped, NewEnvironmentTyped DEF WellFormed
  <2> QED BY <2>1, <2>2
<1>2. CASE q.verb = "PUT"
  <2>1. CASE Exists
    <3>1. Served(q) = Overlay(remote, q.body) /\ remote \in Environments
      BY <1>2, <2>1 DEF Served, Creates, Exists
    <3> QED BY <1>2, <2>1, <3>1, OverlayTyped DEF WellFormed
  <2>2. CASE ~Exists
    BY <1>2, <2>2 DEF Served, Creates, Exists
  <2> QED BY <2>1, <2>2
<1>3. CASE q.verb = "DELETE"
  BY <1>3 DEF Served, Creates
<1> QED BY <1>1, <1>2, <1>3 DEF WellFormed, Requests
-----------------------------------------------------------------------------
(* The inductive invariant.                                                 *)

InFlightOK == \A q \in inFlight : WellFormed(q)

IInv == TypeOK /\ InFlightOK /\ Safe /\ CopiesClean(Never)

KindOK ==
  KubeOK(P) /\ WorkerOK(P) /\ ChaosOK /\ RemoteOK(Environments, P) /\ owned \subseteq Fields

(* TypeOK, by owner.                                                        *)
LEMMA TypeParts == (TypeOK <=> KindOK) /\ (TypeOK' <=> KindOK')
BY NamedTypeParts DEF TypeOK, KindOK, P, Fields

(* What users declare has the fields of an environment.                      *)
LEMMA Inputs ==
  /\ \A s \in Specs : s.forProvider \in P /\ s.initProvider \in P
  /\ \A e \in Edits, p \in P : [p EXCEPT ![e.field] = e.to] \in P
  /\ NoObject \notin Things(P)
BY InputsAssumption, NoObjectAssumption DEF P, Things

(* The copy in memory is an object, and its fields are parameters.           *)
LEMMA CopyTyped ==
  ASSUME KindOK, pc # "idle"
  PROVE  /\ cr \in Things(P) /\ cr # NoObject
         /\ cr.forProvider \in P /\ cr.initProvider \in P
  BY Inputs DEF KindOK, WorkerOK, Things, Objects

(* The initial states satisfy the invariant.                                 *)
LEMMA IInvInit == Init => IInv
<1> SUFFICES ASSUME Init PROVE IInv
  OBVIOUS
<1> DEFINE present == {e \in Environments :
      e = [NewEnvironment EXCEPT !.description = e.description, !.projects = e.projects]}
<1>1. NamedInit(present)
  BY DEF Init
<1>2. present \subseteq Environments
  OBVIOUS
<1> HIDE DEF present
<1>3. NamedTypeOK(P, Environments, P)
  BY <1>1, <1>2, NamedTypeInit, Inputs
<1>4. PICK s \in Specs : RuntimeInit(NewObject(s.forProvider, s.initProvider, Nil))
  BY <1>1 DEF NamedInit
<1>5. owned = SetFields(s.forProvider) /\ DOMAIN s.forProvider = Fields
  BY <1>4, Inputs, SameFields DEF RuntimeInit, NewObject
<1>6. owned \subseteq Fields
  BY <1>5 DEF SetFields
<1>7. TypeOK
  BY <1>3, <1>6 DEF TypeOK, P, Fields
<1>8. InFlightOK
  BY <1>1 DEF InFlightOK, NamedInit
<1> QED BY <1>1, <1>7, <1>8, SafeInit, CleanInit DEF IInv

(* The steps between the controller's calls are those of NamedProofs.        *)
LEMMA RuntimeStepIs ==
  RuntimeStep <=> /\ Between(cache.externalName # Nil, MarshalParameters(cr.forProvider))
                  /\ UNCHANGED growthbook
BY DEF RuntimeStep, Between

(* They keep the invariant.                                                 *)
LEMMA RuntimeStepKeeps ==
  ASSUME IInv, RuntimeStep
  PROVE  IInv'
<1> DEFINE stored == MarshalParameters(cr.forProvider)
           named  == cache.externalName # Nil
<1>1. KindOK /\ Between(named, stored) /\ UNCHANGED growthbook
  BY RuntimeStepIs, TypeParts DEF IInv
<1>2. pc # "idle" =>
        stored \in P /\ Serialised(Never, stored)
  BY <1>1, CopyTyped, MarshalTyped, SameFields DEF Serialised
<1> HIDE DEF stored, named
<1>3. /\ NoObject \notin Things(P) /\ KubeOK(P) /\ WorkerOK(P)
      /\ Protocol /\ Safe /\ CopiesClean(Never)
  BY <1>1, Inputs DEF KindOK, IInv, Safe
<1>4. KubeOK(P)' /\ WorkerOK(P)' /\ UNCHANGED <<chaos, owned>>
  BY <1>1, <1>2, <1>3, BetweenTyped
<1>5. RemoteOK(Environments, P)'
  BY <1>1, RemoteUnchanged DEF KindOK
<1>6. TypeOK'
  BY <1>1, <1>4, <1>5, TypeParts DEF KindOK, ChaosOK
<1>7. Safe'
  BY <1>1, <1>2, <1>3, BetweenSafe
<1>8. CopiesClean(Never)'
  BY <1>1, <1>2, <1>3, BetweenClean
<1>9. InFlightOK'
  BY <1>1 DEF IInv, InFlightOK, growthbook, WellFormed
<1> QED BY <1>6, <1>7, <1>8, <1>9 DEF IInv

(* Connect keeps it.                                                        *)
LEMMA ConnectKeeps ==
  ASSUME IInv, Connect
  PROVE  IInv'
<1>1. /\ KindOK /\ NoObject \notin Things(P) /\ Safe /\ CopiesClean(Never)
      /\ pc = "connect" /\ UNCHANGED <<kubeVars, growthbook>>
  BY TypeParts, Inputs DEF IInv, Connect
<1>2. CASE pc' = "observe" /\ UNCHANGED <<cr, crFresh, obs, chaos>>
  <2>1. WorkerOK(P)' /\ ChaosOK'
    BY <1>1, <1>2 DEF KindOK, WorkerOK, ChaosOK, Steps
  <2>2. Safe'
    BY <1>1, <1>2, ConnectSafe DEF KindOK
  <2>3. CopiesClean(Never)'
    BY <1>1, <1>2, StaysClean DEF kubeVars
  <2> QED BY <1>1, <2>1, <2>2, <2>3, TypeParts, KubeUnchanged, RemoteUnchanged
          DEF IInv, KindOK, InFlightOK, WellFormed, growthbook, kubeVars
<1>3. CASE Disturb /\ EndReconcile
  <2>1. WorkerOK(P)' /\ ChaosOK'
    BY <1>1, <1>3, EndTyped, DisturbTyped DEF KindOK
  <2>2. Safe'
    BY <1>1, <1>3, ConnectSafe DEF KindOK
  <2>3. CopiesClean(Never)'
    BY <1>1, <1>3, StaysClean DEF kubeVars, EndReconcile
  <2> QED BY <1>1, <2>1, <2>2, <2>3, TypeParts, KubeUnchanged, RemoteUnchanged
          DEF IInv, KindOK, InFlightOK, WellFormed, growthbook, kubeVars
<1> QED BY <1>2, <1>3 DEF Connect

(* GetEnvironment says that there is nothing, or shows what is there.        *)
LEMMA GetEnvironmentSays ==
  ASSUME NEW r \in {Answered} \cup Faults
  PROVE  LET g == GetEnvironment(r) IN
         /\ IsNotFound(g) => g # Answered /\ g \in Missing
         /\ ~IsNotFound(g) /\ ~Fails(g, TRUE) => g = Answered /\ Exists
<1>1. ASSUME r \in Faults PROVE ~IsNotFound(r)
  BY <1>1, FaultsAssumption
<1>2. ~IsNotFound(Answered) /\ ~Fails(Answered, TRUE)
  BY DEF IsNotFound, Answered, Response, Fails, DecodeResponse
<1>3. Response(404, "none", "object") \in Missing /\ Response(404, "none", "object") # Answered
  BY DEF Missing, Answered, Response
<1>4. IsNotFound(Response(404, "none", "object"))
  BY DEF IsNotFound, Response
<1> QED BY <1>1, <1>2, <1>3, <1>4 DEF GetEnvironment

(* Observe keeps it.                                                        *)
LEMMA ObserveKeeps ==
  ASSUME IInv, Observe
  PROVE  IInv'
<1>1. /\ KindOK /\ NoObject \notin Things(P) /\ Safe /\ CopiesClean(Never)
      /\ pc = "observe" /\ UNCHANGED <<remote, inFlight, made>>
  BY TypeParts, Inputs DEF IInv, Observe
<1>2. PICK r \in {Answered} \cup Faults :
        Charge(r) /\ ObserveReply(GetEnvironment(r)) /\ Seen(GetEnvironment(r))
  BY DEF Observe
<1>3. PICK g : g = GetEnvironment(r)
  OBVIOUS
<1>4. /\ IsNotFound(g) => g # Answered /\ g \in Missing
      /\ ~IsNotFound(g) /\ ~Fails(g, TRUE) => Exists
      /\ Seen(g) /\ ObserveReply(g)
  BY <1>2, <1>3, GetEnvironmentSays
<1>5. ChaosOK' /\ RemoteOK(Environments, P)' /\ InFlightOK'
  <2>1. hidden' \in BOOLEAN
    BY <1>1, <1>4 DEF Seen, KindOK, RemoteOK, Exists, Held
  <2> QED BY <1>1, <1>2, <2>1, ChargeTyped DEF KindOK, RemoteOK, IInv, InFlightOK, WellFormed
<1>6. cr.forProvider \in P /\ cr.initProvider \in P
  BY <1>1, CopyTyped
<1>7. ASSUME NEW o \in Observations, NEW p \in P, Observed(o, p), ~o.exists => IsNotFound(g),
             \A f \in Fields : p[f] # cr.forProvider[f] =>
               cr.forProvider[f] = Nil /\ cr.initProvider[f] = Nil /\ f \notin Never
      PROVE  IInv'
  <2>1. WorkerOK(P)' /\ UNCHANGED kubeVars
    BY <1>1, <1>7, ObservedTyped DEF KindOK
  <2>2. TypeOK'
    BY <1>1, <1>5, <2>1, KubeUnchanged, TypeParts DEF KindOK, kubeVars
  <2>3. Safe'
    BY <1>1, <1>4, <1>7, ObservedSafe DEF KindOK
  <2>4. Adopted(Never, p)
    BY <1>6, <1>7, SameFields DEF Adopted
  <2>5. UNCHANGED owned
    BY <2>1 DEF kubeVars
  <2>6. CopiesClean(Never)'
    BY <1>1, <1>7, <2>4, <2>5, ObservedClean DEF KindOK
  <2> QED BY <1>5, <2>2, <2>3, <2>6 DEF IInv
<1>8. CASE IsNotFound(g)
  <2>1. Observed(NoObservation, cr.forProvider)
    BY <1>4, <1>8 DEF ObserveReply
  <2>2. NoObservation \in Observations
    BY DEF NoObservation, Observations
  <2> QED BY <1>6, <1>7, <1>8, <2>1, <2>2
<1>9. CASE ~IsNotFound(g) /\ Fails(g, TRUE)
  <2>1. EndReconcile /\ UNCHANGED kubeVars
    BY <1>4, <1>9 DEF ObserveReply, NotObserved
  <2>2. TypeOK'
    BY <1>1, <1>5, <2>1, KubeUnchanged, EndTyped, TypeParts DEF KindOK, kubeVars
  <2>3. Standing' = "held" => Standing = "held" \/ (mr # NoObject /\ mr.finalizer)
    BY <1>1, <1>4, <2>1, SeenStands DEF kubeVars
  <2>4. Safe'
    BY <1>1, <2>1, <2>3, EndSafe
  <2>5. CopiesClean(Never)'
    BY <1>1, <2>1, StaysClean DEF kubeVars, EndReconcile
  <2> QED BY <1>5, <2>2, <2>4, <2>5 DEF IInv
<1>10. CASE ~IsNotFound(g) /\ ~Fails(g, TRUE)
  <2> DEFINE p == lateInitialize(cr.forProvider, cr.initProvider, remote)
             o == [exists   |-> TRUE,
                   upToDate |-> isUpToDate(p, remote),
                   lateInit |-> p # cr.forProvider]
  <2>1. Observed(o, p)
    BY <1>4, <1>10 DEF ObserveReply
  <2>2. remote \in Environments
    BY <1>1, <1>4, <1>10 DEF KindOK, RemoteOK, Exists
  <2>3. /\ p \in P
        /\ \A f \in Fields : p[f] # cr.forProvider[f] =>
             cr.forProvider[f] = Nil /\ cr.initProvider[f] = Nil /\ f \notin Never
    BY <1>6, <2>2, LateInitTyped
  <2>4. o \in Observations /\ o.exists
    BY DEF Observations, isUpToDate
  <2> HIDE DEF p, o
  <2> QED BY <1>7, <2>1, <2>3, <2>4
<1> QED BY <1>8, <1>9, <1>10
-----------------------------------------------------------------------------
(* The calls of GrowthBook.                                                 *)

(* A request that a step sends is well-formed.                               *)
LEMMA SentWellFormed ==
  ASSUME KindOK, pc # "idle"
  PROVE  /\ WellFormed(Request("POST", createRequest(cr.forProvider, cr.initProvider)))
         /\ WellFormed(Request("PUT", updateRequest(cr.forProvider)))
         /\ WellFormed(Request("DELETE", Nil))
<1>1. createRequest(cr.forProvider, cr.initProvider) \in P /\ updateRequest(cr.forProvider) \in P
  BY CopyTyped, CreateRequestTyped, UpdateRequestTyped
<1> QED BY <1>1 DEF WellFormed, Requests, Request, Opt

(* A call keeps the invariant, whatever the reconcile goes on with.          *)
LEMMA CallKeeps ==
  ASSUME IInv, pc # "idle", NEW q, WellFormed(q), NEW r, Call(q, Served(q), r),
         UNCHANGED kubeVars, q.verb = "POST" => pc = "create",
         \/ EndReconcile
         \/ /\ UNCHANGED <<cr, crFresh, obs>>
            /\ pc' \in Holding /\ pc \in Holding
  PROVE  IInv'
<1>1. /\ KindOK /\ NoObject \notin Things(P) /\ Safe /\ CopiesClean(Never)
  BY TypeParts, Inputs DEF IInv
<1>2. /\ q \in [verb : {"POST", "PUT", "DELETE"}, body : Opt(P)]
      /\ Served(q) \in Environments \cup {Absent}
      /\ Served(q) # Absent => Exists \/ Creates(q)
  BY <1>1, ServedTyped DEF WellFormed, Requests, KindOK, RemoteOK
<1>3. RemoteOK(Environments, P)' /\ ChaosOK'
  BY <1>1, <1>2, CallTyped DEF KindOK
<1>4. WorkerOK(P)'
  <2>1. CASE EndReconcile
    BY <2>1, EndTyped
  <2>2. CASE UNCHANGED <<cr, crFresh, obs>> /\ pc' \in Holding /\ pc \in Holding
    BY <1>1, <2>2 DEF KindOK, WorkerOK, Holding, Steps
  <2> QED BY <2>1, <2>2
<1>5. TypeOK'
  BY <1>1, <1>3, <1>4, KubeUnchanged, TypeParts DEF KindOK, kubeVars
<1>6. Safe'
  BY <1>1, <1>2, CallSafe DEF KindOK, Holding
<1>7. CopiesClean(Never)'
  BY <1>1, StaysClean DEF kubeVars, EndReconcile
<1>8. InFlightOK'
  BY DEF Call, NotServed, IInv, InFlightOK, WellFormed
<1> QED BY <1>5, <1>6, <1>7, <1>8 DEF IInv

(* Create, Update and Delete keep it.                                       *)
LEMMA CallsKeep ==
  ASSUME IInv, Create \/ Update \/ Delete
  PROVE  IInv'
<1>1. KindOK
  BY TypeParts DEF IInv
<1>2. CASE Create
  <2> DEFINE q == Request("POST", createRequest(cr.forProvider, cr.initProvider))
  <2>1. /\ pc = "create" /\ UNCHANGED <<kubeVars, cr, crFresh, obs>>
        /\ pc' \in {"recordFailed", "recordCreated"}
    BY <1>2 DEF Create
  <2>2. WellFormed(q)
    BY <1>1, <2>1, SentWellFormed
  <2>3. PICK r \in Answers(q) : Call(q, Served(q), r)
    BY <1>2 DEF Create
  <2> HIDE DEF q
  <2> QED BY <2>1, <2>2, <2>3, CallKeeps DEF Holding
<1>3. CASE Update
  <2> DEFINE q == Request("PUT", updateRequest(cr.forProvider))
  <2>1. pc = "update" /\ EndReconcile /\ UNCHANGED kubeVars /\ q.verb = "PUT"
    BY <1>3 DEF Update, Request
  <2>2. WellFormed(q)
    BY <1>1, <2>1, SentWellFormed
  <2>3. PICK r \in Answers(q) : Call(q, Served(q), r)
    BY <1>3 DEF Update
  <2> HIDE DEF q
  <2> QED BY <2>1, <2>2, <2>3, CallKeeps
<1>4. CASE Delete
  <2> DEFINE q == Request("DELETE", Nil)
  <2>1. pc = "delete" /\ EndReconcile /\ UNCHANGED kubeVars /\ q.verb = "DELETE"
    BY <1>4 DEF Delete, Request
  <2>2. WellFormed(q)
    BY <1>1, <2>1, SentWellFormed
  <2>3. PICK r \in Answers(q) : Call(q, Served(q), r)
    BY <1>4 DEF Delete
  <2> HIDE DEF q
  <2> QED BY <2>1, <2>2, <2>3, CallKeeps
<1> QED BY <1>2, <1>3, <1>4
-----------------------------------------------------------------------------
(* What happens around the worker.                                          *)

(* Users, the informer, the clock and crashes keep it.                       *)
LEMMA KubernetesKeeps ==
  ASSUME IInv, Kubernetes
  PROVE  IInv'
<1>1. /\ KindOK /\ NoObject \notin Things(P) /\ Safe /\ CopiesClean(Never) /\ UNCHANGED growthbook
  BY TypeParts, Inputs DEF IInv, Kubernetes
<1>2. RemoteOK(Environments, P)' /\ InFlightOK'
  BY <1>1, RemoteUnchanged DEF KindOK, IInv, InFlightOK, WellFormed, growthbook
<1>3. CASE Users
  <2>1. KubeOK(P)' /\ WorkerOK(P)' /\ ChaosOK'
    BY <1>1, <1>3, UsersTyped, Inputs DEF KindOK
  <2>2. owned' \subseteq Fields
    <3>1. CASE UserDelete
      BY <1>1, <3>1 DEF UserDelete, KindOK
    <3>2. ASSUME NEW e \in Edits, UserEdit(e.field, e.to) PROVE owned' \subseteq Fields
      BY <1>1, <3>2, InputsAssumption DEF UserEdit, KindOK, Fields
    <3>3. ASSUME NEW s \in Specs, UserCreate(NewObject(s.forProvider, s.initProvider, Nil))
          PROVE  owned' \subseteq Fields
      BY <3>3, Inputs, SameFields DEF UserCreate, NewObject, SetFields
    <3> QED BY <1>3, <3>1, <3>2, <3>3 DEF Users
  <2>3. Safe'
    BY <1>1, <1>3, UsersSafe, Inputs DEF KindOK
  <2>4. CopiesClean(Never)'
    BY <1>1, <1>3, UsersClean, Inputs DEF KindOK
  <2> QED BY <1>2, <2>1, <2>2, <2>3, <2>4, TypeParts DEF IInv, KindOK
<1>4. CASE Crash \/ CacheSync \/ GraceEnds
  <2>1. KubeOK(P)' /\ WorkerOK(P)' /\ ChaosOK' /\ UNCHANGED owned
    BY <1>1, <1>4, AroundTyped DEF KindOK
  <2>2. Safe' /\ CopiesClean(Never)'
    BY <1>1, <1>4, AroundSafe, AroundClean
  <2> QED BY <1>1, <1>2, <2>1, <2>2, TypeParts DEF IInv, KindOK
<1> QED BY <1>3, <1>4 DEF Kubernetes

(* So do people who work in GrowthBook itself.                               *)
LEMMA OutOfBandKeeps ==
  ASSUME IInv, OutOfBandChange(NewEnvironment)
  PROVE  IInv'
<1>1. KindOK /\ Safe /\ CopiesClean(Never)
  BY TypeParts DEF IInv
<1>2. /\ KubeOK(P)' /\ WorkerOK(P)' /\ ChaosOK' /\ RemoteOK(Environments, P)'
      /\ UNCHANGED <<kubeVars, workerVars, inFlight>>
  BY <1>1, OutOfBandTyped, NewEnvironmentTyped, InputsAssumption DEF KindOK, OutOfBandChange
<1>3. TypeOK'
  BY <1>1, <1>2, TypeParts DEF KindOK, kubeVars
<1>4. Safe'
  BY <1>1, OutOfBandSafe
<1>5. CopiesClean(Never)'
  BY <1>1, <1>2, StaysClean DEF kubeVars, workerVars
<1> QED BY <1>2, <1>3, <1>4, <1>5 DEF IInv, InFlightOK, WellFormed

(* So do requests that come late.                                           *)
LEMMA ServeLateKeeps ==
  ASSUME IInv, NEW q \in inFlight, ServeLate(q, Served(q))
  PROVE  IInv'
<1>1. KindOK /\ Safe /\ CopiesClean(Never) /\ WellFormed(q)
  BY TypeParts DEF IInv, InFlightOK
<1>2. /\ Served(q) \in Environments \cup {Absent}
      /\ Served(q) # Absent => Exists \/ Creates(q)
  BY <1>1, ServedTyped DEF KindOK, RemoteOK
<1>3. RemoteOK(Environments, P)' /\ UNCHANGED <<kubeVars, workerVars, chaos>>
  BY <1>1, <1>2, ServeLateTyped DEF KindOK, runtimeVars
<1>4. TypeOK'
  BY <1>1, <1>3, KubeUnchanged, WorkerUnchanged, TypeParts DEF KindOK, ChaosOK, kubeVars
<1>5. Safe'
  BY <1>1, <1>2, ServeLateSafe
<1>6. CopiesClean(Never)'
  BY <1>1, <1>3, StaysClean DEF kubeVars, workerVars
<1>7. InFlightOK'
  BY DEF ServeLate, IInv, InFlightOK, WellFormed
<1> QED BY <1>4, <1>5, <1>6, <1>7 DEF IInv

(* The invariant is inductive.                                              *)
LEMMA IInvNext == IInv /\ [Next]_vars => IInv'
<1> SUFFICES ASSUME IInv, [Next]_vars PROVE IInv'
  OBVIOUS
<1>1. CASE Worker
  BY <1>1, RuntimeStepKeeps, ConnectKeeps, ObserveKeeps, CallsKeep DEF Worker
<1>2. CASE Kubernetes
  BY <1>2, KubernetesKeeps
<1>3. CASE OutOfBandChange(NewEnvironment)
  BY <1>3, OutOfBandKeeps
<1>4. CASE \E q \in inFlight : ServeLate(q, Served(q))
  BY <1>4, ServeLateKeeps
<1>5. CASE UNCHANGED vars
  <2>1. UNCHANGED <<kubeVars, workerVars, chaos, growthbook>>
    BY <1>5 DEF vars, runtimeVars
  <2>2. KindOK
    BY TypeParts DEF IInv
  <2>3. KindOK'
    BY <2>1, <2>2, KubeUnchanged, WorkerUnchanged, RemoteUnchanged DEF KindOK, ChaosOK, kubeVars
  <2>4. Standing' = Standing
    BY <2>1 DEF kubeVars, growthbook, Standing, AnswersFor, Exists, Held
  <2>5. Safe'
    BY <2>1, <2>4 DEF IInv, Safe, CopiesFollow, Follows, Live, CopiesAgree, Protocol, HeldIsHeld,
       kubeVars, workerVars
  <2>6. CopiesClean(Never)'
    BY <2>1, StaysClean DEF IInv, kubeVars, workerVars
  <2> QED BY <2>1, <2>3, <2>5, <2>6, TypeParts DEF IInv, InFlightOK, WellFormed, growthbook
<1> QED BY <1>1, <1>2, <1>3, <1>4, <1>5 DEF Next

(* It holds of every behaviour.                                             *)
LEMMA Invariant == Spec => []IInv
BY IInvInit, IInvNext, PTL DEF Spec
-----------------------------------------------------------------------------
(* What follows from it.                                                    *)

(* Environment is well typed: what convert.go computes, GrowthBook stores     *)
(* and the API server keeps has the form of an environment, always.          *)
THEOREM EnvironmentTypes == Spec => []TypeOK
<1>1. IInv => TypeOK
  BY DEF IInv
<1> QED BY <1>1, Invariant, PTL

(* What users set only in initProvider is never adopted into forProvider,     *)
(* whatever GrowthBook shows (convert.go lateInitialize).                    *)
THEOREM InitOnlyStaysOut == Spec => []InitOnlyNeverAdopted
<1>1. IInv => InitOnlyNeverAdopted
  BY DEF IInv, CopiesClean, Clean, InitOnly, InitOnlyNeverAdopted
<1> QED BY <1>1, Invariant, PTL

(* Only Update ends a reconcile that was at its update, or a crash that       *)
(* touches nothing in GrowthBook.                                           *)
LEMMA OnlyUpdate ==
  ASSUME [Next]_vars, pc = "update", pc' = "idle"
  PROVE  Update \/ UNCHANGED remote
<1>1. CASE RuntimeStep
  BY <1>1 DEF RuntimeStep, growthbook
<1>2. ~Connect /\ ~Observe /\ ~Create /\ ~Delete
  BY DEF Connect, Observe, Create, Delete
<1>3. CASE Kubernetes
  BY <1>3 DEF Kubernetes, growthbook
<1>4. ~OutOfBandChange(NewEnvironment)
  BY DEF OutOfBandChange, workerVars
<1>5. ~\E q \in inFlight : ServeLate(q, Served(q))
  BY DEF ServeLate, runtimeVars, workerVars
<1>6. CASE UNCHANGED vars
  BY <1>6 DEF vars, growthbook
<1> QED BY <1>1, <1>2, <1>3, <1>4, <1>5, <1>6 DEF Next, Worker

(* What Update changes in GrowthBook is the environment that is there, by     *)
(* what updateRequest makes of the copy in memory.                           *)
LEMMA UpdateChanges ==
  ASSUME IInv, Update, remote' # remote
  PROVE  /\ remote \in Environments /\ cr.forProvider \in P
         /\ remote' = Overlay(remote, updateRequest(cr.forProvider))
<1> DEFINE q == Request("PUT", updateRequest(cr.forProvider))
<1>1. KindOK /\ pc = "update" /\ q.verb = "PUT" /\ q.body = updateRequest(cr.forProvider)
  BY TypeParts DEF IInv, Update, Request
<1>2. WellFormed(q)
  BY <1>1, SentWellFormed
<1>3. PICK r \in Answers(q) : Call(q, Served(q), r)
  BY DEF Update
<1> HIDE DEF q
<1>4. remote' = Served(q)
  BY <1>3 DEF Call, Serve, NotServed
<1>5. Served(q) = IF Exists THEN Overlay(remote, q.body) ELSE remote
  BY <1>1, <1>2, ServedTyped DEF KindOK, RemoteOK
<1>6. Exists /\ remote' = Overlay(remote, q.body)
  BY <1>4, <1>5
<1> QED BY <1>1, <1>6, CopyTyped DEF KindOK, RemoteOK, Exists

(* No PUT changes the parent, nor a field that users have set only in         *)
(* initProvider (convert.go updateRequest).                                  *)
THEOREM CreateOnlyStays == Spec => CreateOnlyNeverSent
<1> DEFINE Kept == pc = "update" /\ pc' = "idle" /\ Exists /\ Exists' =>
                     \A f \in {"parent"} \cup InitOnly(cr) : remote'[f] = remote[f]
<1>1. ASSUME IInv, [Next]_vars PROVE Kept
  <2> SUFFICES ASSUME pc = "update", pc' = "idle", remote' # remote,
                      NEW f \in {"parent"} \cup InitOnly(cr)
               PROVE  remote'[f] = remote[f]
    OBVIOUS
  <2>1. Update
    BY <1>1, OnlyUpdate
  <2>2. /\ remote \in Environments /\ cr.forProvider \in P
        /\ remote' = Overlay(remote, updateRequest(cr.forProvider))
    BY <1>1, <2>1, UpdateChanges
  <2>3. cr # NoObject /\ cr.finalizer /\ ~cr.deleting
    BY <1>1, TypeParts, CopyTyped DEF IInv, Safe, Protocol, Holding
  <2>4. f \in Fields /\ (f = "parent" \/ cr.forProvider[f] = Nil)
    BY <1>1, <2>2, <2>3, SameFields DEF IInv, CopiesClean, Clean, Live, InitOnly, Fields, NewEnvironment
  <2>5. updateRequest(cr.forProvider)[f] = Nil
    BY <2>2, <2>4, UpdateRequestTyped
  <2>6. f \in DOMAIN remote
    BY <2>2, <2>4, SameFields
  <2> QED BY <2>2, <2>5, <2>6 DEF Overlay
<1>2. IInv /\ [Next]_vars => [Kept]_vars
  BY <1>1
<1> QED BY <1>2, Invariant, PTL DEF Spec, CreateOnlyNeverSent

(* No poll repeats a PUT that was served, except for an empty list: what it    *)
(* leaves passes the controller's own test (convert.go isUpToDate).          *)
THEOREM WritesSettle == Spec => RequestsSettle
<1> DEFINE Settles ==
      pc = "update" /\ pc' = "idle" /\ remote' # remote /\ cr.forProvider.projects # <<>>
        => isUpToDate(cr.forProvider, remote')
<1>1. ASSUME IInv, [Next]_vars PROVE Settles
  <2> SUFFICES ASSUME pc = "update", pc' = "idle", remote' # remote,
                      cr.forProvider.projects # <<>>
               PROVE  isUpToDate(cr.forProvider, remote')
    OBVIOUS
  <2>1. Update
    BY <1>1, OnlyUpdate
  <2> DEFINE p   == cr.forProvider
             req == updateRequest(cr.forProvider)
  <2>2. remote \in Environments /\ p \in P /\ remote' = Overlay(remote, req)
    BY <1>1, <2>1, UpdateChanges
  <2>3. /\ req \in P /\ req.projects = p.projects
        /\ \A f \in {"description", "toggleOnList", "defaultState"} : req[f] = p[f]
    BY <2>2, UpdateRequestTyped
  <2>4. \A f \in Fields : remote'[f] = IF req[f] # Nil THEN req[f] ELSE remote[f]
    BY <2>2, <2>3, SameFields DEF Overlay
  <2> HIDE DEF p, req
  <2>5. \A f \in {"description", "toggleOnList", "defaultState"} : p[f] \in {Nil, remote'[f]}
    BY <2>3, <2>4 DEF Fields, NewEnvironment
  <2>6. p.projects = Nil \/ p.projects = remote'.projects
    BY <2>3, <2>4 DEF Fields, NewEnvironment
  <2>7. isUpToDate(p, remote')
    BY <2>5, <2>6 DEF isUpToDate, sameSet
  <2> QED BY <2>7 DEF p
<1>2. IInv /\ [Next]_vars => [Settles]_vars
  BY <1>1
<1> QED BY <1>2, Invariant, PTL DEF Spec, RequestsSettle
-----------------------------------------------------------------------------
(* The abstract resource.                                                   *)

(* Every step of Environment is one the abstract resource may take.          *)
LEMMA AbstractNext == IInv /\ [Next]_vars => Allowed
<1> SUFFICES ASSUME IInv, [Next]_vars PROVE Allowed
  OBVIOUS
<1>1. KindOK /\ NoObject \notin Things(P) /\ Safe
  BY TypeParts, Inputs DEF IInv
<1>2. HeldIsHeld /\ HeldIsHeld'
  BY IInvNext DEF IInv, Safe
<1>3. CASE UNCHANGED mr
  BY <1>2, <1>3, SameResourceAllowed DEF Resource
<1>4. CASE RuntimeStep
  <2>1. pc # "idle" => MarshalParameters(cr.forProvider) \in P
    BY <1>1, CopyTyped, MarshalTyped
  <2> QED BY <1>1, <1>4, <2>1, RuntimeStepIs, BetweenAllowed DEF KindOK
<1>5. CASE Users /\ UNCHANGED growthbook
  BY <1>1, <1>5, UsersAllowed, Inputs DEF KindOK
<1>6. CASE Connect \/ Create \/ Update \/ Delete
  BY <1>3, <1>6 DEF Connect, Create, Update, Delete, kubeVars
<1>7. CASE Observe
  <2>1. ASSUME NEW r, ObserveReply(r) PROVE UNCHANGED kubeVars
    BY <2>1 DEF ObserveReply, Observed, NotObserved
  <2> QED BY <1>3, <1>7, <2>1 DEF Observe, kubeVars
<1>8. CASE (Crash \/ CacheSync \/ GraceEnds) /\ UNCHANGED growthbook
  BY <1>3, <1>8 DEF Crash, CacheSync, GraceEnds, kubeVars
<1>9. CASE OutOfBandChange(NewEnvironment)
  BY <1>3, <1>9 DEF OutOfBandChange, kubeVars
<1>10. CASE \E q \in inFlight : ServeLate(q, Served(q))
  BY <1>3, <1>10 DEF ServeLate, runtimeVars, kubeVars
<1>11. CASE UNCHANGED vars
  BY <1>3, <1>11 DEF vars, runtimeVars, kubeVars
<1> QED BY <1>4, <1>5, <1>6, <1>7, <1>8, <1>9, <1>10, <1>11 DEF Next, Worker, Kubernetes

(* The Environment controller keeps the promise of ExternalResource: a        *)
(* resource that goes leaves nothing behind that it answers for, whatever     *)
(* fails, crashes, comes late or is stale, unless what it made came up, or    *)
(* was denied, behind its back.                                             *)
THEOREM ImplementsResource == Spec => Implements
<1>1. IInv /\ [Next]_vars => [Abstract!Next]_(Abstract!vars)
  BY AbstractNext DEF Allowed
<1>2. Init => Abstract!Init
  <2> SUFFICES ASSUME Init PROVE Abstract!Init
    OBVIOUS
  <2>1. \E present : NamedInit(present)
    BY DEF Init
  <2> QED BY <2>1, AbstractInit, Inputs
<1> QED BY <1>1, <1>2, Invariant, PTL DEF Spec, Implements, Abstract!Spec
=============================================================================
