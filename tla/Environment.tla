----------------------------- MODULE Environment -----------------------------
(***************************************************************************)
(* internal/controller/environment/environment.go: one Environment managed  *)
(* resource, its controller and the environment of that name in GrowthBook. *)
(***************************************************************************)
EXTENDS NamedRemote, EnvironmentConvert

(* What users declare and edit, and what others change in GrowthBook, has     *)
(* the fields of an environment; a description may be empty.                 *)
ASSUME InputsAssumption ==
  /\ Specs \subseteq [forProvider  : EnvironmentParameters,
                      initProvider : EnvironmentParameters]
  /\ \A e \in Edits : e.field \in DOMAIN NewEnvironment
  /\ \A e \in Edits, p \in EnvironmentParameters :
       [p EXCEPT ![e.field] = e.to] \in EnvironmentParameters
  /\ \A e \in OutOfBand, o \in Environments : [o EXCEPT ![e.field] = e.to] \in Environments

ASSUME NoObjectAssumption ==
  NoObject \notin Objects(EnvironmentParameters, EnvironmentParameters, {Nil, Name})

ASSUME DescriptionsAssumption == "" \in Descriptions

Init ==
  NamedInit({e \in Environments :
     e = [NewEnvironment EXCEPT !.description = e.description, !.projects = e.projects]})

TypeOK ==
  /\ NamedTypeOK(EnvironmentParameters, Environments, EnvironmentParameters)
  /\ owned \subseteq DOMAIN NewEnvironment

(* GrowthBook's side of POST, PUT and DELETE.                               *)
Served(q) ==
  CASE Creates(q)             -> Overlay(NewEnvironment, q.body)
    [] q.verb = "PUT" /\ Exists -> Overlay(remote, q.body)
    [] q.verb = "DELETE"      -> Absent
    [] OTHER                  -> remote
-----------------------------------------------------------------------------
(* The controller.                                                          *)

Connect ==
  /\ pc = "connect"
  /\ \/ pc' = "observe" /\ UNCHANGED <<cr, crFresh, obs, chaos>>
     \/ Disturb /\ EndReconcile
  /\ UNCHANGED <<kubeVars, growthbook>>

(* Mutated: a name that is not in the list is an error as any other.         *)
AbsenceIsFailure(r) ==
  IF ~Fails(r, TRUE) /\ r.body = "object" /\ Exists THEN Answered
  ELSE Response(500, "none", "object")

(* GetEnvironment lists everything and looks for the name: an answer without *)
(* body is an empty list, in which no environment is found.                 *)
GetEnvironment(r) ==
  IF Fails(r, TRUE) THEN r
  ELSE IF r.body = "object" /\ Exists THEN Answered
  ELSE Response(404, "none", "object")

(* Mutated: every failed GET counts as "not found".                         *)
FailureMeansAbsent(r) ==
  IF Fails(r, TRUE) THEN Observed(NoObservation, cr.forProvider)
  ELSE LET p == lateInitialize(cr.forProvider, cr.initProvider, remote) IN
       Observed([exists   |-> TRUE,
                 upToDate |-> isUpToDate(p, remote),
                 lateInit |-> p # cr.forProvider], p)

ObserveReply(r) ==
  IF IsNotFound(r) THEN Observed(NoObservation, cr.forProvider)
  ELSE IF Fails(r, TRUE) THEN NotObserved
  ELSE LET p == lateInitialize(cr.forProvider, cr.initProvider, remote) IN
       Observed([exists   |-> TRUE,
                 upToDate |-> isUpToDate(p, remote),
                 lateInit |-> p # cr.forProvider], p)

Observe ==
  /\ pc = "observe"
  /\ \E r \in {Answered} \cup Faults :
       Charge(r) /\ ObserveReply(GetEnvironment(r)) /\ Seen(GetEnvironment(r))
  /\ UNCHANGED <<remote, inFlight, made>>

Create ==
  LET q == Request("POST", createRequest(cr.forProvider, cr.initProvider)) IN
  /\ pc = "create"
  /\ \E r \in Answers(q) :
       /\ Call(q, Served(q), r)
       /\ pc' = IF Fails(r, TRUE) THEN "recordFailed" ELSE "recordCreated"
  /\ UNCHANGED <<kubeVars, cr, crFresh, obs>>

(* Mutated: PUT sends what POST does, initProvider and parent included.      *)
UpdateAsCreate ==
  LET q == Request("PUT", createRequest(cr.forProvider, cr.initProvider)) IN
  /\ pc = "update"
  /\ \E r \in Answers(q) : Call(q, Served(q), r)
  /\ EndReconcile /\ UNCHANGED kubeVars

Update ==
  LET q == Request("PUT", updateRequest(cr.forProvider)) IN
  /\ pc = "update"
  /\ \E r \in Answers(q) : Call(q, Served(q), r)
  /\ EndReconcile /\ UNCHANGED kubeVars

Delete ==
  LET q == Request("DELETE", Nil) IN
  /\ pc = "delete"
  /\ \E r \in Answers(q) : Call(q, Served(q), r)
  /\ EndReconcile /\ UNCHANGED kubeVars

RuntimeStep ==
  LET stored == MarshalParameters(cr.forProvider) IN
  /\ \/ StartReconcile(cache.externalName # Nil)
     \/ Initialize(Name, stored)
     \/ AddFinalizer(stored)
     \/ MarkPending(stored)
     \/ SaveLateInit(stored)
     \/ RemoveFinalizer
     \/ RecordCreation
  /\ UNCHANGED growthbook

Worker == RuntimeStep \/ Connect \/ Observe \/ Create \/ Update \/ Delete

Next ==
  \/ Worker
  \/ Kubernetes
  \/ OutOfBandChange(NewEnvironment)
  \/ \E q \in inFlight : ServeLate(q, Served(q))

Spec == Init /\ [][Next]_vars

(* A poll or a retry always starts another reconcile, and the worker runs it. *)
FairSpec == Spec /\ WF_vars(Worker) /\ KubernetesFairness
-----------------------------------------------------------------------------
(* Properties.                                                              *)

(* Fields users set only in initProvider stay create-only: they are not      *)
(* adopted into the stored forProvider ...                                  *)
InitOnlyNeverAdopted ==
  mr # NoObject => \A f \in InitOnly(mr) : mr.forProvider[f] = Nil

(* ... and no PUT of this reconcile changes them, nor ever the parent, which *)
(* GrowthBook takes at creation only.                                       *)
CreateOnlyNeverSent ==
  [][pc = "update" /\ pc' = "idle" /\ Exists /\ Exists' =>
       \A f \in {"parent"} \cup InitOnly(cr) : remote'[f] = remote[f]]_vars

(* What a served PUT leaves is what isUpToDate asks for, so that no poll      *)
(* repeats it, unless the list to be set is the empty one.                   *)
RequestsSettle ==
  [][pc = "update" /\ pc' = "idle" /\ remote' # remote /\ cr.forProvider.projects # <<>>
       => isUpToDate(cr.forProvider, remote')]_vars

InSync == mr # NoObject /\ Exists /\ isUpToDate(mr.forProvider, remote)

(* Once disturbances end, GrowthBook holds the declared environment for good *)
(* (unless an empty list is declared), even when the answer to the POST was  *)
(* lost; only a creation interrupted by a crash stops the provider.          *)
Converges ==
  <>[](\/ mr = NoObject \/ Stuck \/ InSync
       \/ mr # NoObject /\ mr.forProvider.projects = <<>>)

(* A deletion is carried out, unless a creation was interrupted before.      *)
DeletionCompletes ==
  (mr # NoObject /\ mr.deleting) ~> (mr = NoObject \/ Stuck)
=============================================================================
