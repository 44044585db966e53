------------------------------- MODULE Project -------------------------------
(***************************************************************************)
(* internal/controller/project/project.go: one Project managed resource,    *)
(* its controller, and the projects of the GrowthBook organization.         *)
(***************************************************************************)
EXTENDS AssignedRemote, ProjectConvert, FiniteSets

ASSUME ProjectsAssumption == Unborn \notin Projects /\ Gone \notin Projects

ASSUME NoObjectAssumption ==
  NoObject \notin Objects(ProjectParameters, ProjectInitParameters, Opt(Ids))

ASSUME NilAssumption == Nil \notin Names \cup ProjectSettings(Numbers)

ASSUME InputsAssumption ==
  /\ Specs \subseteq [forProvider  : ProjectParameters,
                      initProvider : ProjectInitParameters]
  /\ \A e \in Edits : e.field \in DOMAIN ZeroProject
  /\ \A e \in Edits, p \in ProjectParameters :
       [p EXCEPT ![e.field] = e.to] \in ProjectParameters
  /\ \A e \in OutOfBand, p \in Projects :
       [p EXCEPT ![e.field] = e.to] \in Projects

vars == <<runtimeVars, growthbook>>

Init ==
  \E s \in Specs, id \in Imported \cup {Nil}, name \in Names, slug \in PublicIds :
    Starts(s, id, [ZeroProject EXCEPT !.name = name, !.publicId = slug])

TypeOK ==
  /\ AssignedTypeOK(ProjectParameters, ProjectInitParameters, Projects, ProjectRequests)
  /\ owned \subseteq DOMAIN ZeroProject
-----------------------------------------------------------------------------
(* GrowthBook.                                                              *)

Post(id, body) ==
  \E slug \in PublicIds :
    PostAs(id, Overlay([ZeroProject EXCEPT !.publicId = slug], body))

Serve(q, id) ==
  CASE q.verb = "POST"   -> Post(id, q.body)
    [] q.verb = "PUT"    -> Put(id, q.body)
    [] q.verb = "DELETE" -> Remove(id)

Exchange(q, r) ==
  \/ TRUE \in MayHaveApplied(r) /\ Serve(q, q.id) /\ UNCHANGED inFlight
  \/ NotServed(q, r)
-----------------------------------------------------------------------------
(* The controller.                                                          *)

(* A missing ProviderConfig or secret, or bad credentials, end the reconcile *)
(* with an error before anything is asked of GrowthBook.                    *)
Connect ==
  /\ pc = "connect"
  /\ \/ pc' = "observe" /\ UNCHANGED <<cr, crFresh, obs, chaos>>
     \/ Disturb /\ EndReconcile
  /\ UNCHANGED <<kubeVars, growthbook>>

(* Mutated: an answer without a body counts as "not found".                  *)
EmptyMeansAbsent(r, project) ==
  IF IsNotFound(r) \/ r.body = "empty" THEN Observed(NoObservation, cr.forProvider)
  ELSE IF Fails(r, TRUE) THEN NotObserved
  ELSE LET p == lateInitialize(cr.forProvider, cr.initProvider, project) IN
       Observed([exists   |-> TRUE,
                 upToDate |-> isUpToDate(p, project),
                 lateInit |-> lateInitializes(cr.forProvider, cr.initProvider, project)],
                p)

(* Mutated: every failed GET counts as "not found".                         *)
FailureMeansAbsent(r, project) ==
  IF Fails(r, TRUE) THEN Observed(NoObservation, cr.forProvider)
  ELSE LET p == lateInitialize(cr.forProvider, cr.initProvider, project) IN
       Observed([exists   |-> TRUE,
                 upToDate |-> isUpToDate(p, project),
                 lateInit |-> lateInitializes(cr.forProvider, cr.initProvider, project)],
                p)

(* Mutated: what is adopted is not reported, so that nothing saves it.        *)
AdoptsUnsaved(r, project) ==
  IF IsNotFound(r) THEN Observed(NoObservation, cr.forProvider)
  ELSE IF Fails(r, TRUE) THEN NotObserved
  ELSE LET p == lateInitialize(cr.forProvider, cr.initProvider, project) IN
       Observed([exists   |-> TRUE,
                 upToDate |-> isUpToDate(p, project),
                 lateInit |-> FALSE],
                p)

ObserveReply(r, project) ==
  IF IsNotFound(r) THEN Observed(NoObservation, cr.forProvider)
  ELSE IF Fails(r, TRUE) THEN NotObserved
  ELSE LET p == lateInitialize(cr.forProvider, cr.initProvider, project) IN
       Observed([exists   |-> TRUE,
                 upToDate |-> isUpToDate(p, project),
                 lateInit |-> lateInitializes(cr.forProvider, cr.initProvider, project)],
                p)

Observe ==
  LET id == cr.externalName IN
  /\ pc = "observe"
  /\ \/ /\ id = Nil /\ Observed(NoObservation, cr.forProvider)
        /\ UNCHANGED chaos
     \/ /\ id # Nil
        /\ \E r \in Answers(id) :
             /\ Charge(r)
             /\ ObserveReply(r, IF r.body = "object" THEN remote[id] ELSE ZeroProject)
  /\ UNCHANGED growthbook

createRequest(p, ip) == request(mergeInitProvider(p, ip))

(* Mutated: the id in the answer is not made the external name.              *)
CreateForgets(q, r, id) ==
  /\ TRUE \in MayHaveApplied(r) /\ Serve(q, id) /\ UNCHANGED inFlight
  /\ IF Fails(r, TRUE)
     THEN Returned("recordFailed", cr.externalName) /\ lost' = lost \cup {id}
     ELSE Returned("recordCreated", cr.externalName) /\ UNCHANGED lost

(* The POST has been served as project id; the answer is r.                  *)
CreateServed(q, r, id) ==
  /\ TRUE \in MayHaveApplied(r) /\ Serve(q, id) /\ UNCHANGED inFlight
  /\ IF Fails(r, TRUE)
     THEN Returned("recordFailed", cr.externalName) /\ lost' = lost \cup {id}
     ELSE IF r.body = "object"
     THEN Returned("recordCreated", id) /\ UNCHANGED lost
     ELSE Returned("recordCreated", Nil) /\ lost' = lost \cup {id}

Create ==
  LET p == mergeInitProvider(cr.forProvider, cr.initProvider)
      q == Request("POST", Nil, createRequest(cr.forProvider, cr.initProvider)) IN
  /\ pc = "create"
  /\ \/ /\ requestFails(p)
        /\ Returned("recordFailed", cr.externalName)
        /\ UNCHANGED <<growthbook, chaos>>
     \/ /\ ~requestFails(p)
        /\ \E r \in {Answered} \cup Faults :
             /\ Charge(r)
             /\ \/ \E id \in Ids : CreateServed(q, r, id)
                \/ /\ NotServed(q, r) /\ UNCHANGED lost
                   /\ Returned("recordFailed", cr.externalName)
  /\ UNCHANGED kubeVars

(* Observe has found the project, so that the name is never empty here.      *)
Update ==
  LET id == cr.externalName
      q  == Request("PUT", id, request(cr.forProvider)) IN
  /\ pc = "update"
  /\ \/ requestFails(cr.forProvider) /\ UNCHANGED <<remote, inFlight, chaos>>
     \/ /\ ~requestFails(cr.forProvider)
        /\ \E r \in Answers(id) : Charge(r) /\ Exchange(q, r)
  /\ EndReconcile
  /\ UNCHANGED <<kubeVars, lost>>

Delete ==
  LET id == cr.externalName IN
  /\ pc = "delete"
  /\ \E r \in Answers(id) :
       Charge(r) /\ Exchange(Request("DELETE", id, Nil), r)
  /\ EndReconcile
  /\ UNCHANGED <<kubeVars, lost>>

RuntimeStep == ReconcilerStep(cr.forProvider)

Worker == RuntimeStep \/ Connect \/ Observe \/ Create \/ Update \/ Delete
-----------------------------------------------------------------------------
(* Everybody else.                                                          *)

ServeLate(q) ==
  /\ inFlight' = inFlight \ {q}
  /\ \E id \in IF q.verb = "POST" THEN Ids ELSE {q.id} :
       /\ Serve(q, id)
       /\ lost' = IF q.verb = "POST" THEN lost \cup {id} ELSE lost
  /\ UNCHANGED runtimeVars

Others ==
  \/ CrashStep
  \/ Kubernetes
  \/ \E id \in Ids : OutOfBandDelete(id) \/ \E e \in OutOfBand : OutOfBandEdit(id, e)
  \/ \E q \in inFlight : ServeLate(q)

Next == Worker \/ Others

Spec == Init /\ [][Next]_vars

(* A poll or a retry always starts another reconcile and the worker runs    *)
(* it; the informer catches up; the grace period is over after 30 seconds.  *)
Fairness ==
  /\ WF_vars(Worker)
  /\ WF_vars(CacheSync /\ UNCHANGED growthbook)
  /\ WF_vars(GraceEnds /\ UNCHANGED growthbook)

FairSpec == Spec /\ Fairness
-----------------------------------------------------------------------------
(* Properties.                                                              *)

(* A field users set only in initProvider never enters forProvider of the   *)
(* stored resource, whatever was written back meanwhile (convert.go          *)
(* lateInitialize: it would become enforced).                               *)
InitOnlyNeverAdopted ==
  mr # NoObject => \A f \in InitOnly(mr) : mr.forProvider[f] = Nil

(* "Unset optional fields are left to GrowthBook" (convert.go:114): no PUT,   *)
(* on time or late, changes a field of a live project that the resource      *)
(* leaves unset and its users always left unset, initProvider or not.        *)
(* (Without LateInitialize among the policies the slug read by Observe is    *)
(* still in the copy that Update sends, and undoes a change made between;    *)
(* without Delete a PUT of an earlier resource of the same name may reach    *)
(* the project that was left behind for it.)                                 *)
PutServed == (pc = "update" /\ pc' = "idle") \/ inFlight' # inFlight

UnsetLeftAlone ==
  [][PutServed /\ {"Delete", "LateInitialize"} \subseteq Policies =>
       \A id \in Ids : Live(id) /\ Live(id)' /\ mr # NoObject =>
         \A f \in DOMAIN ZeroProject \ owned :
           mr.forProvider[f] = Nil => remote'[id][f] = remote[id][f]]_vars

(* Convergence in one call: what a served POST or PUT leaves is what         *)
(* isUpToDate asks for, so no poll repeats it (convert.go request and        *)
(* isUpToDate agree on names, slugs and decimal strings, "0.950" and 0.95).  *)
RequestsSettle ==
  [][/\ pc = "update" /\ pc' = "idle" /\ remote' # remote
          => isUpToDate(cr.forProvider, remote'[cr.externalName])
     /\ pc = "create" /\ pc' = "recordCreated" /\ cr'.externalName # Nil
          => isUpToDate(mergeInitProvider(cr.forProvider, cr.initProvider),
                        remote'[cr'.externalName])]_vars

Unbuildable ==
  mr # NoObject /\ requestFails(mergeInitProvider(mr.forProvider, mr.initProvider))

InSync ==
  mr # NoObject /\ mr.externalName # Nil /\ Live(mr.externalName)
    /\ isUpToDate(mr.forProvider, remote[mr.externalName])

(* Once disturbances end, the project GrowthBook holds is and stays the     *)
(* declared one, unless the resource is gone, its creation was interrupted  *)
(* (a human has to decide) or its thresholds are no numbers.                *)
Converges == <>[](mr = NoObject \/ Stuck \/ Unbuildable \/ InSync)
=============================================================================
