------------------------------- MODULE Feature -------------------------------
(***************************************************************************)
(* internal/controller/feature/feature.go: one Feature managed resource, its *)
(* controller and the feature of that key in GrowthBook.  Deletion takes up  *)
(* to three calls: an organization may want a feature archived first.        *)
(***************************************************************************)
EXTENDS NamedRemote, FeatureConvert

CONSTANTS MustArchive,  \* the organization wants an archive before a deletion
          Found         \* features of that key people may have made

ASSUME MustArchiveAssumption == MustArchive \in BOOLEAN

NewFeature == [ZeroFeature EXCEPT !.environments = [k \in Envs |-> FALSE]]

(* What users declare and edit, and what others make and change in           *)
(* GrowthBook, has the fields of a feature; a description may be empty.       *)
ASSUME InputsAssumption ==
  /\ Specs \subseteq [forProvider : FeatureParameters, initProvider : FeatureParameters]
  /\ \A e \in Edits :
       /\ e.field \in DOMAIN ZeroFeature
       /\ [[f \in DOMAIN ZeroFeature |-> Nil] EXCEPT ![e.field] = e.to] \in FeatureParameters
  /\ \A e \in OutOfBand :
       e.field \in DOMAIN ZeroFeature /\ [NewFeature EXCEPT ![e.field] = e.to] \in Features
  /\ Found \subseteq Features

ASSUME NoObjectAssumption ==
  NoObject \notin Objects(FeatureParameters, FeatureParameters, {Nil, Name})

ASSUME DescriptionsAssumption == "" \in Descriptions

Init == NamedInit(Found)

TypeOK ==
  /\ NamedTypeOK(FeatureParameters, Features, FeatureRequests)
  /\ owned \subseteq DOMAIN ZeroFeature
-----------------------------------------------------------------------------
(* GrowthBook's side of POST, PUT and DELETE.                               *)

(* Environments are merged key by key, rules replaced.                       *)
Merge(feature, q) ==
  [Overlay(feature, q) EXCEPT
     !.environments = [k \in DOMAIN feature.environments |->
        IF q.environments # Nil /\ k \in DOMAIN q.environments /\ q.environments[k] # Nil
        THEN q.environments[k] ELSE feature.environments[k]],
     !.rules = IF q.rules = Nil THEN feature.rules ELSE StoredRules(q.rules)]

Protected == Exists /\ MustArchive /\ ~remote.archived

Served(q) ==
  CASE Creates(q)                    -> Merge(NewFeature, q.body)
    [] q.verb = "PUT" /\ Exists      -> Merge(remote, q.body)
    [] q.verb = "DELETE" /\ ~Protected -> Absent
    [] OTHER                         -> remote

Replies(q) ==
  IF q.verb = "DELETE" /\ Protected THEN {ArchiveFirst} \cup Faults ELSE Answers(q)
-----------------------------------------------------------------------------
(* The controller.                                                          *)

Connect ==
  /\ pc = "connect"
  /\ \/ pc' = "observe" /\ UNCHANGED <<cr, crFresh, obs, chaos>>
     \/ Disturb /\ EndReconcile
  /\ UNCHANGED <<kubeVars, growthbook>>

(* Mutated: every failed GET counts as "not found".                         *)
FailureMeansAbsent(r, feature) ==
  IF Fails(r, TRUE) THEN Observed(NoObservation, cr.forProvider)
  ELSE LET p == lateInitialize(cr.forProvider, cr.initProvider, feature) IN
       Observed([exists   |-> TRUE,
                 upToDate |-> isUpToDate(p, feature),
                 lateInit |-> p # cr.forProvider], p)

ObserveReply(r, feature) ==
  IF IsNotFound(r) THEN Observed(NoObservation, cr.forProvider)
  ELSE IF Fails(r, TRUE) THEN NotObserved
  ELSE LET p == lateInitialize(cr.forProvider, cr.initProvider, feature) IN
       Observed([exists   |-> TRUE,
                 upToDate |-> isUpToDate(p, feature),
                 lateInit |-> p # cr.forProvider], p)

Observe ==
  /\ pc = "observe"
  /\ \E r \in (IF Exists THEN {Answered} ELSE Missing) \cup Faults :
       /\ Charge(r) /\ Seen(r)
       /\ ObserveReply(r, IF r.body = "object" THEN remote ELSE ZeroFeature)
  /\ UNCHANGED <<remote, inFlight, made>>

Create ==
  LET p == mergeInitProvider(cr.forProvider, cr.initProvider)
      q == Request("POST", createRequest(cr.forProvider, cr.initProvider)) IN
  /\ pc = "create"
  /\ \/ rulesFail(p.rules) /\ pc' = "recordFailed" /\ UNCHANGED <<growthbook, chaos>>
     \/ /\ ~rulesFail(p.rules)
        /\ \E r \in Replies(q) :
             /\ Call(q, Served(q), r)
             /\ pc' = IF Fails(r, TRUE) THEN "recordFailed" ELSE "recordCreated"
  /\ UNCHANGED <<kubeVars, cr, crFresh, obs>>

Update ==
  LET q == Request("PUT", updateRequest(cr.forProvider)) IN
  /\ pc = "update"
  /\ \/ rulesFail(cr.forProvider.rules) /\ UNCHANGED <<growthbook, chaos>>
     \/ /\ ~rulesFail(cr.forProvider.rules)
        /\ \E r \in Replies(q) : Call(q, Served(q), r)
  /\ EndReconcile /\ UNCHANGED kubeVars

(* A refusal that asks for an archive is answered with one, once.            *)
Delete ==
  LET q == Request("DELETE", Nil) IN
  /\ pc = "delete"
  /\ \E r \in Replies(q) :
       Call(q, Served(q), r)
         /\ Continue(IF IsArchiveRequired(r) THEN "archive" ELSE "idle", cr, obs)
  /\ UNCHANGED kubeVars

Archive ==
  LET q == Request("PUT", archiveRequest) IN
  /\ pc = "archive"
  /\ \E r \in Replies(q) :
       Call(q, Served(q), r)
         /\ Continue(IF Fails(r, TRUE) THEN "idle" ELSE "deleteArchived", cr, obs)
  /\ UNCHANGED kubeVars

DeleteArchived ==
  LET q == Request("DELETE", Nil) IN
  /\ pc = "deleteArchived"
  /\ \E r \in Replies(q) : Call(q, Served(q), r)
  /\ EndReconcile /\ UNCHANGED kubeVars

RuntimeStep ==
  LET stored == MarshalParameters(cr.forProvider) IN
  /\ \/ StartReconcile(cache.externalName # Nil)
     \/ Initialize(Name, stored)
     \/ AddFinalizer(stored)
     \/ MarkPending(stored)
     \/ SaveLateInit(stored)
     \/ RemoveFinalizer
     \/ RecordCreation
  /\ UNCHANGED growthbook

Worker ==
  \/ RuntimeStep \/ Connect \/ Observe \/ Create \/ Update
  \/ Delete \/ Archive \/ DeleteArchived

Next ==
  \/ Worker
  \/ Kubernetes
  \/ \E feature \in Found : OutOfBandChange(feature)
  \/ \E q \in inFlight : ServeLate(q, Served(q))

Spec == Init /\ [][Next]_vars

(* A poll or a retry always starts another reconcile, and the worker runs it. *)
FairSpec == Spec /\ WF_vars(Worker) /\ KubernetesFairness
-----------------------------------------------------------------------------
(* Properties.                                                              *)

(* The environments a resource has entries for, and those that what the       *)
(* worker holds may toggle: what is stored declares them, or what was stored   *)
(* when the worker read it.                                                 *)
Entries(object) == DOMAIN Elements(object.forProvider.environments)

Toggled == Entries(mr) \cup (IF crFresh THEN {} ELSE Entries(cr))

(* The PUT of a reconcile leaves alone what the resource does not declare:    *)
(* rules that are nil, the archived flag, tags and texts, unless users had     *)
(* them set before, and each environment without an entry (feature_types.go:  *)
(* "environments left out are never touched").  A copy that is out of date may *)
(* still have entries users have taken out since.  Not spoken of are PUTs       *)
(* GrowthBook serves after they were given up, possibly to a later resource of *)
(* that name, and resources without the policy to save what Observe adopts:   *)
(* their PUTs carry the adopted texts over what people changed since.          *)
UndeclaredKept ==
  [][pc = "update" /\ pc' = "idle" /\ Exists /\ Exists' /\ mr # NoObject
       /\ "LateInitialize" \in Policies =>
       /\ \A f \in DOMAIN ZeroFeature \ owned :
            mr.forProvider[f] = Nil => remote'[f] = remote[f]
       /\ DOMAIN remote'.environments = DOMAIN remote.environments
       /\ \A k \in DOMAIN remote.environments \ Toggled :
            remote'.environments[k] = remote.environments[k]]_vars

(* No PUT gives a feature another value type, and nothing an empty value or   *)
(* list is meant for ever arrives: what cannot be brought into line.         *)
OutOfReach(p, feature) ==
  p.valueType # feature.valueType \/ p.defaultValue = "" \/ p.tags = <<>>

Unbuildable ==
  mr # NoObject
    /\ rulesFail(mergeInitProvider(mr.forProvider, mr.initProvider).rules)

InSync ==
  mr # NoObject /\ Exists
    /\ (isUpToDate(mr.forProvider, remote) \/ OutOfReach(mr.forProvider, remote))

(* Once disturbances end, GrowthBook holds the declared feature for good, as  *)
(* far as it can be reached; only a creation interrupted by a crash or a     *)
(* coverage that is no number stop the provider.                            *)
Converges == <>[](mr = NoObject \/ Stuck \/ Unbuildable \/ InSync)

(* A deletion is carried out, archive first where the organization wants it, *)
(* even when people take the feature out of the archive again or a call of   *)
(* the three fails, unless a creation was interrupted before.               *)
DeletionCompletes ==
  (mr # NoObject /\ mr.deleting) ~> (mr = NoObject \/ Stuck)

(* "A non-nil list, including an empty one, is authoritative and replaces the *)
(* feature's entire rules array" (feature_types.go:91).                      *)
EmptyRulesAuthoritative ==
  LET declared == mr # NoObject /\ ~mr.deleting /\ mr.forProvider.rules = <<>> IN
  declared ~> (mr = NoObject \/ mr.deleting \/ Stuck \/ (Exists /\ remote.rules = <<>>))
=============================================================================
