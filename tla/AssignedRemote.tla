--------------------------- MODULE AssignedRemote ---------------------------
(***************************************************************************)
(* GrowthBook as the controllers of Project and SDKConnection see it: it    *)
(* chooses the ids and never reuses one; the id of an object reaches the    *)
(* managed resource only through the answer to the POST.                    *)
(***************************************************************************)
EXTENDS ManagedReconciler

CONSTANTS Ids,          \* the ids GrowthBook has to give (bounds POSTs)
          Unborn, Gone, \* an id never given, an id whose object is deleted
          Imported,     \* objects that exist before the managed resource
          Specs,        \* what users declare: forProvider and initProvider
          Edits,        \* edits of one forProvider field users may make
          OutOfBand     \* edits of one field made in GrowthBook itself

ASSUME IdsAssumption ==
  Imported \subseteq Ids /\ Nil \notin Ids /\ Unborn # Gone

VARIABLES
  remote,   \* id -> the object GrowthBook holds
  inFlight, \* requests given up by the client that GrowthBook still may serve
  lost      \* history: objects created without the id reaching the API server

growthbook == <<remote, inFlight, lost>>

Live(id) == remote[id] \notin {Unborn, Gone}
Made == {id \in Ids \ Imported : Live(id)}

RequestsWith(bodies) ==
  [verb : {"POST", "PUT"}, id : Opt(Ids), body : bodies]
    \cup [verb : {"DELETE"}, id : Opt(Ids), body : {Nil}]

AssignedTypeOK(forProviders, initProviders, objects, bodies) ==
  /\ RuntimeTypeOK(forProviders, initProviders, Opt(Ids))
  /\ remote \in [Ids -> objects \cup {Unborn, Gone}]
  /\ inFlight \subseteq RequestsWith(bodies)
  /\ lost \subseteq Ids

(* A resource is declared as s, for imported object id or for none.          *)
Starts(s, id, object) ==
  /\ RuntimeInit(NewObject(s.forProvider, s.initProvider, id))
  /\ remote = [i \in Ids |-> IF i \in Imported THEN object ELSE Unborn]
  /\ inFlight = {} /\ lost = {}
-----------------------------------------------------------------------------
(* GrowthBook.                                                              *)

Request(verb, id, body) == [verb |-> verb, id |-> id, body |-> body]

PostAs(id, object) ==
  remote[id] = Unborn /\ remote' = [remote EXCEPT ![id] = object]

Put(id, body) ==
  remote' = IF Live(id) THEN [remote EXCEPT ![id] = Overlay(@, body)] ELSE remote

Remove(id) ==
  remote' = IF Live(id) THEN [remote EXCEPT ![id] = Gone] ELSE remote

NotServed(q, r) ==
  /\ FALSE \in MayHaveApplied(r)
  /\ UNCHANGED remote
  /\ \/ UNCHANGED inFlight
     \/ r.status = NoAnswer /\ inFlight' = inFlight \cup {q}

Answers(id) == (IF Live(id) THEN {Answered} ELSE Missing) \cup Faults
-----------------------------------------------------------------------------
Returned(step, name) ==
  /\ pc' = step /\ cr' = [cr EXCEPT !.externalName = name]
  /\ UNCHANGED <<crFresh, obs>>

(* "stored" is what is left of the spec once it is serialised.               *)
ReconcilerStep(stored) ==
  /\ \/ StartReconcile(TRUE)
     \/ AddFinalizer(stored)
     \/ MarkPending(stored)
     \/ SaveLateInit(stored)
     \/ RemoveFinalizer
     \/ RecordCreation
  /\ UNCHANGED growthbook

(* The id in memory that a crash forgets is the id of an object nobody will *)
(* ever look for.                                                           *)
CrashStep ==
  /\ Crash
  /\ lost' = IF pc = "recordCreated" /\ cr.externalName # Nil
             THEN lost \cup {cr.externalName} ELSE lost
  /\ UNCHANGED <<remote, inFlight>>

OutOfBandEdit(id, e) ==
  /\ Live(id) /\ Disturb
  /\ remote' = [remote EXCEPT ![id][e.field] = e.to]
  /\ UNCHANGED <<kubeVars, workerVars, inFlight, lost>>

OutOfBandDelete(id) ==
  /\ Live(id) /\ Disturb
  /\ remote' = [remote EXCEPT ![id] = Gone]
  /\ UNCHANGED <<kubeVars, workerVars, inFlight, lost>>

UserChange == UserDelete \/ \E e \in Edits : UserEdit(e.field, e.to)

Users ==
  \/ UserChange
  \/ \E s \in Specs : UserCreate(NewObject(s.forProvider, s.initProvider, Nil))

Kubernetes == (Users \/ CacheSync \/ GraceEnds) /\ UNCHANGED growthbook
-----------------------------------------------------------------------------
(* Properties of both kinds.                                                *)

Holds(id) == mr # NoObject /\ mr.finalizer /\ mr.externalName = id
Learned(id) == pc = "recordCreated" /\ cr.externalName = id

(* No object leaks silently: as long as the provider may delete, a live one *)
(* that it created is the one the managed resource names and holds with its *)
(* finalizer, or its id is on the way there, or it is one of the accounted  *)
(* losses (Create in project.go and sdkconnection.go: the answer to the POST *)
(* never came, did not decode or had no body; or the process died before    *)
(* the patch).                                                              *)
NoSilentLeak ==
  "Delete" \in Policies =>
    \A id \in Made : Holds(id) \/ Learned(id) \/ id \in lost

(* Stale caches, conflicts and retries never make Create post a second      *)
(* object while the first is alive and its id was not lost.                 *)
NoDuplicate ==
  "Delete" \in Policies => \A i, j \in Made \ lost : i = j

(* A POST is only sent for a resource that has, in the API server, the      *)
(* finalizer and an announced creation, which is what makes a crash         *)
(* detectable ...                                                           *)
CreateAnnounced ==
  pc \in {"create", "recordCreated", "recordFailed"} =>
    mr # NoObject /\ mr.finalizer /\ mr.create = "pending"

(* ... and that names no live object, its own or an imported one: no stale   *)
(* copy and no odd answer to the GET of Observe leads to a second one.       *)
CreateJustified ==
  /\ CreateAnnounced
  /\ pc \in {"create", "recordCreated", "recordFailed"} =>
       mr.externalName = Nil \/ ~Live(mr.externalName)

(* The managed resource goes away only when the object it names is gone      *)
(* (Observe and Delete: only an answer that says so counts as absence).      *)
FinalizerGuards ==
  [][mr # NoObject /\ mr' = NoObject /\ mr.finalizer
       /\ mr.externalName # Nil /\ "Delete" \in Policies
     => ~Live(mr.externalName)]_<<runtimeVars, remote>>

(* The kind keeps the promise of ExternalResource: a resource that is gone    *)
(* has left no object behind, nor does one that is there ever answer for two. *)
(* It answers for every live object that it made and whose id was not lost,   *)
(* whether or not its name says so, and for an imported one that it holds.    *)
Resource ==
  IF mr = NoObject THEN "none" ELSE IF mr.deleting THEN "deleting" ELSE "declared"

AnswersFor(id) ==
  IF id \in Made /\ "Delete" \in Policies THEN id \notin lost ELSE Holds(id)

Standing(id) ==
  IF ~Live(id) THEN "absent" ELSE IF AnswersFor(id) THEN "held" ELSE "loose"

Abstract == INSTANCE ExternalResource WITH
              MayDelete <- "Delete" \in Policies,
              resource  <- Resource,
              objects   <- [id \in Ids |-> Standing(id)]

Implements == Abstract!Spec

(* A deletion is carried out, unless a creation was interrupted before.     *)
DeletionCompletes ==
  (mr # NoObject /\ mr.deleting) ~> (mr = NoObject \/ Stuck)
=============================================================================
