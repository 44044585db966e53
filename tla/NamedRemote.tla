----------------------------- MODULE NamedRemote -----------------------------
(***************************************************************************)
(* GrowthBook as the controllers of Environment and Feature see it: the one *)
(* object whose id is the name of the managed resource.  A create whose     *)
(* answer is lost is found again by the next Observe, which server-given    *)
(* ids do not allow; in exchange the name can be taken by others, and come  *)
(* back when a request that was given up is served after all.               *)
(***************************************************************************)
EXTENDS ManagedReconciler

CONSTANTS Absent,       \* GrowthBook has no object of this name
          Name,         \* metadata.name of the managed resource
          Specs,        \* what users declare: forProvider and initProvider
          Edits,        \* edits of one forProvider field users may make
          OutOfBand     \* edits of one field made in GrowthBook itself

VARIABLES
  remote,   \* the object in GrowthBook, or Absent
  inFlight, \* requests given up by the client that GrowthBook still may serve
  made,     \* history: the present object was created by the provider
  hidden    \* history: it came up, or was denied, behind Observe's back

growthbook == <<remote, inFlight, made, hidden>>
vars == <<runtimeVars, growthbook>>

Exists == remote # Absent
Held == mr # NoObject /\ mr.finalizer /\ mr.externalName = Name

NamedInit(present) ==
  /\ \E s \in Specs : RuntimeInit(NewObject(s.forProvider, s.initProvider, Nil))
  /\ remote \in {Absent} \cup present
  /\ inFlight = {} /\ made = FALSE /\ hidden = FALSE

NamedTypeOK(parameters, objects, requests) ==
  /\ RuntimeTypeOK(parameters, parameters, {Nil, Name})
  /\ remote \in objects \cup {Absent}
  /\ inFlight \subseteq [verb : {"POST", "PUT", "DELETE"}, body : Opt(requests)]
  /\ {made, hidden} \subseteq BOOLEAN
-----------------------------------------------------------------------------
(* Serving a request; "after" is the object it leaves.  "PUT" is the update   *)
(* call: an environment's is a PUT, a feature's a POST to its path.           *)

Request(verb, body) == [verb |-> verb, body |-> body]

Creates(q) == q.verb = "POST" /\ ~Exists

Serve(q, after) ==
  /\ remote' = after
  /\ made' = (after # Absent /\ (made \/ Creates(q)))

NotServed(q, r) ==
  /\ FALSE \in MayHaveApplied(r)
  /\ UNCHANGED <<remote, made>>
  /\ \/ UNCHANGED inFlight
     \/ r.status = NoAnswer /\ inFlight' = inFlight \cup {q}

(* A POST for a name that is taken is refused.                              *)
Refused == Response(400, "none", "object")

Answers(q) ==
  Faults \cup
  (IF q.verb = "POST" THEN {IF Exists THEN Refused ELSE Answered}
   ELSE IF Exists THEN {Answered} ELSE Missing)

Call(q, after, r) ==
  /\ Charge(r)
  /\ \/ TRUE \in MayHaveApplied(r) /\ Serve(q, after) /\ UNCHANGED inFlight
     \/ NotServed(q, r)
  /\ UNCHANGED hidden

(* What an answer to a GET says about the object is remembered as hidden     *)
(* when it is wrong, and as seen when somebody holds the object.             *)
Seen(r) ==
  hidden' = IF r = Answered THEN hidden /\ ~Held
            ELSE hidden \/ (Exists /\ r \in Missing)
-----------------------------------------------------------------------------
Users ==
  \/ UserDelete
  \/ \E e \in Edits : UserEdit(e.field, e.to)
  \/ \E s \in Specs : UserCreate(NewObject(s.forProvider, s.initProvider, Nil))

OutOfBandChange(blank) ==
  /\ Disturb
  /\ \/ /\ Exists /\ UNCHANGED made
        /\ \E e \in OutOfBand : remote' = [remote EXCEPT ![e.field] = e.to]
     \/ Exists /\ remote' = Absent /\ made' = FALSE
     \/ ~Exists /\ remote' = blank /\ made' = FALSE
  /\ UNCHANGED <<kubeVars, workerVars, inFlight, hidden>>

ServeLate(q, after) ==
  /\ Serve(q, after) /\ inFlight' = inFlight \ {q}
  /\ hidden' = (hidden \/ Creates(q))
  /\ UNCHANGED runtimeVars

Kubernetes == (Crash \/ Users \/ CacheSync \/ GraceEnds) /\ UNCHANGED growthbook

(* The informer catches up; the grace period is over after 30 seconds.       *)
KubernetesFairness ==
  /\ WF_vars(CacheSync /\ UNCHANGED growthbook)
  /\ WF_vars(GraceEnds /\ UNCHANGED growthbook)
-----------------------------------------------------------------------------
(* Both kinds keep the promise of ExternalResource about the object they      *)
(* made: whatever was lost or crashed in between, the resource answers for it *)
(* and stays until it is gone, as long as nothing made it come up, or denied  *)
(* it, behind Observe's back.  (Told not to delete, it answers for the object *)
(* only while it holds it.)                                                 *)
Resource ==
  IF mr = NoObject THEN "none" ELSE IF mr.deleting THEN "deleting" ELSE "declared"

AnswersFor == made /\ ~hidden /\ ("Delete" \in Policies \/ Held)

Standing ==
  IF ~Exists THEN "absent" ELSE IF AnswersFor THEN "held" ELSE "loose"

Abstract == INSTANCE ExternalResource WITH
              Ids       <- {Name},
              MayDelete <- "Delete" \in Policies,
              resource  <- Resource,
              objects   <- [id \in {Name} |-> Standing]

Implements == Abstract!Spec
=============================================================================
