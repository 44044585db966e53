---------------------------- MODULE SDKConnection ----------------------------
(***************************************************************************)
(* internal/controller/sdkconnection/sdkconnection.go: one SDKConnection    *)
(* managed resource with a writeConnectionSecretToRef, its controller, the  *)
(* connections of the GrowthBook organization and the connection secret.    *)
(* The secret belongs to the resource and goes with it; a resource that is  *)
(* gone is not created again here (Project has that).                       *)
(***************************************************************************)
EXTENDS AssignedRemote, SDKConnectionConvert

VARIABLES
  details, \* the ConnectionDetails in memory, to be published
  secret   \* the data of the connection secret

published == <<details, secret>>
vars == <<runtimeVars, growthbook, published>>

(* proxySigningKey, when GrowthBook has one, goes the way of key.            *)
ConnectionDetails ==
  [key : Opt(Ids), proxyHost : Opt(ProxyHosts \ {""}), encryptionKey : Opt(Ids)]

NoDetails == [key |-> Nil, proxyHost |-> Nil, encryptionKey |-> Nil]

ASSUME ConnectionsAssumption ==
  /\ Unborn \notin SDKConnections /\ Gone \notin SDKConnections
  /\ NoObject \notin Objects(SDKConnectionParameters, SDKConnectionInitParameters, Opt(Ids))

ASSUME InputsAssumption ==
  /\ Specs \subseteq [forProvider  : SDKConnectionParameters,
                      initProvider : SDKConnectionInitParameters]
  /\ \A e \in Edits, p \in SDKConnectionParameters :
       [p EXCEPT ![e.field] = e.to] \in SDKConnectionParameters
  /\ \A e \in OutOfBand, sc \in SDKConnections :
       [sc EXCEPT ![e.field] = e.to] \in SDKConnections

Init ==
  /\ \E s \in Specs, id \in Imported \cup {Nil}, name \in Names,
        languages \in (SUBSET Languages) \ {{}}, env \in Environments :
       Starts(s, id, [ZeroConnection EXCEPT !.name = name, !.languages = languages,
                                            !.environment = env])
  /\ details = NoDetails /\ secret = NoDetails

TypeOK ==
  /\ AssignedTypeOK(SDKConnectionParameters, SDKConnectionInitParameters,
                    SDKConnections, SDKConnectionParameters)
  /\ {details, secret} \subseteq ConnectionDetails
-----------------------------------------------------------------------------
(* GrowthBook.                                                              *)

Serve(q, id) ==
  CASE q.verb = "POST"   -> PostAs(id, Overlay(ZeroConnection, Members(q.body)))
    [] q.verb = "PUT"    -> Put(id, Members(q.body))
    [] q.verb = "DELETE" -> Remove(id)

Exchange(q, r) ==
  \/ TRUE \in MayHaveApplied(r) /\ Serve(q, q.id) /\ UNCHANGED inFlight
  \/ NotServed(q, r)
-----------------------------------------------------------------------------
(* The connection secret.                                                   *)

(* Mutated: a host that is not there is published as an empty one.           *)
EmptyHostToo(id, sc) ==
  [NoDetails EXCEPT !.key = id, !.proxyHost = IF id = Nil THEN Nil ELSE sc.proxyHost]

(* id is Nil for the zero object, whose key is empty as well.                *)
connectionDetails(id, sc) ==
  [NoDetails EXCEPT !.key = id,
                    !.proxyHost = IF sc.proxyHost = "" THEN Nil ELSE sc.proxyHost]

(* Keys are added and replaced, never taken away; the secret of a resource   *)
(* that is gone is garbage.                                                 *)
PublishConnection(ds) ==
  secret' = IF mr = NoObject THEN NoDetails ELSE Overlay(secret, ds)

KeepSecret == secret' = IF mr' = NoObject THEN NoDetails ELSE secret

(* Details in memory do not outlive the reconcile.                           *)
Unpublished == details' = NoDetails /\ KeepSecret
-----------------------------------------------------------------------------
(* The controller.                                                          *)

Connect ==
  /\ pc = "connect"
  /\ \/ pc' = "observe" /\ UNCHANGED <<cr, crFresh, obs, chaos>>
     \/ Disturb /\ EndReconcile
  /\ UNCHANGED <<kubeVars, growthbook, published>>

Replied(r, id) == IF r.body = "object" THEN id ELSE Nil

Found(upToDate, ds) ==
  LET o == [exists |-> TRUE, upToDate |-> upToDate, lateInit |-> FALSE] IN
  /\ UNCHANGED kubeVars
  /\ IF cr.deleting THEN Continue("delete", cr, o) /\ UNCHANGED details
     ELSE Continue("publish", cr, o) /\ details' = ds

(* Mutated: every failed GET counts as "not found".                         *)
FailureMeansAbsent(r, sc) ==
  IF Fails(r, TRUE) THEN Observed(NoObservation, cr.forProvider) /\ UNCHANGED details
  ELSE Found(isUpToDate(cr.forProvider, sc),
             connectionDetails(Replied(r, cr.externalName), sc))

(* Mutated: Observe returns no connection details.                           *)
ObserveWithoutDetails(r, sc) ==
  IF IsNotFound(r) THEN Observed(NoObservation, cr.forProvider) /\ UNCHANGED details
  ELSE IF Fails(r, TRUE) THEN NotObserved /\ UNCHANGED details
  ELSE Found(isUpToDate(cr.forProvider, sc), NoDetails)

ObserveReply(r, sc) ==
  IF IsNotFound(r) THEN Observed(NoObservation, cr.forProvider) /\ UNCHANGED details
  ELSE IF Fails(r, TRUE) THEN NotObserved /\ UNCHANGED details
  ELSE Found(isUpToDate(cr.forProvider, sc),
             connectionDetails(Replied(r, cr.externalName), sc))

Observe ==
  LET id == cr.externalName IN
  /\ pc = "observe"
  /\ \/ /\ id = Nil /\ Observed(NoObservation, cr.forProvider)
        /\ UNCHANGED <<chaos, details>>
     \/ /\ id # Nil
        /\ \E r \in Answers(id) :
             /\ Charge(r)
             /\ ObserveReply(r, IF r.body = "object" THEN remote[id] ELSE ZeroConnection)
  /\ UNCHANGED <<growthbook, secret>>

(* The reconciler publishes what Observe returned before it goes on.  (That  *)
(* write failing is a Crash at this step.)                                  *)
Publish ==
  /\ pc = "publish"
  /\ PublishConnection(details) /\ details' = NoDetails
  /\ Continue(AfterObserve(obs), cr, obs)
  /\ UNCHANGED <<kubeVars, chaos, growthbook>>

(* Mutated: the id in the answer is not made the external name.              *)
CreateForgets(q, r, id) ==
  /\ TRUE \in MayHaveApplied(r) /\ Serve(q, id) /\ UNCHANGED inFlight
  /\ IF Fails(r, TRUE)
     THEN /\ Returned("recordFailed", cr.externalName) /\ lost' = lost \cup {id}
          /\ UNCHANGED details
     ELSE /\ Returned("recordCreated", cr.externalName) /\ UNCHANGED lost
          /\ details' = connectionDetails(id, remote'[id])

(* The POST has been served as connection id; the answer is r.               *)
CreateServed(q, r, id) ==
  /\ TRUE \in MayHaveApplied(r) /\ Serve(q, id) /\ UNCHANGED inFlight
  /\ IF Fails(r, TRUE)
     THEN /\ Returned("recordFailed", cr.externalName) /\ lost' = lost \cup {id}
          /\ UNCHANGED details
     ELSE IF r.body = "object"
     THEN /\ Returned("recordCreated", id) /\ UNCHANGED lost
          /\ details' = connectionDetails(id, remote'[id])
     ELSE /\ Returned("recordCreated", Nil) /\ lost' = lost \cup {id}
          /\ UNCHANGED details

Create ==
  LET q == Request("POST", Nil, createRequest(cr.forProvider, cr.initProvider)) IN
  /\ pc = "create"
  /\ \E r \in {Answered} \cup Faults :
       /\ Charge(r)
       /\ \/ \E id \in Ids : CreateServed(q, r, id)
          \/ /\ NotServed(q, r) /\ UNCHANGED <<lost, details>>
             /\ Returned("recordFailed", cr.externalName)
  /\ UNCHANGED <<kubeVars, secret>>

(* Mutated: PUT sends what POST does, initProvider included.                 *)
UpdateAsCreate ==
  LET id == cr.externalName
      q  == Request("PUT", id, createRequest(cr.forProvider, cr.initProvider)) IN
  /\ pc = "update"
  /\ \E r \in Answers(id) : Charge(r) /\ Exchange(q, r)
  /\ EndReconcile
  /\ UNCHANGED <<kubeVars, lost, published>>

(* Observe has found the connection, so that the name is never empty here    *)
(* and in Delete.  What the answer to the PUT holds is published, or that    *)
(* write fails.                                                             *)
Update ==
  LET id == cr.externalName
      q  == Request("PUT", id, request(cr.forProvider)) IN
  /\ pc = "update"
  /\ \E r \in Answers(id) :
       /\ Charge(r) /\ Exchange(q, r)
       /\ \/ UNCHANGED secret
          \/ /\ ~Fails(r, TRUE) /\ r.body = "object"
             /\ PublishConnection(connectionDetails(id, remote'[id]))
  /\ EndReconcile
  /\ UNCHANGED <<kubeVars, lost, details>>

Delete ==
  LET id == cr.externalName IN
  /\ pc = "delete"
  /\ \E r \in Answers(id) :
       Charge(r) /\ Exchange(Request("DELETE", id, Nil), r)
  /\ EndReconcile
  /\ UNCHANGED <<kubeVars, lost, published>>

(* What Create returned is published once it is recorded, or that write      *)
(* fails.                                                                   *)
RuntimeStep ==
  /\ ReconcilerStep(MarshalParameters(cr.forProvider))
  /\ \/ Unpublished
     \/ pc = "recordCreated" /\ PublishConnection(details) /\ details' = NoDetails

Worker ==
  RuntimeStep \/ Connect \/ Observe \/ Publish \/ Create \/ Update \/ Delete
-----------------------------------------------------------------------------
(* Everybody else.                                                          *)

ServeLate(q) ==
  /\ inFlight' = inFlight \ {q}
  /\ \E id \in IF q.verb = "POST" THEN Ids ELSE {q.id} :
       /\ Serve(q, id)
       /\ lost' = IF q.verb = "POST" THEN lost \cup {id} ELSE lost
  /\ UNCHANGED <<runtimeVars, published>>

UserStep == UserChange /\ UNCHANGED <<growthbook, details>> /\ KeepSecret

Elsewhere ==
  \E id \in Ids : OutOfBandDelete(id) \/ \E e \in OutOfBand : OutOfBandEdit(id, e)

Others ==
  \/ CrashStep /\ Unpublished
  \/ UserStep
  \/ (CacheSync \/ GraceEnds) /\ UNCHANGED <<growthbook, published>>
  \/ Elsewhere /\ UNCHANGED published
  \/ \E q \in inFlight : ServeLate(q)

Next == Worker \/ Others

Spec == Init /\ [][Next]_vars

(* A poll or a retry always starts another reconcile and the worker runs    *)
(* it; the informer catches up; the grace period is over after 30 seconds.  *)
Fairness ==
  /\ WF_vars(Worker)
  /\ WF_vars(CacheSync /\ UNCHANGED <<growthbook, published>>)
  /\ WF_vars(GraceEnds /\ UNCHANGED <<growthbook, published>>)

FairSpec == Spec /\ Fairness
-----------------------------------------------------------------------------
(* Properties.                                                              *)

(* The secret never has the key of a live connection other than the one the  *)
(* resource names (connectionDetails, Create): not of one that was lost, nor *)
(* of the old one once a new one is recorded.                               *)
KeyOfNamed ==
  secret.key # Nil => mr.externalName = secret.key \/ ~Live(secret.key)

(* "initProvider is only ever consulted here, at creation time" and "Unset   *)
(* optional fields are left to GrowthBook" (convert.go:28-29, :151-152): no  *)
(* PUT, on time or late, changes a field of a live connection that users     *)
(* never set in forProvider.                                                *)
PutServed == (pc = "update" /\ pc' = "idle") \/ inFlight' # inFlight

UnsetLeftAlone ==
  [][PutServed =>
       \A id \in Ids : Live(id) /\ Live(id)' =>
         \A f \in DOMAIN ZeroConnection \ (owned \cup {"languages"}) :
           remote'[id][f] = remote[id][f]]_vars

Named == mr # NoObject /\ mr.externalName # Nil /\ Live(mr.externalName)

InSync == Named /\ isUpToDate(mr.forProvider, remote[mr.externalName])

(* The secret shows the connection that the resource names.                  *)
SecretShown ==
  LET sc == remote[mr.externalName] IN
  /\ secret.key = mr.externalName
  /\ sc.proxyHost # "" => secret.proxyHost = sc.proxyHost

(* Once disturbances end, GrowthBook holds the declared connection and the   *)
(* secret its key and proxy host, whatever was not published on the way,     *)
(* unless the resource is gone, its creation was interrupted or an empty     *)
(* list is declared.                                                        *)
Converges ==
  <>[](\/ mr = NoObject \/ Stuck
       \/ mr # NoObject /\ mr.forProvider.projects = <<>>
       \/ InSync /\ SecretShown)

(* "Set spec.writeConnectionSecretToRef on an SDKConnection to receive the   *)
(* client key, and when present the encryptionKey" (README.md:92-94): the    *)
(* encryption key of a connection that stays encrypted gets to the secret.   *)
EncryptionKeyPublished ==
  LET encrypted == Named /\ remote[mr.externalName].encryptPayload IN
  encrypted ~> (~encrypted \/ secret.encryptionKey = mr.externalName)
=============================================================================
