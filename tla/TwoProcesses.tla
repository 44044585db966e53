----------------------------- MODULE TwoProcesses -----------------------------
(***************************************************************************)
(* Two processes of the provider on one Project: leader election is off by  *)
(* default (cmd/provider/main.go:64), so that while a process is replaced,  *)
(* or when there are two for other reasons, both reconcile.  The variables  *)
(* of Project are the first process with everything the two share; the      *)
(* second has a worker and an informer of its own.                          *)
(***************************************************************************)
EXTENDS Project

VARIABLES pcB, crB, crFreshB, obsB, cacheB, cacheFreshB

B == INSTANCE Project WITH
       pc <- pcB, cr <- crB, crFresh <- crFreshB, obs <- obsB,
       cache <- cacheB, cacheFresh <- cacheFreshB

shared == <<mr, inGrace, owned, chaos, remote, inFlight, lost>>
processA == <<pc, cr, crFresh, obs, cache, cacheFresh>>
processB == <<pcB, crB, crFreshB, obsB, cacheB, cacheFreshB>>
allVars == <<shared, processA, processB>>

TwoInit == Init /\ B!Init

(* What one process writes makes the copies of the other outdated.           *)
NextA ==
  /\ Next
  /\ crFreshB' = (crFreshB /\ mr' = mr) /\ cacheFreshB' = (cacheFreshB /\ mr' = mr)
  /\ UNCHANGED <<pcB, crB, obsB, cacheB>>

NextB ==
  /\ B!Worker \/ B!CrashStep \/ (B!CacheSync /\ UNCHANGED growthbook)
  /\ crFresh' = (crFresh /\ mr' = mr) /\ cacheFresh' = (cacheFresh /\ mr' = mr)
  /\ UNCHANGED <<pc, cr, obs, cache>>

TwoNext == NextA \/ NextB

TwoSpec == TwoInit /\ [][TwoNext]_allVars
-----------------------------------------------------------------------------
(* Whichever process gets to POST, it does so for a resource that announces a *)
(* creation and names no live project: never for one that the other has just  *)
(* made (Create in project.go relies on the annotations and on conflicts).    *)
BothJustified == CreateJustified /\ B!CreateJustified

(* No project leaks between them: as long as the provider may delete, a live   *)
(* one that either has created is the one the managed resource names and      *)
(* holds, or its id is in the memory of the process that is to record it, or  *)
(* it is one of the accounted losses (Create in project.go).                 *)
NoLeakBetween ==
  "Delete" \in Policies =>
    \A id \in Made : Holds(id) \/ Learned(id) \/ B!Learned(id) \/ id \in lost

(* No PUT of either process changes what users leave to GrowthBook (Update in *)
(* project.go), although it is made from what that process read before people *)
(* chose another slug or the other process saved the one it had found.        *)
BothLeaveUnset == UnsetLeftAlone /\ B!UnsetLeftAlone

(* That they keep the promise of ExternalResource together, although each     *)
(* reconciles from its own copies and knows nothing of the other, is          *)
(* Implements; that neither saves what users only put in initProvider is      *)
(* InitOnlyNeverAdopted.  Both are about what the two share only.             *)
=============================================================================
