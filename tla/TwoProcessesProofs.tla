-------------------------- MODULE TwoProcessesProofs --------------------------
(***************************************************************************)
(* What holds of TwoProcesses for any projects, declarations, faults and    *)
(* bounds.  The lemmas of ProjectProofs are used twice: as they are for the  *)
(* first process, and as an instance of the module for the second.  What     *)
(* joins them is that at most one of the two is creating; what each may be   *)
(* ignorant of is what the other has learned and not recorded yet.           *)
(***************************************************************************)
EXTENDS TwoProcesses, ProjectProofs

PB == INSTANCE ProjectProofs WITH
        pc <- pcB, cr <- crB, crFresh <- crFreshB, obs <- obsB,
        cache <- cacheB, cacheFresh <- cacheFreshB
-----------------------------------------------------------------------------
(* One code, two processes: the operators of B and of PB are instances of the *)
(* same definitions, and so are those of the state that the two share.        *)

(* What is assumed of the constants is assumed of the same constants.        *)
LEMMA SameAssumptions ==
  /\ PB!PoliciesAssumption /\ PB!FaultsAssumption /\ PB!MaxChaosAssumption
  /\ PB!IdsAssumption /\ PB!ProjectsAssumption /\ PB!NoObjectAssumption
  /\ PB!NilAssumption /\ PB!InputsAssumption
BY PoliciesAssumption, FaultsAssumption, MaxChaosAssumption, IdsAssumption,
   ProjectsAssumption, NoObjectAssumption, NilAssumption, InputsAssumption
   DEF PB!IsNotFound, IsNotFound, PB!Responses, Responses, PB!NoAnswer, NoAnswer,
   PB!Fails, Fails, PB!DecodeResponse, DecodeResponse, PB!ProjectParameters,
   ProjectParameters, PB!ProjectInitParameters, ProjectInitParameters, PB!Projects,
   Projects, PB!ProjectRequests, ProjectRequests, PB!ZeroProject, ZeroProject,
   PB!Things, Things, PB!RequestsWith, RequestsWith, PB!ProjectSettings,
   ProjectSettings, PB!Objects, Objects, PB!Opt, Opt, PB!Numbers, Numbers

LEMMA SameStart == B!Init => PB!Init
BY Zenon DEF B!Init, B!NewObject, B!NoObservation, B!RuntimeInit, B!SetFields,
   B!Starts, B!ZeroProject, PB!Init, PB!NewObject, PB!NoObservation,
   PB!RuntimeInit, PB!SetFields, PB!Starts, PB!ZeroProject

LEMMA SameSteps ==
  /\ B!Worker <=> PB!Worker
  /\ B!CrashStep <=> PB!CrashStep
  /\ B!CacheSync <=> PB!CacheSync /\ B!growthbook = PB!growthbook
BY Zenon DEF B!AddFinalizer, B!AfterFinalizer, B!AfterLateInit, B!AfterObserve,
   B!Answered, B!Answers, B!CacheSync, B!Charge, B!ClientUpdate, B!Connect,
   B!Continue, B!Crash, B!CrashStep, B!Create, B!CreateServed,
   B!DecodeResponse, B!Delete, B!Disturb, B!EndReconcile, B!Exchange,
   B!Fails, B!IsNotFound, B!Live, B!MarkPending, B!MayHaveApplied,
   B!Missing, B!NoAnswer, B!NoObservation, B!NotObserved, B!NotServed,
   B!Observe, B!ObserveReply, B!Observed, B!Overlay, B!Post, B!PostAs,
   B!Put, B!ReconcilerStep, B!RecordCreation, B!Remove, B!RemoveFinalizer,
   B!Request, B!Response, B!Returned, B!RuntimeStep, B!SaveLateInit,
   B!Serve, B!StartReconcile, B!Unparsable, B!Update, B!WithSpec, B!Worker,
   B!ZeroProject, B!createRequest, B!decimalEqual, B!derefBool,
   B!derefString, B!fieldsUpToDate, B!growthbook, B!isUpToDate, B!kubeVars,
   B!lateInitialize, B!lateInitializes, B!mergeInitProvider, B!parseDecimal,
   B!request, B!requestFails, B!settingsUpToDate, B!workerVars,
   PB!AddFinalizer, PB!AfterFinalizer, PB!AfterLateInit, PB!AfterObserve,
   PB!Answered, PB!Answers, PB!CacheSync, PB!Charge, PB!ClientUpdate,
   PB!Connect, PB!Continue, PB!Crash, PB!CrashStep, PB!Create,
   PB!CreateServed, PB!DecodeResponse, PB!Delete, PB!Disturb,
   PB!EndReconcile, PB!Exchange, PB!Fails, PB!IsNotFound, PB!Live,
   PB!MarkPending, PB!MayHaveApplied, PB!Missing, PB!NoAnswer,
   PB!NoObservation, PB!NotObserved, PB!NotServed, PB!Observe,
   PB!ObserveReply, PB!Observed, PB!Overlay, PB!Post, PB!PostAs, PB!Put,
   PB!ReconcilerStep, PB!RecordCreation, PB!Remove, PB!RemoveFinalizer,
   PB!Request, PB!Response, PB!Returned, PB!RuntimeStep, PB!SaveLateInit,
   PB!Serve, PB!StartReconcile, PB!Unparsable, PB!Update, PB!WithSpec,
   PB!Worker, PB!ZeroProject, PB!createRequest, PB!decimalEqual,
   PB!derefBool, PB!derefString, PB!fieldsUpToDate, PB!growthbook,
   PB!isUpToDate, PB!kubeVars, PB!lateInitialize, PB!lateInitializes,
   PB!mergeInitProvider, PB!parseDecimal, PB!request, PB!requestFails,
   PB!settingsUpToDate, PB!workerVars

LEMMA SameKinds ==
  /\ PB!ProjectParameters = ProjectParameters
  /\ PB!ProjectInitParameters = ProjectInitParameters
  /\ PB!Projects = Projects /\ PB!ProjectRequests = ProjectRequests
  /\ PB!ZeroProject = ZeroProject
  /\ \A P, IP : PB!Things(P, IP) = Things(P, IP)
  /\ \A R : PB!RequestsWith(R) = RequestsWith(R)
BY Zenon DEF ProjectParameters, PB!ProjectParameters, ProjectInitParameters,
   PB!ProjectInitParameters, Projects, PB!Projects, ProjectRequests,
   PB!ProjectRequests, ZeroProject, PB!ZeroProject, ProjectSettings,
   PB!ProjectSettings, Numbers, PB!Numbers, Things, PB!Things, Objects,
   PB!Objects, RequestsWith, PB!RequestsWith, Opt, PB!Opt

LEMMA SameAllowed == PB!Allowed <=> Allowed
BY DEF Allowed, PB!Allowed, NobodyStirs, PB!NobodyStirs, Goes, PB!Goes, Turns,
   PB!Turns, OthersStand, PB!OthersStand, Resource, PB!Resource, Standing,
   PB!Standing, AnswersFor, PB!AnswersFor, Made, PB!Made, Live, PB!Live,
   Holds, PB!Holds

LEMMA SameMoves == \A id : PB!OnlyMoves(id) <=> OnlyMoves(id)
BY DEF PB!OnlyMoves, OnlyMoves, PB!Live, Live

LEMMA SameGiven == \A o : (PB!Given(o) <=> Given(o)) /\ (PB!Given(o)' <=> Given(o)')
BY DEF PB!Given, Given

LEMMA SameAnnounced == (PB!Announced <=> Announced) /\ (PB!Announced' <=> Announced')
BY DEF PB!Announced, Announced
-----------------------------------------------------------------------------
(* What the one has learned and the other cannot know of.                    *)
LearnedA == {id \in Ids : Learned(id)}
LearnedB == {id \in Ids : PB!Learned(id)}

(* The joint invariant.                                                     *)
FirstInv == TypeOK /\ SafeBut(LearnedB) /\ Ready
SecondInv == PB!TypeOK /\ PB!SafeBut(LearnedA) /\ PB!Ready

TwoInv == FirstInv /\ SecondInv /\ ~(pc \in Creating /\ pcB \in Creating)

(* That no project leaks is said of both at once.                            *)
LEMMA SameLeak ==
  /\ PB!NoLeakBut(LearnedA) <=> NoLeakBut(LearnedB)
  /\ PB!NoLeakBut(LearnedA)' <=> NoLeakBut(LearnedB)'
BY DEF PB!NoLeakBut, NoLeakBut, LearnedA, LearnedB, PB!Made, Made, PB!Live, Live,
   PB!Holds, Holds, PB!Learned, Learned

(* The types of what they share are the same ones.                           *)
LEMMA SharedTyped ==
  ASSUME TypeOK', PB!TypeOK, PB!LooksOn
  PROVE  PB!TypeOK'
<1>1. /\ KubeOK(ProjectParameters, ProjectInitParameters)'
      /\ RemoteOK(Projects, ProjectRequests)' /\ ChaosOK'
      /\ owned' \subseteq DOMAIN ZeroProject
  BY AssignedTypeParts DEF TypeOK
<1>2. /\ PB!KubeOK(PB!ProjectParameters, PB!ProjectInitParameters)
      /\ PB!WorkerOK(PB!ProjectParameters, PB!ProjectInitParameters)
  BY SameAssumptions, PB!AssignedTypeParts
     DEF PB!TypeOK
<1>3. /\ PB!KubeOK(PB!ProjectParameters, PB!ProjectInitParameters)'
      /\ PB!WorkerOK(PB!ProjectParameters, PB!ProjectInitParameters)'
  BY <1>1, <1>2, SameKinds, SameAssumptions, PB!LooksOnTyped DEF KubeOK
<1>4. PB!RemoteOK(PB!Projects, PB!ProjectRequests)' /\ PB!ChaosOK'
  BY <1>1, SameKinds DEF RemoteOK, PB!RemoteOK, ChaosOK, PB!ChaosOK
<1> QED BY <1>1, <1>3, <1>4, SameKinds, SameAssumptions, PB!AssignedTypeParts
     DEF PB!TypeOK

LEMMA SharedTypedBack ==
  ASSUME PB!TypeOK', TypeOK, LooksOn
  PROVE  TypeOK'
<1>1. /\ PB!KubeOK(PB!ProjectParameters, PB!ProjectInitParameters)'
      /\ PB!RemoteOK(PB!Projects, PB!ProjectRequests)' /\ PB!ChaosOK'
      /\ owned' \subseteq DOMAIN ZeroProject
  BY SameKinds, SameAssumptions, PB!AssignedTypeParts
     DEF PB!TypeOK
<1>2. /\ KubeOK(ProjectParameters, ProjectInitParameters)
      /\ WorkerOK(ProjectParameters, ProjectInitParameters)
  BY AssignedTypeParts DEF TypeOK
<1>3. /\ KubeOK(ProjectParameters, ProjectInitParameters)'
      /\ WorkerOK(ProjectParameters, ProjectInitParameters)'
  BY <1>1, <1>2, SameKinds, LooksOnTyped DEF PB!KubeOK
<1>4. RemoteOK(Projects, ProjectRequests)' /\ ChaosOK'
  BY <1>1, SameKinds DEF RemoteOK, PB!RemoteOK, ChaosOK, PB!ChaosOK
<1> QED BY <1>1, <1>3, <1>4, AssignedTypeParts DEF TypeOK

(* One process at a time is creating: the other one has no part in it.       *)
LEMMA OneCreates ==
  ASSUME TwoInv
  PROVE  /\ pc \in Creating => Announced /\ pcB \notin PB!Creating
         /\ pcB \in PB!Creating => Announced /\ pc \notin Creating
BY DEF TwoInv, FirstInv, SecondInv, SafeBut, PB!SafeBut, Protocol, PB!Protocol,
   CreateAnnounced, PB!CreateAnnounced, Creating, PB!Creating, Announced
-----------------------------------------------------------------------------
(* The joint invariant holds initially.                                     *)
LEMMA TwoInitHolds == TwoInit => TwoInv /\ Abstract!Init
<1> SUFFICES ASSUME TwoInit PROVE TwoInv /\ Abstract!Init
  OBVIOUS
<1>1. IInv /\ Abstract!Init /\ PB!IInv
  BY SameStart, SameAssumptions, InitHolds, PB!InitHolds DEF TwoInit
<1>2. pc = "idle" /\ pcB = "idle"
  BY SameStart DEF TwoInit, Init, Starts, RuntimeInit, PB!Init, PB!Starts, PB!RuntimeInit
<1>3. SafeBut(LearnedB)
  BY <1>1 DEF IInv, Safe, SafeBut, NoSilentLeak, NoLeakBut
<1>4. PB!SafeBut(LearnedA)
  BY <1>1, <1>3, SameLeak DEF PB!IInv, PB!Safe, PB!SafeBut, SafeBut
<1> QED BY <1>1, <1>2, <1>3, <1>4
        DEF TwoInv, FirstInv, SecondInv, IInv, PB!IInv, Ready, PB!Ready, Creating

-----------------------------------------------------------------------------
(* A step of the first process, with what goes on around it, keeps the joint  *)
(* invariant and is one that the abstract resource may take.                 *)
LEMMA FirstSteps ==
  ASSUME TwoInv, [Next]_vars, PB!LooksOn
  PROVE  TwoInv' /\ Allowed
<1> DEFINE P == ProjectParameters
           IP == ProjectInitParameters
<1>1. /\ TypeOK /\ SafeBut(LearnedB) /\ Ready /\ ~(pc \in Creating /\ pcB \in Creating)
      /\ PB!TypeOK /\ PB!SafeBut(LearnedA) /\ PB!Ready
  BY DEF TwoInv, FirstInv, SecondInv
<1>2. /\ CopiesAgree /\ NamesWereGiven /\ Protocol /\ OnTheWay
      /\ PB!CopiesAgree /\ PB!NamesWereGiven /\ PB!Protocol
  BY <1>1 DEF SafeBut, PB!SafeBut, Protocol
<1>3. /\ AssignedStep(P, Projects, ProjectRequests) /\ ProjectStep
      /\ AssignedTypeOK(P, IP, Projects, ProjectRequests)
  BY <1>1, <1>2, NextForms DEF ProjectStep, TypeOK
<1>4. TypeOK' /\ Ready'
  <2>1. AssignedTypeOK(P, IP, Projects, ProjectRequests)'
    BY <1>2, <1>3, ProjectIsSound, StepTyped
  <2>2. Ready'
    BY <1>1, <1>2, <1>3, ProjectIsSound, StepReady
  <2> QED BY <1>1, <1>3, <2>1, <2>2, OwnedTyped DEF TypeOK
<1>5. UNCHANGED LearnedB
  BY DEF LearnedB, PB!LooksOn, PB!Learned
<1>6. SafeBut(LearnedB)'
  <2>1. PICK X : X = LearnedB
    OBVIOUS
  <2>2. SafeBut(X)'
    BY <1>1, <1>3, <2>1, ProjectIsSound, StepSafeBut
  <2> QED BY <1>5, <2>1, <2>2
<1>7. /\ pcB \in Creating => /\ Announced' /\ mr'.externalName = mr.externalName
                             /\ pc' \notin Creating
      /\ pcB \in Creating => Allowed
  BY <1>1, <1>2, <1>3, ProjectIsSound, OneCreates, StandsBack, StandsBackAllowed
     DEF Creating, PB!Creating
<1>8. PB!CopiesAgree' /\ PB!NamesWereGiven' /\ PB!Protocol' /\ PB!Ready'
  <2>1. PB!CopiesOK(PB!ProjectParameters, PB!ProjectInitParameters)
    BY <1>1, SameAssumptions, PB!TypeParts DEF PB!TypeOK
  <2>2. PICK id : PB!OnlyMoves(id)
    BY <1>3, ProjectIsSound, StepMoves, SameMoves
  <2>3. PB!Given(mr)'
    BY <1>6, SameGiven DEF SafeBut, NamesWereGiven
  <2>4. pcB \in PB!Creating => PB!Announced' /\ mr'.externalName = mr.externalName
    BY <1>7, SameAnnounced DEF Creating, PB!Creating
  <2> QED BY <1>1, <1>2, <2>1, <2>2, <2>3, <2>4, SameAssumptions, PB!LooksOnSafe
<1>9. TwoInv'
  <2>1. PB!TypeOK'
    BY <1>1, <1>4, SharedTyped
  <2>2. PB!SafeBut(LearnedA)'
    BY <1>6, <1>8, SameLeak DEF SafeBut, PB!SafeBut
  <2>3. ~(pc' \in Creating /\ pcB' \in Creating)
    BY <1>1, <1>7 DEF PB!LooksOn
  <2> QED BY <1>4, <1>6, <1>8, <2>1, <2>2, <2>3 DEF TwoInv, FirstInv, SecondInv
<1>10. Allowed
  <2>1. CASE pcB \notin Creating
    <3>1. Safe
      BY <1>1, <2>1 DEF Safe, SafeBut, NoSilentLeak, NoLeakBut, LearnedB, PB!Learned, Creating
    <3> QED BY <1>3, <3>1, ProjectIsSound, StepAllowed
  <2> QED BY <1>7, <2>1
<1> QED BY <1>9, <1>10

(* So is a step of the second.                                               *)
LEMMA SecondSteps ==
  ASSUME TwoInv, [PB!Next]_(PB!vars), LooksOn
  PROVE  TwoInv' /\ Allowed
<1> USE SameAssumptions
<1> DEFINE P == PB!ProjectParameters
           IP == PB!ProjectInitParameters
<1>1. /\ PB!TypeOK /\ PB!SafeBut(LearnedA) /\ PB!Ready /\ ~(pc \in Creating /\ pcB \in Creating)
      /\ TypeOK /\ SafeBut(LearnedB) /\ Ready
  BY DEF TwoInv, FirstInv, SecondInv
<1>2. /\ PB!CopiesAgree /\ PB!NamesWereGiven /\ PB!Protocol /\ PB!OnTheWay
      /\ CopiesAgree /\ NamesWereGiven /\ Protocol
  BY <1>1 DEF SafeBut, PB!SafeBut, PB!Protocol
<1>3. /\ PB!AssignedStep(P, PB!Projects, PB!ProjectRequests) /\ PB!ProjectStep
      /\ PB!AssignedTypeOK(P, IP, PB!Projects, PB!ProjectRequests)
  BY <1>1, <1>2, PB!NextForms DEF PB!ProjectStep, PB!TypeOK
<1>4. PB!TypeOK' /\ PB!Ready'
  <2>1. PB!AssignedTypeOK(P, IP, PB!Projects, PB!ProjectRequests)'
    BY <1>2, <1>3, PB!ProjectIsSound, PB!StepTyped
  <2>2. PB!Ready'
    BY <1>1, <1>2, <1>3, PB!ProjectIsSound, PB!StepReady
  <2> QED BY <1>1, <1>3, <2>1, <2>2, PB!OwnedTyped DEF PB!TypeOK
<1>5. UNCHANGED LearnedA
  BY DEF LearnedA, LooksOn, Learned
<1>6. PB!SafeBut(LearnedA)'
  <2>1. PICK X : X = LearnedA
    OBVIOUS
  <2>2. PB!SafeBut(X)'
    BY <1>1, <1>3, <2>1, PB!ProjectIsSound, PB!StepSafeBut
  <2> QED BY <1>5, <2>1, <2>2
<1>7. /\ pc \in Creating => /\ Announced' /\ mr'.externalName = mr.externalName
                            /\ pcB' \notin Creating
      /\ pc \in Creating => Allowed
  <2>1. pc \in Creating => PB!Announced /\ pcB \notin PB!Creating
    BY OneCreates, SameAnnounced
  <2>2. pc \in Creating => /\ PB!Announced' /\ mr'.externalName = mr.externalName
                           /\ pcB' \notin PB!Creating
    BY <1>1, <1>2, <1>3, <2>1, PB!ProjectIsSound, PB!StandsBack
  <2>3. pc \in Creating => PB!Allowed
    BY <1>1, <1>2, <1>3, <2>1, PB!ProjectIsSound, PB!StandsBackAllowed
  <2> QED BY <2>2, <2>3, SameAnnounced, SameAllowed DEF Creating, PB!Creating
<1>8. CopiesAgree' /\ NamesWereGiven' /\ Protocol' /\ Ready'
  <2>1. CopiesOK(ProjectParameters, ProjectInitParameters)
    BY <1>1, TypeParts
  <2>2. PICK id : OnlyMoves(id)
    BY <1>3, PB!ProjectIsSound, PB!StepMoves, SameMoves
  <2>3. Given(mr)'
    BY <1>6, SameGiven DEF PB!SafeBut, PB!NamesWereGiven
  <2> QED BY <1>1, <1>2, <1>7, <2>1, <2>2, <2>3, LooksOnSafe
<1>9. TwoInv'
  <2>1. TypeOK'
    BY <1>1, <1>4, SharedTypedBack
  <2>2. SafeBut(LearnedB)'
    BY <1>6, <1>8, SameLeak DEF SafeBut, PB!SafeBut
  <2>3. ~(pc' \in Creating /\ pcB' \in Creating)
    BY <1>1, <1>7 DEF LooksOn
  <2> QED BY <1>4, <1>6, <1>8, <2>1, <2>2, <2>3 DEF TwoInv, FirstInv, SecondInv
<1>10. Allowed
  <2>1. CASE pc \notin Creating
    <3>1. PB!Safe
      BY <1>1, <2>1 DEF PB!Safe, PB!SafeBut, PB!NoSilentLeak, PB!NoLeakBut, LearnedA, Learned,
         Creating
    <3> QED BY <1>3, <3>1, PB!ProjectIsSound, PB!StepAllowed, SameAllowed
  <2> QED BY <1>7, <2>1
<1> QED BY <1>9, <1>10

(* Every step is one of theirs, while the other looks on.                    *)
LEMMA TwoForms ==
  ASSUME TwoInv, [TwoNext]_allVars
  PROVE  ([Next]_vars /\ PB!LooksOn) \/ ([PB!Next]_(PB!vars) /\ LooksOn)
<1>1. CASE NextA
  BY <1>1 DEF NextA, PB!LooksOn
<1>2. CASE NextB
  <2>1. LooksOn
    BY <1>2 DEF NextB, LooksOn
  <2>2. PB!Worker \/ PB!CrashStep \/ (PB!CacheSync /\ UNCHANGED PB!growthbook)
    BY <1>2, SameSteps DEF NextB, growthbook, PB!growthbook
  <2> QED BY <2>1, <2>2 DEF PB!Next, PB!Others, PB!Kubernetes
<1>3. CASE UNCHANGED allVars
  <2>1. UNCHANGED vars
    BY <1>3 DEF allVars, shared, processA, vars, runtimeVars, kubeVars, workerVars, growthbook
  <2>2. UNCHANGED <<pcB, crB, crFreshB, obsB, cacheB, cacheFreshB, mr>>
    BY <1>3 DEF allVars, shared, processB
  <2>3. crFreshB \in BOOLEAN /\ cacheFreshB \in BOOLEAN
    BY SameAssumptions, PB!TypeParts DEF TwoInv, SecondInv, PB!KubeOK, PB!WorkerOK
  <2> QED BY <2>1, <2>2, <2>3 DEF PB!LooksOn
<1> QED BY <1>1, <1>2, <1>3 DEF TwoNext

LEMMA TwoNextHolds ==
  TwoInv /\ [TwoNext]_allVars => TwoInv' /\ [Abstract!Next]_(Abstract!vars)
BY TwoForms, FirstSteps, SecondSteps, AllowedIsAbstract
-----------------------------------------------------------------------------
(* What two processes keep.                                                  *)

(* The joint invariant holds of every behaviour of two processes on one       *)
(* Project: each works from copies as one process alone would, and never do   *)
(* both create.                                                              *)
THEOREM TwoInvariant == TwoSpec => []TwoInv
<1>1. TwoInit => TwoInv
  BY TwoInitHolds
<1>2. TwoInv /\ [TwoNext]_allVars => TwoInv'
  BY TwoNextHolds
<1> QED BY <1>1, <1>2, PTL DEF TwoSpec

(* Whichever process gets to POST (project.go Create), the API server has its *)
(* announcement and a finalizer, and names no live project: never one that    *)
(* the other has just made.                                                  *)
THEOREM TwoCreationsJustified == TwoSpec => []BothJustified
<1>1. TwoInv => BothJustified
  <2> SUFFICES ASSUME TwoInv PROVE BothJustified
    OBVIOUS
  <2>1. Protocol /\ PB!Protocol
    BY DEF TwoInv, FirstInv, SecondInv, SafeBut, PB!SafeBut
  <2>2. CreateJustified /\ PB!CreateJustified
    BY <2>1, SameAssumptions, ProtocolJustifies, PB!ProtocolJustifies
  <2>3. PB!CreateJustified <=> B!CreateJustified
    BY DEF PB!CreateJustified, B!CreateJustified, PB!CreateAnnounced, B!CreateAnnounced,
       PB!Live, B!Live
  <2> QED BY <2>2, <2>3 DEF BothJustified
<1> QED BY <1>1, TwoInvariant, PTL

(* A live project that either has made is named and held by the resource, is   *)
(* on its way there, or is one of the accounted losses, whatever the other    *)
(* does meanwhile (project.go Create).                                       *)
THEOREM TwoNeverLeak == TwoSpec => []NoLeakBetween
<1>1. TwoInv => NoLeakBetween
  BY DEF TwoInv, FirstInv, SafeBut, NoLeakBut, NoLeakBetween, LearnedB, PB!Learned, B!Learned,
     Made
<1> QED BY <1>1, TwoInvariant, PTL

(* Two processes at a time keep the promise of ExternalResource: a resource   *)
(* that goes leaves nothing behind that it answers for, and never answers for *)
(* two projects, although each reconciles without knowing of the other        *)
(* (leader election is off by default, cmd/provider/main.go).                *)
THEOREM TwoImplementResource == TwoSpec => Implements
<1>1. TwoInit => TwoInv /\ Abstract!Init
  BY TwoInitHolds
<1> QED BY <1>1, TwoNextHolds, TwoInvariant, PTL DEF TwoSpec, Implements, Abstract!Spec
-----------------------------------------------------------------------------
(* What they write.                                                         *)

LEMMA SameFields ==
  /\ PB!Managed <=> Managed
  /\ PB!UnsetKept <=> UnsetKept
  /\ \A o : PB!Clean(o) <=> Clean(o)
  /\ (mr' # NoObject => PB!Clean(mr)') <=> (mr' # NoObject => Clean(mr)')
  /\ \A n, fields : PB!Backed(n, fields) <=> Backed(n, fields)
  /\ \A n, fields : PB!Backed(n, fields)' <=> Backed(n, fields)'
BY DEF PB!Managed, Managed, PB!UnsetKept, UnsetKept, PB!Live, Live, PB!Clean, Clean,
   PB!InitOnly, InitOnly, PB!Backed, Backed, PB!Unowned, Unowned, PB!ZeroProject, ZeroProject,
   PB!Free, Free

LEMMA SameBacked == PB!BackedKept <=> BackedKept
BY SameFields DEF PB!BackedKept, BackedKept, PB!Opt, Opt

(* Both know what one process knows alone.                                   *)
TwoKnown == TwoInv /\ Known /\ PB!Known

LEMMA TwoFields == TwoKnown => FInv /\ PB!FInv
BY DEF TwoKnown, TwoInv, FirstInv, SecondInv, SafeBut, PB!SafeBut, FInv, PB!FInv

LEMMA FirstKnows ==
  ASSUME TwoKnown, [Next]_vars, PB!LooksOn
  PROVE  Known' /\ PB!Known'
<1>1. FInv /\ PB!FInv
  BY TwoFields
<1>2. Known' /\ BackedKept
  BY <1>1, KnownNext
<1>3. TypeOK /\ ProjectStep
  BY NextForms DEF TwoKnown, TwoInv, FirstInv, SafeBut
<1>4. /\ mr' # NoObject => PB!Clean(mr)'
      /\ PB!Managed => \A q \in inFlight' : q.verb = "PUT" => PB!Backed(q.id, q.body)'
  BY <1>2, SameFields DEF Known, CopiesClean, PutsBacked, Managed
<1> QED BY <1>1, <1>2, <1>3, <1>4, OwnedGrows, SameBacked, SameAssumptions, PB!LooksOnKnown

LEMMA SecondKnows ==
  ASSUME TwoKnown, [PB!Next]_(PB!vars), LooksOn
  PROVE  Known' /\ PB!Known'
<1>1. FInv /\ PB!FInv
  BY TwoFields
<1>2. PB!Known' /\ PB!BackedKept
  BY <1>1, SameAssumptions, PB!KnownNext
<1>3. PB!TypeOK /\ PB!ProjectStep
  BY SameAssumptions, PB!NextForms DEF TwoKnown, TwoInv, SecondInv, PB!SafeBut
<1>4. /\ mr' # NoObject => Clean(mr)'
      /\ Managed => \A q \in inFlight' : q.verb = "PUT" => Backed(q.id, q.body)'
  BY <1>2, SameFields DEF PB!Known, PB!CopiesClean, PB!PutsBacked, PB!Managed
<1>5. UNCHANGED mr => owned \subseteq owned'
  BY <1>3, SameAssumptions, PB!OwnedGrows
<1> QED BY <1>1, <1>2, <1>4, <1>5, SameBacked, LooksOnKnown

LEMMA TwoKnownInvariant == TwoSpec => []TwoKnown
<1>1. TwoInit => Known /\ PB!Known
  BY SameStart, SameAssumptions, KnownInit, PB!KnownInit DEF TwoInit
<1>2. TwoKnown /\ [TwoNext]_allVars => Known' /\ PB!Known'
  BY TwoForms, FirstKnows, SecondKnows DEF TwoKnown
<1> QED BY <1>1, <1>2, TwoInvariant, PTL DEF TwoSpec, TwoKnown

(* What users only put in initProvider stays out of forProvider, whichever    *)
(* process writes the resource, and from whatever it has read of it           *)
(* (convert.go lateInitialize, project.go Observe).                          *)
THEOREM TwoInitOnlyStaysOut == TwoSpec => []InitOnlyNeverAdopted
<1>1. TwoKnown => InitOnlyNeverAdopted
  BY DEF TwoKnown, Known, CopiesClean, Clean, InitOnlyNeverAdopted
<1> QED BY <1>1, TwoKnownInvariant, PTL

(* A request of either leaves alone what is to be left alone.                *)
LEMMA TwoKeepUnset ==
  ASSUME TwoKnown, [TwoNext]_allVars, PutServed \/ PB!PutServed, Managed
  PROVE  UnsetKept
<1>1. FInv /\ PB!FInv
  BY TwoFields
<1>2. CASE [Next]_vars /\ PB!LooksOn
  <2>1. PutServed
    BY <1>2 DEF PutServed, PB!PutServed, PB!LooksOn
  <2>2. Next
    BY <1>2, <2>1 DEF PutServed, vars, runtimeVars, workerVars, growthbook
  <2> QED BY <1>1, <2>1, <2>2, StepKeepsUnset
<1>3. CASE [PB!Next]_(PB!vars) /\ LooksOn
  <2>1. PB!PutServed
    BY <1>3 DEF PutServed, PB!PutServed, LooksOn
  <2>2. PB!Next
    BY <1>3, <2>1 DEF PB!PutServed, PB!vars, PB!runtimeVars, PB!workerVars, PB!growthbook
  <2> QED BY <1>1, <2>1, <2>2, SameFields, SameAssumptions, PB!StepKeepsUnset
<1> QED BY <1>2, <1>3, TwoForms DEF TwoKnown

(* No PUT of either process, on time or late, sets a field that users always  *)
(* left unset, although one may send what it read before the other, or the    *)
(* users, wrote (convert.go request, project.go Update).                     *)
THEOREM TwoUnsetStaysUnset == TwoSpec => BothLeaveUnset
<1>1. TwoKnown /\ [TwoNext]_allVars => [PutServed /\ Managed => UnsetKept]_vars
  BY TwoKeepUnset
<1>2. TwoKnown /\ [TwoNext]_allVars => [B!PutServed /\ Managed => UnsetKept]_(B!vars)
  BY TwoKeepUnset DEF B!PutServed, PB!PutServed
<1> QED BY <1>1, <1>2, TwoKnownInvariant, PTL
        DEF TwoSpec, BothLeaveUnset, UnsetLeftAlone, B!UnsetLeftAlone, Managed, UnsetKept,
            Unowned, Live, B!Live, ZeroProject, B!ZeroProject
=============================================================================
