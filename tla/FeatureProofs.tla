----------------------------- MODULE FeatureProofs -----------------------------
(***************************************************************************)
(* Feature, for any key, declarations, faults, policies and bounds, with and *)
(* without an organization that wants an archive first: it is well typed,    *)
(* implements ExternalResource, and leaves alone what is not declared.  The   *)
(* steps of the reconciler are those of NamedProofs; what is proved here is   *)
(* what convert.go, rules_convert.go and feature.go add.  The last part is     *)
(* about RuleDrift: its drift check is exact, for any rules and edits.        *)
(***************************************************************************)
EXTENDS Feature, NamedProofs, RuleDrift, FiniteSetTheorems

P == FeatureParameters

Fields == DOMAIN ZeroFeature

(* Only three fields are ever adopted, and only lists and maps are lost when  *)
(* empty.                                                                   *)
Never == Fields \ {"description", "owner", "project"}

(* Parameters, requests and features have the same fields.                   *)
LEMMA SameFields ==
  /\ \A p \in P : DOMAIN p = Fields
  /\ \A q \in FeatureRequests : DOMAIN q = Fields
  /\ \A o \in Features : DOMAIN o = Fields
BY DEF P, FeatureParameters, FeatureRequests, Features, Fields, ZeroFeature

(* The fields, one by one.                                                  *)
LEMMA NineFields ==
  Fields = {"valueType", "defaultValue", "description", "project", "tags", "archived",
            "owner", "environments", "rules"}
BY DEF Fields, ZeroFeature
-----------------------------------------------------------------------------
(* Rules and environments.                                                  *)

(* A rule whose coverage is a decimal is one that can be sent.               *)
LEMMA RuleRequestTyped ==
  ASSUME NEW r \in DeclaredRules, r.coverage = Nil \/ ParseFloat[r.coverage] # Nil
  PROVE  ruleRequest(r) \in WireRules
<1> DEFINE fields == {"type", "id", "description", "enabled", "condition", "savedGroups",
                      "allEnvironments", "environments", "value", "coverage",
                      "hashAttribute", "experimentId", "variations"}
<1>1. DOMAIN r = fields
  BY DEF DeclaredRules
<1> DEFINE w == ruleRequest(r)
<1>2. /\ DOMAIN w = fields
      /\ w = [f \in fields |-> w[f]]
  BY <1>1 DEF ruleRequest
<1>3. w.type \in RuleTypes /\ w.enabled \in Opt(BOOLEAN)
  BY <1>1 DEF ruleRequest, DeclaredRules
<1>4. w.allEnvironments \in BOOLEAN
  BY <1>1 DEF ruleRequest, derefBool
<1>5. w.coverage \in Opt({ParseFloat[c] : c \in Coverages} \ {Nil})
  <2>1. w.coverage = parseCoverage(r.coverage) /\ r.coverage \in Coverages \cup {Nil}
    BY <1>1 DEF ruleRequest, DeclaredRules, Opt
  <2> QED BY <2>1 DEF parseCoverage, Opt
<1>6. /\ w.savedGroups \in GroupLists \cup {<<>>}
      /\ w.environments \in EnvironmentLists \cup {<<>>}
      /\ w.variations \in VariationLists \cup {<<>>}
  <2>1. /\ w.savedGroups = Elements(r.savedGroups)
        /\ w.environments = Elements(r.environments)
        /\ w.variations = Elements(r.variations)
    BY <1>1 DEF ruleRequest
  <2>2. /\ r.savedGroups \in GroupLists \cup {Nil}
        /\ r.environments \in EnvironmentLists \cup {Nil}
        /\ r.variations \in VariationLists \cup {Nil}
    BY DEF DeclaredRules, Opt
  <2> QED BY <2>1, <2>2 DEF Elements
<1>7. /\ w.id \in RuleIds \cup {AssignedId, ""}
      /\ \A f \in {"description", "condition", "value", "hashAttribute", "experimentId"} :
           w[f] \in Texts \cup {""}
  <2>1. \A f \in {"id", "description", "condition", "value", "hashAttribute", "experimentId"} :
          w[f] = derefString(r[f])
    BY <1>1 DEF ruleRequest
  <2>2. /\ r.id \in RuleIds \cup {Nil}
        /\ \A f \in {"description", "condition", "value", "hashAttribute", "experimentId"} :
             r[f] \in Texts \cup {Nil}
    BY DEF DeclaredRules, Opt
  <2> QED BY <2>1, <2>2 DEF derefString
<1> HIDE DEF w
<1> QED BY <1>2, <1>3, <1>4, <1>5, <1>6, <1>7 DEF WireRules, w

(* So is a list of them.                                                    *)
LEMMA RulesRequestTyped ==
  ASSUME NEW rules \in Opt(Seq(DeclaredRules)), ~rulesFail(rules)
  PROVE  rulesRequest(rules) \in Opt(Seq(WireRules))
<1>1. CASE rules = Nil
  BY <1>1 DEF rulesRequest, Opt
<1>2. CASE rules # Nil
  <2>1. rules \in Seq(DeclaredRules)
    BY <1>2 DEF Opt
  <2>2. \A i \in DOMAIN rules : ruleRequest(rules[i]) \in WireRules
    BY <1>2, <2>1, RuleRequestTyped DEF rulesFail
  <2>3. DOMAIN rules = 1..Len(rules) /\ Len(rules) \in Nat
    BY <2>1
  <2> DEFINE sent == [i \in 1..Len(rules) |-> ruleRequest(rules[i])]
  <2>4. sent \in Seq(WireRules)
    BY <2>2, <2>3
  <2>5. rulesRequest(rules) = sent
    BY <1>2, <2>3 DEF rulesRequest
  <2> QED BY <2>4, <2>5 DEF Opt
<1> QED BY <1>1, <1>2

(* GrowthBook keeps rules of the same kind.                                  *)
LEMMA StoredRulesTyped ==
  ASSUME NEW rules \in Seq(WireRules)
  PROVE  StoredRules(rules) \in Seq(WireRules)
<1> DEFINE id(rule) == IF rule.id = "" THEN AssignedId ELSE rule.id
           on(rule) == enabledOrTrue(rule.enabled)
           stored(rule) == [rule EXCEPT !.id = id(rule), !.enabled = on(rule)]
<1>1. ASSUME NEW rule \in WireRules PROVE stored(rule) \in WireRules
  <2>1. id(rule) \in RuleIds \cup {AssignedId, ""}
    BY DEF WireRules
  <2>2. on(rule) \in Opt(BOOLEAN)
    BY DEF enabledOrTrue, Opt
  <2> HIDE DEF id, on
  <2> QED BY <2>1, <2>2 DEF WireRules
<1>2. DOMAIN rules = 1..Len(rules) /\ Len(rules) \in Nat
  OBVIOUS
<1>3. StoredRules(rules) = [i \in 1..Len(rules) |-> stored(rules[i])]
  BY <1>2 DEF StoredRules
<1> HIDE DEF stored
<1>4. \A i \in 1..Len(rules) : rules[i] \in WireRules
  BY <1>2
<1>5. \A i \in 1..Len(rules) : stored(rules[i]) \in WireRules
  BY <1>1, <1>4
<1>6. [i \in 1..Len(rules) |-> stored(rules[i])] \in Seq(WireRules)
  BY <1>2, <1>5
<1> QED BY <1>3, <1>6

(* A new feature has all its environments off.                               *)
LEMMA NewFeatureTyped == NewFeature \in Features
<1>1. [k \in Envs |-> FALSE] \in Toggles(BOOLEAN)
  BY DEF Toggles
<1>2. <<>> \in Seq(WireRules)
  OBVIOUS
<1> HIDE DEF Toggles
<1> QED BY <1>1, <1>2 DEF NewFeature, ZeroFeature, Features
-----------------------------------------------------------------------------
(* What convert.go makes of parameters.                                     *)

(* What is written of an object has the parameters of a feature; only empty   *)
(* lists and maps get lost.                                                 *)
LEMMA MarshalTyped ==
  ASSUME NEW p \in P
  PROVE  /\ MarshalParameters(p) \in P
         /\ \A f \in Fields : \/ MarshalParameters(p)[f] = p[f]
                              \/ f \in Never /\ MarshalParameters(p)[f] = Nil
<1> DEFINE stored == MarshalParameters(p)
<1>1. DOMAIN p = Fields /\ DOMAIN stored = Fields
  BY SameFields DEF MarshalParameters
<1>2. stored = [f \in Fields |-> stored[f]]
  BY <1>1 DEF MarshalParameters
<1>3. \A f \in Fields : \/ stored[f] = p[f]
                        \/ f \in {"tags", "environments", "rules"} /\ stored[f] = Nil
  BY <1>1 DEF MarshalParameters, OmitEmpty
<1>4. {"tags", "environments", "rules"} \subseteq Never
  BY NineFields DEF Never
<1> HIDE DEF stored
<1>5. stored \in P
  BY <1>1, <1>2, <1>3, NineFields DEF P, FeatureParameters, Opt
<1> QED BY <1>3, <1>4, <1>5 DEF stored

(* A request carries the members of the parameters that say something, and    *)
(* nothing that is unset.                                                   *)
LEMMA UpdateRequestTyped ==
  ASSUME NEW p \in P, ~rulesFail(p.rules)
  PROVE  /\ updateRequest(p) \in FeatureRequests
         /\ \A f \in Fields : p[f] = Nil => updateRequest(p)[f] = Nil
         /\ updateRequest(p).environments \in {Nil, p.environments}
<1> DEFINE sent == [p EXCEPT !.valueType = Nil, !.rules = rulesRequest(p.rules)]
           q    == updateRequest(p)
<1>1. rulesRequest(p.rules) \in Opt(Seq(WireRules))
  BY RulesRequestTyped DEF P, FeatureParameters
<1>2. p.rules = Nil => rulesRequest(p.rules) = Nil
  BY DEF rulesRequest
<1>3. /\ sent \in FeatureRequests
      /\ \A f \in Fields : p[f] = Nil => sent[f] = Nil
      /\ sent.environments = p.environments
  BY <1>1, <1>2, NineFields DEF P, FeatureParameters, FeatureRequests, Opt
<1>4. q = MarshalRequest(sent)
  BY DEF updateRequest
<1> HIDE DEF sent, q
<1>5. DOMAIN sent = Fields
  BY <1>3, SameFields
<1>6. /\ q = [f \in Fields |-> q[f]]
      /\ \A f \in Fields : q[f] = sent[f] \/ q[f] = Nil
  BY <1>4, <1>5 DEF MarshalRequest, OmitEmpty
<1>7. q \in FeatureRequests
  BY <1>3, <1>6, NineFields DEF FeatureRequests, Opt
<1> QED BY <1>3, <1>6, <1>7, NineFields DEF q

(* A POST carries what forProvider and initProvider have together.           *)
LEMMA CreateRequestTyped ==
  ASSUME NEW p \in P, NEW ip \in P, ~rulesFail(mergeInitProvider(p, ip).rules)
  PROVE  createRequest(p, ip) \in FeatureRequests
<1> DEFINE merged == mergeInitProvider(p, ip)
<1>1. DOMAIN p = Fields
  BY SameFields
<1>2. /\ merged = [f \in Fields |-> merged[f]]
      /\ \A f \in Fields : merged[f] = p[f] \/ merged[f] = ip[f]
  BY <1>1 DEF mergeInitProvider
<1>3. createRequest(p, ip) = [updateRequest(merged) EXCEPT !.valueType = merged.valueType]
  BY DEF createRequest
<1>4. ~rulesFail(merged.rules)
  OBVIOUS
<1> HIDE DEF merged
<1>5. merged \in P
  BY <1>2, NineFields DEF P, FeatureParameters
<1>6. updateRequest(merged) \in FeatureRequests /\ merged.valueType \in Opt(ValueTypes)
  BY <1>4, <1>5, UpdateRequestTyped DEF P, FeatureParameters
<1> QED BY <1>3, <1>6 DEF FeatureRequests

(* The request that archives is one.                                        *)
LEMMA ArchiveRequestTyped == archiveRequest \in FeatureRequests
BY NineFields DEF archiveRequest, FeatureRequests, Opt, Fields

(* Late initialization gives parameters again, and changes only what is unset *)
(* in both.                                                                 *)
LEMMA LateInitTyped ==
  ASSUME NEW p \in P, NEW ip \in P, NEW ext \in Features \cup {ZeroFeature}
  PROVE  /\ lateInitialize(p, ip, ext) \in P
         /\ \A f \in Fields : lateInitialize(p, ip, ext)[f] # p[f] =>
              p[f] = Nil /\ ip[f] = Nil /\ f \notin Never
<1> DEFINE late == lateInitialize(p, ip, ext)
<1>1. DOMAIN p = Fields
  BY SameFields
<1>2. /\ late = [f \in Fields |-> late[f]]
      /\ \A f \in Fields : \/ late[f] = p[f]
                           \/ /\ p[f] = Nil /\ ip[f] = Nil /\ late[f] = ext[f]
                              /\ f = "description" \/ (f \in {"owner", "project"} /\ ext[f] # "")
  BY <1>1 DEF lateInitialize, lateInitPtr
<1>3. /\ ext.description \in Descriptions
      /\ ext.owner # "" => ext.owner \in Owners
      /\ ext.project # "" => ext.project \in Projects
  <2>1. CASE ext \in Features
    BY <2>1, DescriptionsAssumption DEF Features
  <2>2. CASE ext = ZeroFeature
    BY <2>2, DescriptionsAssumption DEF ZeroFeature
  <2> QED BY <2>1, <2>2
<1> HIDE DEF late
<1>4. late \in P
  BY <1>2, <1>3, NineFields DEF P, FeatureParameters, Opt
<1>5. \A f \in Fields : late[f] # p[f] => p[f] = Nil /\ ip[f] = Nil /\ f \notin Never
  BY <1>2 DEF Never
<1> QED BY <1>4, <1>5 DEF late
-----------------------------------------------------------------------------
(* What GrowthBook makes of a request.                                      *)

(* It merges the toggles of the environments it has, and replaces the rest.   *)
LEMMA MergeTyped ==
  ASSUME NEW feature \in Features, NEW q \in FeatureRequests
  PROVE  /\ Merge(feature, q) \in Features
         /\ \A f \in Fields : q[f] = Nil => Merge(feature, q)[f] = feature[f]
         /\ DOMAIN Merge(feature, q).environments = DOMAIN feature.environments
         /\ \A k \in DOMAIN feature.environments :
              ~(q.environments # Nil /\ k \in DOMAIN q.environments)
                => Merge(feature, q).environments[k] = feature.environments[k]
<1> DEFINE on == [k \in DOMAIN feature.environments |->
                    IF q.environments # Nil /\ k \in DOMAIN q.environments /\ q.environments[k] # Nil
                    THEN q.environments[k] ELSE feature.environments[k]]
           rules == IF q.rules = Nil THEN feature.rules ELSE StoredRules(q.rules)
           base  == Overlay(feature, q)
           after == Merge(feature, q)
<1>1. after = [base EXCEPT !.environments = on, !.rules = rules]
  BY DEF Merge
<1>2. DOMAIN feature = Fields /\ DOMAIN q = Fields
  BY SameFields
<1>3. /\ base = [f \in Fields |-> base[f]]
      /\ \A f \in Fields : base[f] = IF q[f] # Nil THEN q[f] ELSE feature[f]
  BY <1>2 DEF Overlay
<1>4. rules \in Seq(WireRules) /\ (q.rules = Nil => rules = feature.rules)
  BY StoredRulesTyped DEF Features, FeatureRequests, Opt
<1>5. /\ on \in Toggles(BOOLEAN) /\ DOMAIN on = DOMAIN feature.environments
      /\ \A k \in DOMAIN feature.environments :
           ~(q.environments # Nil /\ k \in DOMAIN q.environments)
             => on[k] = feature.environments[k]
      /\ q.environments = Nil => on = feature.environments
  <2>1. feature.environments \in Toggles(BOOLEAN) /\ q.environments \in Opt(Toggles(Opt(BOOLEAN)))
    BY DEF Features, FeatureRequests
  <2>2. PICK E \in SUBSET Envs : feature.environments \in [E -> BOOLEAN]
    BY <2>1 DEF Toggles
  <2>3. \A k \in E : q.environments # Nil /\ k \in DOMAIN q.environments /\ q.environments[k] # Nil
                       => q.environments[k] \in BOOLEAN
    <3> SUFFICES ASSUME q.environments # Nil PROVE
          \A k \in DOMAIN q.environments : q.environments[k] # Nil => q.environments[k] \in BOOLEAN
      OBVIOUS
    <3>1. PICK D \in SUBSET Envs : q.environments \in [D -> Opt(BOOLEAN)]
      BY <2>1 DEF Toggles, Opt
    <3> QED BY <3>1 DEF Opt
  <2>4. on \in [E -> BOOLEAN]
    BY <2>2, <2>3
  <2>5. q.environments = Nil => on = feature.environments
    BY <2>2
  <2> QED BY <2>2, <2>4, <2>5 DEF Toggles
<1> HIDE DEF on, rules, base, after
<1>6. /\ after = [f \in Fields |-> after[f]] /\ after.environments = on /\ after.rules = rules
      /\ \A f \in Fields \ {"environments", "rules"} : after[f] = base[f]
  BY <1>1, <1>3, NineFields
<1>7. after \in Features
  <2>1. \A f \in Fields \ {"environments", "rules"} :
          after[f] = IF q[f] # Nil THEN q[f] ELSE feature[f]
    BY <1>3, <1>6
  <2>2. /\ after.valueType \in ValueTypes \cup {""} /\ after.defaultValue \in Values \cup {""}
        /\ after.description \in Descriptions \cup {""} /\ after.project \in Projects \cup {""}
    BY <2>1, NineFields DEF Features, FeatureRequests, Opt
  <2>3. /\ after.tags \in TagLists \cup {<<>>} /\ after.archived \in BOOLEAN
        /\ after.owner \in Owners \cup {""}
    BY <2>1, NineFields DEF Features, FeatureRequests, Opt
  <2>4. after = [f \in Fields |-> after[f]] /\ after.environments \in Toggles(BOOLEAN)
        /\ after.rules \in Seq(WireRules)
    BY <1>4, <1>5, <1>6
  <2> QED BY <2>2, <2>3, <2>4, NineFields DEF Features
<1> QED BY <1>3, <1>4, <1>5, <1>6, <1>7 DEF after
-----------------------------------------------------------------------------
(* Requests as the controller sends them.                                   *)

Q == FeatureRequests

Requests == [verb : {"POST", "PUT", "DELETE"}, body : Opt(Q)]

WellFormed(q) == q \in Requests /\ (q.verb # "DELETE" => q.body \in Q)

(* What a request leaves is a feature or none, and only a POST makes one.     *)
LEMMA ServedTyped ==
  ASSUME NEW q, WellFormed(q), remote \in Features \cup {Absent}
  PROVE  /\ Served(q) \in Features \cup {Absent}
         /\ Served(q) # Absent => Exists \/ Creates(q)
         /\ q.verb = "PUT" => Served(q) = IF Exists THEN Merge(remote, q.body) ELSE remote
<1>1. CASE q.verb = "POST"
  <2>1. CASE Exists
    BY <1>1, <2>1 DEF Served, Creates
  <2>2. CASE ~Exists
    <3>1. Served(q) = Merge(NewFeature, q.body) /\ Creates(q)
      BY <1>1, <2>2 DEF Served, Creates
    <3> QED BY <1>1, <3>1, MergeTyped, NewFeatureTyped DEF WellFormed, Q
  <2> QED BY <2>1, <2>2
<1>2. CASE q.verb = "PUT"
  <2>1. CASE Exists
    <3>1. Served(q) = Merge(remote, q.body) /\ remote \in Features
      BY <1>2, <2>1 DEF Served, Creates, Exists
    <3> QED BY <1>2, <2>1, <3>1, MergeTyped DEF WellFormed, Q
  <2>2. CASE ~Exists
    BY <1>2, <2>2 DEF Served, Creates, Exists
  <2> QED BY <2>1, <2>2
<1>3. CASE q.verb = "DELETE"
  <2>1. Served(q) = Absent \/ (Served(q) = remote /\ Protected)
    BY <1>3 DEF Served, Creates
  <2> QED BY <1>3, <2>1 DEF Protected
<1> QED BY <1>1, <1>2, <1>3 DEF WellFormed, Requests
-----------------------------------------------------------------------------
(* The inductive invariant.                                                 *)

InFlightOK == \A q \in inFlight : WellFormed(q)

(* What the copies have that users did not set, the resource has: with the    *)
(* policy to save what Observe adopts, and not without it.                   *)
Saved == "LateInitialize" \in Policies => CopiesBacked

(* The copy with the latest version has entries for the environments the       *)
(* resource has entries for: what serialising loses is no entry.              *)
EntriesAgree == pc # "idle" /\ crFresh => Entries(cr) = Entries(mr)

IInv ==
  TypeOK /\ InFlightOK /\ Safe /\ CopiesClean(Never) /\ Saved /\ EntriesAgree

KindOK == KubeOK(P) /\ WorkerOK(P) /\ ChaosOK /\ RemoteOK(Features, Q) /\ owned \subseteq Fields

(* TypeOK, by owner.                                                        *)
LEMMA TypeParts == (TypeOK <=> KindOK) /\ (TypeOK' <=> KindOK')
BY NamedTypeParts DEF TypeOK, KindOK, P, Q, Fields

(* What users declare, and others make, has the fields of a feature.         *)
LEMMA Inputs ==
  /\ \A s \in Specs : s.forProvider \in P /\ s.initProvider \in P
  /\ \A e \in Edits, p \in P : [p EXCEPT ![e.field] = e.to] \in P
  /\ \A e \in Edits : e.field \in Fields
  /\ \A e \in OutOfBand, o \in Features : [o EXCEPT ![e.field] = e.to] \in Features
  /\ Found \subseteq Features
  /\ NoObject \notin Things(P)
  /\ \A p \in P : DOMAIN p = Fields
<1>1. ASSUME NEW e \in Edits, NEW p \in P
      PROVE  [p EXCEPT ![e.field] = e.to] \in P
  <2>1. e.field \in Fields /\ [[f \in Fields |-> Nil] EXCEPT ![e.field] = e.to] \in P
    BY InputsAssumption DEF P, Fields
  <2> QED BY <2>1, NineFields DEF P, FeatureParameters
<1>2. ASSUME NEW e \in OutOfBand, NEW o \in Features
      PROVE  [o EXCEPT ![e.field] = e.to] \in Features
  <2>1. e.field \in Fields /\ [NewFeature EXCEPT ![e.field] = e.to] \in Features
    BY InputsAssumption DEF Fields
  <2>2. DOMAIN NewFeature = Fields
    BY NewFeatureTyped, SameFields
  <2> QED BY <2>1, <2>2, NineFields DEF Features
<1>3. \A s \in Specs : s.forProvider \in P /\ s.initProvider \in P
  BY InputsAssumption DEF P
<1>4. /\ \A e \in Edits : e.field \in Fields
      /\ Found \subseteq Features /\ NoObject \notin Things(P)
  BY InputsAssumption, NoObjectAssumption DEF P, Things, Fields
<1> QED BY <1>1, <1>2, <1>3, <1>4, SameFields

(* The copy in memory is an object, and its fields are parameters.           *)
LEMMA CopyTyped ==
  ASSUME KindOK, pc # "idle"
  PROVE  /\ cr \in Things(P) /\ cr # NoObject
         /\ cr.forProvider \in P /\ cr.initProvider \in P
  BY Inputs DEF KindOK, WorkerOK, Things, Objects

(* The initial states satisfy the invariant.                                 *)
LEMMA IInvInit == Init => IInv
<1> SUFFICES ASSUME Init PROVE IInv
  OBVIOUS
<1>1. NamedInit(Found)
  BY DEF Init
<1>2. NamedTypeOK(P, Features, Q)
  BY <1>1, NamedTypeInit, Inputs
<1>3. PICK s \in Specs : RuntimeInit(NewObject(s.forProvider, s.initProvider, Nil))
  BY <1>1 DEF NamedInit
<1>4. owned = SetFields(s.forProvider) /\ DOMAIN s.forProvider = Fields
  BY <1>3, Inputs DEF RuntimeInit, NewObject
<1>5. owned \subseteq Fields
  BY <1>4 DEF SetFields
<1>6. TypeOK
  BY <1>2, <1>5 DEF TypeOK, P, Q, Fields
<1>7. InFlightOK
  BY <1>1 DEF InFlightOK, NamedInit
<1>8. EntriesAgree
  BY <1>3 DEF EntriesAgree, RuntimeInit
<1> QED BY <1>1, <1>6, <1>7, <1>8, SafeInit, CleanInit, BackedInit DEF IInv, Saved

(* The parts of the invariant that only the copies matter to.                *)
LEMMA Stays ==
  ASSUME IInv, UNCHANGED <<mr, cache, owned>>,
         \/ pc' = "idle" /\ cr' = NoObject
         \/ UNCHANGED <<pc, cr, crFresh>>
         \/ pc = "connect" /\ pc' = "observe" /\ UNCHANGED <<cr, crFresh>>
         \/ /\ pc # "idle" /\ UNCHANGED <<cr, crFresh>>
            /\ pc' \notin {"initialize", "connect", "observe", "update"}
  PROVE  CopiesClean(Never)' /\ Saved' /\ EntriesAgree'
<1>1. CopiesClean(Never)'
  BY StaysClean DEF IInv
<1>2. CopiesBacked => CopiesBacked'
  BY StaysBacked
<1>3. EntriesAgree'
  BY DEF IInv, EntriesAgree, Entries
<1> QED BY <1>1, <1>2, <1>3 DEF IInv, Saved

(* Serialising loses no entry.                                               *)
LEMMA MarshalEntries ==
  ASSUME NEW p \in P
  PROVE  DOMAIN Elements(MarshalParameters(p).environments) = DOMAIN Elements(p.environments)
<1>1. "environments" \in DOMAIN p
  BY SameFields, NineFields
<1>2. MarshalParameters(p).environments = OmitEmpty(p.environments)
  BY <1>1 DEF MarshalParameters
<1>3. Elements(OmitEmpty(p.environments)) = Elements(p.environments)
  BY DEF Elements, OmitEmpty
<1> QED BY <1>2, <1>3

(* The steps between the controller's calls are those of NamedProofs.        *)
LEMMA RuntimeStepIs ==
  RuntimeStep <=> /\ Between(cache.externalName # Nil, MarshalParameters(cr.forProvider))
                  /\ UNCHANGED growthbook
BY DEF RuntimeStep, Between

(* No write takes an entry away or adds one.                                 *)
LEMMA RuntimeStepEntries ==
  ASSUME IInv, RuntimeStep
  PROVE  EntriesAgree'
<1> DEFINE stored == MarshalParameters(cr.forProvider)
           named  == cache.externalName # Nil
<1>1. KindOK /\ Safe /\ Between(named, stored) /\ EntriesAgree
  BY RuntimeStepIs, TypeParts DEF IInv
<1>2. pc # "idle" => /\ stored \in P
                     /\ DOMAIN Elements(stored.environments) = Entries(cr)
  BY <1>1, CopyTyped, MarshalTyped, MarshalEntries DEF Entries
<1> HIDE DEF stored, named
<1>3. CASE StartReconcile(named)
  BY <1>1, <1>3 DEF StartReconcile, kubeVars, Safe, CopiesAgree, EntriesAgree, Entries
<1>4. CASE RemoveFinalizer
  BY <1>4 DEF RemoveFinalizer, ClientUpdate, Continue, EndReconcile, EntriesAgree
<1>5. CASE RecordCreation
  BY <1>5 DEF RecordCreation, EndReconcile, EntriesAgree
<1>6. ASSUME NEW object, NEW next, Saves(P, object, stored, next)
      PROVE  EntriesAgree'
  <2>1. \/ pc' = "idle"
        \/ cr' = object /\ mr' = WithSpec(object, stored)
    BY <1>6 DEF Saves, ClientUpdate, Continue, EndReconcile
  <2>2. /\ object.forProvider = cr.forProvider /\ pc # "idle"
        /\ WithSpec(object, stored).forProvider = stored
    BY <1>6 DEF Saves, WithSpec, Things, Objects
  <2> QED BY <1>2, <2>1, <2>2 DEF EntriesAgree, Entries
<1> QED BY <1>1, <1>2, <1>3, <1>4, <1>5, <1>6, BetweenForms DEF KindOK, Safe

(* They keep the invariant.                                                 *)
LEMMA RuntimeStepKeeps ==
  ASSUME IInv, RuntimeStep
  PROVE  IInv'
<1> DEFINE stored == MarshalParameters(cr.forProvider)
           named  == cache.externalName # Nil
<1>1. KindOK /\ Between(named, stored) /\ UNCHANGED growthbook
  BY RuntimeStepIs, TypeParts DEF IInv
<1>2. pc # "idle" => stored \in P /\ Serialised(Never, stored)
  BY <1>1, CopyTyped, MarshalTyped, SameFields DEF Serialised
<1> HIDE DEF stored, named
<1>3. /\ NoObject \notin Things(P) /\ KubeOK(P) /\ WorkerOK(P)
      /\ Protocol /\ Safe /\ CopiesClean(Never)
  BY <1>1, Inputs DEF KindOK, IInv, Safe
<1>4. KubeOK(P)' /\ WorkerOK(P)' /\ UNCHANGED <<chaos, owned>>
  BY <1>1, <1>2, <1>3, BetweenTyped
<1>5. RemoteOK(Features, Q)'
  BY <1>1, RemoteUnchanged DEF KindOK
<1>6. TypeOK'
  BY <1>1, <1>4, <1>5, TypeParts DEF KindOK, ChaosOK
<1>7. Safe'
  BY <1>1, <1>2, <1>3, BetweenSafe
<1>8. CopiesClean(Never)'
  BY <1>1, <1>2, <1>3, BetweenClean
<1>9. CopiesBacked => CopiesBacked'
  BY <1>1, <1>2, <1>3, BetweenBacked, Inputs
<1>10. InFlightOK'
  BY <1>1 DEF IInv, InFlightOK, growthbook, WellFormed
<1>11. EntriesAgree'
  BY RuntimeStepEntries
<1> QED BY <1>6, <1>7, <1>8, <1>9, <1>10, <1>11 DEF IInv, Saved

(* Connect keeps it.                                                        *)
LEMMA ConnectKeeps ==
  ASSUME IInv, Connect
  PROVE  IInv'
<1>1. /\ KindOK /\ NoObject \notin Things(P) /\ Safe
      /\ pc = "connect" /\ UNCHANGED <<kubeVars, growthbook>>
  BY TypeParts, Inputs DEF IInv, Connect
<1>2. CASE pc' = "observe" /\ UNCHANGED <<cr, crFresh, obs, chaos>>
  <2>1. WorkerOK(P)' /\ ChaosOK'
    BY <1>1, <1>2 DEF KindOK, WorkerOK, ChaosOK, Steps
  <2>2. Safe'
    BY <1>1, <1>2, ConnectSafe DEF KindOK
  <2>3. CopiesClean(Never)' /\ Saved' /\ EntriesAgree'
    BY <1>1, <1>2, Stays DEF kubeVars
  <2> QED BY <1>1, <2>1, <2>2, <2>3, TypeParts, KubeUnchanged, RemoteUnchanged
          DEF IInv, KindOK, InFlightOK, WellFormed, growthbook, kubeVars
<1>3. CASE Disturb /\ EndReconcile
  <2>1. WorkerOK(P)' /\ ChaosOK'
    BY <1>1, <1>3, EndTyped, DisturbTyped DEF KindOK
  <2>2. Safe'
    BY <1>1, <1>3, ConnectSafe DEF KindOK
  <2>3. CopiesClean(Never)' /\ Saved' /\ EntriesAgree'
    BY <1>1, <1>3, Stays DEF kubeVars, EndReconcile
  <2> QED BY <1>1, <2>1, <2>2, <2>3, TypeParts, KubeUnchanged, RemoteUnchanged
          DEF IInv, KindOK, InFlightOK, WellFormed, growthbook, kubeVars
<1> QED BY <1>2, <1>3 DEF Connect

(* Both ways to say so are understood (client.go IsNotFound).                *)
LEMMA MissingNotFound ==
  \A r \in Missing : IsNotFound(r) /\ r # Answered
<1> DEFINE a == Response(404, "none", "object")
           b == Response(400, "could not find", "object")
<1>1. IsNotFound(a) /\ IsNotFound(b)
  BY DEF IsNotFound, Response
<1>2. a # Answered /\ b # Answered
  <2>1. a.status = 404 /\ b.status = 400 /\ Answered.status = 200
    BY DEF Response, Answered
  <2> HIDE DEF a, b
  <2> QED BY <2>1
<1>3. \A r \in Missing : r = a \/ r = b
  BY DEF Missing
<1> HIDE DEF a, b
<1> QED BY <1>1, <1>2, <1>3

(* An answer to GetFeature denies the feature only when there is none, and    *)
(* shows the one that is there or, without a body, an empty one.             *)
LEMMA GetFeatureSays ==
  ASSUME KindOK, NEW r \in (IF Exists THEN {Answered} ELSE Missing) \cup Faults
  PROVE  /\ IsNotFound(r) => r # Answered /\ r \in Missing
         /\ ~Fails(r, TRUE) /\ ~IsNotFound(r) =>
              (IF r.body = "object" THEN remote ELSE ZeroFeature) \in Features \cup {ZeroFeature}
<1>1. ASSUME r \in Faults
      PROVE  ~IsNotFound(r) /\ (Fails(r, TRUE) \/ r.body # "object")
  BY <1>1, FaultsAssumption
<1>3. Exists => remote \in Features
  BY DEF KindOK, RemoteOK, Exists
<1> QED BY <1>1, <1>3, MissingNotFound, AnsweredFound

(* Observe keeps it.                                                        *)
LEMMA ObserveKeeps ==
  ASSUME IInv, Observe
  PROVE  IInv'
<1>1. /\ KindOK /\ NoObject \notin Things(P) /\ Safe
      /\ pc = "observe" /\ UNCHANGED <<remote, inFlight, made>>
  BY TypeParts, Inputs DEF IInv, Observe
<1>2. PICK r \in (IF Exists THEN {Answered} ELSE Missing) \cup Faults :
        /\ Charge(r) /\ Seen(r)
        /\ ObserveReply(r, IF r.body = "object" THEN remote ELSE ZeroFeature)
  BY DEF Observe
<1>3. PICK feature : feature = IF r.body = "object" THEN remote ELSE ZeroFeature
  OBVIOUS
<1>4. /\ IsNotFound(r) => r # Answered /\ r \in Missing
      /\ ~Fails(r, TRUE) /\ ~IsNotFound(r) => feature \in Features \cup {ZeroFeature}
      /\ Seen(r) /\ ObserveReply(r, feature)
  BY <1>1, <1>2, <1>3, GetFeatureSays
<1>5. ChaosOK' /\ RemoteOK(Features, Q)' /\ InFlightOK'
  <2>1. hidden' \in BOOLEAN
    BY <1>1, <1>4 DEF Seen, KindOK, RemoteOK, Exists, Held
  <2> QED BY <1>1, <1>2, <2>1, ChargeTyped DEF KindOK, RemoteOK, IInv, InFlightOK, WellFormed
<1>6. cr.forProvider \in P /\ cr.initProvider \in P
  BY <1>1, CopyTyped
<1>7. ASSUME NEW o \in Observations, NEW p \in P, Observed(o, p), ~o.exists => IsNotFound(r),
             o.exists /\ ~o.lateInit => p = cr.forProvider,
             \A f \in Fields : p[f] # cr.forProvider[f] =>
               cr.forProvider[f] = Nil /\ cr.initProvider[f] = Nil /\ f \notin Never
      PROVE  IInv'
  <2>1. WorkerOK(P)' /\ UNCHANGED kubeVars
    BY <1>1, <1>7, ObservedTyped DEF KindOK
  <2>2. TypeOK'
    BY <1>1, <1>5, <2>1, KubeUnchanged, TypeParts DEF KindOK, kubeVars
  <2>3. Safe'
    BY <1>1, <1>4, <1>7, ObservedSafe DEF KindOK
  <2>4. Adopted(Never, p)
    BY <1>6, <1>7, SameFields DEF Adopted
  <2>5. UNCHANGED owned
    BY <2>1 DEF kubeVars
  <2>6. CopiesClean(Never)'
    BY <1>1, <1>7, <2>4, <2>5, ObservedClean DEF KindOK, IInv
  <2>7. Saved'
    <3> SUFFICES ASSUME "LateInitialize" \in Policies, CopiesBacked PROVE CopiesBacked'
      BY DEF Saved, IInv
    <3> QED BY <1>1, <1>7, <2>4, ObservedBacked, Inputs DEF KindOK
  <2>8. EntriesAgree'
    <3>1. \/ pc' = "idle"
          \/ cr' = [cr EXCEPT !.forProvider = p] /\ UNCHANGED crFresh
      BY <1>7 DEF Observed, Continue, EndReconcile
    <3>2. p.environments = cr.forProvider.environments
      BY <1>7, NineFields DEF Never
    <3>3. [cr EXCEPT !.forProvider = p].forProvider = p
      BY <1>1, CopyTyped DEF Things, Objects
    <3>4. pc # "idle" /\ UNCHANGED mr
      BY <1>1, <2>1 DEF kubeVars
    <3> QED BY <3>1, <3>2, <3>3, <3>4 DEF EntriesAgree, Entries, IInv
  <2> QED BY <1>5, <2>2, <2>3, <2>6, <2>7, <2>8 DEF IInv
<1>8. CASE IsNotFound(r)
  <2>1. Observed(NoObservation, cr.forProvider)
    BY <1>4, <1>8 DEF ObserveReply
  <2>2. NoObservation \in Observations /\ ~NoObservation.exists
    BY DEF NoObservation, Observations
  <2> QED BY <1>6, <1>7, <1>8, <2>1, <2>2
<1>9. CASE ~IsNotFound(r) /\ Fails(r, TRUE)
  <2>1. EndReconcile /\ UNCHANGED kubeVars
    BY <1>4, <1>9 DEF ObserveReply, NotObserved
  <2>2. TypeOK'
    BY <1>1, <1>5, <2>1, KubeUnchanged, EndTyped, TypeParts DEF KindOK, kubeVars
  <2>3. Standing' = "held" => Standing = "held" \/ (mr # NoObject /\ mr.finalizer)
    BY <1>1, <1>4, <2>1, SeenStands DEF kubeVars
  <2>4. Safe'
    BY <1>1, <2>1, <2>3, EndSafe
  <2>5. CopiesClean(Never)' /\ Saved' /\ EntriesAgree'
    BY <1>1, <2>1, Stays DEF kubeVars, EndReconcile
  <2> QED BY <1>5, <2>2, <2>4, <2>5 DEF IInv
<1>10. CASE ~IsNotFound(r) /\ ~Fails(r, TRUE)
  <2> DEFINE p == lateInitialize(cr.forProvider, cr.initProvider, feature)
             o == [exists   |-> TRUE,
                   upToDate |-> isUpToDate(p, feature),
                   lateInit |-> p # cr.forProvider]
  <2>1. Observed(o, p)
    BY <1>4, <1>10 DEF ObserveReply
  <2>2. /\ p \in P
        /\ \A f \in Fields : p[f] # cr.forProvider[f] =>
             cr.forProvider[f] = Nil /\ cr.initProvider[f] = Nil /\ f \notin Never
    BY <1>4, <1>6, <1>10, LateInitTyped
  <2>3. o \in Observations /\ o.exists /\ (~o.lateInit => p = cr.forProvider)
    BY DEF Observations, isUpToDate
  <2> HIDE DEF p, o
  <2> QED BY <1>7, <2>1, <2>2, <2>3
<1> QED BY <1>8, <1>9, <1>10
-----------------------------------------------------------------------------
(* The calls of GrowthBook.                                                 *)

(* A request that a step sends is well-formed.                               *)
LEMMA SentWellFormed ==
  ASSUME KindOK, pc # "idle"
  PROVE  /\ ~rulesFail(mergeInitProvider(cr.forProvider, cr.initProvider).rules) =>
              WellFormed(Request("POST", createRequest(cr.forProvider, cr.initProvider)))
         /\ ~rulesFail(cr.forProvider.rules) =>
              WellFormed(Request("PUT", updateRequest(cr.forProvider)))
         /\ WellFormed(Request("PUT", archiveRequest))
         /\ WellFormed(Request("DELETE", Nil))
<1>1. /\ ~rulesFail(mergeInitProvider(cr.forProvider, cr.initProvider).rules) =>
           createRequest(cr.forProvider, cr.initProvider) \in Q
      /\ ~rulesFail(cr.forProvider.rules) => updateRequest(cr.forProvider) \in Q
      /\ archiveRequest \in Q
  BY CopyTyped, CreateRequestTyped, UpdateRequestTyped, ArchiveRequestTyped DEF Q
<1> QED BY <1>1 DEF WellFormed, Requests, Request, Opt

(* A call keeps the invariant, whatever the reconcile goes on with.          *)
LEMMA CallKeeps ==
  ASSUME IInv, pc # "idle", NEW q, WellFormed(q), NEW r, Call(q, Served(q), r),
         UNCHANGED kubeVars, q.verb = "POST" => pc = "create",
         \/ EndReconcile
         \/ /\ UNCHANGED <<cr, crFresh, obs>>
            /\ \/ pc' \in {"recordCreated", "recordFailed"} /\ pc = "create"
               \/ pc' \in {"archive", "deleteArchived"}
  PROVE  IInv'
<1>1. KindOK /\ NoObject \notin Things(P) /\ Safe
  BY TypeParts, Inputs DEF IInv
<1>2. /\ q \in [verb : {"POST", "PUT", "DELETE"}, body : Opt(Q)]
      /\ Served(q) \in Features \cup {Absent}
      /\ Served(q) # Absent => Exists \/ Creates(q)
  BY <1>1, ServedTyped DEF WellFormed, Requests, KindOK, RemoteOK
<1>3. RemoteOK(Features, Q)' /\ ChaosOK'
  BY <1>1, <1>2, CallTyped DEF KindOK
<1>4. WorkerOK(P)'
  <2>1. CASE EndReconcile
    BY <2>1, EndTyped
  <2>2. CASE /\ UNCHANGED <<cr, crFresh, obs>>
             /\ pc' \in {"recordCreated", "recordFailed", "archive", "deleteArchived"}
    BY <1>1, <2>2 DEF KindOK, WorkerOK, Steps
  <2> QED BY <2>1, <2>2
<1>5. TypeOK'
  BY <1>1, <1>3, <1>4, KubeUnchanged, TypeParts DEF KindOK, kubeVars
<1>6. Safe'
  BY <1>1, <1>2, CallSafe DEF KindOK, Holding
<1>7. CopiesClean(Never)' /\ Saved' /\ EntriesAgree'
  BY <1>1, Stays DEF kubeVars, EndReconcile
<1>8. InFlightOK'
  BY DEF Call, NotServed, IInv, InFlightOK, WellFormed
<1> QED BY <1>5, <1>6, <1>7, <1>8 DEF IInv

(* When no request can be built, nothing is sent.                            *)
LEMMA NotSentKeeps ==
  ASSUME IInv, pc # "idle", UNCHANGED <<kubeVars, growthbook, chaos>>,
         \/ EndReconcile
         \/ UNCHANGED <<cr, crFresh, obs>> /\ pc' = "recordFailed" /\ pc = "create"
  PROVE  IInv'
<1>1. KindOK /\ NoObject \notin Things(P) /\ Safe
  BY TypeParts, Inputs DEF IInv
<1>2. cr # NoObject
  BY <1>1, CopyTyped
<1>3. WorkerOK(P)'
  <2>1. CASE EndReconcile
    BY <2>1, EndTyped
  <2>2. CASE UNCHANGED <<cr, crFresh, obs>> /\ pc' = "recordFailed"
    BY <1>1, <2>2 DEF KindOK, WorkerOK, Steps
  <2> QED BY <2>1, <2>2
<1>4. TypeOK'
  BY <1>1, <1>3, KubeUnchanged, RemoteUnchanged, TypeParts DEF KindOK, ChaosOK, kubeVars
<1>5. Standing' = Standing
  BY DEF kubeVars, growthbook, Standing, AnswersFor, Exists, Held
<1>6. Safe'
  <2>1. CASE EndReconcile
    BY <1>1, <1>5, <2>1, EndSafe
  <2>2. CASE UNCHANGED <<cr, crFresh>> /\ pc' = "recordFailed" /\ pc = "create"
    BY <1>1, <1>2, <1>5, <2>2, GoesOnSafe DEF Holding, Safe, Protocol
  <2> QED BY <2>1, <2>2
<1>7. CopiesClean(Never)' /\ Saved' /\ EntriesAgree'
  BY <1>1, Stays DEF kubeVars, EndReconcile
<1>8. InFlightOK'
  BY DEF growthbook, IInv, InFlightOK, WellFormed
<1> QED BY <1>4, <1>6, <1>7, <1>8 DEF IInv

(* Create and Update keep it.                                               *)
LEMMA WritesKeep ==
  ASSUME IInv, Create \/ Update
  PROVE  IInv'
<1>1. KindOK
  BY TypeParts DEF IInv
<1>2. CASE Create
  <2> DEFINE q    == Request("POST", createRequest(cr.forProvider, cr.initProvider))
             fail == rulesFail(mergeInitProvider(cr.forProvider, cr.initProvider).rules)
  <2>1. /\ pc = "create" /\ UNCHANGED <<kubeVars, cr, crFresh, obs>>
        /\ \/ fail /\ pc' = "recordFailed" /\ UNCHANGED <<growthbook, chaos>>
           \/ /\ ~fail /\ pc' \in {"recordFailed", "recordCreated"}
              /\ \E r \in Replies(q) : Call(q, Served(q), r)
    BY <1>2 DEF Create
  <2>2. ~fail => WellFormed(q)
    BY <1>1, <2>1, SentWellFormed
  <2> HIDE DEF q, fail
  <2> QED BY <2>1, <2>2, CallKeeps, NotSentKeeps
<1>3. CASE Update
  <2> DEFINE q    == Request("PUT", updateRequest(cr.forProvider))
             fail == rulesFail(cr.forProvider.rules)
  <2>1. /\ pc = "update" /\ EndReconcile /\ UNCHANGED kubeVars /\ q.verb = "PUT"
        /\ \/ fail /\ UNCHANGED <<growthbook, chaos>>
           \/ ~fail /\ \E r \in Replies(q) : Call(q, Served(q), r)
    BY <1>3 DEF Update, Request
  <2>2. ~fail => WellFormed(q)
    BY <1>1, <2>1, SentWellFormed
  <2> HIDE DEF q, fail
  <2> QED BY <2>1, <2>2, CallKeeps, NotSentKeeps
<1> QED BY <1>2, <1>3

(* So do the three calls of Delete.                                          *)
LEMMA DeletesKeep ==
  ASSUME IInv, Delete \/ Archive \/ DeleteArchived
  PROVE  IInv'
<1> DEFINE d == Request("DELETE", Nil)
           a == Request("PUT", archiveRequest)
<1>1. KindOK /\ pc # "idle" /\ UNCHANGED kubeVars
  BY TypeParts DEF IInv, Delete, Archive, DeleteArchived
<1>2. WellFormed(d) /\ WellFormed(a) /\ d.verb = "DELETE" /\ a.verb = "PUT"
  BY <1>1, SentWellFormed DEF Request
<1>3. PICK q \in {d, a} : \E r : /\ Call(q, Served(q), r)
                                  /\ \/ EndReconcile
                                     \/ /\ UNCHANGED <<cr, crFresh, obs>>
                                        /\ pc' \in {"archive", "deleteArchived"}
  <2>1. CASE Delete
    BY <2>1 DEF Delete, Continue
  <2>2. CASE Archive
    BY <2>2 DEF Archive, Continue
  <2>3. CASE DeleteArchived
    BY <2>3 DEF DeleteArchived
  <2> QED BY <2>1, <2>2, <2>3
<1> HIDE DEF d, a
<1> QED BY <1>1, <1>2, <1>3, CallKeeps
-----------------------------------------------------------------------------
(* What happens around the worker.                                          *)

(* Users, the informer, the clock and crashes keep it.                       *)
LEMMA KubernetesKeeps ==
  ASSUME IInv, Kubernetes
  PROVE  IInv'
<1>1. /\ KindOK /\ NoObject \notin Things(P) /\ Safe /\ CopiesClean(Never) /\ UNCHANGED growthbook
  BY TypeParts, Inputs DEF IInv, Kubernetes
<1>2. RemoteOK(Features, Q)' /\ InFlightOK'
  BY <1>1, RemoteUnchanged DEF KindOK, IInv, InFlightOK, WellFormed, growthbook
<1>3. CASE Users
  <2>1. KubeOK(P)' /\ WorkerOK(P)' /\ ChaosOK'
    BY <1>1, <1>3, UsersTyped, Inputs DEF KindOK
  <2>2. owned' \subseteq Fields
    <3>1. CASE UserDelete
      BY <1>1, <3>1 DEF UserDelete, KindOK
    <3>2. ASSUME NEW e \in Edits, UserEdit(e.field, e.to) PROVE owned' \subseteq Fields
      BY <1>1, <3>2, Inputs DEF UserEdit, KindOK
    <3>3. ASSUME NEW s \in Specs, UserCreate(NewObject(s.forProvider, s.initProvider, Nil))
          PROVE  owned' \subseteq Fields
      BY <3>3, Inputs DEF UserCreate, NewObject, SetFields
    <3> QED BY <1>3, <3>1, <3>2, <3>3 DEF Users
  <2>3. Safe'
    BY <1>1, <1>3, UsersSafe, Inputs DEF KindOK
  <2>4. CopiesClean(Never)'
    BY <1>1, <1>3, UsersClean, Inputs DEF KindOK
  <2>5. CopiesBacked => CopiesBacked'
    BY <1>1, <1>3, UsersBacked, Inputs DEF KindOK
  <2>6. EntriesAgree'
    BY <1>3 DEF Users, UserDelete, UserEdit, UserCreate, ForeignWrite, EntriesAgree
  <2> QED BY <1>2, <2>1, <2>2, <2>3, <2>4, <2>5, <2>6, TypeParts DEF IInv, KindOK, Saved
<1>4. CASE Crash \/ CacheSync \/ GraceEnds
  <2>1. KubeOK(P)' /\ WorkerOK(P)' /\ ChaosOK' /\ UNCHANGED owned
    BY <1>1, <1>4, AroundTyped DEF KindOK
  <2>2. Safe' /\ CopiesClean(Never)' /\ (CopiesBacked => CopiesBacked')
    BY <1>1, <1>4, AroundSafe, AroundClean, AroundBacked
  <2>3. EntriesAgree'
    BY <1>4 DEF Crash, EndReconcile, CacheSync, GraceEnds, workerVars, kubeVars, IInv,
                EntriesAgree, Entries
  <2> QED BY <1>1, <1>2, <2>1, <2>2, <2>3, TypeParts DEF IInv, KindOK, Saved
<1> QED BY <1>3, <1>4 DEF Kubernetes

(* So do people who work in GrowthBook itself.                               *)
LEMMA OutOfBandKeeps ==
  ASSUME IInv, NEW feature \in Found, OutOfBandChange(feature)
  PROVE  IInv'
<1>1. KindOK /\ Safe
  BY TypeParts DEF IInv
<1>2. /\ KubeOK(P)' /\ WorkerOK(P)' /\ ChaosOK' /\ RemoteOK(Features, Q)'
      /\ UNCHANGED <<kubeVars, workerVars, inFlight>>
  BY <1>1, OutOfBandTyped, Inputs DEF KindOK, OutOfBandChange
<1>3. TypeOK'
  BY <1>1, <1>2, TypeParts DEF KindOK, kubeVars
<1>4. Safe'
  BY <1>1, OutOfBandSafe
<1>5. CopiesClean(Never)' /\ Saved' /\ EntriesAgree'
  BY <1>2, Stays DEF kubeVars, workerVars
<1> QED BY <1>2, <1>3, <1>4, <1>5 DEF IInv, InFlightOK, WellFormed

(* So do requests that come late.                                           *)
LEMMA ServeLateKeeps ==
  ASSUME IInv, NEW q \in inFlight, ServeLate(q, Served(q))
  PROVE  IInv'
<1>1. KindOK /\ Safe /\ WellFormed(q)
  BY TypeParts DEF IInv, InFlightOK
<1>2. /\ Served(q) \in Features \cup {Absent}
      /\ Served(q) # Absent => Exists \/ Creates(q)
  BY <1>1, ServedTyped DEF KindOK, RemoteOK
<1>3. RemoteOK(Features, Q)' /\ UNCHANGED <<kubeVars, workerVars, chaos>>
  BY <1>1, <1>2, ServeLateTyped DEF KindOK, runtimeVars
<1>4. TypeOK'
  BY <1>1, <1>3, KubeUnchanged, WorkerUnchanged, TypeParts DEF KindOK, ChaosOK, kubeVars
<1>5. Safe'
  BY <1>1, <1>2, ServeLateSafe
<1>6. CopiesClean(Never)' /\ Saved' /\ EntriesAgree'
  BY <1>3, Stays DEF kubeVars, workerVars
<1>7. InFlightOK'
  BY DEF ServeLate, IInv, InFlightOK, WellFormed
<1> QED BY <1>4, <1>5, <1>6, <1>7 DEF IInv

(* The invariant is inductive.                                              *)
LEMMA IInvNext == IInv /\ [Next]_vars => IInv'
<1> SUFFICES ASSUME IInv, [Next]_vars PROVE IInv'
  OBVIOUS
<1>1. CASE Worker
  BY <1>1, RuntimeStepKeeps, ConnectKeeps, ObserveKeeps, WritesKeep, DeletesKeep DEF Worker
<1>2. CASE Kubernetes
  BY <1>2, KubernetesKeeps
<1>3. CASE \E feature \in Found : OutOfBandChange(feature)
  BY <1>3, OutOfBandKeeps
<1>4. CASE \E q \in inFlight : ServeLate(q, Served(q))
  BY <1>4, ServeLateKeeps
<1>5. CASE UNCHANGED vars
  <2>1. UNCHANGED <<kubeVars, workerVars, chaos, growthbook>>
    BY <1>5 DEF vars, runtimeVars
  <2>2. KindOK
    BY TypeParts DEF IInv
  <2>3. KindOK'
    BY <2>1, <2>2, KubeUnchanged, WorkerUnchanged, RemoteUnchanged DEF KindOK, ChaosOK, kubeVars
  <2>4. Standing' = Standing
    BY <2>1 DEF kubeVars, growthbook, Standing, AnswersFor, Exists, Held
  <2>5. Safe'
    BY <2>1, <2>4 DEF IInv, Safe, CopiesFollow, Follows, Live, CopiesAgree, Protocol, HeldIsHeld,
       kubeVars, workerVars
  <2>6. CopiesClean(Never)' /\ Saved' /\ EntriesAgree'
    BY <2>1, Stays DEF kubeVars, workerVars
  <2> QED BY <2>1, <2>3, <2>5, <2>6, TypeParts DEF IInv, InFlightOK, WellFormed, growthbook
<1> QED BY <1>1, <1>2, <1>3, <1>4, <1>5 DEF Next

(* It holds of every behaviour.                                             *)
LEMMA Invariant == Spec => []IInv
BY IInvInit, IInvNext, PTL DEF Spec
-----------------------------------------------------------------------------
(* What follows from it.                                                    *)

(* Feature is well typed: what convert.go computes, GrowthBook stores and the *)
(* API server keeps has the form of a feature, its rules included, always.   *)
THEOREM FeatureTypes == Spec => []TypeOK
<1>1. IInv => TypeOK
  BY DEF IInv
<1> QED BY <1>1, Invariant, PTL

(* Only Update ends a reconcile that was at its update, or a crash that       *)
(* touches nothing in GrowthBook.                                           *)
LEMMA OnlyUpdate ==
  ASSUME [Next]_vars, pc = "update", pc' = "idle"
  PROVE  (Update /\ ~rulesFail(cr.forProvider.rules)) \/ UNCHANGED remote
<1>1. CASE RuntimeStep
  BY <1>1 DEF RuntimeStep, growthbook
<1>2. ~Connect /\ ~Observe /\ ~Create /\ ~Delete /\ ~Archive /\ ~DeleteArchived
  BY DEF Connect, Observe, Create, Delete, Archive, DeleteArchived
<1>3. CASE Kubernetes
  BY <1>3 DEF Kubernetes, growthbook
<1>4. ~\E feature \in Found : OutOfBandChange(feature)
  BY DEF OutOfBandChange, workerVars
<1>5. ~\E q \in inFlight : ServeLate(q, Served(q))
  BY DEF ServeLate, runtimeVars, workerVars
<1>6. CASE UNCHANGED vars
  BY <1>6 DEF vars, growthbook
<1>7. CASE Update
  BY <1>7 DEF Update, growthbook
<1> QED BY <1>1, <1>2, <1>3, <1>4, <1>5, <1>6, <1>7 DEF Next, Worker

(* What Update changes in GrowthBook is the feature that is there, by what    *)
(* updateRequest makes of the copy in memory.                                *)
LEMMA UpdateChanges ==
  ASSUME IInv, Update, ~rulesFail(cr.forProvider.rules), remote' # remote
  PROVE  /\ remote \in Features /\ cr.forProvider \in P
         /\ remote' = Merge(remote, updateRequest(cr.forProvider))
<1> DEFINE q == Request("PUT", updateRequest(cr.forProvider))
<1>1. KindOK /\ pc = "update" /\ q.verb = "PUT" /\ q.body = updateRequest(cr.forProvider)
  BY TypeParts DEF IInv, Update, Request
<1>2. WellFormed(q)
  BY <1>1, SentWellFormed
<1>3. PICK r \in Replies(q) : Call(q, Served(q), r)
  BY DEF Update
<1> HIDE DEF q
<1>4. remote' = Served(q)
  BY <1>3 DEF Call, Serve, NotServed
<1>5. Served(q) = IF Exists THEN Merge(remote, q.body) ELSE remote
  BY <1>1, <1>2, ServedTyped DEF KindOK, RemoteOK
<1>6. Exists /\ remote' = Merge(remote, q.body)
  BY <1>4, <1>5
<1> QED BY <1>1, <1>6, CopyTyped DEF KindOK, RemoteOK, Exists

(* The PUT of a reconcile leaves alone what the stored resource does not       *)
(* declare, whatever users and people change meanwhile: nil rules, texts,     *)
(* tags and the archived flag that users never had set, and environments       *)
(* without an entry, of which an outdated copy may toggle those that still     *)
(* had one when it was read (convert.go updateRequest, feature_types.go).     *)
THEOREM UndeclaredStays == Spec => UndeclaredKept
<1> DEFINE Kept ==
      pc = "update" /\ pc' = "idle" /\ Exists /\ Exists' /\ mr # NoObject
        /\ "LateInitialize" \in Policies =>
        /\ \A f \in DOMAIN ZeroFeature \ owned :
             mr.forProvider[f] = Nil => remote'[f] = remote[f]
        /\ DOMAIN remote'.environments = DOMAIN remote.environments
        /\ \A k \in DOMAIN remote.environments \ Toggled :
             remote'.environments[k] = remote.environments[k]
<1>1. ASSUME IInv, [Next]_vars PROVE Kept
  <2> SUFFICES ASSUME pc = "update", pc' = "idle", remote' # remote, mr # NoObject,
                      "LateInitialize" \in Policies
               PROVE  /\ \A f \in Fields \ owned :
                           mr.forProvider[f] = Nil => remote'[f] = remote[f]
                      /\ DOMAIN remote'.environments = DOMAIN remote.environments
                      /\ \A k \in DOMAIN remote.environments \ Toggled :
                           remote'.environments[k] = remote.environments[k]
    BY DEF Fields
  <2>1. Update /\ ~rulesFail(cr.forProvider.rules)
    BY <1>1, OnlyUpdate
  <2>2. PICK q : q = updateRequest(cr.forProvider)
    OBVIOUS
  <2>3. remote \in Features /\ cr.forProvider \in P /\ remote' = Merge(remote, q)
    BY <1>1, <2>1, <2>2, UpdateChanges
  <2>4. /\ q \in FeatureRequests
        /\ \A f \in Fields : cr.forProvider[f] = Nil => q[f] = Nil
        /\ q.environments \in {Nil, cr.forProvider.environments}
    BY <2>1, <2>2, <2>3, UpdateRequestTyped
  <2>5. Backed(cr)
    <3>1. cr # NoObject /\ cr.finalizer /\ ~cr.deleting
      BY <1>1, TypeParts, CopyTyped DEF IInv, Safe, Protocol, Holding
    <3> QED BY <1>1, <3>1 DEF IInv, Saved, CopiesBacked, Live
  <2>6. ASSUME NEW f \in Fields \ owned, mr.forProvider[f] = Nil
        PROVE  remote'[f] = remote[f]
    <3>1. cr.forProvider[f] = Nil
      BY <2>3, <2>5, <2>6, SameFields DEF Backed
    <3> QED BY <2>3, <2>4, <2>6, <3>1, MergeTyped
  <2>7. q.environments # Nil => DOMAIN q.environments = Entries(cr)
    BY <2>4 DEF Elements, Entries
  <2>8. Entries(cr) \subseteq Toggled
    BY <1>1 DEF IInv, EntriesAgree, Toggled
  <2> QED BY <2>3, <2>4, <2>6, <2>7, <2>8, MergeTyped
<1>2. IInv /\ [Next]_vars => [Kept]_vars
  BY <1>1
<1> QED BY <1>2, Invariant, PTL DEF Spec, UndeclaredKept
-----------------------------------------------------------------------------
(* The abstract resource.                                                   *)

(* Every step of Feature is one the abstract resource may take.              *)
LEMMA AbstractNext == IInv /\ [Next]_vars => Allowed
<1> SUFFICES ASSUME IInv, [Next]_vars PROVE Allowed
  OBVIOUS
<1>1. KindOK /\ NoObject \notin Things(P) /\ Safe
  BY TypeParts, Inputs DEF IInv
<1>2. HeldIsHeld /\ HeldIsHeld'
  BY IInvNext DEF IInv, Safe
<1>3. CASE UNCHANGED mr
  BY <1>2, <1>3, SameResourceAllowed DEF Resource
<1>4. CASE RuntimeStep
  <2>1. pc # "idle" => MarshalParameters(cr.forProvider) \in P
    BY <1>1, CopyTyped, MarshalTyped
  <2> QED BY <1>1, <1>4, <2>1, RuntimeStepIs, BetweenAllowed DEF KindOK
<1>5. CASE Users /\ UNCHANGED growthbook
  BY <1>1, <1>5, UsersAllowed, Inputs DEF KindOK
<1>6. CASE Connect \/ Create \/ Update \/ Delete \/ Archive \/ DeleteArchived
  BY <1>3, <1>6 DEF Connect, Create, Update, Delete, Archive, DeleteArchived, kubeVars
<1>7. CASE Observe
  <2>1. ASSUME NEW r, NEW feature, ObserveReply(r, feature) PROVE UNCHANGED kubeVars
    BY <2>1 DEF ObserveReply, Observed, NotObserved
  <2> QED BY <1>3, <1>7, <2>1 DEF Observe, kubeVars
<1>8. CASE (Crash \/ CacheSync \/ GraceEnds) /\ UNCHANGED growthbook
  BY <1>3, <1>8 DEF Crash, CacheSync, GraceEnds, kubeVars
<1>9. CASE \E feature \in Found : OutOfBandChange(feature)
  BY <1>3, <1>9 DEF OutOfBandChange, kubeVars
<1>10. CASE \E q \in inFlight : ServeLate(q, Served(q))
  BY <1>3, <1>10 DEF ServeLate, runtimeVars, kubeVars
<1>11. CASE UNCHANGED vars
  BY <1>3, <1>11 DEF vars, runtimeVars, kubeVars
<1> QED BY <1>4, <1>5, <1>6, <1>7, <1>8, <1>9, <1>10, <1>11 DEF Next, Worker, Kubernetes

(* The Feature controller keeps the promise of ExternalResource, archive      *)
(* first or not: a resource that goes leaves no feature behind that it        *)
(* answers for, whatever fails, crashes, comes late or is stale, unless what   *)
(* it made came up, or was denied, behind its back.                          *)
THEOREM ImplementsResource == Spec => Implements
<1>1. IInv /\ [Next]_vars => [Abstract!Next]_(Abstract!vars)
  BY AbstractNext DEF Allowed
<1>2. Init => Abstract!Init
  <2> SUFFICES ASSUME Init PROVE Abstract!Init
    OBVIOUS
  <2>1. \E present : NamedInit(present)
    BY DEF Init
  <2> QED BY <2>1, AbstractInit, Inputs
<1> QED BY <1>1, <1>2, Invariant, PTL DEF Spec, Implements, Abstract!Spec
-----------------------------------------------------------------------------
(* RuleDrift: the drift check of rules (rules_drift.go).                     *)

(* Lists with equal sorted copies have the same elements, repeats or not: a   *)
(* correspondence of the occurrences of each element maps one list into the   *)
(* other, and onto it because they are equally long.                         *)
LEMMA SameSetSound ==
  ASSUME NEW S, NEW a \in Seq(S), NEW b \in Seq(S), sameSet(a, b)
  PROVE  Set(a) = Set(b)
<1> DEFINE I == 1..Len(a)
<1>1. /\ Len(a) \in Nat /\ Len(a) = Len(b) /\ DOMAIN a = I /\ DOMAIN b = I
      /\ IsFiniteSet(I)
  BY FS_Interval DEF sameSet
<1>2. \A s, x : Occurrences(s, x) \subseteq DOMAIN s
  BY DEF Occurrences
<1>3. \A x : IsFiniteSet(Occurrences(a, x)) /\ IsFiniteSet(Occurrences(b, x))
  BY <1>1, <1>2, FS_Subset
<1>4. \A i \in I : ExistsBijection(Occurrences(a, a[i]), Occurrences(b, a[i]))
  BY <1>1, <1>3, FS_SameCardinalityBij DEF sameSet
<1> DEFINE to(x) == CHOOSE f : f \in Bijection(Occurrences(a, x), Occurrences(b, x))
<1> DEFINE h == [i \in I |-> to(a[i])[i]]
<1>5. \A i \in I : to(a[i]) \in Bijection(Occurrences(a, a[i]), Occurrences(b, a[i]))
  BY <1>4 DEF ExistsBijection
<1>6. \A i \in I : i \in Occurrences(a, a[i])
  BY <1>1 DEF Occurrences
<1> HIDE DEF to
<1>7. \A i \in I : h[i] \in I /\ b[h[i]] = a[i]
  <2> SUFFICES ASSUME NEW i \in I PROVE to(a[i])[i] \in I /\ b[to(a[i])[i]] = a[i]
    OBVIOUS
  <2>1. to(a[i])[i] \in Occurrences(b, a[i])
    BY <1>5, <1>6 DEF Bijection, Injection, IsInjective
  <2> QED  BY <2>1, <1>1 DEF Occurrences
<1>8. \A i, k \in I : h[i] = h[k] => i = k
  <2> SUFFICES ASSUME NEW i \in I, NEW k \in I, h[i] = h[k] PROVE i = k
    OBVIOUS
  <2>1. a[i] = a[k]
    BY <1>7
  <2>2. to(a[i])[i] = to(a[i])[k]
    BY <2>1
  <2>3. i \in Occurrences(a, a[i]) /\ k \in Occurrences(a, a[i])
    BY <1>6, <2>1
  <2> QED  BY <2>2, <2>3, <1>5 DEF Bijection, Injection, IsInjective
<1>9. h \in Surjection(I, I)
  <2>1. h \in Injection(I, I)
    BY <1>7, <1>8 DEF Injection, IsInjective
  <2> QED  BY <2>1, <1>1, FS_Injection
<1>10. Set(a) \subseteq Set(b)
  BY <1>1, <1>7 DEF Set
<1>11. Set(b) \subseteq Set(a)
  <2> SUFFICES ASSUME NEW j \in I PROVE b[j] \in Set(a)
    BY <1>1 DEF Set
  <2>1. PICK i \in I : h[i] = j
    BY <1>9 DEF Surjection
  <2> QED  BY <2>1, <1>1, <1>7 DEF Set
<1> QED  BY <1>10, <1>11


(* The converse needs lists without repeats, where each element occurs once.  *)
LEMMA SameSetComplete ==
  ASSUME NEW S, NEW a \in Seq(S), NEW b \in Seq(S),
         Distinct(a), Distinct(b), Set(a) = Set(b)
  PROVE  sameSet(a, b)
<1>1. /\ Len(a) \in Nat /\ Len(b) \in Nat
      /\ DOMAIN a = 1..Len(a) /\ DOMAIN b = 1..Len(b)
      /\ a \in [1..Len(a) -> Set(a)] /\ b \in [1..Len(b) -> Set(b)]
  BY DEF Set
<1>2. a \in Bijection(1..Len(a), Set(a)) /\ b \in Bijection(1..Len(b), Set(a))
  BY <1>1 DEF Bijection, Injection, Surjection, IsInjective, Distinct, Set
<1>3. Len(a) = Len(b)
  BY <1>1, <1>2, FS_CountingElements DEF ExistsBijection
<1>4. \A i \in DOMAIN a : Occurrences(a, a[i]) = {i}
  BY DEF Occurrences, Distinct
<1>5. \A i \in DOMAIN a : \E j \in DOMAIN b : Occurrences(b, a[i]) = {j}
  <2> SUFFICES ASSUME NEW i \in DOMAIN a
               PROVE  \E j \in DOMAIN b : Occurrences(b, a[i]) = {j}
    OBVIOUS
  <2>1. PICK j \in DOMAIN b : b[j] = a[i]
    BY DEF Set
  <2> QED  BY <2>1 DEF Occurrences, Distinct
<1> QED  BY <1>3, <1>4, <1>5, FS_Singleton DEF sameSet

(* Variations up to date means the same variations: as many ids as are        *)
(* declared are found among as many entries, so no id is met twice there and  *)
(* the value read from the map is the only one.                              *)
LEMMA VariationsSound ==
  ASSUME NEW S, NEW w \in Seq([variationId : S, value : S]),
         NEW g \in Seq([variationId : S, value : S]),
         DistinctIds(w), variationsUpToDate(w, g)
  PROVE  Set(w) = Set(g)
<1> DEFINE I == 1..Len(w)
<1>1. /\ Len(w) \in Nat /\ Len(w) = Len(g) /\ DOMAIN w = I /\ DOMAIN g = I
      /\ IsFiniteSet(I)
  BY FS_Interval DEF variationsUpToDate
<1> DEFINE h == [i \in I |-> CHOOSE j \in I : g[j].variationId = w[i].variationId]
<1>2. /\ h \in [I -> I]
      /\ \A i \in I : h[i] \in I /\ g[h[i]].variationId = w[i].variationId
  BY <1>1 DEF variationsUpToDate
<1> HIDE DEF h
<1>3. h \in Injection(I, I)
  <2> SUFFICES ASSUME NEW i \in I, NEW k \in I, h[i] = h[k] PROVE i = k
    BY <1>2 DEF Injection, IsInjective
  <2>1. w[i].variationId = w[k].variationId
    BY <1>2
  <2> QED  BY <2>1, <1>1 DEF DistinctIds
<1>4. h \in Surjection(I, I)
  BY <1>1, <1>3, FS_Injection
<1>5. \A j \in I : \E i \in I : h[i] = j
  BY <1>4 DEF Surjection
<1>6. ASSUME NEW j \in I, NEW k \in I, g[j].variationId = g[k].variationId
      PROVE  j = k
  <2>1. PICK i \in I : h[i] = j
    BY <1>5
  <2>2. PICK l \in I : h[l] = k
    BY <1>5
  <2>3. w[i].variationId = w[l].variationId
    BY <2>1, <2>2, <1>2, <1>6
  <2> QED  BY <2>1, <2>2, <2>3, <1>1 DEF DistinctIds
<1>7. \A i \in I : g[h[i]] = w[i]
  <2> SUFFICES ASSUME NEW i \in I PROVE g[h[i]] = w[i]
    OBVIOUS
  <2>1. PICK j \in I : j = h[i]
    BY <1>2
  <2>2. g[j].variationId = w[i].variationId
    BY <2>1, <1>2
  <2>3. \A k \in I : g[k].variationId = w[i].variationId => k = j
    BY <2>2, <1>6
  <2> DEFINE last(k) == /\ g[k].variationId = w[i].variationId
                        /\ \A l \in I : g[l].variationId = w[i].variationId => l <= k
  <2>4. last(j)
    BY <2>2, <2>3, <1>1
  <2>5. \A k \in I : last(k) => k = j
    BY <2>3
  <2>6. (CHOOSE k \in I : last(k)) = j
    <3> HIDE DEF last
    <3> QED  BY <2>4, <2>5
  <2>7. LastValue(g, w[i].variationId) = g[j].value
    BY <2>6, <1>1 DEF LastValue
  <2>8. g[j].value = w[i].value
    BY <2>7, <1>1 DEF variationsUpToDate
  <2>9. /\ g[j] \in [variationId : S, value : S]
        /\ w[i] \in [variationId : S, value : S]
    <3> DEFINE R == [variationId : S, value : S]
    <3>1. w \in Seq(R) /\ g \in Seq(R)
      OBVIOUS
    <3> HIDE DEF R
    <3>2. g[j] \in R /\ w[i] \in R
      BY <3>1, <1>1
    <3> QED  BY <3>2 DEF R
  <2> QED  BY <2>1, <2>2, <2>8, <2>9
<1>8. Set(w) \subseteq Set(g)
  BY <1>1, <1>2, <1>7 DEF Set
<1>9. Set(g) \subseteq Set(w)
  <2> SUFFICES ASSUME NEW j \in I PROVE g[j] \in Set(w)
    BY <1>1 DEF Set
  <2>1. PICK i \in I : h[i] = j
    BY <1>5
  <2> QED  BY <2>1, <1>1, <1>7 DEF Set
<1> QED  BY <1>8, <1>9

LEMMA VariationsComplete ==
  ASSUME NEW S, NEW w \in Seq([variationId : S, value : S]),
         NEW g \in Seq([variationId : S, value : S]),
         DistinctIds(w), DistinctIds(g), Set(w) = Set(g)
  PROVE  variationsUpToDate(w, g)
<1>1. Distinct(w) /\ Distinct(g)
  BY DEF Distinct, DistinctIds
<1>2. Len(w) = Len(g)
  BY <1>1, SameSetComplete DEF sameSet
<1>3. \A i \in DOMAIN w : \E j \in DOMAIN g : g[j] = w[i]
  BY DEF Set
<1>4. \A i \in DOMAIN w : LastValue(g, w[i].variationId) = w[i].value
  <2> SUFFICES ASSUME NEW i \in DOMAIN w
               PROVE  LastValue(g, w[i].variationId) = w[i].value
    OBVIOUS
  <2>1. PICK j \in DOMAIN g : g[j] = w[i]
    BY <1>3
  <2>2. DOMAIN g \subseteq Nat
    OBVIOUS
  <2>3. \A k \in DOMAIN g : g[k].variationId = w[i].variationId => k = j
    BY <2>1 DEF DistinctIds
  <2> QED  BY <2>1, <2>2, <2>3 DEF LastValue
<1> QED  BY <1>2, <1>3, <1>4 DEF variationsUpToDate


(* A request of a declared rule, field by field.                             *)
LEMMA RequestFields ==
  ASSUME NEW w \in DeclaredRules
  PROVE  LET q == ruleRequest(w) IN
         /\ q.type = w.type /\ q.enabled = w.enabled
         /\ q.allEnvironments = derefBool(w.allEnvironments)
         /\ q.coverage = parseCoverage(w.coverage)
         /\ q.savedGroups = Elements(w.savedGroups)
         /\ q.environments = Elements(w.environments)
         /\ q.variations = Elements(w.variations)
         /\ q.condition = derefString(w.condition)
         /\ q.value = derefString(w.value)
         /\ q.hashAttribute = derefString(w.hashAttribute)
         /\ q.experimentId = derefString(w.experimentId)
BY DEF ruleRequest, DeclaredRules

(* The lists of declared and of observed rules.                              *)
LEMMA RuleLists ==
  ASSUME ListsOK, NEW w \in DeclaredRules, NEW g \in WireRules
  PROVE  /\ Elements(w.environments) \in Seq(STRING)
         /\ g.environments \in Seq(STRING)
         /\ Elements(w.savedGroups) \in Seq([match : STRING, ids : Seq(STRING)])
         /\ g.savedGroups \in Seq([match : STRING, ids : Seq(STRING)])
         /\ Elements(w.variations) \in Seq([variationId : STRING, value : STRING])
         /\ g.variations \in Seq([variationId : STRING, value : STRING])
<1>1. \A S : <<>> \in Seq(S)
  OBVIOUS
<1>2. /\ Elements(w.environments) \in EnvironmentLists \cup {<<>>}
      /\ Elements(w.savedGroups) \in GroupLists \cup {<<>>}
      /\ Elements(w.variations) \in VariationLists \cup {<<>>}
  BY DEF DeclaredRules, Elements, Opt
<1>3. /\ g.environments \in EnvironmentLists \cup {<<>>}
      /\ g.savedGroups \in GroupLists \cup {<<>>}
      /\ g.variations \in VariationLists \cup {<<>>}
  BY DEF WireRules
<1>4. Elements(w.environments) \in Seq(STRING) /\ g.environments \in Seq(STRING)
  BY <1>1, <1>2, <1>3 DEF ListsOK
<1> DEFINE G == [match : STRING, ids : Seq(STRING)]
<1> DEFINE V == [variationId : STRING, value : STRING]
<1>5. GroupLists \subseteq Seq(G) /\ VariationLists \subseteq Seq(V)
  BY DEF ListsOK
<1> HIDE DEF G, V
<1>6. Elements(w.savedGroups) \in Seq(G) /\ g.savedGroups \in Seq(G)
  BY <1>1, <1>2, <1>3, <1>5
<1>7. Elements(w.variations) \in Seq(V) /\ g.variations \in Seq(V)
  BY <1>1, <1>2, <1>3, <1>5
<1> QED  BY <1>4, <1>6, <1>7 DEF G, V

Audience(groups) == [i \in DOMAIN groups |-> <<groups[i].match, Set(groups[i].ids)>>]

LEMMA GroupElements ==
  ASSUME NEW a \in Seq([match : STRING, ids : Seq(STRING)])
  PROVE  \A i \in DOMAIN a : a[i].ids \in Seq(STRING)
<1> DEFINE G == [match : STRING, ids : Seq(STRING)]
<1>1. a \in Seq(G)
  OBVIOUS
<1> HIDE DEF G
<1>2. \A i \in DOMAIN a : a[i] \in G
  BY <1>1
<1> QED  BY <1>2 DEF G

(* Saved groups compare in order, their ids without.                         *)
LEMMA GroupsSound ==
  ASSUME NEW a \in Seq([match : STRING, ids : Seq(STRING)]),
         NEW b \in Seq([match : STRING, ids : Seq(STRING)]),
         savedGroupsUpToDate(a, b)
  PROVE  Audience(a) = Audience(b)
<1>1. DOMAIN a = DOMAIN b
  BY DEF savedGroupsUpToDate
<1>2. ASSUME NEW i \in DOMAIN a
      PROVE  a[i].match = b[i].match /\ Set(a[i].ids) = Set(b[i].ids)
  <2>1. a[i].ids \in Seq(STRING) /\ b[i].ids \in Seq(STRING)
    BY <1>1, GroupElements
  <2>2. a[i].match = b[i].match /\ sameSet(a[i].ids, b[i].ids)
    BY DEF savedGroupsUpToDate
  <2> QED  BY <2>1, <2>2, SameSetSound
<1> QED  BY <1>1, <1>2 DEF Audience

LEMMA GroupsComplete ==
  ASSUME NEW a \in Seq([match : STRING, ids : Seq(STRING)]),
         NEW b \in Seq([match : STRING, ids : Seq(STRING)]),
         \A i \in DOMAIN a : Distinct(a[i].ids),
         \A i \in DOMAIN b : Distinct(b[i].ids),
         Audience(a) = Audience(b)
  PROVE  savedGroupsUpToDate(a, b)
<1>1. DOMAIN a = DOMAIN b /\ Len(a) = Len(b)
  <2>1. DOMAIN Audience(a) = DOMAIN a /\ DOMAIN Audience(b) = DOMAIN b
    BY DEF Audience
  <2>2. DOMAIN a = 1..Len(a) /\ DOMAIN b = 1..Len(b) /\ Len(a) \in Nat /\ Len(b) \in Nat
    OBVIOUS
  <2>3. DOMAIN a = DOMAIN b
    BY <2>1
  <2>4. Cardinality(DOMAIN a) = Len(a) /\ Cardinality(DOMAIN b) = Len(b)
    <3>1. \A n \in Nat : Cardinality(1..n) = n
      BY FS_Interval
    <3> QED  BY <2>2, <3>1
  <2> QED  BY <2>3, <2>4
<1>2. ASSUME NEW i \in DOMAIN a
      PROVE  a[i].match = b[i].match /\ sameSet(a[i].ids, b[i].ids)
  <2>1. a[i].ids \in Seq(STRING) /\ b[i].ids \in Seq(STRING)
    BY <1>1, GroupElements
  <2>2. Audience(a)[i] = Audience(b)[i]
    OBVIOUS
  <2>3. a[i].match = b[i].match /\ Set(a[i].ids) = Set(b[i].ids)
    BY <1>1, <2>2 DEF Audience
  <2>4. Distinct(a[i].ids) /\ Distinct(b[i].ids)
    BY <1>1
  <2> QED  BY <2>1, <2>3, <2>4, SameSetComplete
<1> QED  BY <1>1, <1>2 DEF savedGroupsUpToDate


(* What a pair of rules must agree on.                                       *)
Agrees(w, g) ==
  Meaning(ruleRequest(w), w.id) = Meaning(g, IF w.id = Nil THEN Nil ELSE g.id)

LEMMA AgreesParts ==
  ASSUME NEW w \in DeclaredRules, NEW g \in WireRules
  PROVE  Agrees(w, g) <=>
         /\ w.id = IF w.id = Nil THEN Nil ELSE g.id
         /\ w.type = g.type
         /\ (w.enabled # FALSE) = (g.enabled # FALSE)
         /\ derefString(w.condition) = g.condition
         /\ Audience(Elements(w.savedGroups)) = Audience(g.savedGroups)
         /\ derefBool(w.allEnvironments) = g.allEnvironments
         /\ (IF derefBool(w.allEnvironments) THEN {} ELSE Set(Elements(w.environments)))
              = (IF g.allEnvironments THEN {} ELSE Set(g.environments))
         /\ derefString(w.value) = g.value
         /\ derefString(w.hashAttribute) = g.hashAttribute
         /\ parseCoverage(w.coverage) = g.coverage
         /\ derefString(w.experimentId) = g.experimentId
         /\ Set(Elements(w.variations)) = Set(g.variations)
<1> DEFINE q == ruleRequest(w)
<1>1. /\ q.type = w.type /\ q.enabled = w.enabled
      /\ q.allEnvironments = derefBool(w.allEnvironments)
      /\ q.coverage = parseCoverage(w.coverage)
      /\ q.savedGroups = Elements(w.savedGroups)
      /\ q.environments = Elements(w.environments)
      /\ q.variations = Elements(w.variations)
      /\ q.condition = derefString(w.condition)
      /\ q.value = derefString(w.value)
      /\ q.hashAttribute = derefString(w.hashAttribute)
      /\ q.experimentId = derefString(w.experimentId)
  BY RequestFields
<1> HIDE DEF q
<1>2. ASSUME NEW r, NEW id
      PROVE  Meaning(r, id) =
               [id |-> id, type |-> r.type, on |-> r.enabled # FALSE,
                audience |-> <<r.condition, Audience(r.savedGroups)>>,
                scope |-> <<r.allEnvironments,
                            IF r.allEnvironments THEN {} ELSE Set(r.environments)>>,
                serves |-> <<r.value, r.hashAttribute, r.coverage>>,
                experiment |-> <<r.experimentId, Set(r.variations)>>]
  BY DEF Meaning, Audience
<1>3. Agrees(w, g) <=> Meaning(q, w.id) = Meaning(g, IF w.id = Nil THEN Nil ELSE g.id)
  BY DEF Agrees, q
<1> QED  BY <1>1, <1>2, <1>3

(* No drift is overlooked: rules that pass the check mean the same.  Of the    *)
(* lists nothing is asked but that a declared rule names a variation once.    *)
THEOREM NoDriftUnseen ==
  ASSUME ListsOK, NEW w \in DeclaredRules, NEW g \in WireRules,
         DistinctIds(Elements(w.variations)), ruleUpToDate(w, g)
  PROVE  Agrees(w, g)
<1> USE DEF ruleUpToDate
<1>1. w.id = IF w.id = Nil THEN Nil ELSE g.id
  OBVIOUS
<1>2. w.type = g.type /\ (w.enabled # FALSE) = (g.enabled # FALSE)
  BY DEF enabledOrTrue
<1>3. Audience(Elements(w.savedGroups)) = Audience(g.savedGroups)
  BY RuleLists, GroupsSound
<1>4. /\ derefBool(w.allEnvironments) = g.allEnvironments
      /\ ~g.allEnvironments => Set(Elements(w.environments)) = Set(g.environments)
  BY RuleLists, SameSetSound DEF environmentsRuleUpToDate
<1>5. /\ derefString(w.value) = g.value /\ derefString(w.hashAttribute) = g.hashAttribute
      /\ derefString(w.experimentId) = g.experimentId
  BY DEF ruleValueUpToDate
<1>6. parseCoverage(w.coverage) = g.coverage
  BY DEF ruleValueUpToDate, coverageUpToDate, parseCoverage
<1>7. Set(Elements(w.variations)) = Set(g.variations)
  BY RuleLists, VariationsSound DEF ruleValueUpToDate
<1> HIDE DEF ruleUpToDate
<1>8. derefString(w.condition) = g.condition
  BY DEF ruleUpToDate
<1> QED  BY <1>1, <1>2, <1>3, <1>4, <1>5, <1>6, <1>7, <1>8, AgreesParts

(* No other spelling of a rule is drift.                                     *)
LEMMA RuleComplete ==
  ASSUME ListsOK, NoRepeats, \A c \in Coverages : ParseFloat[c] # Nil,
         NEW w \in DeclaredRules, NEW g \in WireRules, Agrees(w, g)
  PROVE  ruleUpToDate(w, g)
<1>1. /\ w.id = IF w.id = Nil THEN Nil ELSE g.id
      /\ w.type = g.type
      /\ (w.enabled # FALSE) = (g.enabled # FALSE)
      /\ derefString(w.condition) = g.condition
      /\ Audience(Elements(w.savedGroups)) = Audience(g.savedGroups)
      /\ derefBool(w.allEnvironments) = g.allEnvironments
      /\ ~g.allEnvironments => Set(Elements(w.environments)) = Set(g.environments)
      /\ derefString(w.value) = g.value
      /\ derefString(w.hashAttribute) = g.hashAttribute
      /\ parseCoverage(w.coverage) = g.coverage
      /\ derefString(w.experimentId) = g.experimentId
      /\ Set(Elements(w.variations)) = Set(g.variations)
  BY AgreesParts
<1>2. /\ Elements(w.environments) \in EnvironmentLists \cup {<<>>}
      /\ Elements(w.savedGroups) \in GroupLists \cup {<<>>}
      /\ Elements(w.variations) \in VariationLists \cup {<<>>}
      /\ g.environments \in EnvironmentLists \cup {<<>>}
      /\ g.savedGroups \in GroupLists \cup {<<>>}
      /\ g.variations \in VariationLists \cup {<<>>}
  BY DEF DeclaredRules, WireRules, Elements, Opt
<1>3. Distinct(<<>>) /\ DistinctIds(<<>>)
  BY DEF Distinct, DistinctIds
<1>4. /\ Distinct(Elements(w.environments)) /\ Distinct(g.environments)
      /\ DistinctIds(Elements(w.variations)) /\ DistinctIds(g.variations)
  BY <1>2, <1>3 DEF NoRepeats
<1>5. /\ \A i \in DOMAIN Elements(w.savedGroups) : Distinct(Elements(w.savedGroups)[i].ids)
      /\ \A i \in DOMAIN g.savedGroups : Distinct(g.savedGroups[i].ids)
  BY <1>2 DEF NoRepeats
<1>6. savedGroupsUpToDate(Elements(w.savedGroups), g.savedGroups)
  BY <1>1, <1>5, RuleLists, GroupsComplete
<1>7. environmentsRuleUpToDate(w, g)
  BY <1>1, <1>4, RuleLists, SameSetComplete DEF environmentsRuleUpToDate, WireRules
<1>8. variationsUpToDate(Elements(w.variations), g.variations)
  BY <1>1, <1>4, RuleLists, VariationsComplete
<1>9. coverageUpToDate(w.coverage, g.coverage)
  BY <1>1 DEF coverageUpToDate, parseCoverage, DeclaredRules, Opt
<1>10. ruleValueUpToDate(w, g)
  BY <1>1, <1>8, <1>9 DEF ruleValueUpToDate
<1>11. w.id \in {Nil, g.id} /\ enabledOrTrue(w.enabled) = enabledOrTrue(g.enabled)
  BY <1>1 DEF enabledOrTrue
<1> QED  BY <1>1, <1>6, <1>7, <1>10, <1>11 DEF ruleUpToDate


DriftTypes == want \in Seq(DeclaredRules) /\ want # Nil /\ got \in Seq(WireRules)

LEMMA EditedRule ==
  ASSUME EditsOK, NEW r \in WireRules, NEW f \in DOMAIN RuleEdits, NEW v \in RuleEdits[f]
  PROVE  [r EXCEPT ![f] = v] \in WireRules
<1>1. r.type \in RuleTypes
  BY DEF WireRules
<1>2. f \in DOMAIN BareRule(r.type) /\ [BareRule(r.type) EXCEPT ![f] = v] \in WireRules
  BY <1>1 DEF EditsOK
<1>3. f \in {"type", "id", "description", "enabled", "condition", "savedGroups",
             "allEnvironments", "environments", "value", "coverage", "hashAttribute",
             "experimentId", "variations"}
  BY <1>2 DEF BareRule
<1>4. CASE f = "type"
  BY <1>2, <1>4 DEF BareRule, WireRules
<1>5. CASE f = "id"
  BY <1>2, <1>5 DEF BareRule, WireRules
<1>6. CASE f = "description"
  BY <1>2, <1>6 DEF BareRule, WireRules
<1>7. CASE f = "enabled"
  BY <1>2, <1>7 DEF BareRule, WireRules
<1>8. CASE f = "condition"
  BY <1>2, <1>8 DEF BareRule, WireRules
<1>9. CASE f = "savedGroups"
  BY <1>2, <1>9 DEF BareRule, WireRules
<1>10. CASE f = "allEnvironments"
  BY <1>2, <1>10 DEF BareRule, WireRules
<1>11. CASE f = "environments"
  BY <1>2, <1>11 DEF BareRule, WireRules
<1>12. CASE f = "value"
  BY <1>2, <1>12 DEF BareRule, WireRules
<1>13. CASE f = "coverage"
  BY <1>2, <1>13 DEF BareRule, WireRules
<1>14. CASE f = "hashAttribute"
  BY <1>2, <1>14 DEF BareRule, WireRules
<1>15. CASE f = "experimentId"
  BY <1>2, <1>15 DEF BareRule, WireRules
<1>16. CASE f = "variations"
  BY <1>2, <1>16 DEF BareRule, WireRules
<1> QED
  BY <1>3, <1>4, <1>5, <1>6, <1>7, <1>8, <1>9, <1>10,
     <1>11, <1>12, <1>13, <1>14, <1>15, <1>16

LEMMA ReplacedAt ==
  ASSUME NEW S, NEW s \in Seq(S), NEW i \in DOMAIN s, NEW x \in S
  PROVE  [s EXCEPT ![i] = x] \in Seq(S)
OBVIOUS

LEMMA RemovedTyped ==
  ASSUME NEW S, NEW s \in Seq(S), NEW i \in DOMAIN s
  PROVE  SubSeq(s, 1, i - 1) \o SubSeq(s, i + 1, Len(s)) \in Seq(S)
<1>1. SubSeq(s, 1, i - 1) \in Seq(S)
  OBVIOUS
<1>2. SubSeq(s, i + 1, Len(s)) \in Seq(S)
  OBVIOUS
<1> QED  BY <1>1, <1>2

(* What GrowthBook holds after a reconcile.                                  *)
LEMMA ReplacedTyped ==
  ASSUME DeclarationsOK, NEW rules \in Seq(DeclaredRules), rules # Nil
  PROVE  StoredRules(rulesRequest(rules)) \in Seq(WireRules)
<1>1. \A i \in DOMAIN rules : ruleRequest(rules[i]) \in WireRules
  <2> SUFFICES ASSUME NEW i \in DOMAIN rules PROVE ruleRequest(rules[i]) \in WireRules
    OBVIOUS
  <2>1. rules[i] \in DeclaredRules
    OBVIOUS
  <2>2. rules[i].coverage = Nil \/ ParseFloat[rules[i].coverage] # Nil
    BY <2>1 DEF DeclarationsOK, DeclaredRules, Opt
  <2> QED  BY <2>1, <2>2, RuleRequestTyped
<1>2. rulesRequest(rules) \in Seq(WireRules)
  BY <1>1 DEF rulesRequest
<1> QED  BY <1>2, StoredRulesTyped

LEMMA DriftInit == RuleInputs /\ RuleInit => DriftTypes
<1> SUFFICES ASSUME RuleInputs, RuleInit PROVE DriftTypes
  OBVIOUS
<1>1. want \in Seq(DeclaredRules) /\ want # Nil /\ DeclarationsOK
  BY DEF RuleInit, RuleInputs, DeclarationsOK
<1>2. got \in Seq(WireRules)
  BY <1>1, ReplacedTyped DEF RuleInit
<1> QED  BY <1>1, <1>2 DEF DriftTypes

LEMMA DriftNext == RuleInputs /\ DriftTypes /\ [RuleNext]_ruleVars => DriftTypes'
<1> SUFFICES ASSUME RuleInputs, DriftTypes, [RuleNext]_ruleVars PROVE DriftTypes'
  OBVIOUS
<1>1. want \in Seq(DeclaredRules) /\ want # Nil /\ got \in Seq(WireRules)
  BY DEF DriftTypes
<1>2. EditsOK /\ DeclarationsOK
  BY DEF RuleInputs
<1>3. CASE UNCHANGED ruleVars
  BY <1>1, <1>3 DEF ruleVars, DriftTypes
<1>4. SUFFICES ASSUME RuleNext PROVE got' \in Seq(WireRules) /\ want' = want
  BY <1>1, <1>3, <1>4 DEF DriftTypes
<1> USE DEF EditBy
<1>5. CASE ChangeField
  <2>1. PICK i \in DOMAIN got, f \in DOMAIN RuleEdits : \E v \in RuleEdits[f] :
          got' = [got EXCEPT ![i] = [got[i] EXCEPT ![f] = v]] /\ want' = want
    BY <1>5 DEF ChangeField
  <2>2. PICK v \in RuleEdits[f] : got' = [got EXCEPT ![i] = [got[i] EXCEPT ![f] = v]]
    BY <2>1
  <2>3. got[i] \in WireRules
    BY <1>1
  <2>4. [got[i] EXCEPT ![f] = v] \in WireRules
    BY <2>3, <1>2, EditedRule
  <2> DEFINE rule == [got[i] EXCEPT ![f] = v]
  <2>5. got' = [got EXCEPT ![i] = rule] /\ rule \in WireRules
    BY <2>2, <2>4
  <2> HIDE DEF rule
  <2> QED  BY <1>1, <2>1, <2>5, ReplacedAt
<1>6. CASE Swap
  <2>1. PICK i, j \in DOMAIN got :
          got' = [got EXCEPT ![i] = got[j], ![j] = got[i]] /\ want' = want
    BY <1>6 DEF Swap
  <2>2. got[i] \in WireRules /\ got[j] \in WireRules
    BY <1>1
  <2> QED  BY <1>1, <2>1, <2>2
<1>7. CASE Remove
  BY <1>1, <1>7, RemovedTyped DEF Remove
<1>8. CASE Add
  <2>1. PICK i \in DOMAIN got : got' = Append(got, got[i]) /\ want' = want
    BY <1>8 DEF Add
  <2> QED  BY <1>1, <2>1
<1>9. CASE Reconcile
  BY <1>1, <1>2, <1>9, ReplacedTyped DEF Reconcile
<1> QED  BY <1>4, <1>5, <1>6, <1>7, <1>8, <1>9 DEF RuleNext

LEMMA DriftExactly == RuleInputs /\ DriftTypes => DriftExact
<1> SUFFICES ASSUME RuleInputs, DriftTypes PROVE DriftExact
  OBVIOUS
<1>1. want \in Seq(DeclaredRules) /\ want # Nil /\ got \in Seq(WireRules)
  BY DEF DriftTypes
<1>2. ListsOK /\ NoRepeats /\ \A c \in Coverages : ParseFloat[c] # Nil
  BY DEF RuleInputs, DeclarationsOK
<1>3. ASSUME Len(want) = Len(got), NEW i \in DOMAIN want
      PROVE  ruleUpToDate(want[i], got[i]) <=> SameRule(i)
  <2>1. want[i] \in DeclaredRules /\ got[i] \in WireRules
    BY <1>1, <1>3
  <2>2. SameRule(i) <=> Agrees(want[i], got[i])
    BY DEF SameRule, Agrees
  <2>3. DistinctIds(Elements(want[i].variations))
    <3>1. Elements(want[i].variations) \in VariationLists \cup {<<>>}
      BY <2>1 DEF DeclaredRules, Elements, Opt
    <3>2. DistinctIds(<<>>)
      BY DEF DistinctIds
    <3> QED  BY <3>1, <3>2, <1>2 DEF NoRepeats
  <2> QED  BY <1>2, <2>1, <2>2, <2>3, NoDriftUnseen, RuleComplete
<1> QED  BY <1>1, <1>3 DEF DriftExact, rulesUpToDate

(* The drift check finds exactly the lists that do not mean what is declared *)
(* (rules_drift.go), for lists of any length and whatever people do to the   *)
(* rules in GrowthBook.                                                     *)
THEOREM ExactDrift ==
  ASSUME RuleInputs
  PROVE  RuleSpec => []DriftExact
<1>1. RuleSpec => []DriftTypes
  BY DriftInit, DriftNext, PTL DEF RuleSpec
<1> QED  BY <1>1, DriftExactly, PTL
=============================================================================
