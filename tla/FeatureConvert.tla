--------------------------- MODULE FeatureConvert ---------------------------
(***************************************************************************)
(* internal/controller/feature/convert.go and the JSON of                   *)
(* internal/clients/growthbook/feature.go.  The environments of a feature   *)
(* are a function from environment ids; an id that is not in its domain is  *)
(* not mentioned.                                                           *)
(***************************************************************************)
EXTENDS FeatureRules

CONSTANTS ValueTypes, Values, Descriptions, Projects, TagLists, Owners, Envs

Toggles(S) == UNION {[E -> S] : E \in SUBSET Envs}

(* v1alpha1.FeatureParameters and FeatureInitParameters.  A forProvider      *)
(* always has a valueType and a defaultValue, which may be "".              *)
FeatureParameters ==
  [valueType    : Opt(ValueTypes),
   defaultValue : Opt(Values),
   description  : Opt(Descriptions),
   project      : Opt(Projects),
   tags         : Opt(TagLists),
   archived     : Opt(BOOLEAN),
   owner        : Opt(Owners),
   environments : Opt(Toggles(Opt(BOOLEAN))),
   rules        : Opt(Seq(DeclaredRules))]

(* growthbook.Feature, without its id, revision and dates.                   *)
Features ==
  [valueType    : ValueTypes \cup {""},
   defaultValue : Values \cup {""},
   description  : Descriptions \cup {""},
   project      : Projects \cup {""},
   tags         : TagLists \cup {<<>>},
   archived     : BOOLEAN,
   owner        : Owners \cup {""},
   environments : Toggles(BOOLEAN),
   rules        : Seq(WireRules)]

(* growthbook.FeatureRequest, Nil for the members left out; the id is in the *)
(* path or added by POST.                                                   *)
FeatureRequests ==
  [valueType    : Opt(ValueTypes),
   defaultValue : Opt(Values),
   description  : Opt(Descriptions),
   project      : Opt(Projects),
   tags         : Opt(TagLists),
   archived     : Opt(BOOLEAN),
   owner        : Opt(Owners),
   environments : Opt(Toggles(Opt(BOOLEAN))),
   rules        : Opt(Seq(WireRules))]

(* The zero Feature, which an empty 2xx body leaves behind.                  *)
ZeroFeature ==
  [valueType |-> "", defaultValue |-> "", description |-> "", project |-> "",
   tags |-> <<>>, archived |-> FALSE, owner |-> "", environments |-> <<>>,
   rules |-> <<>>]
-----------------------------------------------------------------------------
(* The spec is stored without its empty lists and maps.                      *)
MarshalParameters(p) ==
  [f \in DOMAIN p |->
     IF f \in {"tags", "environments", "rules"} THEN OmitEmpty(p[f]) ELSE p[f]]

(* An empty default value, tag list or environment map never reaches         *)
(* GrowthBook; an empty rule list does.                                     *)
MarshalRequest(q) ==
  [f \in DOMAIN q |->
     CASE f = "defaultValue" /\ q[f] = ""    -> Nil
       [] f \in {"tags", "environments"}     -> OmitEmpty(q[f])
       [] OTHER                              -> q[f]]

Unset(p, f) ==
  p[f] = Nil \/ (f \in {"valueType", "defaultValue"} /\ p[f] = "")

mergeInitProvider(p, ip) ==
  [f \in DOMAIN p |-> IF Unset(p, f) /\ ip[f] # Nil THEN ip[f] ELSE p[f]]

(* The value type is sent at creation only.                                  *)
updateRequest(p) ==
  MarshalRequest([p EXCEPT !.valueType = Nil, !.rules = rulesRequest(p.rules)])

createRequest(p, ip) ==
  LET merged == mergeInitProvider(p, ip) IN
  [updateRequest(merged) EXCEPT !.valueType = merged.valueType]

(* The request that archives, and does nothing else.                        *)
archiveRequest == [[f \in DOMAIN ZeroFeature |-> Nil] EXCEPT !.archived = TRUE]
-----------------------------------------------------------------------------
lateInitPtr(dst, init, v) == IF dst = Nil /\ init = Nil THEN v ELSE dst

(* Mutated: no owner and no project are adopted as empty ones.               *)
AdoptEmpty(p, ip, ext) ==
  [f \in DOMAIN p |->
     IF f \in {"description", "owner", "project"}
     THEN lateInitPtr(p[f], ip[f], ext[f]) ELSE p[f]]

(* The description always, owner and project when GrowthBook has one.        *)
lateInitialize(p, ip, ext) ==
  [f \in DOMAIN p |->
     IF f = "description" \/ (f \in {"owner", "project"} /\ ext[f] # "")
     THEN lateInitPtr(p[f], ip[f], ext[f]) ELSE p[f]]

valueUpToDate(p, ext) ==
  p.valueType = ext.valueType /\ p.defaultValue = ext.defaultValue

ownershipUpToDate(p, ext) ==
  /\ \A f \in {"archived", "owner"} : p[f] \in {Nil, ext[f]}
  /\ p.tags = Nil \/ sameSet(p.tags, ext.tags)

metadataUpToDate(p, ext) ==
  /\ \A f \in {"description", "project"} : p[f] \in {Nil, ext[f]}
  /\ ownershipUpToDate(p, ext)

(* Mutated: environments that are not declared count as drift.               *)
SameEnvironments(want, got) ==
  DOMAIN want = DOMAIN got /\ \A k \in DOMAIN want : want[k] \in {Nil, got[k]}

environmentsUpToDate(want, got) ==
  \A k \in DOMAIN want : want[k] # Nil => k \in DOMAIN got /\ got[k] = want[k]

isUpToDate(p, ext) ==
  /\ valueUpToDate(p, ext)
  /\ metadataUpToDate(p, ext)
  /\ environmentsUpToDate(Elements(p.environments), ext.environments)
  /\ rulesUpToDate(p.rules, ext.rules)
=============================================================================
