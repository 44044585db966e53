--------------------------- MODULE ProjectConvert ---------------------------
(***************************************************************************)
(* internal/controller/project/convert.go: desired spec, API request, API   *)
(* object.  Free text is a small set of values; ParseFloat says what number *)
(* a decimal string stands for, several strings may stand for the same one, *)
(* and Nil is the parse error.                                              *)
(***************************************************************************)
EXTENDS GrowthBookClient

CONSTANTS Names, Descriptions, PublicIds, Engines, Decimals, ParseFloat

(* v1alpha1.ProjectParameters and ProjectInitParameters.                    *)
ProjectSettings(numbers) ==
  [statsEngine     : Opt(Engines),
   confidenceLevel : Opt(numbers),
   pValueThreshold : Opt(numbers)]

ProjectParameters ==
  [name           : Names,
   description    : Opt(Descriptions),
   publicId       : Opt(PublicIds),
   restrictAccess : Opt(BOOLEAN),
   settings       : Opt(ProjectSettings(Decimals))]

ProjectInitParameters ==
  [name           : Opt(Names),
   description    : Opt(Descriptions),
   publicId       : Opt(PublicIds),
   restrictAccess : Opt(BOOLEAN),
   settings       : Opt(ProjectSettings(Decimals))]

(* growthbook.Project, without the id and the dates; "" is a missing string. *)
Numbers == {ParseFloat[d] : d \in Decimals} \ {Nil}

Projects ==
  [name           : Names \cup {""},
   description    : Descriptions \cup {""},
   publicId       : PublicIds \cup {""},
   restrictAccess : Opt(BOOLEAN),
   settings       : Opt(ProjectSettings(Numbers))]

(* growthbook.ProjectRequest; Nil members are omitted.                       *)
ProjectRequests ==
  [name           : Names,
   description    : Opt(Descriptions),
   publicId       : Opt(PublicIds),
   restrictAccess : Opt(BOOLEAN),
   settings       : Opt(ProjectSettings(Numbers))]

(* The zero Project that an empty 2xx body leaves behind.                   *)
ZeroProject ==
  [name |-> "", description |-> "", publicId |-> "",
   restrictAccess |-> Nil, settings |-> Nil]
-----------------------------------------------------------------------------
(* forProvider wins.  (The CRD makes forProvider.name non-empty, so the      *)
(* name of initProvider is never taken.)                                    *)
mergeInitProvider(p, ip) ==
  [f \in DOMAIN p |-> IF p[f] = Nil THEN ip[f] ELSE p[f]]

Unparsable(d) == d # Nil /\ ParseFloat[d] = Nil

parseDecimal(d) == IF d = Nil THEN Nil ELSE ParseFloat[d]

(* The request cannot be built when a threshold is not a decimal.           *)
requestFails(p) ==
  /\ p.settings # Nil
  /\ Unparsable(p.settings.confidenceLevel) \/ Unparsable(p.settings.pValueThreshold)

(* Mutated: a description that is not set is sent as an empty one.            *)
ClearingRequest(p) ==
  [p EXCEPT !.description = IF @ = Nil THEN "" ELSE @, !.settings = Nil]

(* Mutated: the two thresholds are swapped.                                  *)
SwappingRequest(p) ==
  [p EXCEPT !.settings =
     IF p.settings = Nil THEN Nil
     ELSE [statsEngine     |-> p.settings.statsEngine,
           confidenceLevel |-> parseDecimal(p.settings.pValueThreshold),
           pValueThreshold |-> parseDecimal(p.settings.confidenceLevel)]]

request(p) ==
  [p EXCEPT !.settings =
     IF p.settings = Nil THEN Nil
     ELSE [statsEngine     |-> p.settings.statsEngine,
           confidenceLevel |-> parseDecimal(p.settings.confidenceLevel),
           pValueThreshold |-> parseDecimal(p.settings.pValueThreshold)]]

(* Mutated: what initProvider has is not looked at.                          *)
AdoptsInitOnly(p, ip, ext) == p.publicId = Nil /\ ext.publicId # ""

(* Only the public id is late-initialized, and never when initProvider has   *)
(* one.                                                                     *)
lateInitializes(p, ip, ext) ==
  p.publicId = Nil /\ ip.publicId = Nil /\ ext.publicId # ""

(* Mutated: a slug that GrowthBook does not show is adopted too.             *)
AdoptEmpty(p, ip, ext) ==
  IF p.publicId = Nil /\ ip.publicId = Nil
  THEN [p EXCEPT !.publicId = ext.publicId] ELSE p

lateInitialize(p, ip, ext) ==
  IF lateInitializes(p, ip, ext) THEN [p EXCEPT !.publicId = ext.publicId] ELSE p
-----------------------------------------------------------------------------
derefBool(b) == b = TRUE

fieldsUpToDate(p, ext) ==
  /\ p.name = ext.name
  /\ p.description \in {Nil, ext.description}
  /\ p.publicId \in {Nil, ext.publicId}
  /\ p.restrictAccess \in {Nil, derefBool(ext.restrictAccess)}

decimalEqual(desired, actual) ==
  desired = Nil \/ (actual # Nil /\ ParseFloat[desired] = actual)

derefString(s) == IF s = Nil THEN "" ELSE s

settingsUpToDate(desired, actual) ==
  \/ desired = Nil
  \/ actual = Nil /\ desired = [f \in DOMAIN desired |-> Nil]
  \/ /\ actual # Nil
     /\ desired.statsEngine \in {Nil, derefString(actual.statsEngine)}
     /\ decimalEqual(desired.confidenceLevel, actual.confidenceLevel)
     /\ decimalEqual(desired.pValueThreshold, actual.pValueThreshold)

isUpToDate(p, ext) ==
  fieldsUpToDate(p, ext) /\ settingsUpToDate(p.settings, ext.settings)
=============================================================================
