------------------------ MODULE SDKConnectionConvert ------------------------
(***************************************************************************)
(* internal/controller/sdkconnection/convert.go and the JSON of             *)
(* internal/clients/growthbook/sdkconnection.go, with one field of each     *)
(* kind: sdkVersion is treated as proxyHost is, proxyEnabled as             *)
(* encryptPayload, allowedCustomFieldsInMetadata as projects, and the other *)
(* thirteen toggles as includeRuleIds.                                      *)
(***************************************************************************)
EXTENDS StringLists

CONSTANTS Names, Languages, Environments, ProjectLists, ProxyHosts

(* v1alpha1.SDKConnectionParameters; with Nil for the members left out, and  *)
(* no empty list, growthbook.SDKConnectionRequest.                          *)
SDKConnectionParameters ==
  [name           : Names,
   language       : Languages,
   environment    : Environments,
   projects       : Opt(ProjectLists),
   proxyHost      : Opt(ProxyHosts),
   encryptPayload : Opt(BOOLEAN),
   includeRuleIds : Opt(BOOLEAN)]

SDKConnectionInitParameters ==
  [name           : Opt(Names),
   language       : Opt(Languages),
   environment    : Opt(Environments),
   projects       : Opt(ProjectLists),
   proxyHost      : Opt(ProxyHosts),
   encryptPayload : Opt(BOOLEAN),
   includeRuleIds : Opt(BOOLEAN)]

(* growthbook.SDKConnection.  The id, the client key and the encryption key  *)
(* that GrowthBook generates are known by the id.  A toggle that this        *)
(* GrowthBook does not report is Nil.                                       *)
SDKConnections ==
  [name           : Names \cup {""},
   languages      : SUBSET Languages,
   environment    : Environments \cup {""},
   projects       : ProjectLists \cup {<<>>},
   proxyHost      : ProxyHosts \cup {""},
   encryptPayload : BOOLEAN,
   includeRuleIds : Opt(BOOLEAN)]

(* The zero SDKConnection that an empty 2xx body leaves behind.              *)
ZeroConnection ==
  [name |-> "", languages |-> {}, environment |-> "", projects |-> <<>>,
   proxyHost |-> "", encryptPayload |-> FALSE, includeRuleIds |-> Nil]
-----------------------------------------------------------------------------
(* An empty list is written neither to GrowthBook nor into the spec of the   *)
(* resource itself.                                                         *)
MarshalParameters(p) == [p EXCEPT !.projects = OmitEmpty(p.projects)]

request(p) == [p EXCEPT !.projects = OmitEmpty(p.projects)]

mergeInitProvider(p, ip) ==
  [f \in DOMAIN p |-> IF p[f] = Nil THEN ip[f] ELSE p[f]]

createRequest(p, ip) == request(mergeInitProvider(p, ip))

(* What the members of a request are called in the object: one language is   *)
(* sent, a set is reported.                                                 *)
Members(body) ==
  [f \in DOMAIN ZeroConnection |->
     IF f = "languages" THEN {body.language} ELSE body[f]]
-----------------------------------------------------------------------------
identityFieldsUpToDate(p, sc) ==
  p.name = sc.name /\ p.environment = sc.environment /\ p.language \in sc.languages

scopeFieldsUpToDate(p, sc) ==
  p.projects = Nil \/ sameSet(p.projects, sc.projects)

scalarFieldsUpToDate(p, sc) ==
  /\ p.encryptPayload \in {Nil, sc.encryptPayload}
  /\ p.proxyHost \in {Nil, sc.proxyHost}

boolFieldsUpToDate(p, sc) == p.includeRuleIds \in {Nil, sc.includeRuleIds}

isUpToDate(p, sc) ==
  /\ identityFieldsUpToDate(p, sc) /\ scopeFieldsUpToDate(p, sc)
  /\ scalarFieldsUpToDate(p, sc) /\ boolFieldsUpToDate(p, sc)
=============================================================================
