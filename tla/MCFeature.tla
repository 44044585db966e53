------------------------------ MODULE MCFeature ------------------------------
(***************************************************************************)
(* Constants for TLC: runs of Feature.                                       *)
(***************************************************************************)
EXTENDS Feature, TLC

MCTexts      == {"x", "y"}
MCCoverages  == {"0.5", "0.50", "half"}
MCParseFloat == [c \in MCCoverages |-> IF c = "half" THEN Nil ELSE 50]

MCTagLists == {<<>>, <<"a", "b">>, <<"b", "a">>}

Bare(type, value) ==
  [type |-> type, id |-> Nil, description |-> Nil, enabled |-> Nil,
   condition |-> Nil, savedGroups |-> Nil, allEnvironments |-> TRUE,
   environments |-> Nil, value |-> value, coverage |-> Nil, hashAttribute |-> Nil,
   experimentId |-> Nil, variations |-> Nil]

Rollout(coverage) == [Bare("rollout", "x") EXCEPT !.coverage = coverage]

Params(value, description, tags, environments, rules) ==
  [valueType |-> Nil, defaultValue |-> value, description |-> description,
   project |-> Nil, tags |-> tags, archived |-> Nil, owner |-> Nil,
   environments |-> environments, rules |-> rules]

Text(p) == [p EXCEPT !.valueType = "string"]

NothingInit == Params(Nil, Nil, Nil, Nil, Nil)

Declare(p, ip) == [forProvider |-> p, initProvider |-> ip]

Edit(field, value) == [field |-> field, to |-> value]

Dev == [k \in {"dev"} |-> TRUE]

(* The rules, tags and a toggle are managed; or they are set once, when the  *)
(* feature is created, and left to people afterwards.                        *)
Managed  == Text(Params("v1", "d", <<"a", "b">>, Dev, <<Rollout("0.50")>>))
Creation == Params(Nil, "d", <<"a", "b">>, Dev, <<Rollout("0.5")>>)

(* The third is never built: a coverage that is no number.                   *)
MCSpecs ==
  {Declare(Managed, NothingInit),
   Declare(Text(Params("v1", Nil, Nil, Nil, Nil)), Creation),
   Declare([Managed EXCEPT !.rules = <<Rollout("half")>>], NothingInit)}

TheirRules == StoredRules(rulesRequest(<<Bare("force", "y"), Rollout("0.5")>>))

Their(value, archived, rules) ==
  [NewFeature EXCEPT !.valueType = "string", !.defaultValue = value,
                     !.archived = archived, !.owner = "o", !.rules = rules]

MCFound == {Their("v2", TRUE, TheirRules)}

MCEdits     == {Edit("rules", <<>>), Edit("environments", Nil)}
MCOutOfBand == {Edit("rules", TheirRules), Edit("archived", FALSE)}

MCFaults ==
  {Response(NoAnswer, "none", "empty"), Response(500, "none", "object"),
   Response(200, "none", "empty")}

FewFaults == {Response(500, "none", "object")}

Nothing == {}

EmptyRulesSpecs == {Declare(Text(Params("v1", Nil, Nil, Nil, <<>>)), NothingInit)}
=============================================================================
