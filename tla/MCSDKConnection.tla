--------------------------- MODULE MCSDKConnection ---------------------------
(***************************************************************************)
(* Constants for TLC: runs of SDKConnection.                                 *)
(***************************************************************************)
EXTENDS SDKConnection, TLC

MCProjectLists == {<<>>, <<"a">>, <<"b", "a">>, <<"a", "b">>}
MCProxyHosts   == {"", "h1", "h2"}

Params(projects, host, encrypt, ruleIds) ==
  [name |-> "n", language |-> "go", environment |-> "prod", projects |-> projects,
   proxyHost |-> host, encryptPayload |-> encrypt, includeRuleIds |-> ruleIds]

InitParams(host, encrypt) ==
  [f \in DOMAIN Params(Nil, host, encrypt, Nil) |->
     CASE f = "proxyHost" -> host [] f = "encryptPayload" -> encrypt [] OTHER -> Nil]

Declare(p, ip) == [forProvider |-> p, initProvider |-> ip]

Edit(field, value) == [field |-> field, to |-> value]

(* Everything is managed; or host and encryption are set at creation only.   *)
MCSpecs ==
  {Declare(Params(<<"a", "b">>, "h1", Nil, TRUE), InitParams(Nil, Nil)),
   Declare(Params(Nil, Nil, Nil, Nil), InitParams("h1", TRUE))}

MCEdits     == {Edit("proxyHost", ""), Edit("projects", <<>>)}
MCOutOfBand == {Edit("proxyHost", "h2"), Edit("languages", {"go", "react"}),
                Edit("includeRuleIds", FALSE)}

MCFaults ==
  {Response(NoAnswer, "none", "empty"), Response(500, "none", "object"),
   Response(200, "none", "garbage"), Response(200, "none", "empty")}

FewFaults == {Response(500, "none", "object")}

EncryptedSpecs == {Declare(Params(Nil, Nil, TRUE, Nil), InitParams(Nil, Nil))}

Nothing == {}
=============================================================================
