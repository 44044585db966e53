--------------------------- MODULE MCProviderConfig ---------------------------
(***************************************************************************)
(* Constants for TLC: two resources in two namespaces, a config of each kind *)
(* with the same name.                                                      *)
(***************************************************************************)
EXTENDS ProviderConfig, TLC

MCNamespace == "m1" :> "a" @@ "m2" :> "b"

Config(kind, namespace) == [kind |-> kind, namespace |-> namespace, name |-> "default"]

MCConfigs ==
  {Config("ProviderConfig", "a"), Config("ClusterProviderConfig", ClusterNamespace)}

MCRefs ==
  [kind : {"ProviderConfig", "ClusterProviderConfig"}, name : {"default"}]

Payload(form, key, url) == [form |-> form, key |-> key, url |-> url]

MCPayloads ==
  {Payload("json", "k", Nil), Payload("bare", "k", Nil), Payload("json", Nil, Nil)}

(* Each resource starts with the config of another kind, and JSON with a key; *)
(* the ClusterProviderConfig was there before.                              *)
MCInit ==
  /\ Init
  /\ configs = [c \in Configs |-> IF c.kind = "ProviderConfig" THEN NewConfig
                                  ELSE HeldConfig]
  /\ mrs["m1"].ref.kind = "ProviderConfig"
  /\ mrs["m2"].ref.kind = "ClusterProviderConfig"
  /\ secret = Payload("json", "k", Nil)

MCSpec == MCInit /\ [][Next]_vars /\ Fairness
=============================================================================
