----------------------------- MODULE Credentials -----------------------------
(***************************************************************************)
(* internal/clients/growthbook/client.go: from the payload of a provider    *)
(* config's secret to a client.  A payload is what is left once white space *)
(* is trimmed: "blank", JSON that decodes ("json") or does not ("broken"),  *)
(* or anything else ("bare"); key and url are its members, Nil when they    *)
(* are empty or not there, and the key of a bare payload is all of it.      *)
(***************************************************************************)
CONSTANTS Nil,
          DefaultAPIURL,
          Invalid,        \* an URL that does not parse
          Error           \* what is returned instead of credentials or a client

URL(url) == IF url = Nil THEN DefaultAPIURL ELSE url

(* Mutated: only JSON is taken.                                             *)
ParseJSON(data) ==
  IF data.form # "json" \/ data.key = Nil THEN Error
  ELSE [apiKey |-> data.key, apiURL |-> URL(data.url)]

ParseCredentials(data) ==
  IF data.form \in {"blank", "broken"} \/ data.key = Nil THEN Error
  ELSE [apiKey |-> data.key,
        apiURL |-> URL(IF data.form = "bare" THEN Nil ELSE data.url)]

New(creds) ==
  IF creds.apiKey = Nil \/ URL(creds.apiURL) = Invalid THEN Error
  ELSE [baseURL |-> URL(creds.apiURL), apiKey |-> creds.apiKey]

NewFromSecret(data) ==
  LET creds == ParseCredentials(data) IN
  IF creds = Error THEN Error ELSE New(creds)
=============================================================================
