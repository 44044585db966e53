-------------------------- MODULE GrowthBookClient --------------------------
(***************************************************************************)
(* How internal/clients/growthbook reads an HTTP exchange.  A response is   *)
(* reduced to what the client branches on: the status, whether the message  *)
(* of an error body says that the object is missing or has to be archived   *)
(* first, and whether the body holds a JSON object, nothing, or something   *)
(* that does not decode.  NoAnswer stands for a transport error and for the *)
(* 30 second timeout: the caller learns nothing, whatever the server did.   *)
(***************************************************************************)
EXTENDS Integers

CONSTANT Nil            \* a nil pointer or an omitted JSON member

Opt(S) == S \cup {Nil}

NoAnswer == 0

Responses == [status  : {NoAnswer, 200, 400, 403, 404, 500},
              message : {"none", "could not find", "archive the feature first"},
              body    : {"object", "empty", "garbage"}]

Response(status, message, body) ==
  [status |-> status, message |-> message, body |-> body]

(* 2xx is a success, unless a body is wanted and what came does not decode; *)
(* an empty body leaves the zero object in place without an error.          *)
DecodeResponse(r, wantsBody) ==
  IF r.status \notin 200..299 THEN "APIError"
  ELSE IF wantsBody /\ r.body = "garbage" THEN "decode error" ELSE "ok"

Fails(r, wantsBody) == DecodeResponse(r, wantsBody) # "ok"

(* Mutated: GrowthBook's other way of saying "not found" is not known.       *)
Only404(r) == r.status = 404

IsNotFound(r) ==
  \/ r.status = 404
  \/ r.status = 400 /\ r.message = "could not find"

(* Mutated: a 403 is never an archive requirement.                          *)
NeverArchive(r) == FALSE

IsArchiveRequired(r) ==
  r.status = 403 /\ r.message = "archive the feature first"

(* What the server says when all goes well, when the object is not there    *)
(* (both forms are seen in practice), and when it wants an archive first.   *)
Answered        == Response(200, "none", "object")
Missing         == {Response(404, "none", "object"),
                    Response(400, "could not find", "object")}
ArchiveFirst    == Response(403, "archive the feature first", "object")

(* Whether the server can have carried a request out, given its answer.     *)
MayHaveApplied(r) ==
  CASE r.status \in 200..299        -> {TRUE}
    [] r.status \in {NoAnswer, 500} -> BOOLEAN
    [] OTHER                        -> {FALSE}

(* A member that the request omits keeps the value it has.                  *)
Overlay(base, over) ==
  [f \in DOMAIN base |->
     IF f \in DOMAIN over /\ over[f] # Nil THEN over[f] ELSE base[f]]
=============================================================================
