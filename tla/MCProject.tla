------------------------------ MODULE MCProject ------------------------------
(***************************************************************************)
(* Constants for TLC.  Each run of Project uses these, with its own Specs,   *)
(* Edits, OutOfBand, Faults and bound on disturbances.                       *)
(***************************************************************************)
EXTENDS Project, TLC

MCNames        == {"n1", "n2"}
MCDescriptions == {"", "d"}
MCPublicIds    == {"p1", "p2"}
MCEngines      == {"bayesian"}
MCDecimals     == {"0.95", "0.950", "0.05", "bad"}
MCParseFloat   == [d \in MCDecimals |-> 
                    CASE d = "bad" -> Nil [] d = "0.05" -> 5 [] OTHER -> 95]

Params(name, description, publicId) ==
  [name |-> name, description |-> description, publicId |-> publicId,
   restrictAccess |-> Nil, settings |-> Nil]

NothingInit == Params(Nil, Nil, Nil)

Declare(p, ip) == [forProvider |-> p, initProvider |-> ip]

Edit(field, value) == [field |-> field, to |-> value]

(* A name only; a description and a slug at creation only.                   *)
LifecycleSpecs ==
  {Declare(Params("n1", Nil, Nil), NothingInit),
   Declare(Params("n1", Nil, Nil), Params(Nil, "d", "p1"))}

LifecycleEdits == {Edit("name", "n2")}
LifecycleOutOfBand == {Edit("description", ""), Edit("publicId", "p2")}

WithSettings(p, settings) == [p EXCEPT !.settings = settings]

Settings(engine, confidence, pValue) ==
  [statsEngine |-> engine, confidenceLevel |-> confidence, pValueThreshold |-> pValue]

(* Settings in forProvider, with and without some in initProvider, in        *)
(* initProvider only, and one that is no number.                            *)
ConvergesSpecs ==
  LifecycleSpecs \cup
  {Declare(WithSettings(Params("n2", "d", Nil), Settings("bayesian", "0.95", "bad")), NothingInit),
   Declare(WithSettings(Params("n2", "d", Nil), Settings("bayesian", "0.950", Nil)), NothingInit),
   Declare(WithSettings(Params("n1", Nil, Nil), Settings(Nil, "0.95", "0.05")),
           WithSettings(NothingInit, Settings("bayesian", "0.05", Nil))),
   Declare(Params("n1", Nil, Nil),
           WithSettings(NothingInit, Settings(Nil, "0.950", "0.05")))}

ConvergesOutOfBand ==
  LifecycleOutOfBand \cup
  {Edit("settings", s) : s \in {Settings(Nil, Nil, Nil), Settings("bayesian", 5, 95)}}

AllFaults ==
  {Response(400, "none", "object"),
   Response(NoAnswer, "none", "empty"), Response(500, "none", "object"),
   Response(200, "none", "garbage"), Response(200, "none", "empty")}

IdSymmetry == Permutations(Ids \ Imported)
=============================================================================
