---------------------------- MODULE MCEnvironment ----------------------------
(***************************************************************************)
(* Constants for TLC: runs of Environment.                                   *)
(***************************************************************************)
EXTENDS Environment, TLC

MCDescriptions == {"", "d"}
MCProjectLists == {<<>>, <<"a">>, <<"a", "b">>, <<"b", "a">>, <<"a", "a">>}
MCParents      == {"staging"}

Params(description, toggle, projects, parent) ==
  [description |-> description, toggleOnList |-> toggle, defaultState |-> Nil,
   projects |-> projects, parent |-> parent]

NothingSet == Params(Nil, Nil, Nil, Nil)

Declare(p, ip) == [forProvider |-> p, initProvider |-> ip]

Edit(field, value) == [field |-> field, to |-> value]

MCSpecs ==
  {Declare(NothingSet, Params("d", TRUE, Nil, "staging")),
   Declare(Params("d", Nil, <<"a", "b">>, Nil), Params(Nil, Nil, <<"a">>, Nil))}

MCEdits == {Edit("description", ""), Edit("projects", <<"a">>)}

MCOutOfBand == {Edit("toggleOnList", FALSE), Edit("projects", <<"b", "a">>)}

MCFaults ==
  {Response(NoAnswer, "none", "empty"), Response(500, "none", "object"),
   Response(200, "none", "empty")}
=============================================================================
