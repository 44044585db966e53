---------------------------- MODULE MCTwoProcesses ----------------------------
(***************************************************************************)
(* Constants for TLC: run TwoProcesses.                                     *)
(***************************************************************************)
EXTENDS TwoProcesses, TLC

MCParseFloat == [d \in {} |-> Nil]

Params(name, description, publicId) ==
  [name |-> name, description |-> description, publicId |-> publicId,
   restrictAccess |-> Nil, settings |-> Nil]

(* A name and a description; the slug is left to GrowthBook, so that the      *)
(* processes adopt the one they find.                                       *)
MCSpecs == {[forProvider |-> Params("n1", "d", Nil), initProvider |-> Params(Nil, Nil, Nil)]}

MCFaults == {Response(NoAnswer, "none", "empty"), Response(200, "none", "empty")}

(* People choose another slug, or take the description away: the one is to be *)
(* left alone, the other makes a process send a PUT.                        *)
MCOutOfBand == {[field |-> "publicId", to |-> "p2"], [field |-> "description", to |-> ""]}

IdSymmetry == Permutations(Ids \ Imported)
=============================================================================
