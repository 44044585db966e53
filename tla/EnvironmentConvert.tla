------------------------- MODULE EnvironmentConvert -------------------------
(***************************************************************************)
(* internal/controller/environment/convert.go and the JSON of               *)
(* internal/clients/growthbook/environment.go.  A list of project ids is a  *)
(* sequence; Nil is a list that is not there, <<>> an empty one.             *)
(***************************************************************************)
EXTENDS StringLists

CONSTANTS Descriptions, ProjectLists, Parents

(* v1alpha1.EnvironmentParameters, EnvironmentInitParameters and, with Nil   *)
(* for the members left out, growthbook.EnvironmentRequest.                 *)
EnvironmentParameters ==
  [description  : Opt(Descriptions),
   toggleOnList : Opt(BOOLEAN),
   defaultState : Opt(BOOLEAN),
   projects     : Opt(ProjectLists),
   parent       : Opt(Parents)]

(* growthbook.Environment, without the id; "" is no parent.                  *)
Environments ==
  [description  : Descriptions \cup {""},
   toggleOnList : BOOLEAN,
   defaultState : BOOLEAN,
   projects     : ProjectLists \cup {<<>>},
   parent       : Parents \cup {""}]

NewEnvironment ==
  [description |-> "", toggleOnList |-> FALSE, defaultState |-> FALSE,
   projects |-> <<>>, parent |-> ""]
-----------------------------------------------------------------------------
(* An empty list is written neither to GrowthBook nor into the spec of the   *)
(* resource itself.                                                         *)
MarshalParameters(p) == [p EXCEPT !.projects = OmitEmpty(p.projects)]

MarshalRequest(req) == [req EXCEPT !.projects = OmitEmpty(req.projects)]

mergeInitProvider(p, ip) ==
  [f \in DOMAIN p |-> IF p[f] = Nil THEN ip[f] ELSE p[f]]

(* Mutated: the list of projects is left out of the PUT.                     *)
RequestWithoutProjects(p) == [p EXCEPT !.parent = Nil, !.projects = Nil]

(* PUT never carries the parent; POST does.                                  *)
updateRequest(p) == MarshalRequest([p EXCEPT !.parent = Nil])

createRequest(p, ip) ==
  LET merged == mergeInitProvider(p, ip) IN
  [updateRequest(merged) EXCEPT !.parent = merged.parent]
-----------------------------------------------------------------------------
(* Mutated: what initProvider has is not looked at.                          *)
AdoptInitOnly(dst, init, v) == IF dst = Nil THEN v ELSE dst

lateInitPtr(dst, init, v) == IF dst = Nil /\ init = Nil THEN v ELSE dst

(* Mutated: no parent is adopted as an empty one.                            *)
AdoptEmptyParent(p, ip, ext) ==
  [f \in DOMAIN p |->
     IF f = "projects" THEN p[f] ELSE lateInitPtr(p[f], ip[f], ext[f])]

(* Everything but the project list, and the parent only when there is one.   *)
lateInitialize(p, ip, ext) ==
  [f \in DOMAIN p |->
     IF f = "projects" \/ (f = "parent" /\ ext.parent = "") THEN p[f]
     ELSE lateInitPtr(p[f], ip[f], ext[f])]

isUpToDate(p, ext) ==
  /\ \A f \in {"description", "toggleOnList", "defaultState"} :
       p[f] \in {Nil, ext[f]}
  /\ p.projects = Nil \/ sameSet(p.projects, ext.projects)
=============================================================================
