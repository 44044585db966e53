---------------------------- MODULE ExternalResource ----------------------------
(***************************************************************************)
(* What every controller of the provider promises about one managed         *)
(* resource and the objects of GrowthBook that come from it, without        *)
(* reconciles, caches, annotations or requests.  "held" objects are those   *)
(* the resource answers for, "loose" ones nobody does: they were there      *)
(* before, or they were lost on the way.                                    *)
(***************************************************************************)
CONSTANTS Ids,       \* the ids an object may have
          MayDelete  \* "Delete" is among the management policies

VARIABLES resource,  \* "none", "declared" or "deleting"
          objects    \* id -> "absent", "held" or "loose"

vars == <<resource, objects>>

Held == {id \in Ids : objects[id] = "held"}

Init ==
  /\ resource = "declared"
  /\ objects \in [Ids -> {"absent", "loose"}]

Declare == resource = "none" /\ resource' = "declared" /\ UNCHANGED objects

RequestDeletion ==
  resource = "declared" /\ resource' = "deleting" /\ UNCHANGED objects

(* The resource goes only when nothing is left that it answers for, or when  *)
(* it was told to leave it behind.                                          *)
Forget ==
  /\ resource # "none" /\ resource' = "none"
  /\ MayDelete => Held = {}
  /\ objects' = [id \in Ids |-> IF id \in Held THEN "loose" ELSE objects[id]]

(* The resource makes an object, or takes over one that is there: never a    *)
(* second one.                                                              *)
Hold(id) ==
  /\ resource # "none" /\ Held = {} /\ objects[id] # "held"
  /\ objects' = [objects EXCEPT ![id] = "held"]
  /\ UNCHANGED resource

(* Made by others, or by a request nobody waits for any more; or lost before *)
(* anybody noted its id.                                                    *)
Lose(id) ==
  /\ IF objects[id] = "held" THEN resource # "none" ELSE objects[id] = "absent"
  /\ objects' = [objects EXCEPT ![id] = "loose"]
  /\ UNCHANGED resource

(* Deleted, by the provider or by others.                                   *)
Vanish(id) ==
  /\ objects[id] # "absent"
  /\ objects' = [objects EXCEPT ![id] = "absent"]
  /\ UNCHANGED resource

Next ==
  \/ Declare \/ RequestDeletion \/ Forget
  \/ \E id \in Ids : Hold(id) \/ Lose(id) \/ Vanish(id)

Spec == Init /\ [][Next]_vars
=============================================================================
