------------------------------ MODULE Containers ------------------------------
(***************************************************************************)
(* The two containers of the kernel that nothing calls at this commit, the *)
(* queue and the hash map.  They share no state, so a behaviour uses one   *)
(* of them.                                                                *)
(***************************************************************************)
EXTENDS RingQueue, HashMap

VARIABLE used  \* "queue" or "map"

allVars == <<vars, mapVars, used>>

ContainersInit == Init /\ MapInit /\ used \in {"queue", "map"}

ContainersNext ==
    \/ used = "queue" /\ Next /\ UNCHANGED <<mapVars, used>>
    \/ used = "map" /\ MapNext /\ UNCHANGED <<vars, used>>

ContainersSpec ==
    ContainersInit /\ [][ContainersNext]_allVars /\ MapFairness
==============================================================================
