---------------------------- MODULE AddressSpaces ----------------------------
(***************************************************************************)
(* What the page tables promise: each address space is a partial function  *)
(* from virtual to physical pages with permissions.  A new space holds at  *)
(* most the kernel, which stays; after that a page is mapped only where    *)
(* nothing was mapped before, and every operation touches one page of one  *)
(* space.                                                                  *)
(***************************************************************************)
CONSTANTS VPages,   \* virtual pages
          Mappings, \* what callers can map a virtual page to
          Unmapped,
          Blank     \* the translations a new space can start with

VARIABLE space

Init == space = << >>

Create(r) ==
    /\ DOMAIN space' = (DOMAIN space) \cup {r}
    /\ \E b \in Blank : \A v \in VPages : space'[r][v] = b[v]

Map(r, v) == space[r][v] = Unmapped /\ space'[r][v] \in Mappings
Remove(r, v) == space[r][v] \in Mappings /\ space'[r][v] = Unmapped
Protect(r, v) ==
    /\ space[r][v] \in Mappings /\ space'[r][v] \in Mappings
    /\ space'[r][v].page = space[r][v].page

\* The pages whose translation a step changes.
Touched == {x \in (DOMAIN space) \X VPages : space'[x[1]][x[2]] # space[x[1]][x[2]]}

Next ==
    \/ /\ \E r \in (DOMAIN space') \ (DOMAIN space) : Create(r)
       /\ Touched = {}
    \/ /\ DOMAIN space' = DOMAIN space
       /\ \A x, y \in Touched :
             /\ x = y
             /\ Map(x[1], x[2]) \/ Remove(x[1], x[2]) \/ Protect(x[1], x[2])

Spec == Init /\ [][Next]_space
=============================================================================
