----------------------------- MODULE MCContainers -----------------------------
(* Small instances of the containers for TLC. *)
EXTENDS Containers

\* Two keys with the same hash, one that shares its bucket with them until the map
\* has grown twice, and one in the other bucket.
MCHash == [k \in {"a", "b", "c", "d"} |-> CASE k = "a" -> 1 [] k = "b" -> 1 [] k = "c" -> 5 [] OTHER -> 2]
MCSizes == {<<1, 1>>, <<2, 1>>, <<1, 2>>}
==============================================================================
