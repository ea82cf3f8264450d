------------------------------ MODULE MCLoader ------------------------------
(* Small instances of Loader for TLC. *)
EXTENDS Loader

Seg(va, fs, ms, flags) == [load |-> TRUE, va |-> va, fs |-> fs, ms |-> ms, flags |-> flags]
Code == Seg(4, 3, 3, {"R", "X"})
Note == [Seg(4, 2, 2, {"R"}) EXCEPT !.load = FALSE]
Exec(segs) == [exec |-> TRUE, segs |-> segs]

\* One segment, at each place in a page: only zeros, file only, a file and zeros
\* behind it on the same, the next and the third page.
MCElfs ==
    {Exec(<<Seg(va, z[1], z[2], {"R", "W"})>>) :
        va \in {4, 6, 7}, z \in {<<0, 3>>, <<2, 2>>, <<3, 6>>, <<5, 9>>, <<2, 8>>}}
    \* a second segment on the same page, on the next, and on the page after that
    \cup {Exec(<<Note, Code, Seg(va, 2, 3, {"R", "W", "X"})>>) : va \in {7, 9, 12}}
    \* behind a segment without rights, on the same page
    \cup {Exec(<<Seg(4, 2, 2, {}), Seg(6, 2, 3, {"R"})>>)}
    \* on a page of the kernel, and on the page before it
    \cup {Exec(<<Seg(va, 2, 2, {"R", "W"})>>) : va \in {33, 30}}
    \cup {[exec |-> FALSE, segs |-> <<>>]}

MCArgLists == {<<>>, <<1>>, <<3, 0>>, <<4, 2>>}
=============================================================================
