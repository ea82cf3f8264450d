---------------------------------- MODULE Fdt ----------------------------------
(***************************************************************************)
(* The reader of the flat device tree (fdt.c).  A tree is a sequence of    *)
(* items, as the firmware wrote them: nodes begin and end around           *)
(* properties and other nodes.  In memory it is a structure block of words *)
(* of four bytes, and the functions of fdt.c move a pointer over it.  A    *)
(* pointer is the number of a word, from 1, or NULL.                       *)
(***************************************************************************)
EXTENDS Integers, Sequences, FiniteSets, SequencesExt

CONSTANTS Trees,  \* the device trees considered, a sequence
          Radix   \* what a word can hold: 2^32

NULL == 0

FDT_BEGIN_NODE == 1
FDT_END_NODE == 2
FDT_PROP == 3
FDT_NOP == 4
FDT_END == 9
Text == 100       \* a word of a name: no token

Begin(name, unit, bytes) == [t |-> "begin", name |-> name, unit |-> unit, bytes |-> bytes, cells |-> <<>>]
Prop(key, bytes, cells) == [t |-> "prop", name |-> key, unit |-> -1, bytes |-> bytes, cells |-> cells]
End == [t |-> "end", name |-> "", unit |-> -1, bytes |-> 0, cells |-> <<>>]
Nop == [End EXCEPT !.t = "nop"]

-----------------------------------------------------------------------------
(* The structure block.  A word has a value; the first word of a name, and  *)
(* the word that refers to the name of a property, also lead to a string.   *)

Word(v) == [v |-> v, name |-> "", unit |-> -1, bytes |-> 0]
String(item) == [v |-> Text, name |-> item.name, unit |-> item.unit, bytes |-> item.bytes]

Words(item) ==
    CASE item.t = "begin" -> <<Word(FDT_BEGIN_NODE), String(item)>>
                               \o [p \in 1 .. item.bytes \div 4 |-> Word(Text)]
      [] item.t = "prop" -> <<Word(FDT_PROP), Word(item.bytes), String(item)>>
                               \o [c \in DOMAIN item.cells |-> Word(item.cells[c])]
      [] item.t = "end" -> <<Word(FDT_END_NODE)>>
      [] item.t = "nop" -> <<Word(FDT_NOP)>>

\* A tree with its structure block, and the words at which its items start.
Tree(contents) ==
    LET laid(k) == FlattenSeq([l \in 1 .. k |-> Words(contents[l])]) IN
    [items |-> contents,
     words |-> Append(laid(Len(contents)), Word(FDT_END)),
     offset |-> [k \in DOMAIN contents |-> 1 + Len(laid(k - 1))]]

ASSUME FdtAssumption ==
    /\ Radix \in Nat \ {0}
    /\ \A t \in DOMAIN Trees : /\ Trees[t] = Tree(Trees[t].items)
                               /\ \A w \in DOMAIN Trees[t].words : Trees[t].words[w].v \in Nat

VARIABLES tree,  \* the number of the device tree of this machine
          call   \* the call of fdt_find, fdt_path or fdt_get_property at work or last done

NoCall == [fn |-> "none", arg |-> <<>>, from |-> NULL, at |-> NULL, path |-> <<>>,
           depth |-> 0, want |-> 0, done |-> TRUE, ret |-> NULL]

\* What a pointer reads.  Behind the end there is something that is no token.
At(w) == IF w \in DOMAIN Trees[tree].words THEN Trees[tree].words[w] ELSE Word(Text)

\* be_to_le(32 * n, data)
be_to_le(n, data) ==
    LET x[c \in 0 .. n] == IF c = 0 THEN 0 ELSE x[c - 1] * Radix + At(data + c - 1).v
    IN x[n]

-----------------------------------------------------------------------------
\* A mistake: the token for nothing is not skipped.
AfterNotNop(w) ==
    LET v == At(w).v IN
    IF v = FDT_BEGIN_NODE THEN w + 1 + (At(w + 1).bytes + 1 + 3) \div 4
    ELSE IF v = FDT_PROP THEN w + 3 + (At(w + 1).v + 3) \div 4
    ELSE IF v = FDT_END_NODE THEN w + 1
    ELSE w

\* Where the pointer goes from word w: the same switch in all three functions, with
\* no case for a word that is not a token.
After(w) ==
    LET v == At(w).v IN
    IF v = FDT_BEGIN_NODE THEN w + 1 + (At(w + 1).bytes + 1 + 3) \div 4
    ELSE IF v = FDT_PROP THEN w + 3 + (At(w + 1).v + 3) \div 4
    ELSE IF v \in {FDT_END_NODE, FDT_NOP} THEN w + 1
    ELSE w

\* Where a search that continues after node w starts: the end of the name is aligned
\* once more than in After.
Resumed(w) == IF w = NULL THEN 1 ELSE w + 1 + (At(w + 1).bytes + 1 + 4) \div 4

\* A path that starts with '/' starts at the root; a property is looked for from its node.
Called(fn, arg, from) ==
    [fn |-> fn, arg |-> arg, from |-> from, path |-> arg,
     at |-> IF fn = "find" THEN Resumed(from) ELSE IF from = NULL THEN 1 ELSE from,
     depth |-> IF fn = "path" THEN 1 ELSE 0, want |-> 1, done |-> FALSE, ret |-> NULL]

Return(r) == call' = [call EXCEPT !.done = TRUE, !.ret = r]
GoOn == call' = [call EXCEPT !.at = After(@)]
Token == At(call.at).v
Walking(fn) == call.fn = fn /\ ~call.done

\* One round of the loop of fdt_find: compare up to the '@'.
fdt_find ==
    LET found == Token = FDT_BEGIN_NODE /\ At(call.at + 1).name = call.arg[1] IN
    /\ Walking("find")
    /\ \/ Token = FDT_END /\ Return(NULL)
       \/ found /\ Return(call.at)
       \/ Token # FDT_END /\ ~found /\ GoOn
    /\ UNCHANGED tree

\* fdt_path: compare whole names, with one part of the path after the other, at any
\* depth.
fdt_path ==
    LET same == At(call.at + 1).unit = -1 /\ At(call.at + 1).name = call.path[1]
        up == call.depth - 1 < call.want
        found == Token = FDT_BEGIN_NODE /\ same /\ Len(call.path) = 1
    IN
    /\ Walking("path")
    /\ \/ (Token = FDT_END \/ (Token = FDT_END_NODE /\ up)) /\ Return(NULL)
       \/ found /\ Return(call.at)
       \/ /\ Token = FDT_BEGIN_NODE /\ ~found
          /\ call' = [call EXCEPT !.at = After(@), !.depth = @ + 1,
                                  !.want = IF same THEN @ + 1 ELSE @,
                                  !.path = IF same THEN Tail(@) ELSE @]
       \/ /\ Token = FDT_END_NODE /\ ~up
          /\ call' = [call EXCEPT !.at = After(@), !.depth = @ - 1]
       \/ Token \notin {FDT_BEGIN_NODE, FDT_END_NODE, FDT_END} /\ GoOn
    /\ UNCHANGED tree

\* A mistake: a property is taken from any node.
OwnPropertyAny == Token = FDT_PROP /\ At(call.at + 2).name = call.arg[1]

OwnProperty == Token = FDT_PROP /\ call.depth = 1 /\ At(call.at + 2).name = call.arg[1]

\* fdt_get_property: returns a pointer to the data, NULL if the node has no such
\* property.
fdt_get_property ==
    LET last == Token = FDT_END_NODE /\ call.depth = 1
        lost == call.depth = 0 /\ Token # FDT_BEGIN_NODE
    IN
    /\ Walking("prop")
    /\ \/ (Token = FDT_END \/ last \/ lost) /\ Return(NULL)
       \/ OwnProperty /\ ~lost /\ Return(call.at + 3)
       \/ /\ Token # FDT_END /\ ~last /\ ~lost /\ ~OwnProperty
          /\ call' = [call EXCEPT !.at = After(@),
                        !.depth = IF Token = FDT_BEGIN_NODE THEN @ + 1
                                  ELSE IF Token = FDT_END_NODE THEN @ - 1 ELSE @]
    /\ UNCHANGED tree

FdtStep == fdt_find \/ fdt_path \/ fdt_get_property

-----------------------------------------------------------------------------
(* What the functions promise, in terms of the tree.                        *)

items == Trees[tree].items
Offset(k) == Trees[tree].offset[k]
Items == DOMAIN items
ItemAt(w) == IF w = NULL THEN 0 ELSE CHOOSE k \in Items : Offset(k) = w
Depth(k, m) == Cardinality({l \in k .. m : items[l].t = "begin"})
                 - Cardinality({l \in k .. m : items[l].t = "end"})
Nodes(name) == {k \in Items : items[k].t = "begin" /\ items[k].name = name}
FirstOf(S) == IF S = {} THEN NULL ELSE Offset(CHOOSE k \in S : \A l \in S : k =< l)

\* The next node of that name after a node.
FindPromise(name, from) == FirstOf({k \in Nodes(name) : k > ItemAt(from)})

\* The first node of that whole name.  It should be the root or a child of the root, but
\* fdt_path does not look at the depth once a name matches.
PathPromise(name) == FirstOf({k \in Nodes(name) : items[k].unit = -1})

\* The data of a property of the node itself.
PropPromise(key, from) ==
    LET node == IF from = NULL THEN 1 ELSE ItemAt(from)
        own == {k \in Items : /\ k > node /\ items[k].t = "prop" /\ items[k].name = key
                              /\ Depth(node, k) = 1 /\ \A l \in node .. k : Depth(node, l) > 0}
    IN IF own = {} THEN NULL ELSE FirstOf(own) + 3

\* The name of node w, with its 0, ends where a word ends.
NameFillsWord(w) == w # NULL /\ (At(w + 1).bytes + 1) % 4 = 0

\* "Finds a device tree node with the given name", "Gets a property from a device tree
\* node. Returns null on failure": whatever the names, the lengths and the order of nodes
\* and properties, each function returns what the tree says, except that a search
\* continued after a node whose name fills its last word starts one word too late.  A path
\* of one part gives the first node with that whole name, at whatever depth it is.
AnswersRight ==
    call.done /\ call.fn # "none" =>
       /\ call.fn = "find" /\ ~NameFillsWord(call.from) => call.ret = FindPromise(call.arg[1], call.from)
       /\ call.fn = "path" => call.ret = PathPromise(call.arg[1])
       /\ call.fn = "prop" => call.ret = PropPromise(call.arg[1], call.from)
==============================================================================
