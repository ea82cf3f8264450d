------------------------------- MODULE MCBoot -------------------------------
(* Machines of one to three harts, and ram disks of a few clusters. *)
EXTENDS Boot

-----------------------------------------------------------------------------
(* Device trees.                                                            *)

Node(name, unit, bytes, inner) == <<Begin(name, unit, bytes)>> \o inner \o <<End>>
Root(inner) == Node("", -1, 0, inner)
Cells(w) == <<Prop("#address-cells", 4, <<w>>), Prop("#size-cells", 4, <<w>>)>>
Cpu(unit, bytes, inner) == Node("cpu", unit, bytes, <<Prop("reg", 4, <<unit>>)>> \o inner)
Memory(cells) == Node("memory", 64, 15, <<Prop("device_type", 7, <<Text, Text>>),
                                          Prop("reg", 4 * Len(cells), cells)>>)
Initrd(from, to) == <<Prop("linux,initrd-end", 4 * Len(to), to),
                      Prop("linux,initrd-start", 4 * Len(from), from)>>
Chosen32 == Node("chosen", -1, 6, <<Prop("bootargs", 1, <<0>>)>> \o Initrd(<<168>>, <<184>>))
Plic == Node("plic", 12, 12, <<Prop("phandle", 4, <<FDT_END_NODE>>), Prop("reg", 16, <<0, 12, 0, 4>>)>>)
Cpus(inner) == Node("cpus", -1, 4, Cells(1) \o inner)
Soc(inner) == Node("soc", -1, 3, Cells(2) \o inner)
Cpu0 == Cpu(0, 5, <<>>)
Memory64(size) == Memory(<<0, 64, 0, size>>)

Machine(cpus, memory, rest) == Root(Cells(2) \o Cpus(cpus) \o memory \o rest)

Standard == Machine(Cpu0, Memory64(192), Chosen32 \o Soc(Plic))

Contents ==
    <<Standard,
     \* two and three harts; tokens for nothing; properties with the values of tokens
     Root(Chosen32 \o Cells(2) \o Memory64(128) \o Cpus(Cpu0 \o Cpu(1, 5, <<>>)) \o Plic),
     Machine(Cpu0 \o <<Nop>> \o Cpu(1, 5, <<Nop, Prop("status", 5, <<Text, 0>>)>>)
                  \o Cpu(2, 5, Node("interrupt-controller", -1, 20, <<Prop("reg", 4, <<FDT_END>>)>>)),
             <<Nop>> \o Memory64(200), Chosen32 \o Soc(Plic)),
     \* harts not numbered from 0, and a name that fills its words
     Machine(Cpu(1, 5, <<>>) \o Cpu(4, 5, <<>>), Memory64(192), Chosen32 \o Plic),
     Machine(Cpu(256, 7, <<>>) \o Cpu(257, 7, <<>>), Memory64(192), Chosen32 \o Plic),
     \* addresses of one word; an initrd of two
     Root(Cells(1) \o Memory(<<64, 136>>) \o Cpus(Cpu0) \o Chosen32 \o Plic),
     Machine(Cpu0, Memory64(192), Node("chosen", -1, 6, Initrd(<<0, 168>>, <<0, 184>>)) \o Plic),
     \* too little memory, or none
     Machine(Cpu0, Memory64(64), Chosen32 \o Plic),
     Machine(Cpu0, <<>>, Chosen32 \o Plic),
     \* no chosen, one only inside another node, another one before it, one without an initrd of its own
     Machine(Cpu0, Memory64(192), Plic),
     Machine(Cpu0, Memory64(192), Soc(Chosen32 \o Plic)),
     Machine(Cpu0, Memory64(192), Soc(Node("chosen", -1, 6, <<Prop("reg", 4, <<1>>)>>)) \o Chosen32 \o Plic),
     Machine(Cpu0, Memory64(192), Node("chosen", -1, 6, Node("old", -1, 3, Initrd(<<168>>, <<184>>))) \o Plic),
     \* no interrupt controller
     Machine(Cpu0, Memory64(192), Chosen32),
     \* the cells only of a child
     Root(Cpus(Cpu0) \o Memory64(192) \o Chosen32 \o Plic)>>

Laid == FoldLeft(LAMBDA laid, contents : Append(laid, Tree(contents)), <<>>, Contents)
MCTrees == Laid
MCUsual == {1}

-----------------------------------------------------------------------------
(* Images.                                                                  *)

Geometry(total, rootEntries, spc, end) ==
    [signed |-> TRUE, bps |-> 2, spc |-> spc, reserved |-> 1, fats |-> 2, fatSize |-> 3,
     rootEntries |-> rootEntries, total |-> total, end |-> end]

Good == Geometry(15, 8, 1, 30)
Geometries ==
    {Good, [Good EXCEPT !.signed = FALSE], [Good EXCEPT !.fatSize = 0],
     [Good EXCEPT !.bps = 0], [Good EXCEPT !.spc = 0], Geometry(12, 8, 1, 24), Geometry(30, 8, 1, 60), Geometry(15, 8, 1, 26), Geometry(15, 7, 1, 30)}

LongEntry(p) == [kind |-> "long", part |-> p, file |-> "none", first |-> 0, size |-> 7]
Short(f) == [kind |-> "short", part |-> "none", file |-> f, first |-> 0, size |-> 0]
Deleted(p, first, size) == <<LongEntry(p), [Short("none") EXCEPT !.first = first, !.size = size]>>
LongFile(f) == <<LongEntry(f), Short(f)>>

Both == LongFile("initd") \o LongFile("uwu")
Dirs ==
    {Both,
     <<Short("label")>> \o LongFile("uwu") \o LongFile("initd"),
     LongFile("initd"),
     <<LongEntry("part2"), LongEntry("part1"), Short("other")>> \o LongFile("initd"),
     <<LongEntry("part3"), LongEntry("part2"), LongEntry("part1"), Short("other")>>
        \o LongFile("uwu") \o LongFile("initd"),
     \* deleted files, one with the name of a file; a name that ends like that of a file
     Deleted("old", 2, 3) \o LongFile("initd") \o LongFile("uwu"),
     Deleted("initd", 3, 1) \o LongFile("uwu") \o LongFile("initd"),
     LongFile("initd") \o <<LongEntry("uwu"), LongEntry("part1"), Short("other")>> \o LongFile("uwu")}

Header == [magic |-> TRUE, class |-> 2, encoding |-> 1, version |-> 1, machine |-> 243, type |-> "exec",
           sections |-> TRUE]
Headers == {Header, [Header EXCEPT !.magic = FALSE], [Header EXCEPT !.class = 1], [Header EXCEPT !.encoding = 2],
            [Header EXCEPT !.version = 0], [Header EXCEPT !.machine = 62], [Header EXCEPT !.type = "dyn"],
            [Header EXCEPT !.sections = FALSE]}

Short2 == [initd |-> [chain |-> <<4, 2>>, size |-> 3], uwu |-> [chain |-> <<3>>, size |-> 2]]
Programs == Names \cup {"free"}
GoodElf == [f \in Programs |-> Header]

PlainImages ==
    {[geo |-> Good, dir |-> Both, files |-> Short2, elf |-> [f \in Programs |-> IF f \in Names THEN e[f] ELSE Header]] :
       e \in [Names -> Headers]}

Disks == UNION {{<<g, d, fs>> : d \in Dirs, fs \in FileSets(g, IF Accepted(g) THEN ClusterCount(g) ELSE 0)} :
                 g \in Geometries}

AllImages == {m : m \in PlainImages \cup
                 {[geo |-> t[1], dir |-> t[2], files |-> t[3], elf |-> GoodElf] : t \in Disks}}

MCPlain == PlainImages
MCImages == AllImages
=============================================================================
