------------------------------ MODULE BootProofs ------------------------------
(***************************************************************************)
(* Theorems about kinit and the reader of the ram disk, for every device   *)
(* tree, image of a file system, size of a page and place of the kernel.   *)
(***************************************************************************)
EXTENDS Boot, Loops, FiniteSetTheorems

-----------------------------------------------------------------------------
(* The image and its chains of clusters.                                    *)

\* A cluster of an accepted image holds at least one word.
LEMMA ClusterSizeNat ==
    ASSUME Written(disk), Accepted(geo)
    PROVE  ClusterSize(geo) \in Nat \ {0}
<1>1. geo.bps \in Nat /\ geo.spc \in Nat /\ geo.bps # 0
  BY DEF Written, geo
<1>2. geo.spc # 0
  BY Fat16Assumption DEF Accepted, ClusterCount
<1>3. QED
  BY <1>1, <1>2 DEF ClusterSize

\* The number of clusters is a number.
LEMMA ClusterCountInt ==
    ASSUME Written(disk)
    PROVE  ClusterCount(geo) \in Int
<1>1. /\ geo.bps \in Nat /\ geo.spc \in Nat /\ geo.reserved \in Nat /\ geo.fats \in Nat
      /\ geo.fatSize \in Nat /\ geo.rootEntries \in Nat /\ geo.total \in Nat /\ EntrySize \in Nat
      /\ Fat16Limit \in Nat
  BY Fat16Assumption DEF Written, geo
<1>2. geo.rootEntries * EntrySize + geo.bps - 1 \in Int
  BY <1>1
<1>3. RootSectors(geo) \in Int
  <2>1. CASE geo.bps = 0
    BY <2>1 DEF RootSectors
  <2>2. CASE geo.bps # 0
    BY <1>1, <1>2, <2>2 DEF RootSectors
  <2>3. QED
    BY <2>1, <2>2
<1>4. DataSectors(geo) \in Int
  BY <1>1, <1>3 DEF DataSectors
<1>5. CASE geo.spc = 0
  BY <1>1, <1>5 DEF ClusterCount
<1>6. CASE geo.spc # 0
  BY <1>1, <1>4, <1>6 DEF ClusterCount
<1>7. QED
  BY <1>5, <1>6

\* What Filed says about one file.
LEMMA ChainFacts ==
    ASSUME Written(disk), Accepted(geo), NEW f \in Names
    PROVE  LET chain == files[f].chain IN
           /\ Filed(files, geo, ClusterCount(geo))
           /\ chain \in Seq(2 .. ClusterCount(geo) + 1) /\ IsInjective(chain)
           /\ files[f].size \in SizesOf(Len(chain), geo)
  BY DEF Written, Filed, geo, files

\* Every cluster of a chain knows its file and its place.
LEMMA ChainPlaces ==
    ASSUME Written(disk), Accepted(geo), NEW f \in Names, NEW k \in 1 .. Len(files[f].chain)
    PROVE  LET c == files[f].chain[k] IN Owned(c) /\ Owner(c) = f /\ Position(c) = k
<1> DEFINE chain == files[f].chain
           c == chain[k]
<1>1. Filed(files, geo, ClusterCount(geo)) /\ chain \in Seq(2 .. ClusterCount(geo) + 1) /\ IsInjective(chain)
  BY ChainFacts
<1>2. k \in DOMAIN chain /\ DOMAIN chain = 1 .. Len(chain)
  BY <1>1
<1>3. c \in Range(chain)
  BY <1>2 DEF Range
<1>4. \A h \in Names : c \in Range(files[h].chain) => h = f
  BY <1>1, <1>3 DEF Filed
<1>5. Owned(c) /\ Owner(c) = f
  BY <1>3, <1>4 DEF Owned, Owner
<1>6. \A j \in DOMAIN chain : chain[j] = c => j = k
  BY <1>1, <1>2 DEF IsInjective
<1> HIDE DEF c
<1>7. Position(c) = k
  BY <1>2, <1>5, <1>6 DEF Position, c
<1>8. QED
  BY <1>5, <1>7 DEF c

\* get_next_cluster follows the chain, and returns 0 behind its end.
LEMMA NextFollows ==
    ASSUME Written(disk), Accepted(geo), count = ClusterCount(geo), NEW f \in Names,
           NEW k \in 1 .. Len(files[f].chain), HasData(files[f].chain[k])
    PROVE  get_next_cluster(files[f].chain[k]) =
              IF k < Len(files[f].chain) THEN files[f].chain[k + 1] ELSE 0
<1> DEFINE chain == files[f].chain
           c == chain[k]
<1>1. Owned(c) /\ Owner(c) = f /\ Position(c) = k
  BY ChainPlaces
<1>2. chain \in Seq(2 .. ClusterCount(geo) + 1)
  BY ChainFacts
<1>3. Fat(c) = IF k < Len(chain) THEN chain[k + 1] ELSE Eoc
  BY <1>1 DEF Fat
<1>4. count \in Int /\ count < Fat16Limit
  BY ClusterCountInt DEF Accepted
<1>5. c \in 2 .. count + 1
  <2>1. k \in 1 .. Len(chain)
    OBVIOUS
  <2> HIDE DEF chain
  <2>2. QED
    BY <1>2, <1>4, <2>1
<1>6. ~(c > count \/ c < 2)
  BY <1>4, <1>5 DEF HasData
<1> HIDE DEF c
<1>7. get_next_cluster(c) = IF Fat(c) > count + 2 THEN 0 ELSE Fat(c)
  BY <1>6 DEF get_next_cluster
<1>8. CASE k < Len(chain)
  <2>1. chain[k + 1] \in 2 .. count + 1
    BY <1>2, <1>4, <1>8, SMTT(30)
  <2>2. QED
    BY <1>3, <1>4, <1>7, <1>8, <2>1 DEF c
<1>9. CASE ~(k < Len(chain))
  <2>1. Eoc > count + 2
    BY <1>4, Fat16Assumption
  <2>2. QED
    BY <1>3, <1>7, <1>9, <2>1 DEF c
<1>10. QED
  BY <1>8, <1>9

\* The words that Copy appends are those of the file, at their places.
LEMMA DataWords ==
    ASSUME Written(disk), Accepted(geo), NEW f \in Names, NEW k \in 1 .. Len(files[f].chain),
           NEW x \in Int
    PROVE  Data(files[f].chain[k], x) = <<f, (k - 1) * ClusterSize(geo) + x>>
  BY ChainPlaces DEF Data

\* A file starts at a cluster, or at 0.
LEMMA FirstClusterNat ==
    ASSUME Written(disk), Accepted(geo), NEW f \in Names
    PROVE  FirstCluster(f) \in Nat
<1> DEFINE chain == files[f].chain
<1>1. chain \in Seq(2 .. ClusterCount(geo) + 1) /\ ClusterCount(geo) \in Int
  BY ChainFacts, ClusterCountInt
<1>2. FirstCluster(f) = IF chain = <<>> THEN 0 ELSE chain[1]
  BY DEF FirstCluster
<1> HIDE DEF chain
<1>3. chain # <<>> => chain[1] \in 2 .. ClusterCount(geo) + 1
  BY <1>1
<1>4. QED
  BY <1>1, <1>2, <1>3

\* get_next_cluster returns a number, for any cluster.
LEMMA NextNat ==
    ASSUME Written(disk), Accepted(geo), NEW c \in Nat
    PROVE  get_next_cluster(c) \in Nat
<1>1. Fat(c) \in Nat
  <2>1. CASE ~Owned(c)
    BY <2>1 DEF Fat
  <2>2. CASE Owned(c)
    <3> DEFINE f == Owner(c)
               chain == files[f].chain
               k == Position(c)
    <3>1. f \in Names /\ c \in Range(chain)
      BY <2>2 DEF Owned, Owner
    <3>2. chain \in Seq(2 .. ClusterCount(geo) + 1) /\ ClusterCount(geo) \in Int
      BY <3>1, ChainFacts, ClusterCountInt
    <3>3. k \in DOMAIN chain
      BY <3>1 DEF Range, Position
    <3>4. Fat(c) = IF k < Len(chain) THEN chain[k + 1] ELSE Eoc
      BY <2>2 DEF Fat
    <3> HIDE DEF f, chain, k
    <3>5. k < Len(chain) => chain[k + 1] \in 2 .. ClusterCount(geo) + 1
      BY <3>2, <3>3
    <3>6. QED
      BY <3>2, <3>4, <3>5, Fat16Assumption
  <2>3. QED
    BY <2>1, <2>2
<1>2. QED
  BY <1>1 DEF get_next_cluster

-----------------------------------------------------------------------------
(* The root directory.                                                      *)

\* The loop over the directory as a function, and that it exists.
Visits(v) ==
    v = [k \in 0 .. Len(dir) |->
           IF k = 0 THEN 1
           ELSE LET at == v[k - 1]
                IN IF at > Len(dir) THEN at ELSE at + IF Long(at) THEN 2 ELSE 1]

\* The loop has run, over natural numbers.
LEMMA VisitsExist ==
    ASSUME Len(dir) \in Nat
    PROVE  \E v : Visits(v) /\ Searched = {v[k] : k \in DOMAIN v} \cap DOMAIN dir
<1> DEFINE n == Len(dir)
           Step(at) == IF at > n THEN at ELSE at + IF Long(at) THEN 2 ELSE 1
           F == [x \in Nat \X (0 .. n - 1) |-> Step(x[1])]
           Loop(v) == [k \in 0 .. n |-> IF k = 0 THEN 1 ELSE Step(v[k - 1])]
           v0 == CHOOSE v : v = Loop(v)
<1>1. \A at \in Nat : Step(at) \in Nat
  OBVIOUS
<1>2. Searched = {v0[k] : k \in DOMAIN v0} \cap DOMAIN dir
  BY DEF Searched
<1>3. \A v : Visits(v) <=> v = Loop(v)
  BY DEF Visits
<1> HIDE DEF n, Step
<1>4. \E v : v = Loop(v)
  <2>1. Rounds(F, Nat, n)
    BY <1>1 DEF Rounds
  <2>2. \A x \in Nat, j \in 0 .. n - 1 : F[<<x, j>>] = Step(x)
    OBVIOUS
  <2> HIDE DEF F
  <2>3. n \in Nat /\ 1 \in Nat
    BY DEF n
  <2>4. PICK g : g \in Passes(F, Nat, n, 1)
    BY <2>1, <2>3, LoopExists
  <2>5. \A k \in 0 .. n : k # 0 => k \in 1 .. n /\ k - 1 \in 0 .. n - 1 /\ g[k - 1] \in Nat
    BY <2>3, <2>4 DEF Passes
  <2>6. \A k \in 0 .. n : g[k] = Loop(g)[k]
    BY <2>2, <2>4, <2>5 DEF Passes
  <2>7. g = Loop(g)
    BY <2>4, <2>6 DEF Passes
  <2>8. QED
    BY <2>7
<1>5. v0 = Loop(v0)
  BY <1>4
<1>6. QED
  <2> HIDE DEF v0, Loop
  <2>1. QED
    BY <1>2, <1>3, <1>5

\* The loop cannot step over an entry that follows no long one.
LEMMA Visited ==
    ASSUME Written(disk), NEW k \in DOMAIN dir, k - 1 \in DOMAIN dir => ~Long(k - 1)
    PROVE  k \in Searched
<1>1. Len(dir) \in Nat /\ DOMAIN dir = 1 .. Len(dir)
  <2>1. dir \in Seq(Range(dir))
    BY DEF Written, dir
  <2>2. QED
    BY <2>1
<1>2. PICK v : Visits(v) /\ Searched = {v[j] : j \in DOMAIN v} \cap DOMAIN dir
  BY <1>1, VisitsExist
<1>3. DOMAIN v = 0 .. Len(dir) /\ v[0] = 1
      /\ \A j \in 1 .. Len(dir) : v[j] = LET at == v[j - 1]
                                         IN IF at > Len(dir) THEN at ELSE at + IF Long(at) THEN 2 ELSE 1
  BY <1>1, <1>2 DEF Visits
<1> SUFFICES ASSUME k \notin {v[j] : j \in DOMAIN v} PROVE FALSE
  BY <1>2
<1> DEFINE T == {j \in Nat : j =< Len(dir) => v[j] \in Nat /\ j < v[j] /\ v[j] < k}
<1>4. 0 \in T
  <2>1. v[0] # k
    BY <1>1, <1>3
  <2>2. QED
    BY <1>1, <1>3, <2>1
<1>5. ASSUME NEW j \in Nat, j \in T PROVE j + 1 \in T
  <2> SUFFICES ASSUME j + 1 =< Len(dir)
               PROVE  v[j + 1] \in Nat /\ j + 1 < v[j + 1] /\ v[j + 1] < k
    OBVIOUS
  <2>1. v[j] \in Nat /\ j < v[j] /\ v[j] < k
    BY <1>1, <1>5
  <2>2. v[j] =< Len(dir) /\ v[j] \in DOMAIN dir
    BY <1>1, <2>1
  <2>3. v[j + 1] = v[j] + IF Long(v[j]) THEN 2 ELSE 1
    <3>1. j + 1 \in 1 .. Len(dir) /\ (j + 1) - 1 = j
      BY <1>1
    <3>2. QED
      BY <1>1, <1>3, <2>1, <2>2, <3>1
  <2>4. v[j + 1] # k
    BY <1>1, <1>3
  <2>5. CASE Long(v[j])
    <3>1. v[j] # k - 1
      BY <2>2, <2>5
    <3>2. QED
      BY <1>1, <2>1, <2>3, <2>4, <2>5, <3>1
  <2>6. CASE ~Long(v[j])
    BY <1>1, <2>1, <2>3, <2>4, <2>6
  <2>7. QED
    BY <2>5, <2>6
<1> HIDE DEF T
<1>6. Len(dir) \in T
  BY <1>1, <1>4, <1>5, SetInduction
<1>7. QED
  BY <1>1, <1>6 DEF T

\* What the search returns lies in the directory, behind an entry with that name.
LEMMA FoundEntry ==
    ASSUME Written(disk), NEW f \in Names, Hits(f) # {}
    PROVE  LET k == First(Hits(f)) IN /\ k \in DOMAIN dir /\ Matches(k, f)
                                      /\ k + 1 \in DOMAIN dir
<1>1. DOMAIN dir \subseteq Nat
  <2>1. dir \in Seq(Range(dir))
    BY DEF Written, dir
  <2>2. QED
    BY <2>1
<1>2. \A k \in Hits(f) : k \in DOMAIN dir /\ Matches(k, f)
  BY DEF Hits, Searched
<1>3. \E k \in Hits(f) : \A l \in Hits(f) : k =< l
  BY <1>1, <1>2, LeastNumber
<1>4. First(Hits(f)) \in Hits(f)
  BY <1>3 DEF First
<1>5. QED
  BY <1>2, <1>4 DEF Written, dir, Long, Matches

\* An unambiguous file of the directory is found: the search returns its own short
\* entry, and nothing only if the name is not there.
LEMMA FindRight ==
    ASSUME Written(disk), NEW f \in Names, Unambiguous(f)
    PROVE  /\ Hits(f) = {} <=> ~InDir(f)
           /\ Hits(f) # {} => Found(f).file = f
<1>1. ASSUME NEW k \in DOMAIN dir, Long(k), dir[k].part = f
      PROVE  k \in Hits(f)
  <2>1. Matches(k, f)
    BY <1>1 DEF Matches
  <2>2. k - 1 \in DOMAIN dir => ~Long(k - 1)
    BY <2>1 DEF Unambiguous
  <2>3. k \in Searched
    BY <2>2, Visited
  <2>4. QED
    BY <2>1, <2>3 DEF Hits
<1>2. \A k \in Hits(f) : k \in DOMAIN dir /\ Long(k) /\ dir[k].part = f
  BY DEF Hits, Matches, Searched
<1>3. Hits(f) = {} <=> ~InDir(f)
  BY <1>1, <1>2 DEF InDir
<1>4. Hits(f) # {} => Found(f).file = f
  BY FoundEntry DEF Unambiguous, Found
<1>5. QED
  BY <1>3, <1>4

\* The first cluster of what the search returns is a number, whatever entry that is.
LEMMA FoundNat ==
    ASSUME Written(disk), Accepted(geo), NEW f \in Names, Hits(f) # {}
    PROVE  ClusterOf(Found(f)) \in Nat
<1> DEFINE e == Found(f)
<1>1. e.first \in Nat
  BY FoundEntry DEF Written, Found, dir
<1> HIDE DEF e
<1>2. e.file \in Names => FirstCluster(e.file) \in Nat
  BY FirstClusterNat
<1>3. QED
  BY <1>1, <1>2 DEF ClusterOf, e

-----------------------------------------------------------------------------
(* read_file_full.                                                          *)

\* The first i clusters of the file are in the buffer, and the loop is at the next.
Copied ==
    /\ i \in 0 .. Len(File.chain)
    /\ buf \in Seq(Names \X Int) /\ Len(buf) = i * ClusterSize(geo)
    /\ \A w \in 1 .. Len(buf) : buf[w] = <<want, w - 1>>
    /\ cluster = IF i < Len(File.chain) THEN File.chain[i + 1] ELSE 0

FatInv ==
    /\ pc \in {"unread", "verify", "halt", "find", "copy", "done", "null"}
    /\ want \in {"initd", "uwu"}
    /\ pc # "unread" => disk \in Images
    /\ pc \in {"find", "copy", "done", "null"} => Accepted(geo) /\ count = ClusterCount(geo)
    /\ pc \in {"copy", "done"} => cluster \in Nat
    /\ pc \in {"copy", "done"} /\ Unambiguous(want) => InDir(want) /\ File.size # 0 /\ Copied
    /\ pc \notin {"copy", "done"} => buf = <<>>
    /\ pc = "done" => ~HasData(cluster)
    /\ pc = "null" /\ Unambiguous(want) => ~(InDir(want) /\ File.size # 0)

\* What does not change with the variables it is made of.
LEMMA FatSame ==
    ASSUME UNCHANGED <<disk, want>>
    PROVE  /\ geo' = geo /\ dir' = dir /\ files' = files /\ File' = File
           /\ InDir(want)' = InDir(want) /\ Unambiguous(want)' = Unambiguous(want)
  BY DEF geo, dir, files, File, InDir, Unambiguous, Matches, Long

\* A cluster is copied behind the ones before it.
LEMMA CopyCopied ==
    ASSUME Written(disk), Accepted(geo), count = ClusterCount(geo), want \in Names, Copied, Copy
    PROVE  Copied'
<1> DEFINE n == ClusterSize(geo)
           chain == File.chain
           new == [x \in 1 .. n |-> Data(cluster, x - 1)]
<1>1. n \in Nat \ {0}
  BY ClusterSizeNat
<1>2. /\ i \in 0 .. Len(chain) /\ Len(chain) \in Nat /\ chain = files[want].chain
      /\ cluster = IF i < Len(chain) THEN chain[i + 1] ELSE 0
  <2>1. chain \in Seq(2 .. ClusterCount(geo) + 1)
    BY ChainFacts DEF File
  <2>2. QED
    BY <2>1 DEF Copied, File
<1>3. HasData(cluster) /\ buf' = buf \o new /\ i' = i + 1 /\ cluster' = get_next_cluster(cluster)
      /\ UNCHANGED <<disk, want>>
  BY DEF Copy
<1>4. geo' = geo /\ File' = File /\ chain' = chain
  BY <1>3, FatSame
<1>5. i < Len(chain) /\ i \in Nat /\ i + 1 \in 1 .. Len(chain)
  <2>1. cluster # 0
    BY <1>3 DEF HasData
  <2>2. QED
    BY <1>2, <2>1
<1>6. cluster = files[want].chain[i + 1]
  BY <1>2, <1>5
<1>7. cluster' = IF i' < Len(chain) THEN chain[i' + 1] ELSE 0
  <2>1. i + 1 \in 1 .. Len(files[want].chain) /\ HasData(files[want].chain[i + 1])
    BY <1>2, <1>3, <1>5, <1>6
  <2>2. get_next_cluster(cluster) = IF i + 1 < Len(chain) THEN chain[(i + 1) + 1] ELSE 0
    BY <1>2, <1>6, <2>1, NextFollows
  <2>3. QED
    BY <1>3, <2>2
<1>8. \A x \in 1 .. n : new[x] = <<want, i * n + (x - 1)>>
  <2> SUFFICES ASSUME NEW x \in 1 .. n PROVE Data(cluster, x - 1) = <<want, i * n + (x - 1)>>
    OBVIOUS
  <2>1. i + 1 \in 1 .. Len(files[want].chain) /\ x - 1 \in Int /\ (i + 1) - 1 = i
    BY <1>1, <1>2, <1>5
  <2>2. Data(files[want].chain[i + 1], x - 1) = <<want, ((i + 1) - 1) * n + (x - 1)>>
    BY <2>1, DataWords
  <2>3. QED
    BY <1>6, <2>1, <2>2
<1> HIDE DEF n, chain
<1>9. i * n \in Nat
  BY <1>1, <1>5
<1>10. new \in [1 .. n -> Names \X Int]
  BY <1>1, <1>8, <1>9
<1>11. new \in Seq(Names \X Int) /\ Len(new) = n
  BY <1>1, <1>10
<1> HIDE DEF new
<1>12. /\ buf \in Seq(Names \X Int) /\ Len(buf) = i * n
       /\ \A w \in 1 .. Len(buf) : buf[w] = <<want, w - 1>>
  BY DEF Copied, n
<1>13. buf' \in Seq(Names \X Int) /\ Len(buf') = i * n + n
  <2>1. \A S : \A a, b \in Seq(S) : Len(a \o b) = Len(a) + Len(b) /\ a \o b \in Seq(S)
    OBVIOUS
  <2>2. QED
    BY <1>3, <1>11, <1>12, <2>1
<1>14. i * n + n = (i + 1) * n
  BY <1>1, <1>5
<1>15. ASSUME NEW w \in 1 .. Len(buf') PROVE buf'[w] = <<want, w - 1>>
  <2>0. w \in Int /\ 1 =< w /\ i * n \in Int /\ buf'[w] = IF w =< i * n THEN buf[w] ELSE new[w - i * n]
    <3> DEFINE c == i * n
    <3>1. \A S : \A a, b \in Seq(S) : \A v \in 1 .. Len(a) + Len(b) :
             (a \o b)[v] = IF v =< Len(a) THEN a[v] ELSE b[v - Len(a)]
      OBVIOUS
    <3>2. Len(buf) = c /\ Len(new) = n /\ c \in Nat /\ n \in Nat /\ Len(buf') = c + n
      BY <1>1, <1>9, <1>11, <1>12, <1>13
    <3>3. buf' = buf \o new
      BY <1>3
    <3> HIDE DEF c
    <3>4. w \in 1 .. Len(buf) + Len(new)
      BY <3>2
    <3>5. (buf \o new)[w] = IF w =< Len(buf) THEN buf[w] ELSE new[w - Len(buf)]
      BY <1>11, <1>12, <3>1, <3>4
    <3>6. buf'[w] = IF w =< c THEN buf[w] ELSE new[w - c]
      BY <3>2, <3>3, <3>5
    <3>7. QED
      BY <3>2, <3>6 DEF c
  <2>1. CASE w =< i * n
    <3>1. buf'[w] = buf[w] /\ w \in 1 .. Len(buf)
      BY <1>12, <2>0, <2>1
    <3>2. QED
      BY <1>12, <3>1
  <2>2. CASE w > i * n
    <3>1. w - i * n \in 1 .. n /\ w \in Nat
      BY <1>1, <1>9, <1>13, <2>2
    <3>2. buf'[w] = new[w - i * n]
      BY <2>0, <2>2
    <3>3. new[w - i * n] = <<want, i * n + ((w - i * n) - 1)>>
      BY <1>8, <3>1
    <3>4. i * n + ((w - i * n) - 1) = w - 1
      BY <1>9, <3>1
    <3>5. QED
      BY <3>2, <3>3, <3>4
  <2>3. QED
    BY <1>9, <1>13, <2>1, <2>2
<1>16. n' = n /\ want' = want
  BY <1>3, <1>4 DEF n
<1>17. i' \in 0 .. Len(chain') /\ Len(buf') = i' * n'
  BY <1>2, <1>3, <1>4, <1>5, <1>13, <1>14, <1>16
<1>18. cluster' = IF i' < Len(chain') THEN chain'[i' + 1] ELSE 0
  BY <1>4, <1>7
<1>19. \A w \in 1 .. Len(buf') : buf'[w] = <<want', w - 1>>
  BY <1>15, <1>16
<1>20. QED
  BY <1>13, <1>17, <1>18, <1>19 DEF Copied, n, chain

\* Every step of the reader keeps the invariant.
LEMMA FatStepKeeps == FatInv /\ FatStep => FatInv'
<1> SUFFICES ASSUME FatInv, FatStep PROVE FatInv'
  OBVIOUS
<1>1. want \in Names /\ (disk \in Images => Written(disk))
  BY BootAssumption DEF FatInv
<1>2. UNCHANGED <<disk, want>>
  BY DEF FatStep, verify_initrd, Find, Copy, CopyEnds
<1>3. /\ geo' = geo /\ dir' = dir /\ files' = files /\ File' = File
      /\ InDir(want)' = InDir(want) /\ Unambiguous(want)' = Unambiguous(want)
  BY <1>2, FatSame
<1>4. Accepted(geo)' = Accepted(geo) /\ ClusterCount(geo)' = ClusterCount(geo)
  BY <1>3
<1>5. CASE verify_initrd
  <2>1. pc = "verify" /\ buf' = buf /\ (pc' = "halt" \/ (pc' = "find" /\ Accepted(geo) /\ count' = ClusterCount(geo)))
    BY <1>5 DEF verify_initrd
  <2>2. QED
    BY <1>2, <1>4, <2>1 DEF FatInv
<1>6. CASE Find
  <2>1. /\ pc = "find" /\ count' = count /\ disk \in Images /\ Written(disk) /\ buf = <<>>
        /\ Accepted(geo) /\ count = ClusterCount(geo)
    BY <1>1, <1>6 DEF Find, FatInv
  <2>2. Unambiguous(want) => /\ Hits(want) = {} <=> ~InDir(want)
                             /\ Hits(want) # {} => Found(want).file = want
    BY <1>1, <2>1, FindRight
  <2>3. Unambiguous(want) /\ Hits(want) # {} => SizeOf(Found(want)) = File.size
    BY <1>1, <2>2 DEF SizeOf, File
  <2>4. CASE Hits(want) # {} => SizeOf(Found(want)) = 0
    <3>1. pc' = "null" /\ buf' = buf
      BY <1>6, <2>4 DEF Find
    <3>2. Unambiguous(want) => ~(InDir(want) /\ File.size # 0)
      BY <2>2, <2>3, <2>4
    <3>3. QED
      BY <1>2, <1>3, <1>4, <2>1, <3>1, <3>2 DEF FatInv
  <2>5. CASE Hits(want) # {} /\ SizeOf(Found(want)) # 0
    <3>1. pc' = "copy" /\ buf' = <<>> /\ i' = 0 /\ cluster' = ClusterOf(Found(want))
      BY <1>6, <2>5 DEF Find
    <3>2. cluster' \in Nat
      BY <1>1, <2>1, <2>5, <3>1, FoundNat
    <3>3. ASSUME Unambiguous(want) PROVE InDir(want) /\ File.size # 0 /\ Copied'
      <4>1. cluster' = FirstCluster(want)
        BY <1>1, <2>2, <2>5, <3>1, <3>3 DEF ClusterOf
      <4>2. File.chain \in Seq(2 .. ClusterCount(geo) + 1) /\ File = files[want]
        BY <1>1, <2>1, ChainFacts DEF File
      <4>3. Len(File.chain) \in Nat /\ (File.chain = <<>> <=> Len(File.chain) = 0)
        BY <4>2
      <4>4. cluster' = IF 0 < Len(File.chain) THEN File.chain[0 + 1] ELSE 0
        BY <4>1, <4>2, <4>3 DEF FirstCluster
      <4>5. ClusterSize(geo) \in Nat
        BY <2>1, ClusterSizeNat
      <4>6. Copied'
        BY <1>3, <3>1, <4>3, <4>4, <4>5 DEF Copied
      <4>7. QED
        BY <2>2, <2>3, <2>5, <3>3, <4>6
    <3>4. QED
      BY <1>2, <1>3, <1>4, <2>1, <3>1, <3>2, <3>3 DEF FatInv
  <2>6. QED
    BY <2>4, <2>5
<1>7. CASE Copy
  <2>1. pc = "copy" /\ pc' = pc /\ count' = count /\ cluster' = get_next_cluster(cluster)
    BY <1>7 DEF Copy
  <2>2. /\ disk \in Images /\ Written(disk) /\ Accepted(geo) /\ count = ClusterCount(geo) /\ cluster \in Nat
        /\ Unambiguous(want) => InDir(want) /\ File.size # 0 /\ Copied
    BY <1>1, <2>1 DEF FatInv
  <2>3. Unambiguous(want) => Copied'
    BY <1>1, <1>7, <2>2, CopyCopied
  <2>4. cluster' \in Nat
    BY <2>1, <2>2, NextNat
  <2>5. QED
    BY <1>2, <1>3, <1>4, <2>1, <2>2, <2>3, <2>4 DEF FatInv
<1>8. CASE CopyEnds
  <2>1. /\ pc = "copy" /\ pc' = "done" /\ ~HasData(cluster) /\ UNCHANGED <<count, cluster, i, buf>>
    BY <1>8 DEF CopyEnds
  <2>2. /\ disk \in Images /\ Accepted(geo) /\ count = ClusterCount(geo) /\ cluster \in Nat
        /\ Unambiguous(want) => InDir(want) /\ File.size # 0 /\ Copied
    BY <2>1 DEF FatInv
  <2>3. Copied' = Copied /\ HasData(cluster)' = HasData(cluster)
    BY <1>2, <1>3, <2>1 DEF Copied, HasData
  <2>4. QED
    BY <1>2, <1>3, <1>4, <2>1, <2>2, <2>3 DEF FatInv
<1>9. QED
  BY <1>5, <1>6, <1>7, <1>8 DEF FatStep

-----------------------------------------------------------------------------
(* Numbers.                                                                 *)

\* Division rounds down, also for a negative number.
LEMMA Quotient ==
    ASSUME NEW a \in Int, NEW b \in Nat \ {0}
    PROVE  a \div b \in Int /\ (a \div b) * b =< a /\ a < (a \div b) * b + b
  OBVIOUS

\* The remainder is what division leaves.
LEMMA Remainder ==
    ASSUME NEW a \in Nat, NEW b \in Nat \ {0}
    PROVE  a % b = a - (a \div b) * b
  OBVIOUS

\* A quotient is at least what it is a multiple of.
LEMMA QuotientAtLeast ==
    ASSUME NEW a \in Int, NEW b \in Nat \ {0}, b =< a
    PROVE  1 =< a \div b
<1>1. a \div b \in Int /\ a < (a \div b) * b + b
  BY Quotient
<1> DEFINE q == a \div b
<1> HIDE DEF q
<1>2. q \in Int /\ b < q * b + b
  BY <1>1 DEF q
<1>3. q * b > 0
  <2>1. q * b \in Int
    BY <1>2
  <2>2. QED
    BY <1>2, <2>1
<1>4. q > 0
  BY <1>2, <1>3
<1>5. QED
  BY <1>2, <1>4 DEF q

\* A number has one quotient.
LEMMA QuotientIs ==
    ASSUME NEW a \in Int, NEW b \in Nat \ {0}, NEW c \in Int, c * b =< a, a < c * b + b
    PROVE  a \div b = c
<1> DEFINE q == a \div b
<1>1. q \in Int /\ q * b =< a /\ a < q * b + b
  BY Quotient
<1> HIDE DEF q
<1>2. q * b < (c + 1) * b /\ c * b < (q + 1) * b
  BY <1>1
<1>3. q < c + 1 /\ c < q + 1
  BY <1>1, <1>2
<1>4. QED
  BY <1>1, <1>3 DEF q

\* A word of the device tree is a natural number, and so is a value made of words.
LEMMA WordsNat ==
    ASSUME tree \in DOMAIN Trees, NEW n \in Nat, NEW data
    PROVE  be_to_le(n, data) \in Nat
<1> DEFINE Step(x, c) == x * Radix + At(data + c - 1).v
           Loop(x) == [c \in 0 .. n |-> IF c = 0 THEN 0 ELSE Step(x[c - 1], c)]
           F == [x \in Nat \X (0 .. n - 1) |-> Step(x[1], x[2] + 1)]
           acc == CHOOSE x : x = Loop(x)
<1>1. \A w : At(w).v \in Nat
  BY FdtAssumption DEF At, Word, Text
<1>2. \A x \in Nat : \A c : Step(x, c) \in Nat
  BY <1>1, FdtAssumption
<1>3. be_to_le(n, data) = acc[n]
  BY DEF be_to_le
<1> HIDE DEF Step
<1>4. \E x : x = Loop(x)
  <2>1. Rounds(F, Nat, n)
    BY <1>2 DEF Rounds
  <2>2. \A x \in Nat, j \in 0 .. n - 1 : F[<<x, j>>] = Step(x, j + 1)
    OBVIOUS
  <2> HIDE DEF F
  <2>3. PICK g : g \in Passes(F, Nat, n, 0)
    BY <2>1, LoopExists
  <2>4. \A c \in 0 .. n : c # 0 => c \in 1 .. n /\ c - 1 \in 0 .. n - 1 /\ g[c - 1] \in Nat /\ (c - 1) + 1 = c
    BY <2>3 DEF Passes
  <2>5. \A c \in 0 .. n : g[c] = Loop(g)[c]
    BY <2>2, <2>3, <2>4 DEF Passes
  <2>6. g = Loop(g)
    BY <2>3, <2>5 DEF Passes
  <2>7. QED
    BY <2>6
<1>5. acc = Loop(acc)
  BY <1>4
<1> HIDE DEF acc
<1>6. acc[0] \in Nat /\ \A c \in 1 .. n : acc[c - 1] \in Nat => acc[c] \in Nat
  BY <1>2, <1>5
<1>7. acc[n] \in Nat
  BY <1>6, LoopStays
<1>8. QED
  BY <1>3, <1>7

\* The layout of init_pages, for memory of size t at s and a kernel up to b.
LEMMA LayoutFits ==
    ASSUME NEW P \in Nat \ {0}, NEW s \in Int, NEW t \in Int, NEW b \in Int, t > 0, t % (P * P) = 0,
           s + P =< b, NEW q, q = ((t - (b - s) \div P) \div P) \div P,
           b + (q * 2) * P - s =< P * P
    PROVE  /\ b + (q * 2) * P >= b + 2 * (((q * 2) * P) \div 2)
           /\ (b + (q * 2) * P) + (((q * 2) * P) \div 2) * P =< s + t
<1> DEFINE B == P * P
           K == (b - s) \div P
           h == t - K
           a == h \div P
           n == t \div B
<1>1. B \in Nat \ {0} /\ P * P = B
  OBVIOUS
<1>2. K \in Int /\ 1 =< K
  BY QuotientAtLeast, Quotient
<1>3. h \in Int /\ h < t
  BY <1>2
<1>4. a \in Int /\ a * P =< h
  BY <1>3, Quotient
<1>5. q = a \div P /\ q \in Int /\ q * P =< a
  BY <1>4, Quotient
<1>6. n \in Int /\ n * B = t
  <2>1. n \in Int /\ n * B =< t /\ t < n * B + B
    BY <1>1, Quotient
  <2>2. t % B = t - n * B /\ t % B = 0
    <3>1. t \in Nat /\ t % B = 0
      OBVIOUS
    <3> HIDE DEF B
    <3>2. QED
      BY <1>1, <3>1, Remainder
  <2> HIDE DEF n, B
  <2>3. n * B \in Int
    BY <1>1, <2>1
  <2>4. QED
    BY <2>1, <2>2, <2>3
<1> HIDE DEF B, K, h, a, n
<1>7. (q * P) * P =< a * P
  BY <1>4, <1>5
<1>8. (q * P) * P = q * B
  BY <1>1, <1>5
<1>9. q * B < n * B
  BY <1>1, <1>3, <1>4, <1>5, <1>6, <1>7, <1>8
<1>10. q < n
  BY <1>1, <1>5, <1>6, <1>9
<1>11. (q + 1) * B =< n * B
  BY <1>1, <1>5, <1>6, <1>10
<1>12. (q + 1) * B = q * B + B
  BY <1>1, <1>5
<1> DEFINE r == q * P
<1>13. r \in Int /\ (q * 2) * P = 2 * r /\ r * P = q * B
  BY <1>1, <1>5
<1> HIDE DEF r
<1>14. (2 * r) \div 2 = r
  BY <1>13
<1>15. ((q * 2) * P) \div 2 = r
  BY <1>13, <1>14
<1>16. q * B \in Int /\ n * B \in Int
  BY <1>1, <1>5, <1>6
<1>17. (b + 2 * r) + r * P =< s + t
  BY <1>1, <1>6, <1>11, <1>12, <1>13, <1>16
<1>18. QED
  BY <1>13, <1>15, <1>17

-----------------------------------------------------------------------------
(* The phases of kinit: before the MMU is on, and after it.                 *)

Before == {"verify", "cpus", "root", "acells", "scells", "memory", "reg", "pages", "chosen",
           "start", "end", "reserve", "table"}
Beyond == {"plic", "preg", "interrupts", "initrd"}
Steps == Before \cup {"relocate"} \cup Beyond \cup {"harts", "running", "halt", "lost"}

Spellings == {"phys", "safe", "none"}
SpaceSet == [structure : Spellings, strings : Spellings, initrd : Spellings, plic : Spellings]

\* Before set_mmu every pointer is physical; fdt_phys2safe and kinit convert them
\* before they are used again.
PhaseInv ==
    /\ tree \in DOMAIN Trees /\ step \in Steps /\ space \in SpaceSet
    /\ call # NoCall => step \in DOMAIN Lookups
    /\ step \in Before => root = NULL
    /\ step \in Before \cup {"relocate"} =>
          space.structure = "phys" /\ space.strings = "phys" /\ space.initrd = "phys"
    /\ step \in Beyond => Mapped(space.structure) /\ Mapped(space.strings) /\ Mapped(space.initrd)
    /\ step = "initrd" => Mapped(space.plic)

\* The steps at which kinit looks something up.
LEMMA LookupSteps ==
    DOMAIN Lookups = {"cpus", "root", "acells", "scells", "memory", "reg", "chosen", "start", "end",
                      "plic", "preg"}
  BY DEF Lookups

\* Where kinit goes on from a lookup: it stays on its side of set_mmu.
LEMMA LookupNext ==
    ASSUME NEW s \in DOMAIN Lookups
    PROVE  /\ s \in Before => Lookups[s].next \in Before
           /\ s \notin Before => s \in Beyond /\ Lookups[s].next \in {"preg", "interrupts"}
           /\ Lookups[s].next # "table"
<1>1. s \in {"cpus", "root", "acells", "scells", "memory", "reg", "chosen", "start", "end", "plic", "preg"}
  BY LookupSteps
<1>2. /\ Lookups["cpus"].next = "root" /\ Lookups["root"].next = "acells"
      /\ Lookups["acells"].next = "scells" /\ Lookups["scells"].next = "memory"
      /\ Lookups["memory"].next = "reg" /\ Lookups["reg"].next = "pages"
      /\ Lookups["chosen"].next = "start" /\ Lookups["start"].next = "end"
      /\ Lookups["end"].next = "reserve" /\ Lookups["plic"].next = "preg"
      /\ Lookups["preg"].next = "interrupts"
  BY DEF Lookups, Lookup
<1>3. QED
  BY <1>1, <1>2 DEF Before, Beyond

\* Every step of kinit keeps the phases.
LEMMA PhaseKept == PhaseInv /\ [Next]_vars => PhaseInv'
<1> SUFFICES ASSUME PhaseInv, [Next]_vars PROVE PhaseInv'
  OBVIOUS
<1> USE DEF PhaseInv
<1>1. CASE UNCHANGED <<tree, call, step, root, space>>
  BY <1>1 DEF Mapped
<1>2. CASE verify_fdt
  BY <1>2, LookupSteps DEF verify_fdt, Steps, Before, places, Beyond
<1>3. CASE Ask
  BY <1>3 DEF Ask, Mapped, places
<1>4. CASE Walk
  <2>1. call # NoCall /\ UNCHANGED <<tree, step, root, space>>
    BY <1>4 DEF Walk, FdtStep, fdt_find, fdt_path, fdt_get_property, Walking, NoCall, places
  <2>2. QED
    BY <2>1 DEF Mapped
<1>5. CASE Answer
  <2>1. step \in DOMAIN Lookups /\ call' = NoCall /\ UNCHANGED <<tree, root, space>>
    BY <1>5 DEF Answer, places
  <2>2. step' \in {step, "lost", Lookups[step].next}
    BY <1>5 DEF Answer
  <2>3. CASE step' = "lost"
    BY <2>1, <2>3 DEF Steps, Before, Beyond
  <2>4. CASE step' # "lost" /\ step \in Before
    <3>1. step' \in Before
      BY <2>1, <2>2, <2>4, LookupNext
    <3>2. QED
      BY <2>1, <2>4, <3>1 DEF Steps, Before, Beyond
  <2>5. CASE step' # "lost" /\ step \notin Before
    <3>1. step \in Beyond /\ step' \in {"plic", "preg", "interrupts"}
      BY <2>1, <2>2, <2>5, LookupNext, LookupSteps DEF Before
    <3>2. QED
      BY <2>1, <3>1 DEF Steps, Before, Beyond, Mapped
  <2>6. QED
    BY <2>3, <2>4, <2>5
<1>6. CASE init_pages
  BY <1>6, LookupSteps DEF init_pages, Steps, Before, Beyond
<1>7. CASE Reserve
  BY <1>7, LookupSteps DEF Reserve, Steps, Before, Beyond
<1>8. CASE create_mmu_table
  <2>1. call = NoCall
    BY <1>8, LookupSteps DEF create_mmu_table
  <2>2. step' \in {"relocate", "lost"} /\ UNCHANGED <<tree, call, space>> /\ step = "table"
    BY <1>8 DEF create_mmu_table
  <2>3. QED
    BY <2>1, <2>2 DEF Steps, Before, Beyond
<1>9. CASE Relocate
  <2>1. /\ step = "relocate" /\ step' = "plic" /\ UNCHANGED <<tree, call, root>>
        /\ space' = [space EXCEPT !.structure = phys2safe(@), !.strings = phys2safe(@), !.initrd = phys2safe(@)]
    BY <1>9 DEF Relocate
  <2>2. phys2safe("phys") \in Spellings
    BY DEF phys2safe, Spellings
  <2>3. space' \in SpaceSet
    BY <2>1, <2>2 DEF SpaceSet
  <2>4. /\ space'.structure = phys2safe("phys") /\ space'.strings = phys2safe("phys")
        /\ space'.initrd = phys2safe("phys")
    BY <2>1 DEF SpaceSet
  <2>5. QED
    BY <2>1, <2>3, <2>4, LookupSteps DEF Steps, Before, Beyond, Mapped, phys2safe
<1>10. CASE init_interrupts
  <2>1. /\ step = "interrupts" /\ step' = "initrd" /\ UNCHANGED <<tree, call, root>>
        /\ space' = [space EXCEPT !.plic = phys2safe("phys")]
    BY <1>10 DEF init_interrupts
  <2>2. phys2safe("phys") \in Spellings
    BY DEF phys2safe, Spellings
  <2>3. space' \in SpaceSet
    BY <2>1, <2>2 DEF SpaceSet
  <2>4. /\ space'.structure = space.structure /\ space'.strings = space.strings
        /\ space'.initrd = space.initrd /\ space'.plic = phys2safe("phys")
    BY <2>1 DEF SpaceSet
  <2>5. call = NoCall
    BY <2>1, LookupSteps
  <2>6. QED
    BY <2>1, <2>3, <2>4, <2>5 DEF Steps, Before, Beyond, Mapped, phys2safe
<1>11. CASE FirstLook \/ Spawn \/ Leave
  <2>1. /\ step \in {"initrd", "harts"} /\ step' \in {step, "halt", "lost", "harts", "running"}
        /\ (step = "harts" => step' = "running") /\ UNCHANGED <<tree, call, root, space>>
    BY <1>11 DEF FirstLook, Spawn, Leave, places
  <2>2. call = NoCall
    BY <2>1, LookupSteps
  <2>3. QED
    BY <2>1, <2>2 DEF Steps, Before, Beyond, Mapped
<1>12. CASE Read \/ StartHart
  <2>1. UNCHANGED <<tree, call, step, root, space>>
    BY <1>12 DEF Read, StartHart, places
  <2>2. QED
    BY <1>1, <2>1
<1>13. CASE UNCHANGED vars
  <2>1. UNCHANGED <<tree, call, step, root, space>>
    BY <1>13 DEF vars, places
  <2>2. QED
    BY <1>1, <2>1
<1>14. QED
  BY <1>2, <1>3, <1>4, <1>5, <1>6, <1>7, <1>8, <1>9, <1>10, <1>11, <1>12, <1>13 DEF Next

\* kinit starts with the MMU off and physical pointers.
LEMMA PhaseInit == Init => PhaseInv
  BY DEF Init, PhaseInv, Steps, Before, Beyond, SpaceSet, Spellings

\* kinit follows only pointers that are mapped, in the device tree before and after
\* set_mmu, in the initrd and of the interrupt controller.
THEOREM PointersStayMapped == Spec => []PointersMapped
<1>1. PhaseInv => PointersMapped
  <2> SUFFICES ASSUME PhaseInv PROVE PointersMapped
    OBVIOUS
  <2>1. ASSUME ~call.done PROVE Mapped(space.structure) /\ Mapped(space.strings)
    <3>1. call # NoCall
      BY <2>1 DEF NoCall
    <3>2. step \in DOMAIN Lookups
      BY <3>1 DEF PhaseInv
    <3>3. CASE step \in Before
      BY <3>3 DEF PhaseInv, Mapped
    <3>4. CASE step \notin Before
      BY <3>2, <3>4, LookupNext DEF PhaseInv
    <3>5. QED
      BY <3>3, <3>4
  <2>2. step = "initrd" => Mapped(space.initrd) /\ Mapped(space.plic)
    BY DEF PhaseInv, Beyond
  <2>3. QED
    BY <2>1, <2>2 DEF PointersMapped
<1>2. QED
  BY <1>1, PhaseInit, PhaseKept, PTL DEF Spec

-----------------------------------------------------------------------------
(* The ram disk, as kinit reads it.                                         *)

\* Every step of kinit keeps the invariant of the reader.
LEMMA FatKept == FatInv /\ [Next]_vars => FatInv'
<1> SUFFICES ASSUME FatInv, [Next]_vars PROVE FatInv'
  OBVIOUS
<1>1. CASE UNCHANGED fatVars
  <2>1. UNCHANGED <<disk, count, pc, want, cluster, i, buf>>
    BY <1>1 DEF fatVars
  <2>2. /\ geo' = geo /\ File' = File /\ InDir(want)' = InDir(want)
        /\ Unambiguous(want)' = Unambiguous(want)
    BY <2>1, FatSame
  <2>3. Copied' = Copied /\ HasData(cluster)' = HasData(cluster)
    BY <2>1, <2>2 DEF Copied, HasData
  <2>4. QED
    BY <2>1, <2>2, <2>3 DEF FatInv
<1>2. CASE Read
  BY <1>2, FatStepKeeps DEF Read
<1>3. CASE FirstLook
  <2>1. CASE Located
    <3>1. /\ pc = "unread" /\ UNCHANGED <<want, buf>>
          /\ \/ pc' = "verify" /\ disk' \in Images
             \/ UNCHANGED fatVars
      BY <1>3, <2>1, BootAssumption DEF FirstLook, fatVars
    <3>2. QED
      BY <1>1, <3>1 DEF FatInv
  <2>2. CASE ~Located
    <3>1. UNCHANGED fatVars
      BY <1>3, <2>2 DEF FirstLook, fatVars
    <3>2. QED
      BY <1>1, <3>1
  <2>3. QED
    BY <2>1, <2>2
<1>4. CASE Spawn
  <2>1. CASE UNCHANGED fatVars
    BY <1>1, <2>1
  <2>2. CASE ~UNCHANGED fatVars
    <3>1. /\ pc = "done" /\ pc' = "find" /\ want' = "uwu" /\ buf' = <<>> /\ UNCHANGED <<disk, count>>
      BY <1>4, <2>2 DEF Spawn, verify_elf
    <3>2. geo' = geo
      BY <3>1 DEF geo
    <3>3. QED
      BY <3>1, <3>2 DEF FatInv
  <2>3. QED
    BY <2>1, <2>2
<1>5. CASE verify_fdt \/ Ask \/ Walk \/ Answer \/ init_pages \/ Reserve \/ create_mmu_table
           \/ Relocate \/ init_interrupts \/ StartHart \/ Leave \/ UNCHANGED vars
  <2>1. UNCHANGED fatVars
    BY <1>5 DEF verify_fdt, Ask, Walk, Answer, init_pages, Reserve, create_mmu_table, Relocate,
                init_interrupts, StartHart, Leave, vars
  <2>2. QED
    BY <1>1, <2>1
<1>6. QED
  BY <1>2, <1>3, <1>4, <1>5 DEF Next

\* Nothing is read at first.
LEMMA FatInit == Init => FatInv
  BY DEF Init, FatInv

\* The file at work, once its clusters are being copied, if it is unambiguous.
LEMMA CopiedFacts ==
    ASSUME FatInv, pc \in {"copy", "done"}, Unambiguous(want)
    PROVE  /\ Written(disk) /\ Accepted(geo) /\ count = ClusterCount(geo) /\ Copied
           /\ count \in Int /\ ClusterSize(geo) \in Nat \ {0}
           /\ File.chain \in Seq(2 .. count + 1) /\ Len(File.chain) \in Nat
           /\ File.size \in SizesOf(Len(File.chain), geo)
<1>1. want \in Names /\ Written(disk) /\ Accepted(geo) /\ count = ClusterCount(geo) /\ Copied
  BY BootAssumption DEF FatInv
<1>2. count \in Int /\ ClusterSize(geo) \in Nat \ {0}
  BY <1>1, ClusterCountInt, ClusterSizeNat
<1>3. File.chain \in Seq(2 .. count + 1) /\ File.size \in SizesOf(Len(File.chain), geo)
  BY <1>1, ChainFacts DEF File
<1>4. Len(File.chain) \in Nat
  BY <1>3
<1>5. QED
  BY <1>1, <1>2, <1>3, <1>4

\* Every word of an unambiguous file is in the buffer, at its place, for every chain, in
\* whatever order its clusters lie, that leaves out the last cluster of the file system.
THEOREM FilesReadWhole == Spec => []ReadsWholeFile
<1>1. FatInv => ReadsWholeFile
  <2> SUFFICES ASSUME FatInv, pc = "done", Unambiguous(want), count + 1 \notin Range(File.chain),
                      NEW w \in 0 .. File.size - 1
               PROVE  w < Len(buf) /\ buf[w + 1] = <<want, w>>
    BY DEF ReadsWholeFile
  <2> DEFINE k == Len(File.chain)
             n == ClusterSize(geo)
  <2>1. /\ Copied /\ count \in Int /\ n \in Nat \ {0} /\ File.chain \in Seq(2 .. count + 1)
        /\ k \in Nat /\ File.size \in SizesOf(k, geo)
    BY CopiedFacts
  <2>2. i \in 0 .. k /\ Len(buf) = i * n /\ cluster = IF i < k THEN File.chain[i + 1] ELSE 0
    BY <2>1 DEF Copied
  <2>3. i = k
    <3>1. ASSUME i < k PROVE FALSE
      <4>1. i + 1 \in 1 .. k /\ cluster = File.chain[i + 1]
        BY <2>1, <2>2, <3>1
      <4>2. cluster \in 2 .. count + 1 /\ cluster # count + 1
        BY <2>1, <4>1 DEF Range
      <4>3. HasData(cluster)
        BY <2>1, <4>2 DEF HasData
      <4>4. QED
        BY <4>3 DEF FatInv
    <3>2. QED
      BY <2>1, <2>2, <3>1
  <2>4. k * n \in Nat /\ (k - 1) * n \in Int
    BY <2>1
  <2>5. File.size \in Int /\ File.size =< k * n
    <3>1. CASE k = 0
      BY <2>1, <2>4, <3>1 DEF SizesOf
    <3>2. CASE k # 0
      BY <2>1, <2>4, <3>2 DEF SizesOf
    <3>3. QED
      BY <3>1, <3>2
  <2>6. w \in Nat /\ w < Len(buf) /\ w + 1 \in 1 .. Len(buf)
    BY <2>2, <2>3, <2>4, <2>5
  <2>7. buf[w + 1] = <<want, (w + 1) - 1>>
    BY <2>1, <2>6 DEF Copied
  <2>8. QED
    BY <2>6, <2>7
<1>2. QED
  BY <1>1, FatInit, FatKept, PTL DEF Spec

\* A file of the root directory that is not empty is found behind labels, short names,
\* longer names and deleted files, if nothing else there carries its name; one that is
\* empty or not there gives NULL.
THEOREM FilesAreFound == Spec => []FindsFile
<1>1. FatInv => FindsFile
  BY DEF FatInv, FindsFile
<1>2. QED
  BY <1>1, FatInit, FatKept, PTL DEF Spec

\* The copy of an unambiguous file leaves the buffer by less than a cluster.
THEOREM OverrunIsBounded == Spec => []OverrunBelowCluster
<1>1. FatInv => OverrunBelowCluster
  <2> SUFFICES ASSUME FatInv, Len(buf) > 0, Unambiguous(want)
               PROVE  Len(buf) < File.size + ClusterSize(geo)
    BY DEF OverrunBelowCluster
  <2> DEFINE k == Len(File.chain)
             n == ClusterSize(geo)
  <2>1. pc \in {"copy", "done"}
    <3>1. buf # <<>>
      OBVIOUS
    <3>2. QED
      BY <3>1 DEF FatInv
  <2>2. Copied /\ n \in Nat \ {0} /\ k \in Nat /\ File.size \in SizesOf(k, geo)
    BY <2>1, CopiedFacts
  <2>3. i \in 0 .. k /\ Len(buf) = i * n
    BY <2>2 DEF Copied
  <2> HIDE DEF k, n
  <2>4. i # 0 /\ k # 0
    BY <2>2, <2>3
  <2>5. (k - 1) * n \in Int /\ k * n = (k - 1) * n + n /\ i * n =< k * n
    BY <2>2, <2>3
  <2>6. File.size \in (k - 1) * n + 1 .. k * n
    BY <2>2, <2>4 DEF SizesOf, n
  <2>7. QED
    BY <2>2, <2>3, <2>5, <2>6 DEF n
<1>2. QED
  BY <1>1, FatInit, FatKept, PTL DEF Spec

\* Every cluster that is copied lies inside the image, also for an entry of a deleted
\* file.
THEOREM CopiesStayInImage == Spec => []CopiesFromImage
<1>1. FatInv => CopiesFromImage
  <2> SUFFICES ASSUME FatInv, pc = "copy", HasData(cluster)
               PROVE  DataStart(geo) + (cluster - 1) * ClusterSize(geo) =< geo.end
    BY DEF CopiesFromImage
  <2> DEFINE n == ClusterSize(geo)
             d == DataStart(geo)
  <2>1. /\ Written(disk) /\ Accepted(geo) /\ count = ClusterCount(geo)
        /\ cluster \in Nat /\ cluster =< count
    BY BootAssumption DEF FatInv, HasData
  <2>2. count \in Int /\ n \in Nat \ {0}
    BY <2>1, ClusterCountInt, ClusterSizeNat
  <2>3. d + count * n = geo.end
    BY <2>1 DEF Accepted
  <2>4. d \in Int
    <3>1. /\ geo.bps \in Nat /\ geo.reserved \in Nat /\ geo.fats \in Nat /\ geo.fatSize \in Nat
          /\ geo.rootEntries \in Nat /\ EntrySize \in Nat
      BY <2>1, Fat16Assumption DEF Written, geo
    <3>2. geo.fats * geo.fatSize \in Nat /\ geo.rootEntries * EntrySize \in Nat
      BY <3>1
    <3>3. (geo.reserved + geo.fats * geo.fatSize) * geo.bps \in Nat
      BY <3>1, <3>2
    <3>4. QED
      BY <3>2, <3>3 DEF DataStart
  <2> HIDE DEF n, d
  <2>5. (cluster - 1) * n =< count * n /\ (cluster - 1) * n \in Int /\ count * n \in Int
    BY <2>1, <2>2
  <2>6. QED
    BY <2>3, <2>4, <2>5 DEF n, d
<1>2. QED
  BY <1>1, FatInit, FatKept, PTL DEF Spec

-----------------------------------------------------------------------------
(* The layout of memory.                                                    *)

\* The first half of HeapInsideRam.
LayoutInv ==
    /\ heap \in [start : Int, total : Int, bottom : Int, counters : Int]
    /\ /\ heap.total > 0 /\ heap.total % (PageSize * PageSize) = 0
       /\ heap.bottom - heap.start =< PageSize * PageSize /\ heap.start + PageSize =< PagesBottom
       => /\ heap.bottom >= PagesBottom + 2 * heap.counters
          /\ heap.bottom + heap.counters * PageSize =< heap.start + heap.total

\* The counters of the initrd, and the table in satp, which is at none of them.
InitrdMarks ==
    mark_as_used(initrd_start, (initrd_end - initrd_start + PageSize - 1) \div PageSize)

RootInv ==
    /\ DOMAIN got = DOMAIN Lookups \cup {"none"}
    /\ step = "table" => InitrdMarks \subseteq marked
    /\ root # NULL => \E c \in Nat : root = heap.bottom + c * PageSize /\ c \notin InitrdMarks

\* The marks depend on the lookups for the initrd only.
LEMMA MarksSame ==
    ASSUME tree' = tree, got'["start"] = got["start"], got'["end"] = got["end"], heap' = heap
    PROVE  InitrdMarks' = InitrdMarks
  BY DEF InitrdMarks, initrd_start, initrd_end, be_to_le, At, mark_as_used

\* init_pages lays the heap out inside memory.
LEMMA LayoutStep == PhaseInv /\ LayoutInv /\ init_pages => LayoutInv'
<1> SUFFICES ASSUME PhaseInv, init_pages PROVE LayoutInv'
  OBVIOUS
<1> DEFINE s == memory_start
           t == memory_size
           q == ((t - (PagesBottom - s) \div PageSize) \div PageSize) \div PageSize
           P == PageSize
<1>1. tree \in DOMAIN Trees
  BY DEF PhaseInv
<1>2. addr_cell \in Nat /\ size_cell \in Nat
  BY <1>1, WordsNat DEF addr_cell, size_cell
<1>3. s \in Nat /\ t \in Nat
  BY <1>1, <1>2, WordsNat DEF memory_start, memory_size
<1>4. P \in Nat \ {0} /\ PagesBottom \in Nat
  BY BootAssumption
<1>5. heap' = [start |-> s, total |-> t, bottom |-> PagesBottom + (q * 2) * P,
               counters |-> ((q * 2) * P) \div 2]
  BY DEF init_pages, HeapBytes
<1> HIDE DEF s, t
<1>6. q \in Int
  <2>1. (PagesBottom - s) \div P \in Int
    BY <1>3, <1>4
  <2>2. (t - (PagesBottom - s) \div P) \div P \in Int
    BY <1>3, <1>4, <2>1
  <2>3. QED
    BY <1>4, <2>2
<1>7. (q * 2) * P \in Int /\ ((q * 2) * P) \div 2 \in Int
  <2> HIDE DEF q
  <2>1. (q * 2) * P \in Int
    BY <1>4, <1>6
  <2>2. QED
    BY <2>1
<1> DEFINE bottom == PagesBottom + (q * 2) * P
           counters == ((q * 2) * P) \div 2
<1>8. ASSUME t > 0, t % (P * P) = 0, bottom - s =< P * P, s + P =< PagesBottom
      PROVE  bottom >= PagesBottom + 2 * counters /\ bottom + counters * P =< s + t
  <2>1. q = ((t - (PagesBottom - s) \div P) \div P) \div P
    OBVIOUS
  <2>2. bottom = PagesBottom + (q * 2) * P /\ counters = ((q * 2) * P) \div 2
    OBVIOUS
  <2> HIDE DEF q, P, bottom, counters
  <2>3. P \in Nat \ {0} /\ s \in Int /\ t \in Int /\ PagesBottom \in Int
    BY <1>3, <1>4
  <2>4. PagesBottom + (q * 2) * P - s =< P * P
    <3>1. (q * 2) * P \in Int /\ P * P \in Int
      BY <1>7, <2>3
    <3> DEFINE x == (q * 2) * P
               y == P * P
    <3>2. PagesBottom + x \in Int /\ (PagesBottom + x) - s =< y
      BY <1>8, <2>2, <2>3, <3>1
    <3>3. x \in Int /\ y \in Int
      BY <3>1
    <3> HIDE DEF x, y
    <3>4. PagesBottom + x - s =< y
      BY <2>3, <3>2, <3>3
    <3>5. QED
      BY <3>4 DEF x, y
  <2>5. /\ PagesBottom + (q * 2) * P >= PagesBottom + 2 * (((q * 2) * P) \div 2)
        /\ (PagesBottom + (q * 2) * P) + (((q * 2) * P) \div 2) * P =< s + t
    BY <1>8, <2>1, <2>3, <2>4, LayoutFits, Zenon
  <2>6. QED
    BY <2>2, <2>5, Zenon
<1> HIDE DEF q
<1>9. bottom \in Int /\ counters \in Int
  BY <1>4, <1>7
<1>10. heap'.start = s /\ heap'.total = t /\ heap'.bottom = bottom /\ heap'.counters = counters
  BY <1>5
<1>11. heap' \in [start : Int, total : Int, bottom : Int, counters : Int]
  <2> HIDE DEF bottom, counters
  <2>1. heap' = [start |-> s, total |-> t, bottom |-> bottom, counters |-> counters]
    BY <1>5 DEF bottom, counters
  <2>2. QED
    BY <1>3, <1>9, <2>1
<1>12. /\ heap'.total > 0 /\ heap'.total % (P * P) = 0
       /\ heap'.bottom - heap'.start =< P * P /\ heap'.start + P =< PagesBottom
       => /\ heap'.bottom >= PagesBottom + 2 * heap'.counters
          /\ heap'.bottom + heap'.counters * P =< heap'.start + heap'.total
  <2> HIDE DEF bottom, counters, P
  <2>1. QED
    BY <1>8, <1>10
<1>13. QED
  BY <1>11, <1>12 DEF LayoutInv

\* create_mmu_table takes the first pages that alloc_pages finds.
LEMMA TableStep ==
    ASSUME LayoutInv, RootInv, create_mmu_table, root = NULL
    PROVE  RootInv'
<1>1. step = "table" /\ UNCHANGED <<tree, got, heap>> /\ step' # "table"
  BY DEF create_mmu_table
<1>2. InitrdMarks' = InitrdMarks
  BY <1>1, MarksSame
<1>3. CASE root' = NULL
  BY <1>1, <1>3 DEF RootInv
<1>4. CASE root' # NULL
  <2> DEFINE tables == {c \in FreeCounters : Cardinality({d \in FreeCounters : d < c}) =< KernelTables}
  <2>1. Cardinality(FreeCounters) > KernelTables /\ root' = heap.bottom + Min(tables) * PageSize
    BY <1>4 DEF create_mmu_table
  <2>2. FreeCounters \in SUBSET Nat
    BY DEF FreeCounters
  <2>3. Cardinality({}) = 0 /\ KernelTables \in Nat
    BY FS_EmptySet, BootAssumption
  <2>4. FreeCounters # {}
    <3> SUFFICES ASSUME FreeCounters = {} PROVE FALSE
      OBVIOUS
    <3>1. Cardinality(FreeCounters) = 0
      BY <2>3
    <3>2. QED
      BY <2>1, <2>3, <3>1
  <2>5. PICK c \in FreeCounters : \A d \in FreeCounters : c =< d
    BY <2>2, <2>4, LeastNumber
  <2>6. {d \in FreeCounters : d < c} = {}
    <3> SUFFICES ASSUME NEW d \in FreeCounters, d < c PROVE FALSE
      OBVIOUS
    <3>1. c \in Nat /\ d \in Nat /\ c =< d
      BY <2>2, <2>5
    <3>2. QED
      BY <3>1
  <2>7. tables # {} /\ tables \in SUBSET Nat
    <3>1. Cardinality({d \in FreeCounters : d < c}) = 0
      BY <2>3, <2>6
    <3>2. Cardinality({d \in FreeCounters : d < c}) =< KernelTables
      BY <2>3, <3>1
    <3>3. c \in tables
      BY <2>5, <3>2
    <3>4. QED
      BY <2>2, <3>3
  <2>8. Min(tables) \in tables
    <3> HIDE DEF tables
    <3>1. \E x \in tables : \A y \in tables : x =< y
      BY <2>7, LeastNumber
    <3>2. QED
      BY <3>1 DEF Min
  <2>9. Min(tables) \in Nat /\ Min(tables) \notin marked
    BY <2>2, <2>8 DEF FreeCounters
  <2> HIDE DEF tables
  <2>10. Min(tables) \notin InitrdMarks
    BY <1>1, <2>9 DEF RootInv
  <2>11. QED
    BY <1>1, <1>2, <2>1, <2>9, <2>10 DEF RootInv
<1>5. QED
  BY <1>3, <1>4

\* Every step of kinit keeps the layout.
LEMMA HeapKept == PhaseInv /\ LayoutInv /\ RootInv /\ [Next]_vars => LayoutInv' /\ RootInv'
<1> SUFFICES ASSUME PhaseInv, LayoutInv, RootInv, [Next]_vars PROVE LayoutInv' /\ RootInv'
  OBVIOUS
<1>1. ASSUME UNCHANGED <<tree, got, heap, marked, root>>, step' = "table" => step = "table"
      PROVE  LayoutInv' /\ RootInv'
  <2>1. InitrdMarks' = InitrdMarks
    BY <1>1, MarksSame
  <2>2. QED
    BY <1>1, <2>1 DEF LayoutInv, RootInv
<1>2. CASE init_pages
  <2>1. root' = NULL /\ step' = "chosen" /\ got' = got
    BY <1>2 DEF init_pages, PhaseInv, Before
  <2>2. QED
    BY <1>2, <2>1, LayoutStep DEF RootInv
<1>3. CASE Reserve
  <2>1. root' = NULL /\ UNCHANGED <<tree, got, heap>> /\ InitrdMarks \subseteq marked'
    BY <1>3 DEF Reserve, PhaseInv, Before, InitrdMarks
  <2>2. InitrdMarks' = InitrdMarks
    BY <2>1, MarksSame
  <2>3. QED
    BY <2>1, <2>2 DEF LayoutInv, RootInv
<1>4. CASE create_mmu_table
  <2>1. root = NULL /\ heap' = heap
    BY <1>4 DEF create_mmu_table, PhaseInv, Before
  <2>2. QED
    BY <1>4, <2>1, TableStep DEF LayoutInv
<1>5. CASE Answer
  <2>1. step \in DOMAIN Lookups /\ UNCHANGED <<tree, heap, root, marked>> /\ got' = [got EXCEPT ![step] = call.ret]
    BY <1>5 DEF Answer, PhaseInv, places
  <2>2. step' # "table" /\ DOMAIN got' = DOMAIN got
    <3>1. step' \in {step, "lost", Lookups[step].next}
      BY <1>5 DEF Answer
    <3>2. step \in {"cpus", "root", "acells", "scells", "memory", "reg", "chosen", "start", "end", "plic", "preg"}
      BY <2>1, LookupSteps
    <3>3. Lookups[step].next # "table"
      BY <2>1, LookupNext
    <3>4. QED
      BY <2>1, <3>1, <3>2, <3>3
  <2>3. CASE root = NULL
    BY <2>1, <2>2, <2>3 DEF LayoutInv, RootInv
  <2>4. CASE root # NULL
    <3>1. step \notin Before
      BY <2>4 DEF PhaseInv
    <3>2. step # "start" /\ step # "end" /\ "start" \in DOMAIN got /\ "end" \in DOMAIN got
      BY <3>1, LookupSteps DEF Before, RootInv
    <3>3. got'["start"] = got["start"] /\ got'["end"] = got["end"]
      BY <2>1, <3>2
    <3>4. InitrdMarks' = InitrdMarks
      BY <2>1, <3>3, MarksSame
    <3>5. QED
      BY <2>1, <2>2, <3>4 DEF LayoutInv, RootInv
  <2>5. QED
    BY <2>3, <2>4
<1>6. CASE verify_fdt \/ Ask \/ Walk \/ Relocate \/ init_interrupts \/ FirstLook \/ Read \/ Spawn
           \/ StartHart \/ Leave \/ UNCHANGED vars
  <2>1. UNCHANGED <<tree, got, heap, marked, root>> /\ (step' = "table" => step = "table")
    BY <1>6 DEF verify_fdt, Ask, Walk, FdtStep, fdt_find, fdt_path, fdt_get_property, Relocate,
                init_interrupts, FirstLook, Read, Spawn, StartHart, Leave, vars, places
  <2>2. QED
    BY <1>1, <2>1
<1>7. QED
  BY <1>2, <1>3, <1>4, <1>5, <1>6 DEF Next

\* There is no heap and no table at first.
LEMMA HeapInit == Init => LayoutInv /\ RootInv
  BY DEF Init, LayoutInv, RootInv

\* A table at a page that is not marked is not the first page of the initrd.
LEMMA NotInitrd ==
    ASSUME LayoutInv, tree \in DOMAIN Trees, NEW c \in Nat, root = heap.bottom + c * PageSize,
           c \notin InitrdMarks, heap.bottom < initrd_start, initrd_start < initrd_end
    PROVE  root # (initrd_start \div PageSize) * PageSize
<1> SUFFICES ASSUME root = (initrd_start \div PageSize) * PageSize PROVE c \in InitrdMarks
  OBVIOUS
<1> DEFINE P == PageSize
           from == initrd_start
           to == initrd_end
           b == heap.bottom
           size == (to - from + P - 1) \div P
<1>1. P \in Nat \ {0} /\ from \in Nat /\ to \in Nat /\ b \in Int
  BY BootAssumption, WordsNat DEF initrd_start, initrd_end, LayoutInv
<1>2. InitrdMarks = mark_as_used(from, size)
  BY DEF InitrdMarks
<1>3. mark_as_used(from, size) = {(from - b) \div P + d : d \in 0 .. (size + P - 1) \div P - 1}
  BY DEF mark_as_used
<1>4. b + c * P = (from \div P) * P /\ b < from /\ from < to
  OBVIOUS
<1> HIDE DEF P, from, to, b
<1>5. size \in Int /\ 1 =< size
  BY <1>1, <1>4, QuotientAtLeast
<1> HIDE DEF size
<1>6. 1 =< (size + P - 1) \div P /\ (size + P - 1) \div P \in Int
  BY <1>1, <1>5, QuotientAtLeast
<1>7. (from \div P) * P =< from /\ from < (from \div P) * P + P /\ from \div P \in Int
  BY <1>1, Quotient
<1>8. c * P \in Int /\ (from \div P) * P \in Int
  BY <1>1, <1>7
<1>9. c * P =< from - b /\ from - b < c * P + P
  BY <1>1, <1>4, <1>7, <1>8
<1>10. (from - b) \div P = c
  BY <1>1, <1>9, QuotientIs
<1>11. 0 \in 0 .. (size + P - 1) \div P - 1 /\ c = (from - b) \div P + 0
  BY <1>6, <1>10
<1>12. QED
  BY <1>2, <1>3, <1>11

\* Every page that has a counter is memory behind the kernel, and the first page table
\* is one of them and not the start of the initrd.
THEOREM HeapStaysInRam == Spec => []HeapInsideRam
<1>1. PhaseInv /\ LayoutInv /\ RootInv => HeapInsideRam
  <2> SUFFICES ASSUME PhaseInv, LayoutInv, RootInv PROVE HeapInsideRam
    OBVIOUS
  <2>1. ASSUME root # NULL
        PROVE  /\ root >= heap.bottom
               /\ heap.bottom < initrd_start /\ initrd_start < initrd_end
                    => root # (initrd_start \div PageSize) * PageSize
    <3>1. PICK c \in Nat : root = heap.bottom + c * PageSize /\ c \notin InitrdMarks
      BY <2>1 DEF RootInv
    <3>2. heap.bottom \in Int /\ c * PageSize \in Nat
      BY BootAssumption DEF LayoutInv
    <3>3. root >= heap.bottom
      BY <3>1, <3>2
    <3>4. heap.bottom < initrd_start /\ initrd_start < initrd_end
            => root # (initrd_start \div PageSize) * PageSize
      BY <3>1, NotInitrd DEF PhaseInv
    <3>5. QED
      BY <3>3, <3>4
  <2>2. QED
    BY <2>1 DEF HeapInsideRam, LayoutInv
<1>2. QED
  BY <1>1, PhaseInit, PhaseKept, HeapInit, HeapKept, PTL DEF Spec
=============================================================================
