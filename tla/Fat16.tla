-------------------------------- MODULE Fat16 --------------------------------
(***************************************************************************)
(* The reader of the initial ram disk (fat16.c): verify_initrd accepts an  *)
(* image by its geometry, read_file_full finds a file by its long name and *)
(* copies its chain of clusters into a buffer from malloc.  The image is   *)
(* what a FAT16 driver left: files with disjoint, finite chains, and       *)
(* entries of deleted files.  A word of a file is named by the file and    *)
(* its position.                                                           *)
(***************************************************************************)
EXTENDS Integers, Sequences, SequencesExt

CONSTANTS Names,      \* files of the image
          MaxChain,   \* bound: clusters of a file
          EntrySize,  \* sizeof(fat_root_dir_entry_t)
          Fat12Limit, Fat16Limit,
          Eoc         \* end of a chain in the FAT, beyond all clusters

ASSUME Fat16Assumption ==
    /\ EntrySize \in Nat \ {0} /\ Fat12Limit \in Nat /\ Fat16Limit \in Nat
    /\ MaxChain \in Nat /\ Eoc \in Nat /\ Eoc >= Fat16Limit + 2

VARIABLES disk,            \* the image
          count,           \* cluster_count once verified, 0 before
          pc, want,        \* where verify_initrd or read_file_full is, for which file
          cluster, i,      \* its loop variables
          buf              \* what it has written to the buffer

\* Its boot sector with its length, its root directory and its files.
geo == disk.geo
dir == disk.dir
files == disk.files

fatVars == <<disk, count, pc, want, cluster, i, buf>>

-----------------------------------------------------------------------------
(* verify_initrd.                                                           *)

\* Nothing keeps the divisors from being 0.  The machine's quotient is then all ones:
\* -1 for root_sectors_count, and for cluster_count more than a FAT16 has.
RootSectors(g) ==
    IF g.bps = 0 THEN -1 ELSE (g.rootEntries * EntrySize + g.bps - 1) \div g.bps
DataSectors(g) == g.total - (g.reserved + g.fats * g.fatSize + RootSectors(g))
ClusterCount(g) == IF g.spc = 0 THEN Fat16Limit ELSE DataSectors(g) \div g.spc
ClusterSize(g) == g.spc * g.bps

\* fat.data, from the start of the image.
DataStart(g) == (g.reserved + g.fats * g.fatSize) * g.bps + g.rootEntries * EntrySize

\* A mistake: the end of the file system is not compared with the end of the image.
AcceptedUnended(g) ==
    /\ g.signed
    /\ g.fatSize # 0 /\ g.total # 0
    /\ ClusterCount(g) >= Fat12Limit /\ ClusterCount(g) < Fat16Limit

Accepted(g) ==
    /\ g.signed
    /\ g.fatSize # 0 /\ g.total # 0
    /\ ClusterCount(g) >= Fat12Limit /\ ClusterCount(g) < Fat16Limit
    /\ DataStart(g) + ClusterCount(g) * ClusterSize(g) = g.end

-----------------------------------------------------------------------------
(* The image: chains of clusters 2 .. n + 1, and the FAT that links them.   *)

Chains(n) == {s \in UNION {[1 .. k -> 2 .. n + 1] : k \in 0 .. MaxChain} : IsInjective(s)}

\* Sizes of a file with k clusters.
SizesOf(k, g) == IF k = 0 THEN {0} ELSE (k - 1) * ClusterSize(g) + 1 .. k * ClusterSize(g)

\* What a driver can have written to a file system of n clusters.
Filed(fs, g, n) ==
    /\ \A f \in Names : /\ fs[f].chain \in Seq(2 .. n + 1) /\ IsInjective(fs[f].chain)
                        /\ fs[f].size \in SizesOf(Len(fs[f].chain), g)
    /\ \A f, h \in Names : f # h => Range(fs[f].chain) \cap Range(fs[h].chain) = {}
FileSets(g, n) ==
    {fs \in [Names -> {[chain |-> c, size |-> z] : c \in Chains(n), z \in 0 .. MaxChain * ClusterSize(g)}] :
        Filed(fs, g, n)}

\* An image.  If verify_initrd accepts it, it is a file system that a driver wrote.  An
\* entry of the directory has a kind, and its file if that is one of Names; any other (a
\* label, another file, one that was deleted) has a first cluster and a size of its own.
\* A long entry, read as if it were a short one, has cluster 0 and characters for a
\* size.  What follows a long entry with the name of a file is its short one, or a long
\* one with more of its name, or what is left of a deleted file.
Written(m) ==
    /\ \A part \in {"bps", "spc", "reserved", "fats", "fatSize", "rootEntries", "total", "end"} :
          m.geo[part] \in Nat
    /\ m.dir \in Seq(Range(m.dir))
    /\ \A k \in DOMAIN m.dir :
          /\ m.dir[k].first \in Nat
          /\ m.dir[k].kind = "long" /\ m.dir[k].part \in Names => k + 1 \in DOMAIN m.dir
    /\ Accepted(m.geo) => m.geo.bps # 0 /\ Filed(m.files, m.geo, ClusterCount(m.geo))

Owner(c) == CHOOSE f \in Names : c \in Range(files[f].chain)
Position(c) == CHOOSE k \in DOMAIN files[Owner(c)].chain : files[Owner(c)].chain[k] = c
Owned(c) == \E f \in Names : c \in Range(files[f].chain)

Fat(c) ==
    IF ~Owned(c) THEN 0
    ELSE LET chain == files[Owner(c)].chain
         IN IF Position(c) < Len(chain) THEN chain[Position(c) + 1] ELSE Eoc

FirstCluster(f) == IF files[f].chain = <<>> THEN 0 ELSE files[f].chain[1]

\* first_cluster_low and file_size of an entry.
ClusterOf(e) == IF e.file \in Names THEN FirstCluster(e.file) ELSE e.first
SizeOf(e) == IF e.file \in Names THEN files[e.file].size ELSE e.size

\* Word x of cluster c.
Data(c, x) == IF Owned(c) THEN <<Owner(c), (Position(c) - 1) * ClusterSize(geo) + x>>
              ELSE <<"free", 0>>

\* kinit stops if the image is refused.
verify_initrd ==
    /\ pc = "verify"
    /\ \/ /\ Accepted(geo)
          /\ count' = ClusterCount(geo)
          /\ pc' = "find"
       \/ /\ ~Accepted(geo)
          /\ pc' = "halt"
          /\ UNCHANGED count
    /\ UNCHANGED <<disk, want, cluster, i, buf>>

-----------------------------------------------------------------------------
(* find_file_in_root_directory.  A long entry holds one part of a name, and *)
(* whether it is marked as the last one; the names asked for have one part. *)

Long(k) == dir[k].kind = "long"
Matches(k, name) == Long(k) /\ dir[k].part = name

\* A mistake: the short entry after a long one is not skipped, but two are.
SearchedSkipTwo ==
    LET visited[k \in 0 .. Len(dir)] ==
          IF k = 0 THEN 1
          ELSE LET at == visited[k - 1]
               IN IF at > Len(dir) THEN at ELSE at + IF Long(at) THEN 3 ELSE 1
    IN {visited[k] : k \in DOMAIN visited} \cap DOMAIN dir

\* The entries the loop looks at: after a long one that does not match, the next
\* one is skipped.
Searched ==
    LET visited[k \in 0 .. Len(dir)] ==
          IF k = 0 THEN 1
          ELSE LET at == visited[k - 1]
               IN IF at > Len(dir) THEN at ELSE at + IF Long(at) THEN 2 ELSE 1
    IN {visited[k] : k \in DOMAIN visited} \cap DOMAIN dir

Hits(name) == {k \in Searched : Matches(k, name)}
First(S) == CHOOSE k \in S : \A l \in S : k =< l

\* The file read_file_full gets: the entry after the long one that matches.
Found(name) == dir[First(Hits(name)) + 1]

\* A buffer for the file.  malloc(0) is NULL; that malloc has no memory left is not
\* modelled.
Find ==
    /\ pc = "find"
    /\ \/ /\ Hits(want) # {} => SizeOf(Found(want)) = 0
          /\ pc' = "null"
          /\ UNCHANGED <<cluster, i, buf>>
       \/ /\ Hits(want) # {} /\ SizeOf(Found(want)) # 0
          /\ cluster' = ClusterOf(Found(want))
          /\ i' = 0 /\ buf' = <<>>
          /\ pc' = "copy"
    /\ UNCHANGED <<disk, count, want>>

-----------------------------------------------------------------------------
(* The loop of read_file_full.                                              *)

\* get_fat_cluster_data does not return NULL.
HasData(c) == c =< count /\ c >= 2

\* A mistake: the link of the next cluster is used.
NextAhead(c) ==
    IF c > count \/ c < 2 THEN 0
    ELSE IF Fat(c) > count + 2 THEN 0 ELSE Fat(Fat(c))

get_next_cluster(c) ==
    IF c > count \/ c < 2 THEN 0
    ELSE IF Fat(c) > count + 2 THEN 0 ELSE Fat(c)

\* A mistake: the loop stays on its cluster.
CopyStays ==
    /\ pc = "copy" /\ HasData(cluster)
    /\ i < MaxChain
    /\ buf' = buf \o [x \in 1 .. ClusterSize(geo) |-> Data(cluster, x - 1)]
    /\ i' = i + 1
    /\ UNCHANGED <<disk, count, pc, want, cluster>>

\* memcpy of a whole cluster to data + i * size.
Copy ==
    /\ pc = "copy" /\ HasData(cluster)
    /\ buf' = buf \o [x \in 1 .. ClusterSize(geo) |-> Data(cluster, x - 1)]
    /\ i' = i + 1
    /\ cluster' = get_next_cluster(cluster)
    /\ UNCHANGED <<disk, count, pc, want>>

CopyEnds ==
    /\ pc = "copy" /\ ~HasData(cluster)
    /\ pc' = "done"
    /\ UNCHANGED <<disk, count, want, cluster, i, buf>>

FatStep == verify_initrd \/ Find \/ Copy \/ CopyEnds

-----------------------------------------------------------------------------
InDir(f) == \E k \in DOMAIN dir : Long(k) /\ dir[k].part = f
File == files[want]

\* Nothing else in the directory has the name of file f: neither an entry of a deleted
\* file nor the last part of a longer name; and no long entry of a deleted file is left
\* right before it.
Unambiguous(f) ==
    \A k \in DOMAIN dir : Matches(k, f) =>
       /\ dir[k + 1].file = f
       /\ k - 1 \in DOMAIN dir => ~Long(k - 1)

\* "Reads a file into a buffer": every word of the file is in the buffer, at its
\* place, for an unambiguous file that does not use the last cluster of the file
\* system.  That one has number cluster_count + 1, and get_fat_cluster_data takes it
\* for the end of the chain.
ReadsWholeFile ==
    pc = "done" /\ Unambiguous(want) /\ count + 1 \notin Range(File.chain) =>
       \A w \in 0 .. File.size - 1 : w < Len(buf) /\ buf[w + 1] = <<want, w>>

\* "Finds a file in the root directory": an unambiguous file that is not empty is found
\* behind labels, files with short names only, deleted files and files with names of
\* several entries, and one that is not there or is empty gives NULL.
FindsFile ==
    pc \in {"done", "null"} /\ Unambiguous(want) =>
       (pc = "done" <=> InDir(want) /\ File.size # 0)

\* The copy leaves the buffer of file_size bytes by less than a cluster: the last
\* cluster is copied as a whole, and nothing is copied for a cluster too many.  The file
\* is unambiguous: the size of a deleted one says nothing about the chain that has
\* its clusters now.
OverrunBelowCluster ==
    Len(buf) > 0 /\ Unambiguous(want) => Len(buf) < File.size + ClusterSize(geo)

\* Every cluster that is copied lies inside the image, wherever a deleted entry
\* pointed to.
CopiesFromImage ==
    pc = "copy" /\ HasData(cluster) =>
       DataStart(geo) + (cluster - 1) * ClusterSize(geo) =< geo.end
==============================================================================
