------------------------------ MODULE MmuProofs ------------------------------
(***************************************************************************)
(* Theorems about the page tables of mmu.c, for every fan-out, amount of   *)
(* memory, kernel and number of address spaces: each page of the heap has  *)
(* one owner, and what mmu_translate answers follows AddressSpaces, also   *)
(* when pages run out in the middle of a call.                             *)
(***************************************************************************)
EXTENDS Mmu, Loops

-----------------------------------------------------------------------------
(* Page numbers and their digits.                                           *)

\* Division rounds down.
LEMMA DivLemma ==
    ASSUME NEW a \in Nat, NEW b \in Nat \ {0}
    PROVE  /\ a \div b \in Nat /\ (a \div b) * b =< a /\ a < (a \div b) * b + b
  OBVIOUS

\* The remainder is below the divisor.
LEMMA ModRange ==
    ASSUME NEW a \in Nat, NEW b \in Nat \ {0}
    PROVE  a % b \in 0 .. b - 1
  OBVIOUS

\* The remainder is what division leaves.
LEMMA ModIsRest ==
    ASSUME NEW a \in Nat, NEW b \in Nat \ {0}
    PROVE  a % b = a - (a \div b) * b
  OBVIOUS

\* A number from its quotient and remainder.
LEMMA DivMod ==
    ASSUME NEW a \in Nat, NEW b \in Nat \ {0}, NEW q, q = a \div b, NEW r, r = a % b
    PROVE  a = q * b + r
<1>1. r = a - q * b /\ q \in Int /\ r \in Int
  BY ModRange, ModIsRest
<1>2. q * b \in Int
  BY <1>1
<1>3. QED
  BY <1>1, <1>2

\* A quotient is bounded as the number is.
LEMMA DivBound ==
    ASSUME NEW q \in Nat, NEW b \in Nat \ {0}, NEW c \in Nat, q * b < c * b
    PROVE  q < c
  OBVIOUS

\* A number has one quotient.
LEMMA DivUnique ==
    ASSUME NEW q \in Nat, NEW r \in Nat, NEW b \in Nat \ {0}, q * b < r * b + b, r * b < q * b + b
    PROVE  q = r
  OBVIOUS

\* A table has entries, and half of them are for users.
LEMMA Sizes == Half \in Nat \ {0} /\ Fanout \in Nat \ {0} /\ Half < Fanout
  BY MmuAssumption

\* Dividing by the square is dividing twice.
LEMMA DivTwice ==
    ASSUME NEW v \in Nat
    PROVE  v \div (Fanout * Fanout) = (v \div Fanout) \div Fanout
<1> DEFINE F == Fanout
           a == v \div F
           b == a \div F
           c == v \div (F * F)
<1>1. F \in Nat \ {0} /\ F * F \in Nat \ {0}
  BY Sizes
<1>2. a \in Nat /\ a * F =< v /\ v < a * F + F
  BY <1>1, DivLemma
<1>3. b \in Nat /\ b * F =< a /\ a < b * F + F
  BY <1>1, <1>2, DivLemma
<1>4. c \in Nat /\ c * (F * F) =< v /\ v < c * (F * F) + F * F
  BY <1>1, DivLemma
<1> HIDE DEF F, a, b, c
<1>5. (b * F) * F =< a * F
  BY <1>1, <1>2, <1>3
<1>6. (a + 1) * F =< (b * F + F) * F
  BY <1>1, <1>2, <1>3
<1>7. b * (F * F) =< v /\ v < b * (F * F) + F * F
  BY <1>1, <1>2, <1>3, <1>5, <1>6
<1>8. b * (F * F) < c * (F * F) + F * F /\ c * (F * F) < b * (F * F) + F * F
  BY <1>1, <1>3, <1>4, <1>7
<1>9. b = c
  BY <1>1, <1>3, <1>4, <1>8, DivUnique
<1>10. QED
  BY <1>9 DEF a, b, c, F

\* The digits of a page number are indices of entries.
LEMMA VpnIndex ==
    ASSUME NEW v \in VPages
    PROVE  Vpn(v, 0) \in Index /\ Vpn(v, 1) \in Index /\ Vpn(v, 2) \in Index
<1> DEFINE F == Fanout
<1>1. F \in Nat \ {0} /\ F * F \in Nat \ {0} /\ v \in Nat /\ v < F * F * F
  BY Sizes DEF VPages
<1>2. v \div (F * F) \in Nat /\ (v \div (F * F)) * (F * F) =< v
  BY <1>1, DivLemma
<1>3. (v \div (F * F)) * (F * F) < F * (F * F)
  BY <1>1, <1>2
<1>4. v \div (F * F) < F
  BY <1>1, <1>2, <1>3, DivBound
<1>5. v \div F \in Nat /\ v % F \in 0 .. F - 1 /\ (v \div F) % F \in 0 .. F - 1
  BY <1>1, DivLemma, ModRange
<1>6. QED
  BY <1>1, <1>2, <1>4, <1>5 DEF Vpn, Index

\* Two pages with the same digits are the same page.
LEMMA VpnInjective ==
    ASSUME NEW v \in VPages, NEW w \in VPages,
           Vpn(v, 0) = Vpn(w, 0), Vpn(v, 1) = Vpn(w, 1), Vpn(v, 2) = Vpn(w, 2)
    PROVE  v = w
<1>1. Fanout \in Nat \ {0} /\ v \in Nat /\ w \in Nat
  BY Sizes DEF VPages
<1>2. v \div Fanout \in Nat /\ w \div Fanout \in Nat
  BY <1>1, DivLemma
<1>3. \A a, b \in Nat : a \div Fanout = b \div Fanout /\ a % Fanout = b % Fanout => a = b
  <2> SUFFICES ASSUME NEW a \in Nat, NEW b \in Nat, a \div Fanout = b \div Fanout,
                      a % Fanout = b % Fanout
               PROVE  a = b
    OBVIOUS
  <2>1. \A q, r : q = a \div Fanout /\ r = a % Fanout => a = q * Fanout + r
    BY <1>1, DivMod
  <2>2. \A q, r : q = b \div Fanout /\ r = b % Fanout => b = q * Fanout + r
    BY <1>1, DivMod
  <2>3. QED
    BY <2>1, <2>2
<1>4. /\ (v \div Fanout) \div Fanout = (w \div Fanout) \div Fanout
      /\ (v \div Fanout) % Fanout = (w \div Fanout) % Fanout
      /\ v % Fanout = w % Fanout
  BY <1>1, DivTwice DEF Vpn
<1>5. v \div Fanout = w \div Fanout
  BY <1>2, <1>3, <1>4
<1>6. QED
  BY <1>1, <1>3, <1>4, <1>5
-----------------------------------------------------------------------------
(* The role of every heap page.  kind says what a page is used for; for a   *)
(* table below a root and for a user's page, par and idx are the table and  *)
(* the entry that point at it.                                              *)

Kinds == {"free", "held", "root", "mid", "low", "user"}
Tables == {"root", "mid", "low"}
Under == [root |-> "mid", mid |-> "low", low |-> "user"]

EntrySet == [flags : SUBSET {"V", "R", "W", "X", "U"}, page : Nat]
Tabs == [Heap -> [Index -> EntrySet]]

Points(e) == Valid(e) /\ e.page \in Heap /\ (~Frame(e) \/ "U" \in e.flags)

\* The flags of the pages of users.
UserFlags == {f \cup {"V", "U"} : f \in Perms}

\* What can be in an entry of a table that leads to other tables, of a root, and of
\* a table of the lowest level.
TableEntry(e) == ~Frame(e) /\ (Valid(e) => e.page \in Heap \cup {NULL})
RootEntry(e, i) == IF i < Half THEN TableEntry(e)
                   ELSE Valid(e) /\ Frame(e) /\ "U" \notin e.flags
LeafEntry(e) ==
    Valid(e) => Frame(e) /\ IF "U" \in e.flags
                            THEN e.page \in Heap \cup {NULL} /\ e.flags \in UserFlags
                            ELSE e.page \notin Heap

\* The place of a page of the kernel.
KernelSlot(par, idx, p, i) ==
    \E v \in KernelPages : idx[par[p]] = Vpn(v, 0) /\ idx[p] = Vpn(v, 1) /\ i = Vpn(v, 2)

Roles(kind, par, idx) ==
    kind \in [Heap -> Kinds] /\ par \in [Heap -> Heap] /\ idx \in [Heap -> Index]

\* The entry e fits where it is, entry i of page p.
Fits(kind, par, idx, p, i, e) ==
    /\ kind[p] = "root" => RootEntry(e, i)
    /\ kind[p] = "mid" => TableEntry(e)
    /\ kind[p] = "low" => /\ LeafEntry(e)
                          /\ Valid(e) /\ "U" \notin e.flags => KernelSlot(par, idx, p, i)

Shape(t, kind, par, idx) ==
    \A p \in Heap : \A i \in Index : Fits(kind, par, idx, p, i, t[p][i])

\* An entry points only at a page that has this entry as its parent, and each table
\* and user's page has one.
Owns(t, kind, par, idx) ==
    \A p \in Heap : \A i \in Index :
       kind[p] \in Tables /\ Points(t[p][i]) =>
          LET q == t[p][i].page IN kind[q] = Under[kind[p]] /\ par[q] = p /\ idx[q] = i

Owned(t, kind, par, idx) ==
    \A q \in Heap : kind[q] \in {"mid", "low", "user"} =>
       LET e == t[par[q]][idx[q]]
       IN kind[par[q]] \in Tables /\ Under[kind[par[q]]] = kind[q] /\ Points(e) /\ e.page = q

\* R are the roots, H the pages in the hands of a caller.
Accounts(taken_, R, H, kind) ==
    /\ taken_ = {p \in Heap : kind[p] # "free"}
    /\ R = {p \in Heap : kind[p] = "root"}
    /\ H \ {NULL} = {p \in Heap : kind[p] = "held"}

Tree(m, R, H, kind, par, idx) ==
    /\ m \in [tab : Tabs, taken : SUBSET Heap]
    /\ Roles(kind, par, idx)
    /\ Shape(m.tab, kind, par, idx)
    /\ Owns(m.tab, kind, par, idx)
    /\ Owned(m.tab, kind, par, idx)
    /\ Accounts(m.taken, R, H, kind)

\* What a call leaves alone: the roles of the pages that were not free.
Keeps(kind, par, idx, kind2, par2, idx2) ==
    \A p \in Heap : kind[p] # "free" => kind2[p] = kind[p] /\ par2[p] = par[p] /\ idx2[p] = idx[p]

-----------------------------------------------------------------------------
\* The heap does not hold page NULL, nor a page of the kernel.
LEMMA HeapFacts ==
    /\ Heap \subseteq Nat /\ NULL \notin Heap /\ NULL \in Nat
    /\ \A p \in KernelPages : p \in Nat /\ p \notin Heap /\ p \in 0 .. FirstHeap - 1
  BY MmuAssumption DEF Heap, NULL, PPages

\* Writing one entry.
LEMMA SetEntryFacts ==
    ASSUME NEW m \in [tab : Tabs, taken : SUBSET Heap], NEW q \in Heap, NEW j \in Index,
           NEW flags \in SUBSET {"V", "R", "W", "X", "U"}, NEW page \in Nat
    PROVE  LET n == SetEntry(m, <<q, j>>, flags, page) IN
           /\ n \in [tab : Tabs, taken : SUBSET Heap] /\ n.taken = m.taken
           /\ \A p \in Heap : \A i \in Index :
                 n.tab[p][i] = IF p = q /\ i = j THEN [flags |-> flags, page |-> page] ELSE m.tab[p][i]
<1> DEFINE e == [flags |-> flags, page |-> page]
           n == SetEntry(m, <<q, j>>, flags, page)
<1>1. n = [m EXCEPT !.tab[q][j] = e]
  BY DEF SetEntry
<1>2. e \in EntrySet
  BY DEF EntrySet
<1> HIDE DEF e
<1>3. n.taken = m.taken /\ n.tab = [m.tab EXCEPT ![q][j] = e]
  BY <1>1
<1>4. n.tab \in Tabs
  <2>1. m.tab \in Tabs
    OBVIOUS
  <2>2. m.tab[q] \in [Index -> EntrySet]
    BY <2>1 DEF Tabs
  <2>3. [m.tab[q] EXCEPT ![j] = e] \in [Index -> EntrySet]
    BY <1>2, <2>2
  <2>4. n.tab = [m.tab EXCEPT ![q] = [m.tab[q] EXCEPT ![j] = e]]
    BY <1>3
  <2>5. QED
    BY <2>1, <2>3, <2>4 DEF Tabs
<1>5. \A p \in Heap : \A i \in Index : n.tab[p][i] = IF p = q /\ i = j THEN e ELSE m.tab[p][i]
  BY <1>3 DEF Tabs
<1>6. n \in [tab : Tabs, taken : SUBSET Heap]
  BY <1>1, <1>3, <1>4
<1>7. QED
  BY <1>3, <1>5, <1>6 DEF e

\* alloc_pages: a free page, zeroed, that is now the caller's.
LEMMA AllocTree ==
    ASSUME NEW m, NEW R, NEW H, NEW kind, NEW par, NEW idx, Tree(m, R, H, kind, par, idx),
           NEW p, p = FreshPage(m), p # NULL
    PROVE  /\ p \in Heap /\ kind[p] = "free" /\ Allocated(m, p).tab[p] = ZeroTable
           /\ Tree(Allocated(m, p), R, H \cup {p}, [kind EXCEPT ![p] = "held"], par, idx)
<1>0. /\ m \in [tab : Tabs, taken : SUBSET Heap] /\ Roles(kind, par, idx)
      /\ Shape(m.tab, kind, par, idx) /\ Owns(m.tab, kind, par, idx)
      /\ Owned(m.tab, kind, par, idx) /\ Accounts(m.taken, R, H, kind)
  BY DEF Tree
<1>1. p \in Available(m)
  <2>1. Available(m) # {} /\ p = Min(Available(m))
    BY DEF FreshPage
  <2>2. Available(m) \in SUBSET Nat
    BY HeapFacts DEF Available
  <2>3. \E x \in Available(m) : \A y \in Available(m) : x =< y
    BY <2>1, <2>2, LeastNumber
  <2>4. QED
    BY <2>1, <2>3 DEF Min
<1>2. p \in Heap /\ p \notin m.taken
  BY <1>1 DEF Available
<1>3. kind[p] = "free"
  BY <1>0, <1>2 DEF Accounts
<1> DEFINE n == Allocated(m, p)
           k == [kind EXCEPT ![p] = "held"]
<1>4. n.tab = [m.tab EXCEPT ![p] = ZeroTable] /\ n.taken = m.taken \cup {p}
      /\ n = [tab |-> n.tab, taken |-> n.taken]
  BY DEF Allocated
<1>5. ZeroTable \in [Index -> EntrySet]
  BY HeapFacts DEF ZeroTable, Empty, EntrySet
<1>6. n.tab \in Tabs /\ n.tab[p] = ZeroTable /\ \A q \in Heap : q # p => n.tab[q] = m.tab[q]
  BY <1>0, <1>2, <1>4, <1>5 DEF Tabs
<1>7. n \in [tab : Tabs, taken : SUBSET Heap]
  BY <1>0, <1>2, <1>4, <1>6
<1> HIDE DEF n
<1>8. Roles(k, par, idx) /\ k[p] = "held" /\ \A q \in Heap : q # p => k[q] = kind[q]
  BY <1>0, <1>2 DEF Roles, Kinds
<1> HIDE DEF k
<1>9. Shape(n.tab, k, par, idx)
  BY <1>0, <1>6, <1>8 DEF Shape, Fits
<1>10. Owns(n.tab, k, par, idx)
  <2> SUFFICES ASSUME NEW q \in Heap, NEW i \in Index, k[q] \in Tables, Points(n.tab[q][i])
               PROVE  LET s == n.tab[q][i].page IN k[s] = Under[k[q]] /\ par[s] = q /\ idx[s] = i
    BY DEF Owns
  <2>1. q # p /\ n.tab[q] = m.tab[q] /\ k[q] = kind[q]
    BY <1>6, <1>8 DEF Tables
  <2>2. DEFINE s == n.tab[q][i].page
  <2>3. kind[s] = Under[kind[q]] /\ par[s] = q /\ idx[s] = i /\ s \in Heap
    BY <1>0, <2>1 DEF Owns, Points
  <2>4. s # p
    BY <1>3, <2>1, <2>3 DEF Under, Tables
  <2>5. QED
    BY <1>8, <2>1, <2>3, <2>4
<1>11. Owned(n.tab, k, par, idx)
  <2> SUFFICES ASSUME NEW q \in Heap, k[q] \in {"mid", "low", "user"}
               PROVE  LET e == n.tab[par[q]][idx[q]]
                      IN k[par[q]] \in Tables /\ Under[k[par[q]]] = k[q] /\ Points(e) /\ e.page = q
    BY DEF Owned
  <2>1. q # p /\ k[q] = kind[q]
    BY <1>8
  <2>2. LET e == m.tab[par[q]][idx[q]]
        IN kind[par[q]] \in Tables /\ Under[kind[par[q]]] = kind[q] /\ Points(e) /\ e.page = q
    BY <1>0, <2>1 DEF Owned
  <2>3. par[q] \in Heap /\ par[q] # p
    BY <1>0, <1>3, <2>2 DEF Roles, Tables
  <2>4. QED
    BY <1>6, <1>8, <2>1, <2>2, <2>3
<1>12. Accounts(n.taken, R, H \cup {p}, k)
  BY <1>0, <1>2, <1>3, <1>4, <1>8, HeapFacts DEF Accounts
<1>13. QED
  BY <1>2, <1>3, <1>6, <1>7, <1>8, <1>9, <1>10, <1>11, <1>12 DEF Tree, n, k

\* Writing an entry that points where it pointed before, if anywhere.
LEMMA SetSame ==
    ASSUME NEW m, NEW R, NEW H, NEW kind, NEW par, NEW idx, Tree(m, R, H, kind, par, idx),
           NEW q \in Heap, NEW j \in Index, kind[q] \in Tables,
           NEW flags \in SUBSET {"V", "R", "W", "X", "U"}, NEW page \in Nat,
           NEW e, e = [flags |-> flags, page |-> page], Fits(kind, par, idx, q, j, e),
           Points(e) <=> Points(m.tab[q][j]), Points(e) => e.page = m.tab[q][j].page
    PROVE  Tree(SetEntry(m, <<q, j>>, flags, page), R, H, kind, par, idx)
<1>0. /\ m \in [tab : Tabs, taken : SUBSET Heap] /\ Roles(kind, par, idx)
      /\ Shape(m.tab, kind, par, idx) /\ Owns(m.tab, kind, par, idx)
      /\ Owned(m.tab, kind, par, idx) /\ Accounts(m.taken, R, H, kind)
  BY DEF Tree
<1> DEFINE n == SetEntry(m, <<q, j>>, flags, page)
<1>1. /\ n \in [tab : Tabs, taken : SUBSET Heap] /\ n.taken = m.taken
      /\ \A p \in Heap : \A i \in Index :
            n.tab[p][i] = IF p = q /\ i = j THEN e ELSE m.tab[p][i]
  BY <1>0, SetEntryFacts, SMTT(30)
<1> HIDE DEF n
<1>2. Shape(n.tab, kind, par, idx)
  BY <1>0, <1>1 DEF Shape
<1>3. \A p \in Heap : \A i \in Index :
         /\ Points(n.tab[p][i]) <=> Points(m.tab[p][i])
         /\ Points(n.tab[p][i]) => n.tab[p][i].page = m.tab[p][i].page
  BY <1>1
<1>4. Owns(n.tab, kind, par, idx)
  BY <1>0, <1>3 DEF Owns
<1>5. Owned(n.tab, kind, par, idx)
  BY <1>0, <1>3 DEF Owned, Roles
<1>6. QED
  BY <1>0, <1>1, <1>2, <1>4, <1>5 DEF Tree, n

\* Writing an entry that points at a page of the caller, which becomes a table or a
\* page of the user.
LEMMA SetPoint ==
    ASSUME NEW m, NEW R, NEW H, NEW kind, NEW par, NEW idx, Tree(m, R, H, kind, par, idx),
           NEW q \in Heap, NEW j \in Index, kind[q] \in Tables,
           NEW flags \in SUBSET {"V", "R", "W", "X", "U"}, NEW page \in Heap,
           NEW e, e = [flags |-> flags, page |-> page], Fits(kind, par, idx, q, j, e), Points(e),
           ~Points(m.tab[q][j]), kind[page] = "held",
           Under[kind[q]] # "user" => m.tab[page] = ZeroTable
    PROVE  Tree(SetEntry(m, <<q, j>>, flags, page), R, H \ {page},
                [kind EXCEPT ![page] = Under[kind[q]]], [par EXCEPT ![page] = q],
                [idx EXCEPT ![page] = j])
<1>0. /\ m \in [tab : Tabs, taken : SUBSET Heap] /\ Roles(kind, par, idx)
      /\ Shape(m.tab, kind, par, idx) /\ Owns(m.tab, kind, par, idx)
      /\ Owned(m.tab, kind, par, idx) /\ Accounts(m.taken, R, H, kind)
  BY DEF Tree
<1> DEFINE n == SetEntry(m, <<q, j>>, flags, page)
           k == [kind EXCEPT ![page] = Under[kind[q]]]
           pa == [par EXCEPT ![page] = q]
           ix == [idx EXCEPT ![page] = j]
<1>1. /\ n \in [tab : Tabs, taken : SUBSET Heap] /\ n.taken = m.taken
      /\ \A p \in Heap : \A i \in Index :
            n.tab[p][i] = IF p = q /\ i = j THEN e ELSE m.tab[p][i]
  <2>1. page \in Nat
    BY HeapFacts
  <2>2. QED
    BY <1>0, <2>1, SetEntryFacts, SMTT(30)
<1>2. Under[kind[q]] \in {"mid", "low", "user"} /\ page # q /\ page # NULL /\ e.page = page
  BY HeapFacts DEF Under, Tables
<1>3. /\ k \in [Heap -> Kinds] /\ pa \in [Heap -> Heap] /\ ix \in [Heap -> Index]
      /\ k[page] = Under[kind[q]] /\ pa[page] = q /\ ix[page] = j
      /\ \A p \in Heap : p # page => k[p] = kind[p] /\ pa[p] = par[p] /\ ix[p] = idx[p]
  BY <1>0, <1>2 DEF Roles, Kinds
<1> HIDE DEF n, k, pa, ix
<1>4. \A p \in Heap : kind[p] \in {"mid", "low", "user"} => p # page /\ par[p] # page /\ par[p] \in Heap
  BY <1>0 DEF Owned, Roles, Tables
<1>5. \A p \in Heap, i \in Index : p # page /\ Fits(kind, par, idx, p, i, n.tab[p][i])
                                     => Fits(k, pa, ix, p, i, n.tab[p][i])
  BY <1>3, <1>4 DEF Fits, KernelSlot
<1>6. ASSUME NEW p \in Heap, NEW i \in Index PROVE Fits(k, pa, ix, p, i, n.tab[p][i])
  <2>1. CASE p = page
    <3>1. n.tab[p][i] = m.tab[p][i]
      BY <1>1, <1>2, <2>1
    <3>2. CASE Under[kind[q]] = "user"
      BY <1>3, <2>1, <3>2 DEF Fits
    <3>3. CASE Under[kind[q]] # "user"
      <4>1. n.tab[p][i] = Empty
        BY <2>1, <3>1, <3>3 DEF ZeroTable
      <4>2. ~Valid(Empty) /\ ~Frame(Empty)
        BY DEF Empty, Valid, Frame
      <4>3. QED
        BY <1>2, <1>3, <2>1, <4>1, <4>2 DEF Fits, TableEntry, LeafEntry
    <3>4. QED
      BY <3>2, <3>3
  <2>2. CASE p # page
    <3>1. Fits(kind, par, idx, p, i, n.tab[p][i])
      BY <1>0, <1>1 DEF Shape
    <3>2. QED
      BY <1>5, <2>2, <3>1
  <2>3. QED
    BY <2>1, <2>2
<1>7. Owns(n.tab, k, pa, ix)
  <2> SUFFICES ASSUME NEW p \in Heap, NEW i \in Index, k[p] \in Tables, Points(n.tab[p][i])
               PROVE  LET s == n.tab[p][i].page IN k[s] = Under[k[p]] /\ pa[s] = p /\ ix[s] = i
    BY DEF Owns
  <2>1. CASE p = q /\ i = j
    BY <1>1, <1>2, <1>3, <2>1
  <2>2. CASE ~(p = q /\ i = j)
    <3>1. n.tab[p][i] = m.tab[p][i]
      BY <1>1, <2>2
    <3>2. p # page
      <4>1. CASE p = page
        <5>1. Under[kind[q]] # "user"
          BY <1>2, <1>3, <4>1 DEF Tables
        <5>2. n.tab[p][i] = Empty
          BY <3>1, <4>1, <5>1 DEF ZeroTable
        <5>3. QED
          BY <5>2 DEF Points, Valid, Empty
      <4>2. QED
        BY <4>1
    <3>3. DEFINE s == m.tab[p][i].page
    <3>4. kind[p] = k[p] /\ kind[s] = Under[kind[p]] /\ par[s] = p /\ idx[s] = i /\ s \in Heap
      BY <1>0, <1>3, <3>1, <3>2 DEF Owns, Points
    <3>5. s # page
      BY <3>4 DEF Under, Tables
    <3>6. QED
      BY <1>3, <3>1, <3>4, <3>5
  <2>3. QED
    BY <2>1, <2>2
<1>8. Owned(n.tab, k, pa, ix)
  <2> SUFFICES ASSUME NEW s \in Heap, k[s] \in {"mid", "low", "user"}
               PROVE  LET f == n.tab[pa[s]][ix[s]]
                      IN k[pa[s]] \in Tables /\ Under[k[pa[s]]] = k[s] /\ Points(f) /\ f.page = s
    BY DEF Owned
  <2>1. CASE s = page
    BY <1>1, <1>2, <1>3, <2>1
  <2>2. CASE s # page
    <3>1. k[s] = kind[s] /\ pa[s] = par[s] /\ ix[s] = idx[s]
      BY <1>3, <2>2
    <3>2. LET f == m.tab[par[s]][idx[s]]
          IN kind[par[s]] \in Tables /\ Under[kind[par[s]]] = kind[s] /\ Points(f) /\ f.page = s
      BY <1>0, <3>1 DEF Owned
    <3>3. par[s] \in Heap /\ idx[s] \in Index /\ par[s] # page /\ ~(par[s] = q /\ idx[s] = j)
      BY <1>0, <3>2 DEF Roles, Tables
    <3>4. QED
      BY <1>1, <1>3, <3>1, <3>2, <3>3
  <2>3. QED
    BY <2>1, <2>2
<1>9. Accounts(n.taken, R, H \ {page}, k)
  <2>1. n.taken = {p \in Heap : k[p] # "free"}
    BY <1>0, <1>1, <1>2, <1>3 DEF Accounts
  <2>2. R = {p \in Heap : k[p] = "root"}
    BY <1>0, <1>2, <1>3 DEF Accounts
  <2>3. (H \ {page}) \ {NULL} = {p \in Heap : k[p] = "held"}
    BY <1>0, <1>2, <1>3 DEF Accounts
  <2>4. QED
    BY <2>1, <2>2, <2>3 DEF Accounts
<1>10. QED
  BY <1>1, <1>3, <1>6, <1>7, <1>8, <1>9 DEF Tree, Roles, Shape, n, k, pa, ix

\* Clearing an entry that points at a page of the user: the page is the caller's.
LEMMA ClearPoint ==
    ASSUME NEW m, NEW R, NEW H, NEW kind, NEW par, NEW idx, Tree(m, R, H, kind, par, idx),
           NEW q \in Heap, NEW j \in Index, kind[q] = "low", Points(m.tab[q][j]),
           NEW page, page = m.tab[q][j].page
    PROVE  Tree(SetEntry(m, <<q, j>>, {}, NULL), R, H \cup {page},
                [kind EXCEPT ![page] = "held"], par, idx)
<1>0. /\ m \in [tab : Tabs, taken : SUBSET Heap] /\ Roles(kind, par, idx)
      /\ Shape(m.tab, kind, par, idx) /\ Owns(m.tab, kind, par, idx)
      /\ Owned(m.tab, kind, par, idx) /\ Accounts(m.taken, R, H, kind)
  BY DEF Tree
<1> DEFINE n == SetEntry(m, <<q, j>>, {}, NULL)
           k == [kind EXCEPT ![page] = "held"]
<1>1. /\ n \in [tab : Tabs, taken : SUBSET Heap] /\ n.taken = m.taken
      /\ \A p \in Heap : \A i \in Index :
            n.tab[p][i] = IF p = q /\ i = j THEN Empty ELSE m.tab[p][i]
  <2>1. {} \in SUBSET {"V", "R", "W", "X", "U"} /\ NULL \in Nat
    BY HeapFacts
  <2>2. ASSUME NEW f \in SUBSET {"V", "R", "W", "X", "U"}, NEW g \in Nat, f = {}, g = NULL
        PROVE  LET o == SetEntry(m, <<q, j>>, f, g) IN
               /\ o \in [tab : Tabs, taken : SUBSET Heap] /\ o.taken = m.taken
               /\ \A p \in Heap : \A i \in Index :
                     o.tab[p][i] = IF p = q /\ i = j THEN Empty ELSE m.tab[p][i]
    <3>1. Empty = [flags |-> f, page |-> g]
      BY <2>2 DEF Empty
    <3>2. QED
      BY <1>0, <3>1, SetEntryFacts
  <2>3. QED
    BY <2>1, <2>2
<1>2. page \in Heap /\ kind[page] = "user" /\ par[page] = q /\ idx[page] = j /\ page # NULL
  BY <1>0, HeapFacts DEF Owns, Points, Tables, Under
<1>3. /\ k \in [Heap -> Kinds] /\ k[page] = "held"
      /\ \A p \in Heap : p # page => k[p] = kind[p]
  BY <1>0, <1>2 DEF Roles, Kinds
<1>4. ~Valid(Empty) /\ ~Frame(Empty) /\ ~Points(Empty)
  BY DEF Empty, Valid, Frame, Points
<1> HIDE DEF n, k
<1>5. Shape(n.tab, k, par, idx)
  <2> SUFFICES ASSUME NEW p \in Heap, NEW i \in Index PROVE Fits(k, par, idx, p, i, n.tab[p][i])
    BY DEF Shape
  <2>1. Fits(kind, par, idx, p, i, m.tab[p][i])
    BY <1>0 DEF Shape
  <2>2. CASE p = q /\ i = j
    BY <1>1, <1>2, <1>3, <1>4, <2>2 DEF Fits, LeafEntry
  <2>3. CASE ~(p = q /\ i = j)
    BY <1>1, <1>2, <1>3, <2>1, <2>3 DEF Fits
  <2>4. QED
    BY <2>2, <2>3
<1>6. Owns(n.tab, k, par, idx)
  <2> SUFFICES ASSUME NEW p \in Heap, NEW i \in Index, k[p] \in Tables, Points(n.tab[p][i])
               PROVE  LET s == n.tab[p][i].page IN k[s] = Under[k[p]] /\ par[s] = p /\ idx[s] = i
    BY DEF Owns
  <2>1. n.tab[p][i] = m.tab[p][i] /\ ~(p = q /\ i = j) /\ kind[p] \in Tables /\ k[p] = kind[p]
    BY <1>1, <1>2, <1>3, <1>4 DEF Tables
  <2>2. LET s == m.tab[p][i].page
        IN kind[s] = Under[kind[p]] /\ par[s] = p /\ idx[s] = i /\ s \in Heap
    BY <1>0, <2>1 DEF Owns, Points
  <2>3. QED
    BY <1>2, <1>3, <2>1, <2>2
<1>7. Owned(n.tab, k, par, idx)
  <2> SUFFICES ASSUME NEW s \in Heap, k[s] \in {"mid", "low", "user"}
               PROVE  LET f == n.tab[par[s]][idx[s]]
                      IN k[par[s]] \in Tables /\ Under[k[par[s]]] = k[s] /\ Points(f) /\ f.page = s
    BY DEF Owned
  <2>1. s # page /\ k[s] = kind[s]
    BY <1>3
  <2>2. LET f == m.tab[par[s]][idx[s]]
        IN kind[par[s]] \in Tables /\ Under[kind[par[s]]] = kind[s] /\ Points(f) /\ f.page = s
    BY <1>0, <2>1 DEF Owned
  <2>3. par[s] \in Heap /\ idx[s] \in Index /\ par[s] # page /\ ~(par[s] = q /\ idx[s] = j)
    BY <1>0, <1>2, <2>1, <2>2 DEF Roles, Tables
  <2>4. QED
    BY <1>1, <1>3, <2>1, <2>2, <2>3
<1>8. Accounts(n.taken, R, H \cup {page}, k)
  <2>1. n.taken = {p \in Heap : k[p] # "free"}
    BY <1>0, <1>1, <1>2, <1>3 DEF Accounts
  <2>2. R = {p \in Heap : k[p] = "root"}
    BY <1>0, <1>2, <1>3 DEF Accounts
  <2>3. (H \cup {page}) \ {NULL} = {p \in Heap : k[p] = "held"}
    BY <1>0, <1>2, <1>3 DEF Accounts
  <2>4. QED
    BY <2>1, <2>2, <2>3 DEF Accounts
<1>9. QED
  BY <1>0, <1>1, <1>3, <1>5, <1>6, <1>7, <1>8 DEF Tree, Roles, n, k

\* A page of the caller becomes a root, or is given back.
LEMMA Recolour ==
    ASSUME NEW m, NEW R, NEW H, NEW kind, NEW par, NEW idx, Tree(m, R, H, kind, par, idx),
           NEW page \in Heap, kind[page] = "held",
           NEW n \in [tab : Tabs, taken : SUBSET Heap], NEW c \in {"free", "root"},
           \A p \in Heap : p # page => n.tab[p] = m.tab[p],
           c = "root" => n.tab[page] = KernelWindow,
           NEW R2, NEW H2, Accounts(n.taken, R2, H2, [kind EXCEPT ![page] = c])
    PROVE  Tree(n, R2, H2, [kind EXCEPT ![page] = c], par, idx)
<1>0. /\ m \in [tab : Tabs, taken : SUBSET Heap] /\ Roles(kind, par, idx)
      /\ Shape(m.tab, kind, par, idx) /\ Owns(m.tab, kind, par, idx)
      /\ Owned(m.tab, kind, par, idx) /\ Accounts(m.taken, R, H, kind)
  BY DEF Tree
<1> DEFINE k == [kind EXCEPT ![page] = c]
<1>1. k \in [Heap -> Kinds] /\ k[page] = c /\ \A p \in Heap : p # page => k[p] = kind[p]
  BY <1>0 DEF Roles, Kinds
<1> HIDE DEF k
<1>2. ASSUME c = "root", NEW i \in Index
      PROVE  RootEntry(n.tab[page][i], i) /\ ~Points(n.tab[page][i])
  <2>1. CASE i < Half
    <3>1. n.tab[page][i] = Empty
      BY <1>2, <2>1 DEF KernelWindow
    <3>2. QED
      BY <2>1, <3>1 DEF RootEntry, TableEntry, Empty, Valid, Frame, Points
  <2>2. CASE ~(i < Half)
    <3>1. n.tab[page][i].flags = {"V", "R", "W"}
      BY <1>2, <2>2 DEF KernelWindow
    <3>2. Valid(n.tab[page][i]) /\ Frame(n.tab[page][i]) /\ "U" \notin n.tab[page][i].flags
      BY <3>1 DEF Valid, Frame
    <3>3. QED
      BY <2>2, <3>2 DEF RootEntry, Points
  <2>3. QED
    BY <2>1, <2>2
<1>3. Shape(n.tab, k, par, idx)
  <2> SUFFICES ASSUME NEW p \in Heap, NEW i \in Index PROVE Fits(k, par, idx, p, i, n.tab[p][i])
    BY DEF Shape
  <2>1. CASE p = page
    BY <1>1, <1>2, <2>1 DEF Fits
  <2>2. CASE p # page
    BY <1>0, <1>1, <2>2 DEF Shape, Fits
  <2>3. QED
    BY <2>1, <2>2
<1>4. Owns(n.tab, k, par, idx)
  <2> SUFFICES ASSUME NEW p \in Heap, NEW i \in Index, k[p] \in Tables, Points(n.tab[p][i])
               PROVE  LET s == n.tab[p][i].page IN k[s] = Under[k[p]] /\ par[s] = p /\ idx[s] = i
    BY DEF Owns
  <2>1. p # page
    BY <1>1, <1>2 DEF Tables
  <2>2. n.tab[p][i] = m.tab[p][i] /\ kind[p] \in Tables /\ k[p] = kind[p]
    BY <1>1, <2>1
  <2>3. LET s == m.tab[p][i].page
        IN kind[s] = Under[kind[p]] /\ par[s] = p /\ idx[s] = i /\ s \in Heap
    BY <1>0, <2>2 DEF Owns, Points
  <2>4. m.tab[p][i].page # page
    BY <2>2, <2>3 DEF Under, Tables
  <2>5. QED
    BY <1>1, <2>2, <2>3, <2>4
<1>5. Owned(n.tab, k, par, idx)
  <2> SUFFICES ASSUME NEW s \in Heap, k[s] \in {"mid", "low", "user"}
               PROVE  LET f == n.tab[par[s]][idx[s]]
                      IN k[par[s]] \in Tables /\ Under[k[par[s]]] = k[s] /\ Points(f) /\ f.page = s
    BY DEF Owned
  <2>1. s # page /\ k[s] = kind[s]
    BY <1>1
  <2>2. LET f == m.tab[par[s]][idx[s]]
        IN kind[par[s]] \in Tables /\ Under[kind[par[s]]] = kind[s] /\ Points(f) /\ f.page = s
    BY <1>0, <2>1 DEF Owned
  <2>3. par[s] \in Heap /\ par[s] # page
    BY <1>0, <2>2 DEF Roles, Tables
  <2>4. QED
    BY <1>1, <2>1, <2>2, <2>3
<1>6. QED
  BY <1>0, <1>1, <1>3, <1>4, <1>5 DEF Tree, Roles, k

-----------------------------------------------------------------------------
(* What mmu_translate finds in a tree.                                      *)

\* q is the table of the lowest level for page v of the space of root.
At(kind, par, idx, root, v, q) ==
    kind[q] = "low" /\ par[par[q]] = root /\ idx[par[q]] = Vpn(v, 0) /\ idx[q] = Vpn(v, 1)

\* What an entry of such a table maps its page to.
Leaf(e) == IF Valid(e) /\ Frame(e) THEN [page |-> e.page, flags |-> e.flags] ELSE Unmapped

\* In the upper half of a space mmu_translate ends at the root.
LEMMA ViewWindow ==
    ASSUME NEW m, NEW R, NEW H, NEW kind, NEW par, NEW idx, Tree(m, R, H, kind, par, idx),
           NEW r \in R, NEW v \in VPages, ~(Vpn(v, 0) < Half), NEW e, e = m.tab[r][Vpn(v, 0)]
    PROVE  Translate(m, r, v) = [page |-> e.page + (v % (Fanout * Fanout)), flags |-> e.flags]
<1>1. r \in Heap /\ kind[r] = "root" /\ Shape(m.tab, kind, par, idx)
  BY DEF Tree, Accounts
<1>2. Valid(e) /\ Frame(e)
  BY <1>1, VpnIndex DEF Shape, Fits, RootEntry
<1> DEFINE e0 == m.tab[r][Vpn(v, 0)]
           e1 == Child(m, e0, Vpn(v, 1))
           e2 == Child(m, e1, Vpn(v, 2))
           d == v % (Fanout * Fanout)
<1>3. e1 = e0
  BY <1>2 DEF Child
<1>4. e2 = e0
  BY <1>2, <1>3 DEF Child
<1>5. Translate(m, r, v) =
         IF Valid(e2) /\ Frame(e2)
         THEN [page |-> e2.page + (IF Frame(e0) THEN d ELSE IF Frame(e1) THEN v % Fanout ELSE 0),
               flags |-> e2.flags]
         ELSE Unmapped
  BY DEF Translate
<1> HIDE DEF e0, e1, e2, d
<1>6. Translate(m, r, v) = [page |-> e.page + d, flags |-> e.flags]
  BY <1>2, <1>3, <1>4, <1>5 DEF e0
<1>7. QED
  BY <1>6 DEF d

\* In the lower half it ends at the table of the lowest level, if there is one.
LEMMA ViewAt ==
    ASSUME NEW m, NEW R, NEW H, NEW kind, NEW par, NEW idx, Tree(m, R, H, kind, par, idx),
           NEW r \in R, NEW v \in VPages, NEW q \in Heap, At(kind, par, idx, r, v, q)
    PROVE  Vpn(v, 0) < Half /\ Translate(m, r, v) = Leaf(m.tab[q][Vpn(v, 2)])
<1> DEFINE p == par[q]
           e0 == m.tab[r][Vpn(v, 0)]
           e1 == m.tab[p][Vpn(v, 1)]
           e2 == m.tab[q][Vpn(v, 2)]
<1>0. /\ m \in [tab : Tabs, taken : SUBSET Heap] /\ Roles(kind, par, idx)
      /\ Shape(m.tab, kind, par, idx) /\ Owned(m.tab, kind, par, idx) /\ r \in Heap
      /\ kind[r] = "root"
  BY DEF Tree, Accounts
<1>1. Vpn(v, 0) \in Index /\ Vpn(v, 1) \in Index /\ Vpn(v, 2) \in Index
  BY VpnIndex
<1>2. p \in Heap /\ kind[p] = "mid" /\ Points(e1) /\ e1.page = q
  BY <1>0 DEF At, Owned, Roles, Tables, Under
<1>3. Points(e0) /\ e0.page = p
  BY <1>0, <1>2 DEF At, Owned
<1>4. Vpn(v, 0) < Half /\ ~Frame(e0) /\ Valid(e0)
  BY <1>0, <1>1, <1>3 DEF Shape, Fits, RootEntry, TableEntry, Points
<1>5. ~Frame(e1) /\ Valid(e1)
  BY <1>0, <1>1, <1>2 DEF Shape, Fits, TableEntry, Points
<1>6. e2 \in EntrySet /\ e2.page \in Nat
  BY <1>0, <1>1 DEF Tabs, EntrySet
<1>7. Child(m, e0, Vpn(v, 1)) = e1
  BY <1>2, <1>3, <1>4, HeapFacts DEF Child
<1>8. Child(m, e1, Vpn(v, 2)) = e2
  BY <1>2, <1>5, HeapFacts DEF Child
<1> HIDE DEF e1, e2
<1>9. Translate(m, r, v) = IF Valid(e2) /\ Frame(e2) THEN [page |-> e2.page + 0, flags |-> e2.flags]
                           ELSE Unmapped
  BY <1>4, <1>5, <1>7, <1>8 DEF Translate
<1>10. QED
  BY <1>4, <1>6, <1>9 DEF Leaf, e2

\* Without one the page is not mapped.
LEMMA ViewNone ==
    ASSUME NEW m, NEW R, NEW H, NEW kind, NEW par, NEW idx, Tree(m, R, H, kind, par, idx),
           NEW r \in R, NEW v \in VPages, Vpn(v, 0) < Half,
           ~ \E q \in Heap : At(kind, par, idx, r, v, q)
    PROVE  Translate(m, r, v) = Unmapped
<1> DEFINE e0 == m.tab[r][Vpn(v, 0)]
           e1 == Child(m, e0, Vpn(v, 1))
           e2 == Child(m, e1, Vpn(v, 2))
<1>0. /\ Shape(m.tab, kind, par, idx) /\ Owns(m.tab, kind, par, idx) /\ r \in Heap
      /\ kind[r] = "root"
  BY DEF Tree, Accounts
<1>1. Vpn(v, 0) \in Index /\ Vpn(v, 1) \in Index /\ Vpn(v, 2) \in Index
  BY VpnIndex
<1>2. ~Frame(e0) /\ (Valid(e0) => e0.page \in Heap \cup {NULL})
  BY <1>0, <1>1 DEF Shape, Fits, RootEntry, TableEntry
<1>3. CASE ~(Valid(e0) /\ e0.page # NULL)
  <2>1. e1 = e0
    BY <1>3, SMTT(30) DEF Child
  <2>2. e2 = e0
    BY <1>3, <2>1 DEF Child
  <2>3. QED
    BY <1>2, <2>2 DEF Translate
<1>4. CASE Valid(e0) /\ e0.page # NULL
  <2> DEFINE p == e0.page
  <2>1. p \in Heap /\ kind[p] = "mid" /\ par[p] = r /\ idx[p] = Vpn(v, 0)
    BY <1>0, <1>1, <1>2, <1>4 DEF Owns, Points, Tables, Under
  <2>2. e1 = m.tab[p][Vpn(v, 1)]
    BY <1>2, <1>4 DEF Child
  <2>3. ~Frame(e1) /\ (Valid(e1) => e1.page \in Heap \cup {NULL})
    BY <1>0, <1>1, <2>1, <2>2 DEF Shape, Fits, TableEntry
  <2>4. ASSUME Valid(e1), e1.page # NULL PROVE FALSE
    <3>1. kind[e1.page] = "low" /\ par[e1.page] = p /\ idx[e1.page] = Vpn(v, 1) /\ e1.page \in Heap
      BY <1>0, <1>1, <2>1, <2>2, <2>3, <2>4, SMTT(30) DEF Owns, Points, Tables, Under
    <3>2. QED
      BY <2>1, <3>1 DEF At
  <2>5. e2 = e1
    BY <2>4 DEF Child
  <2> HIDE DEF e1
  <2>6. QED
    BY <2>3, <2>5 DEF Translate, e1
<1>5. QED
  BY <1>3, <1>4

\* Two memories translate a page alike if the tables of the one are tables of the
\* other, the upper half of the root is the same, and the entry for the page in a
\* table of the lowest level is the same or, in a new table, empty.
LEMMA ViewsAgree ==
    ASSUME NEW m, NEW R, NEW H, NEW kind, NEW par, NEW idx, Tree(m, R, H, kind, par, idx),
           NEW n, NEW R2, NEW H2, NEW k2, NEW p2, NEW i2, Tree(n, R2, H2, k2, p2, i2),
           \A p \in Heap : kind[p] \in Tables =>
              k2[p] = kind[p] /\ p2[p] = par[p] /\ i2[p] = idx[p],
           NEW r \in R, NEW v \in VPages,
           ~(Vpn(v, 0) < Half) => n.tab[r][Vpn(v, 0)] = m.tab[r][Vpn(v, 0)],
           \A q \in Heap : At(k2, p2, i2, r, v, q) =>
              n.tab[q][Vpn(v, 2)] = IF kind[q] = "low" THEN m.tab[q][Vpn(v, 2)] ELSE Empty
    PROVE  Translate(n, r, v) = Translate(m, r, v)
<1>1. r \in Heap /\ kind[r] = "root" /\ Roles(kind, par, idx) /\ Owned(m.tab, kind, par, idx)
  BY DEF Tree, Accounts
<1>2. r \in R2
  BY <1>1 DEF Tree, Accounts, Tables
<1>3. CASE ~(Vpn(v, 0) < Half)
  BY <1>2, <1>3, ViewWindow
<1>4. ASSUME NEW q \in Heap, kind[q] = "low"
      PROVE  At(kind, par, idx, r, v, q) <=> At(k2, p2, i2, r, v, q)
  <2>1. par[q] \in Heap /\ kind[par[q]] \in Tables
    BY <1>1, <1>4 DEF Owned, Roles
  <2>2. QED
    BY <1>4, <2>1 DEF At, Tables
<1>5. CASE Vpn(v, 0) < Half /\ \E q \in Heap : At(kind, par, idx, r, v, q)
  <2>1. PICK q \in Heap : At(kind, par, idx, r, v, q)
    BY <1>5
  <2>2. kind[q] = "low" /\ At(k2, p2, i2, r, v, q)
    BY <1>4, <2>1 DEF At
  <2>3. Translate(m, r, v) = Leaf(m.tab[q][Vpn(v, 2)])
    BY <2>1, ViewAt
  <2>4. Translate(n, r, v) = Leaf(n.tab[q][Vpn(v, 2)])
    BY <1>2, <2>2, ViewAt
  <2>5. QED
    BY <2>2, <2>3, <2>4
<1>6. CASE Vpn(v, 0) < Half /\ ~ \E q \in Heap : At(kind, par, idx, r, v, q)
  <2>1. Translate(m, r, v) = Unmapped
    BY <1>6, ViewNone
  <2>2. CASE ~ \E q \in Heap : At(k2, p2, i2, r, v, q)
    BY <1>2, <1>6, <2>1, <2>2, ViewNone
  <2>3. ASSUME NEW q \in Heap, At(k2, p2, i2, r, v, q) PROVE Translate(n, r, v) = Unmapped
    <3>1. kind[q] # "low"
      BY <1>4, <1>6, <2>3
    <3>2. n.tab[q][Vpn(v, 2)] = Empty
      BY <2>3, <3>1
    <3>3. Leaf(Empty) = Unmapped
      BY DEF Leaf, Empty, Unmapped, Valid
    <3>4. QED
      BY <1>2, <2>3, <3>2, <3>3, ViewAt
  <2>4. QED
    BY <2>1, <2>2, <2>3
<1>7. QED
  BY <1>3, <1>5, <1>6

\* All translations of the spaces in R are the same, or all but that of page w in
\* the space of root.
ViewsSame(m, n, R) == \A r \in R, v \in VPages : Translate(n, r, v) = Translate(m, r, v)
ViewsBut(m, n, R, root, w) ==
    \A r \in R, v \in VPages : <<r, v>> # <<root, w>> => Translate(n, r, v) = Translate(m, r, v)

-----------------------------------------------------------------------------
(* mmu_map.                                                                 *)

\* The entry that one round of mmu_map's loop ends at: entry j of the table that
\* entry i of page p points at.
Reached(at, j, kind, par, idx, p, i) ==
    \/ at \in {NoEntry, Wild}
    \/ \E q \in Heap : at = <<q, j>> /\ kind[q] = Under[kind[p]] /\ par[q] = p /\ idx[q] = i

\* What one round leaves alone: the upper half of the roots and the tables of the
\* lowest level, and a new one of those is empty.
Carries(m, n, kind, kind2) ==
    /\ \A q \in Heap : \A x \in Index :
          kind2[q] = "low" => n.tab[q][x] = IF kind[q] = "low" THEN m.tab[q][x] ELSE Empty
    /\ \A q \in Heap : \A x \in Index :
          kind[q] = "root" /\ ~(x < Half) => n.tab[q][x] = m.tab[q][x]

\* One round of the loop keeps the trees, and the entries found earlier.
LEMMA DescendKeeps ==
    ASSUME NEW m, NEW R, NEW H, NEW kind, NEW par, NEW idx, Tree(m, R, H, kind, par, idx),
           NEW p \in Heap, kind[p] \in {"root", "mid"}, NEW i \in Index, NEW j \in Index
    PROVE  LET d == Descend(m, <<p, i>>, j) IN
           \E k2, p2, i2 : /\ Tree(d.m, R, H, k2, p2, i2)
                           /\ Keeps(kind, par, idx, k2, p2, i2)
                           /\ Carries(m, d.m, kind, k2)
                           /\ Reached(d.at, j, k2, p2, i2, p, i)
<1> DEFINE d == Descend(m, <<p, i>>, j)
           e == m.tab[p][i]
           f == FreshPage(m)
<1>0. /\ m \in [tab : Tabs, taken : SUBSET Heap] /\ Roles(kind, par, idx)
      /\ Shape(m.tab, kind, par, idx) /\ Owns(m.tab, kind, par, idx)
      /\ Owned(m.tab, kind, par, idx) /\ Accounts(m.taken, R, H, kind)
  BY DEF Tree
<1>1. Entry(m, <<p, i>>) = e /\ <<p, i>> \notin {NoEntry, Wild}
  BY HeapFacts DEF Entry, NoEntry, Wild
<1>2. Keeps(kind, par, idx, kind, par, idx) /\ Carries(m, m, kind, kind)
  BY DEF Keeps, Carries
<1>3. Fits(kind, par, idx, p, i, e)
  BY <1>0 DEF Shape
<1>4. CASE Valid(e) /\ Frame(e)
  <2>1. d.m = m /\ d.at = NoEntry
    BY <1>1, <1>4 DEF Descend
  <2>2. QED
    BY <1>2, <2>1 DEF Reached
<1>5. CASE Valid(e) /\ ~Frame(e)
  <2>1. d.m = m /\ d.at = EntryGetAny(e, j)
    BY <1>1, <1>5 DEF Descend
  <2>2. e.page \in Heap \cup {NULL}
    BY <1>3, <1>5 DEF Fits, RootEntry, TableEntry
  <2>3. CASE e.page = NULL
    <3>1. d.at \in {NoEntry, Wild}
      BY <2>1, <2>3, <1>5 DEF EntryGetAny
    <3>2. QED
      BY <1>2, <2>1, <3>1 DEF Reached
  <2>4. CASE e.page \in Heap
    <3>1. d.at = <<e.page, j>>
      BY <1>5, <2>1, <2>4, HeapFacts DEF EntryGetAny
    <3>2. kind[e.page] = Under[kind[p]] /\ par[e.page] = p /\ idx[e.page] = i
      BY <1>0, <1>5, <2>4 DEF Owns, Points, Tables
    <3>3. Reached(d.at, j, kind, par, idx, p, i)
      BY <2>4, <3>1, <3>2 DEF Reached
    <3>4. QED
      BY <1>2, <2>1, <3>3
  <2>5. QED
    BY <2>2, <2>3, <2>4
<1>6. ASSUME ~Valid(e)
      PROVE  /\ d.m = SetEntry(Allocated(m, f), <<p, i>>, {"V"}, f)
             /\ d.at = EntryGetAny(Entry(d.m, <<p, i>>), j)
  BY <1>1, <1>6 DEF Descend
<1>7. CASE ~Valid(e) /\ f = NULL
  <2> HIDE DEF d, e
  <2>1. d.m = SetEntry(m, <<p, i>>, {"V"}, NULL)
    BY <1>6, <1>7 DEF Allocated
  <2>2. ASSUME NEW fl \in SUBSET {"V", "R", "W", "X", "U"}, NEW g \in Nat, fl = {"V"}, g = NULL
        PROVE  /\ Tree(SetEntry(m, <<p, i>>, fl, g), R, H, kind, par, idx)
               /\ SetEntry(m, <<p, i>>, fl, g).tab[p][i] = [flags |-> fl, page |-> g]
               /\ Carries(m, SetEntry(m, <<p, i>>, fl, g), kind, kind)
    <3>1. DEFINE x == [flags |-> fl, page |-> g]
    <3>2. Valid(x) /\ ~Frame(x) /\ x.page = NULL /\ ~Points(x)
      BY <2>2, HeapFacts DEF Valid, Frame, Points
    <3>3. ~Points(m.tab[p][i])
      BY <1>7 DEF Points, e
    <3> HIDE DEF x
    <3>4. Fits(kind, par, idx, p, i, x)
      BY <1>3, <1>7, <3>2 DEF Fits, RootEntry, TableEntry
    <3>5. Tree(SetEntry(m, <<p, i>>, fl, g), R, H, kind, par, idx)
      BY <3>2, <3>3, <3>4, SetSame DEF x, Tables
    <3>6. \A a \in Heap : \A b \in Index :
             SetEntry(m, <<p, i>>, fl, g).tab[a][b] = IF a = p /\ b = i THEN x ELSE m.tab[a][b]
      BY <1>0, SetEntryFacts DEF x
    <3>7. kind[p] = "root" => i < Half
      BY <1>3, <1>7 DEF Fits, RootEntry
    <3>8. Carries(m, SetEntry(m, <<p, i>>, fl, g), kind, kind)
      BY <3>6, <3>7 DEF Carries
    <3>9. QED
      BY <3>5, <3>6, <3>8 DEF x
  <2>3. {"V"} \in SUBSET {"V", "R", "W", "X", "U"} /\ NULL \in Nat
    BY HeapFacts
  <2>4. /\ Tree(d.m, R, H, kind, par, idx) /\ d.m.tab[p][i] = [flags |-> {"V"}, page |-> NULL]
        /\ Carries(m, d.m, kind, kind)
    BY <2>1, <2>2, <2>3
  <2>5. d.at = EntryGetAny([flags |-> {"V"}, page |-> NULL], j)
    BY <1>6, <1>7, <2>4 DEF Entry
  <2>6. d.at \in {NoEntry, Wild}
    BY <2>5 DEF EntryGetAny
  <2>7. QED
    BY <1>2, <2>4, <2>6 DEF Reached, d
<1>8. CASE ~Valid(e) /\ f # NULL
  <2> DEFINE m1 == Allocated(m, f)
             k1 == [kind EXCEPT ![f] = "held"]
             k2 == [k1 EXCEPT ![f] = Under[kind[p]]]
             p2 == [par EXCEPT ![f] = p]
             i2 == [idx EXCEPT ![f] = i]
  <2>1. /\ f \in Heap /\ kind[f] = "free" /\ m1.tab[f] = ZeroTable
        /\ Tree(m1, R, H \cup {f}, k1, par, idx)
    BY <1>8, AllocTree
  <2>2. f # p
    BY <2>1
  <2>3. m1.tab[p] = m.tab[p] /\ \A a \in Heap : a # f => m1.tab[a] = m.tab[a]
    BY <1>0, <1>8, <2>1, <2>2 DEF Allocated, Tabs
  <2>4. k1[p] = kind[p] /\ k1[f] = "held"
    BY <1>0, <2>1, <2>2 DEF Roles
  <2> HIDE DEF m1, k1, f, e, d
  <2>5. ASSUME NEW fl \in SUBSET {"V", "R", "W", "X", "U"}, fl = {"V"}
        PROVE  /\ Tree(SetEntry(m1, <<p, i>>, fl, f), R, (H \cup {f}) \ {f}, k2, p2, i2)
               /\ \A a \in Heap : \A b \in Index :
                     SetEntry(m1, <<p, i>>, fl, f).tab[a][b] =
                        IF a = p /\ b = i THEN [flags |-> fl, page |-> f] ELSE m1.tab[a][b]
    <3>1. DEFINE x == [flags |-> fl, page |-> f]
    <3>2. Valid(x) /\ ~Frame(x) /\ x.page = f /\ Points(x)
      BY <2>1, <2>5 DEF Valid, Frame, Points
    <3>3. ~Points(m1.tab[p][i])
      BY <1>8, <2>3 DEF Points, e
    <3> HIDE DEF x
    <3>4. Fits(k1, par, idx, p, i, x)
      BY <1>3, <1>8, <2>1, <2>4, <3>2 DEF Fits, RootEntry, TableEntry
    <3>5. k1[p] \in Tables
      BY <2>4 DEF Tables
    <3>6. Tree(SetEntry(m1, <<p, i>>, fl, f), R, (H \cup {f}) \ {f},
               [k1 EXCEPT ![f] = Under[k1[p]]], [par EXCEPT ![f] = p], [idx EXCEPT ![f] = i])
      BY <2>1, <2>4, <3>2, <3>3, <3>4, <3>5, SetPoint DEF x
    <3>7. \A a \in Heap : \A b \in Index :
             SetEntry(m1, <<p, i>>, fl, f).tab[a][b] = IF a = p /\ b = i THEN x ELSE m1.tab[a][b]
      <4>1. f \in Nat /\ m1 \in [tab : Tabs, taken : SUBSET Heap]
        BY <2>1, HeapFacts DEF Tree
      <4>2. QED
        BY <4>1, SetEntryFacts DEF x
    <3>8. QED
      BY <2>4, <3>6, <3>7 DEF x
  <2>6. {"V"} \in SUBSET {"V", "R", "W", "X", "U"}
    OBVIOUS
  <2>7. (H \cup {f}) \ {f} = H
    <3>1. f \notin H
      BY <1>0, <1>8, <2>1 DEF Accounts
    <3>2. QED
      BY <3>1
  <2>8. d.m = SetEntry(m1, <<p, i>>, {"V"}, f)
    BY <1>6, <1>8 DEF m1
  <2>9. /\ Tree(d.m, R, H, k2, p2, i2) /\ d.m.tab[p][i] = [flags |-> {"V"}, page |-> f]
        /\ \A a \in Heap : \A b \in Index : ~(a = p /\ b = i) => d.m.tab[a][b] = m1.tab[a][b]
    <3> HIDE DEF k2, p2, i2
    <3>1. Tree(d.m, R, (H \cup {f}) \ {f}, k2, p2, i2)
      BY <2>5, <2>6, <2>8
    <3>2. \A a \in Heap : \A b \in Index :
             ~(a = p /\ b = i) => SetEntry(m1, <<p, i>>, {"V"}, f).tab[a][b] = m1.tab[a][b]
      BY <2>5, <2>6
    <3>3. SetEntry(m1, <<p, i>>, {"V"}, f).tab[p][i] = [flags |-> {"V"}, page |-> f]
      BY <2>5, <2>6
    <3>4. QED
      BY <2>7, <2>8, <3>1, <3>2, <3>3
  <2>10. d.at = EntryGetAny([flags |-> {"V"}, page |-> f], j)
    BY <1>6, <1>8, <2>9 DEF Entry
  <2>11. d.at = <<f, j>>
    BY <1>8, <2>10 DEF EntryGetAny, Valid, Frame
  <2>12. /\ k2[f] = Under[kind[p]] /\ p2[f] = p /\ i2[f] = i
         /\ \A q \in Heap : q # f => k2[q] = kind[q] /\ p2[q] = par[q] /\ i2[q] = idx[q]
    BY <1>0, <2>1 DEF Roles, k1
  <2> HIDE DEF k2, p2, i2
  <2>13. Keeps(kind, par, idx, k2, p2, i2)
    BY <2>1, <2>12 DEF Keeps
  <2>14. k2[p] = kind[p]
    BY <2>2, <2>12
  <2>15. Reached(d.at, j, k2, p2, i2, p, i)
    BY <2>1, <2>11, <2>12, <2>14 DEF Reached
  <2>16. Carries(m, d.m, kind, k2)
    <3>1. kind[p] = "root" => i < Half
      BY <1>3, <1>8 DEF Fits, RootEntry
    <3>2. \A b \in Index : m1.tab[f][b] = Empty
      BY <2>1 DEF ZeroTable
    <3>3. \A q \in Heap : \A x \in Index :
             k2[q] = "low" => d.m.tab[q][x] = IF kind[q] = "low" THEN m.tab[q][x] ELSE Empty
      BY <2>1, <2>3, <2>9, <2>12, <2>14, <3>2
    <3>4. \A q \in Heap : \A x \in Index :
             kind[q] = "root" /\ ~(x < Half) => d.m.tab[q][x] = m.tab[q][x]
      BY <2>1, <2>3, <2>9, <3>1
    <3>5. QED
      BY <3>3, <3>4 DEF Carries
  <2>17. QED
    BY <2>9, <2>13, <2>15, <2>16 DEF d
<1>9. QED
  BY <1>4, <1>5, <1>7, <1>8

\* The loop of mmu_map: the lowest table for page v of the space of a root, and the
\* tables above it.
Leads(at, kind, par, idx, root, v) ==
    \/ at \in {NoEntry, Wild}
    \/ \E q \in Heap : at = <<q, Vpn(v, 2)>> /\ At(kind, par, idx, root, v, q)

\* The two rounds of the loop.
LEMMA LoopKeeps ==
    ASSUME NEW m, NEW R, NEW H, NEW kind, NEW par, NEW idx, Tree(m, R, H, kind, par, idx),
           NEW root \in Heap, kind[root] = "root", NEW v \in VPages
    PROVE  LET d1 == Descend(m, <<root, Vpn(v, 0)>>, Vpn(v, 1))
               d2 == Descend(d1.m, d1.at, Vpn(v, 2))
           IN \E k2, p2, i2 : /\ Tree(d2.m, R, H, k2, p2, i2)
                              /\ Keeps(kind, par, idx, k2, p2, i2)
                              /\ Carries(m, d2.m, kind, k2)
                              /\ Leads(d2.at, k2, p2, i2, root, v)
<1> DEFINE d1 == Descend(m, <<root, Vpn(v, 0)>>, Vpn(v, 1))
           d2 == Descend(d1.m, d1.at, Vpn(v, 2))
<1>1. Vpn(v, 0) \in Index /\ Vpn(v, 1) \in Index /\ Vpn(v, 2) \in Index
  BY VpnIndex
<1>2. \E k1, p1, i1 : /\ Tree(d1.m, R, H, k1, p1, i1)
                      /\ Keeps(kind, par, idx, k1, p1, i1)
                      /\ Carries(m, d1.m, kind, k1)
                      /\ Reached(d1.at, Vpn(v, 1), k1, p1, i1, root, Vpn(v, 0))
  BY <1>1, DescendKeeps
<1> HIDE DEF d1
<1>3. PICK k1, p1, i1 : /\ Tree(d1.m, R, H, k1, p1, i1)
                        /\ Keeps(kind, par, idx, k1, p1, i1)
                        /\ Carries(m, d1.m, kind, k1)
                        /\ Reached(d1.at, Vpn(v, 1), k1, p1, i1, root, Vpn(v, 0))
  BY <1>2
<1>4. CASE d1.at \in {NoEntry, Wild}
  <2>1. d2.m = d1.m /\ d2.at \in {NoEntry, Wild}
    BY <1>4 DEF Descend
  <2>2. QED
    BY <1>3, <2>1 DEF Leads, d1
<1>5. CASE d1.at \notin {NoEntry, Wild}
  <2>1. PICK q \in Heap : /\ d1.at = <<q, Vpn(v, 1)>> /\ k1[q] = Under[k1[root]]
                          /\ p1[q] = root /\ i1[q] = Vpn(v, 0)
    BY <1>3, <1>5 DEF Reached
  <2>2. k1[q] = "mid"
    BY <1>3, <2>1 DEF Keeps, Under
  <2>3. d2 = Descend(d1.m, <<q, Vpn(v, 1)>>, Vpn(v, 2))
    BY <2>1
  <2>4. \E k2, p2, i2 : /\ Tree(d2.m, R, H, k2, p2, i2)
                        /\ Keeps(k1, p1, i1, k2, p2, i2)
                        /\ Carries(d1.m, d2.m, k1, k2)
                        /\ Reached(d2.at, Vpn(v, 2), k2, p2, i2, q, Vpn(v, 1))
    BY <1>1, <1>3, <2>2, <2>3, DescendKeeps
  <2> HIDE DEF d2
  <2>5. PICK k2, p2, i2 : /\ Tree(d2.m, R, H, k2, p2, i2)
                          /\ Keeps(k1, p1, i1, k2, p2, i2)
                          /\ Carries(d1.m, d2.m, k1, k2)
                          /\ Reached(d2.at, Vpn(v, 2), k2, p2, i2, q, Vpn(v, 1))
    BY <2>4
  <2>6. Keeps(kind, par, idx, k2, p2, i2)
    BY <1>3, <2>5 DEF Keeps
  <2>7. k2[q] = "mid" /\ i2[q] = Vpn(v, 0) /\ p2[q] = root
    BY <2>1, <2>2, <2>5 DEF Keeps
  <2>8. Leads(d2.at, k2, p2, i2, root, v)
    BY <2>5, <2>7 DEF Reached, Leads, At, Under
  <2>9. Carries(m, d2.m, kind, k2)
    <3>1. \A x \in Heap : kind[x] \in {"root", "low"} => k1[x] = kind[x] /\ k2[x] = kind[x]
      BY <1>3, <2>5 DEF Keeps
    <3>2. \A x \in Heap : \A y \in Index :
             k2[x] = "low" => d2.m.tab[x][y] = IF k1[x] = "low" THEN d1.m.tab[x][y] ELSE Empty
      BY <2>5 DEF Carries
    <3>3. \A x \in Heap : \A y \in Index :
             k1[x] = "low" => d1.m.tab[x][y] = IF kind[x] = "low" THEN m.tab[x][y] ELSE Empty
      BY <1>3 DEF Carries
    <3>4. \A x \in Heap : \A y \in Index :
             kind[x] = "root" /\ ~(y < Half) => d2.m.tab[x][y] = m.tab[x][y]
      BY <1>3, <2>5, <3>1 DEF Carries
    <3>5. \A x \in Heap : \A y \in Index :
             k2[x] = "low" => d2.m.tab[x][y] = IF kind[x] = "low" THEN m.tab[x][y] ELSE Empty
      BY <3>1, <3>2, <3>3
    <3>6. QED
      BY <3>4, <3>5 DEF Carries
  <2>10. QED
    BY <2>5, <2>6, <2>8, <2>9 DEF d2, d1
<1>6. QED
  BY <1>4, <1>5

\* The loop of mmu_map changes no translation.
LEMMA CarriedViews ==
    ASSUME NEW m, NEW R, NEW H, NEW kind, NEW par, NEW idx, Tree(m, R, H, kind, par, idx),
           NEW n, NEW R2, NEW H2, NEW k2, NEW p2, NEW i2, Tree(n, R2, H2, k2, p2, i2),
           Keeps(kind, par, idx, k2, p2, i2), Carries(m, n, kind, k2)
    PROVE  ViewsSame(m, n, R)
<1> SUFFICES ASSUME NEW r \in R, NEW v \in VPages PROVE Translate(n, r, v) = Translate(m, r, v)
  BY DEF ViewsSame
<1>1. Vpn(v, 0) \in Index /\ Vpn(v, 2) \in Index /\ r \in Heap /\ kind[r] = "root"
  BY VpnIndex DEF Tree, Accounts
<1>2. \A p \in Heap : kind[p] \in Tables => k2[p] = kind[p] /\ p2[p] = par[p] /\ i2[p] = idx[p]
  BY DEF Keeps, Tables
<1>3. ~(Vpn(v, 0) < Half) => n.tab[r][Vpn(v, 0)] = m.tab[r][Vpn(v, 0)]
  BY <1>1 DEF Carries
<1>4. \A q \in Heap : At(k2, p2, i2, r, v, q) =>
         n.tab[q][Vpn(v, 2)] = IF kind[q] = "low" THEN m.tab[q][Vpn(v, 2)] ELSE Empty
  BY <1>1 DEF Carries, At
<1>5. QED
  BY <1>2, <1>3, <1>4, ViewsAgree

\* Writing the entry for a page changes the translation of this page only.
LEMMA LeafViews ==
    ASSUME NEW m, NEW R, NEW H, NEW kind, NEW par, NEW idx, Tree(m, R, H, kind, par, idx),
           NEW root \in R, NEW w \in VPages, NEW q \in Heap, At(kind, par, idx, root, w, q),
           NEW flags \in SUBSET {"V", "R", "W", "X", "U"}, NEW page \in Nat,
           NEW n, n = SetEntry(m, <<q, Vpn(w, 2)>>, flags, page),
           NEW R2, NEW H2, NEW k2, NEW p2, NEW i2, Tree(n, R2, H2, k2, p2, i2),
           \A p \in Heap : kind[p] \in Tables =>
              k2[p] = kind[p] /\ p2[p] = par[p] /\ i2[p] = idx[p],
           \A p \in Heap : k2[p] = "low" => kind[p] = "low"
    PROVE  /\ ViewsBut(m, n, R, root, w) /\ Vpn(w, 0) < Half
           /\ Translate(m, root, w) = Leaf(m.tab[q][Vpn(w, 2)])
           /\ Translate(n, root, w) = Leaf([flags |-> flags, page |-> page])
<1>1. /\ Vpn(w, 0) \in Index /\ Vpn(w, 2) \in Index /\ root \in Heap /\ kind[root] = "root"
      /\ m \in [tab : Tabs, taken : SUBSET Heap] /\ Roles(kind, par, idx)
      /\ Owned(m.tab, kind, par, idx)
  BY VpnIndex DEF Tree, Accounts
<1>2. \A p \in Heap : \A i \in Index :
         n.tab[p][i] = IF p = q /\ i = Vpn(w, 2) THEN [flags |-> flags, page |-> page] ELSE m.tab[p][i]
  BY <1>1, SetEntryFacts
<1>3. Vpn(w, 0) < Half /\ Translate(m, root, w) = Leaf(m.tab[q][Vpn(w, 2)])
  BY ViewAt
<1>4. par[q] \in Heap /\ kind[par[q]] \in Tables /\ kind[q] = "low"
  BY <1>1 DEF Owned, Roles, At
<1>5. At(k2, p2, i2, root, w, q) /\ root \in R2
  BY <1>1, <1>4 DEF At, Tables, Tree, Accounts
<1>6. Translate(n, root, w) = Leaf([flags |-> flags, page |-> page])
  BY <1>1, <1>2, <1>5, ViewAt
<1>7. ASSUME NEW r \in R, NEW v \in VPages, <<r, v>> # <<root, w>>
      PROVE  Translate(n, r, v) = Translate(m, r, v)
  <2>1. Vpn(v, 0) \in Index /\ Vpn(v, 2) \in Index /\ r \in Heap /\ kind[r] = "root"
    BY VpnIndex DEF Tree, Accounts
  <2>2. ~(Vpn(v, 0) < Half) => n.tab[r][Vpn(v, 0)] = m.tab[r][Vpn(v, 0)]
    BY <1>2, <1>4, <2>1
  <2>3. ASSUME NEW s \in Heap, At(k2, p2, i2, r, v, s)
        PROVE  n.tab[s][Vpn(v, 2)] = m.tab[s][Vpn(v, 2)] /\ kind[s] = "low"
    <3>1. kind[s] = "low"
      BY <2>3 DEF At
    <3>2. ASSUME s = q, Vpn(v, 2) = Vpn(w, 2) PROVE FALSE
      <4>1. r = root /\ Vpn(v, 0) = Vpn(w, 0) /\ Vpn(v, 1) = Vpn(w, 1)
        BY <1>5, <2>3, <3>2 DEF At
      <4>2. v = w
        BY <3>2, <4>1, VpnInjective
      <4>3. QED
        BY <1>7, <4>1, <4>2
    <3>3. QED
      BY <1>2, <2>1, <3>1, <3>2
  <2>4. QED
    BY <2>2, <2>3, ViewsAgree
<1>8. QED
  BY <1>3, <1>6, <1>7 DEF ViewsBut

\* What mmu_map is asked to map: a page of the caller's, or NULL, for the user, or a
\* page of the kernel.
MayMap(kind, v, page, flags) ==
    /\ v \in VPages /\ page \in Nat
    /\ flags \in SUBSET {"R", "W", "X", "U"} /\ flags \cap {"R", "W", "X"} # {}
    /\ IF "U" \in flags THEN /\ page = NULL \/ (page \in Heap /\ kind[page] = "held")
                             /\ flags \cup {"V"} \in UserFlags
                        ELSE page \notin Heap /\ v \in KernelPages

\* What comes of it.  If the page cannot be mapped, the tables made on the way stay
\* and the page is still the caller's.  A page is mapped only where none was, and
\* all other translations stay.
MapOutcome(m, R, H, kind, par, idx, root, v, page, flags) ==
    LET res == MapResult(m, root, v, page, flags) IN
    /\ \E k2, p2, i2 :
          /\ Tree(res.m, R, IF res.ok /\ page \in Heap THEN H \ {page} ELSE H, k2, p2, i2)
          /\ ~res.ok => Keeps(kind, par, idx, k2, p2, i2)
    /\ ~res.ok => ViewsSame(m, res.m, R)
    /\ res.ok => /\ ViewsBut(m, res.m, R, root, v) /\ Vpn(v, 0) < Half
                 /\ Translate(m, root, v) = Unmapped
                 /\ Translate(res.m, root, v) = [page |-> page, flags |-> flags \cup {"V"}]

\* mmu_map keeps the trees and the other translations.
LEMMA MapKeeps ==
    ASSUME NEW m, NEW R, NEW H, NEW kind, NEW par, NEW idx, Tree(m, R, H, kind, par, idx),
           NEW root \in Heap, kind[root] = "root", NEW v, NEW page, NEW flags,
           MayMap(kind, v, page, flags)
    PROVE  MapOutcome(m, R, H, kind, par, idx, root, v, page, flags)
<1>0. /\ v \in VPages /\ page \in Nat
      /\ flags \in SUBSET {"R", "W", "X", "U"} /\ flags \cap {"R", "W", "X"} # {}
      /\ IF "U" \in flags THEN /\ page = NULL \/ (page \in Heap /\ kind[page] = "held")
                               /\ flags \cup {"V"} \in UserFlags
                          ELSE page \notin Heap /\ v \in KernelPages
  BY DEF MayMap
<1> DEFINE d1 == Descend(m, <<root, Vpn(v, 0)>>, Vpn(v, 1))
           d2 == Descend(d1.m, d1.at, Vpn(v, 2))
           res == MapResult(m, root, v, page, flags)
<1>1. \E k2, p2, i2 : /\ Tree(d2.m, R, H, k2, p2, i2)
                      /\ Keeps(kind, par, idx, k2, p2, i2)
                      /\ Carries(m, d2.m, kind, k2)
                      /\ Leads(d2.at, k2, p2, i2, root, v)
  BY <1>0, LoopKeeps
<1>2. res = IF d2.at \in {NoEntry, Wild} \/ Valid(Entry(d2.m, d2.at))
            THEN [m |-> d2.m, ok |-> FALSE, wild |-> d2.at = Wild]
            ELSE [m |-> SetEntry(d2.m, d2.at, flags \cup {"V"}, page), ok |-> TRUE, wild |-> FALSE]
  BY DEF MapResult
<1> HIDE DEF d1, d2, res
<1>3. PICK k2, p2, i2 : /\ Tree(d2.m, R, H, k2, p2, i2)
                        /\ Keeps(kind, par, idx, k2, p2, i2)
                        /\ Carries(m, d2.m, kind, k2)
                        /\ Leads(d2.at, k2, p2, i2, root, v)
  BY <1>1
<1> DEFINE Same == ViewsSame(m, d2.m, R)
<1>a. Same
  BY <1>3, CarriedViews
<1> HIDE DEF Same
<1>4. CASE d2.at \in {NoEntry, Wild} \/ Valid(Entry(d2.m, d2.at))
  <2>1. res.m = d2.m /\ res.ok = FALSE
    BY <1>2, <1>4
  <2>2. QED
    BY <1>3, <1>a, <2>1 DEF res, Same, MapOutcome
<1>5. CASE ~(d2.at \in {NoEntry, Wild} \/ Valid(Entry(d2.m, d2.at)))
  <2>1. res.m = SetEntry(d2.m, d2.at, flags \cup {"V"}, page) /\ res.ok = TRUE
    BY <1>2, <1>5
  <2>2. PICK q \in Heap : /\ d2.at = <<q, Vpn(v, 2)>> /\ k2[q] = "low"
                          /\ At(k2, p2, i2, root, v, q)
    BY <1>3, <1>5 DEF Leads, At
  <2> DEFINE j == Vpn(v, 2)
             fl == flags \cup {"V"}
             x == [flags |-> fl, page |-> page]
  <2>3. j \in Index
    BY <1>0, VpnIndex
  <2>4. fl \in SUBSET {"V", "R", "W", "X", "U"} /\ ("U" \in fl <=> "U" \in flags) /\ "V" \in fl
        /\ fl \cap {"R", "W", "X"} # {}
    BY <1>0
  <2> HIDE DEF fl
  <2>5. Valid(x) /\ Frame(x) /\ x.page = page /\ x.flags = fl
    BY <2>4 DEF Valid, Frame
  <2>6. ~Points(d2.m.tab[q][j])
    BY <1>5, <2>2 DEF Entry, Points
  <2> HIDE DEF x, j
  <2>7. ASSUME "U" \notin fl PROVE KernelSlot(p2, i2, q, j)
    BY <1>0, <2>2, <2>4, <2>7 DEF KernelSlot, At, j
  <2>8. Fits(k2, p2, i2, q, j, x)
    <3>1. LeafEntry(x)
      BY <1>0, <2>4, <2>5 DEF LeafEntry, fl
    <3>2. Valid(x) /\ "U" \notin x.flags => KernelSlot(p2, i2, q, j)
      BY <2>5, <2>7
    <3>3. QED
      BY <2>2, <3>1, <3>2 DEF Fits
  <2>9. res.m = SetEntry(d2.m, <<q, j>>, fl, page)
    BY <2>1, <2>2 DEF j, fl
  <2>10. k2[q] \in Tables /\ Under[k2[q]] = "user"
    BY <2>2 DEF Tables, Under
  <2>b. ASSUME NEW H2, NEW k3, NEW p3, NEW i3, Tree(res.m, R, H2, k3, p3, i3),
               \A p \in Heap : k2[p] \in Tables =>
                  k3[p] = k2[p] /\ p3[p] = p2[p] /\ i3[p] = i2[p],
               \A p \in Heap : k3[p] = "low" => k2[p] = "low"
        PROVE  /\ ViewsBut(m, res.m, R, root, v) /\ Vpn(v, 0) < Half
               /\ Translate(m, root, v) = Unmapped
               /\ Translate(res.m, root, v) = [page |-> page, flags |-> fl]
    <3>1. root \in R /\ fl \in SUBSET {"V", "R", "W", "X", "U"}
      BY <2>4 DEF Tree, Accounts
    <3>2. /\ ViewsBut(d2.m, res.m, R, root, v) /\ Vpn(v, 0) < Half
          /\ Translate(d2.m, root, v) = Leaf(d2.m.tab[q][j])
          /\ Translate(res.m, root, v) = Leaf([flags |-> fl, page |-> page])
      BY <1>0, <1>3, <2>2, <2>9, <2>b, <3>1, LeafViews DEF j
    <3>3. Leaf(d2.m.tab[q][j]) = Unmapped
      BY <1>5, <2>2 DEF Leaf, Entry, j
    <3>4. Leaf(x) = [page |-> page, flags |-> fl]
      BY <2>5 DEF Leaf
    <3>5. QED
      BY <1>0, <1>a, <3>1, <3>2, <3>3, <3>4 DEF Same, ViewsSame, ViewsBut, x
  <2>11. CASE page \in Heap
    <3>1. "U" \in fl /\ kind[page] = "held"
      BY <1>0, <2>4, <2>11, HeapFacts
    <3>2. k2[page] = "held" /\ Points(x)
      BY <1>3, <2>5, <2>11, <3>1 DEF Keeps, Points
    <3>3. Tree(res.m, R, H \ {page}, [k2 EXCEPT ![page] = Under[k2[q]]],
               [p2 EXCEPT ![page] = q], [i2 EXCEPT ![page] = j])
      <4>1. Tree(d2.m, R, H, k2, p2, i2) /\ x = [flags |-> fl, page |-> page]
        BY <1>3 DEF x
      <4>2. fl \in SUBSET {"V", "R", "W", "X", "U"}
        BY <2>4
      <4>3. Tree(SetEntry(d2.m, <<q, j>>, fl, page), R, H \ {page}, [k2 EXCEPT ![page] = Under[k2[q]]],
                 [p2 EXCEPT ![page] = q], [i2 EXCEPT ![page] = j])
        BY <2>3, <2>6, <2>8, <2>10, <2>11, <3>2, <4>1, <4>2, SetPoint
      <4>4. QED
        BY <2>9, <4>3
    <3> DEFINE k3 == [k2 EXCEPT ![page] = Under[k2[q]]]
               p3 == [p2 EXCEPT ![page] = q]
               i3 == [i2 EXCEPT ![page] = j]
    <3>4. /\ \A p \in Heap : k2[p] \in Tables => k3[p] = k2[p] /\ p3[p] = p2[p] /\ i3[p] = i2[p]
          /\ \A p \in Heap : k3[p] = "low" => k2[p] = "low"
      <4>1. Roles(k2, p2, i2)
        BY <1>3 DEF Tree
      <4>2. QED
        BY <2>10, <3>2, <4>1 DEF Roles, Tables
    <3>5. Tree(res.m, R, H \ {page}, k3, p3, i3)
      BY <3>3
    <3> HIDE DEF k3, p3, i3
    <3>6. /\ ViewsBut(m, res.m, R, root, v) /\ Vpn(v, 0) < Half
          /\ Translate(m, root, v) = Unmapped
          /\ Translate(res.m, root, v) = [page |-> page, flags |-> fl]
      BY <2>b, <3>4, <3>5
    <3>7. QED
      BY <2>1, <2>11, <3>5, <3>6 DEF res, fl, MapOutcome
  <2>12. CASE page \notin Heap
    <3>1. ~Points(x)
      BY <2>5, <2>12 DEF Points
    <3>2. Tree(res.m, R, H, k2, p2, i2)
      BY <1>0, <1>3, <2>3, <2>4, <2>6, <2>8, <2>9, <2>10, <3>1, SetSame DEF x
    <3>3. /\ ViewsBut(m, res.m, R, root, v) /\ Vpn(v, 0) < Half
          /\ Translate(m, root, v) = Unmapped
          /\ Translate(res.m, root, v) = [page |-> page, flags |-> fl]
      BY <2>b, <3>2
    <3>4. QED
      BY <2>1, <2>12, <3>2, <3>3 DEF res, fl, MapOutcome
  <2>13. QED
    BY <2>11, <2>12
<1>6. QED
  BY <1>4, <1>5

-----------------------------------------------------------------------------
(* create_mmu_table.                                                        *)

\* What a new space that holds the pages K of the kernel maps page v to.
New(K, v) ==
    IF ~(Vpn(v, 0) < Half)
    THEN [page |-> v - Half * Fanout * Fanout, flags |-> {"V", "R", "W"}]
    ELSE IF v \in K THEN [page |-> v, flags |-> KernelMap[v] \cup {"V"}] ELSE Unmapped

\* The states of the loop of identity_map_kernel for a new root, begun with memory m:
\* the other spaces are those of m.
Makings(R, H, root, m) ==
    {a \in [m : [tab : Tabs, taken : SUBSET Heap], ok : BOOLEAN, wild : BOOLEAN] :
       /\ \E kind, par, idx : Tree(a.m, R, H, kind, par, idx)
       /\ ViewsSame(m, a.m, R \ {root})
       /\ \E K \in SUBSET KernelPages : \A v \in VPages : Translate(a.m, root, v) = New(K, v)}

\* One page of the kernel.
LEMMA KernelPageKeeps ==
    ASSUME NEW R, NEW H, NEW m, NEW root \in R, NEW a \in Makings(R, H, root, m),
           NEW p \in 0 .. FirstHeap - 1
    PROVE  MapKernelPage(a, root, p) \in Makings(R, H, root, m)
<1>1. CASE p \notin KernelPages \/ a.wild
  BY <1>1 DEF MapKernelPage
<1>2. CASE p \in KernelPages /\ ~a.wild
  <2> DEFINE fl == KernelMap[p]
             res == MapResult(a.m, root, p, p, fl)
  <2>1. MapKernelPage(a, root, p) = res
    BY <1>2 DEF MapKernelPage
  <2>2. PICK kind, par, idx : Tree(a.m, R, H, kind, par, idx)
    BY DEF Makings
  <2>3. root \in Heap /\ kind[root] = "root"
    BY <2>2 DEF Tree, Accounts
  <2>4. p \in VPages /\ p \in Nat /\ p \notin Heap
    <3>1. FirstHeap \in PPages
      BY MmuAssumption DEF Heap
    <3>2. Fanout * Fanout \in Nat /\ Half * (Fanout * Fanout) =< Fanout * (Fanout * Fanout)
      BY Sizes
    <3>3. p < Fanout * (Fanout * Fanout) /\ p \in Nat
      BY <3>1, <3>2, Sizes DEF PPages
    <3>4. QED
      BY <1>2, <3>2, <3>3, Sizes, HeapFacts DEF VPages
  <2>5. /\ KernelMap[p] \in SUBSET {"R", "W", "X", "U"} /\ "U" \notin KernelMap[p]
        /\ KernelMap[p] \cap {"R", "W", "X"} # {}
    <3>1. KernelMap[p] \subseteq {"R", "W", "X"} /\ KernelMap[p] # {}
      BY <1>2, MmuAssumption
    <3>2. QED
      BY <3>1
  <2>6. /\ \E k2, p2, i2 :
              /\ Tree(res.m, R, IF res.ok /\ p \in Heap THEN H \ {p} ELSE H, k2, p2, i2)
              /\ ~res.ok => Keeps(kind, par, idx, k2, p2, i2)
        /\ ~res.ok => ViewsSame(a.m, res.m, R)
        /\ res.ok => /\ ViewsBut(a.m, res.m, R, root, p) /\ Vpn(p, 0) < Half
                     /\ Translate(a.m, root, p) = Unmapped
                     /\ Translate(res.m, root, p) = [page |-> p, flags |-> fl \cup {"V"}]
    <3> HIDE DEF fl
    <3>1. fl \in SUBSET {"R", "W", "X", "U"} /\ fl \cap {"R", "W", "X"} # {} /\ "U" \notin fl
      BY <2>5 DEF fl
    <3>2. IF "U" \in fl THEN /\ p = NULL \/ (p \in Heap /\ kind[p] = "held")
                             /\ fl \cup {"V"} \in UserFlags
                        ELSE p \notin Heap /\ p \in KernelPages
      BY <1>2, <2>4, <3>1
    <3>3. MayMap(kind, p, p, fl)
      BY <2>4, <3>1, <3>2 DEF MayMap
    <3>4. MapOutcome(a.m, R, H, kind, par, idx, root, p, p, fl)
      BY <2>2, <2>3, <3>3, MapKeeps
    <3>5. QED
      BY <3>4 DEF MapOutcome
  <2>7. res \in [m : {res.m}, ok : BOOLEAN, wild : BOOLEAN]
    BY DEF MapResult
  <2> HIDE DEF res
  <2>8. \E k2, p2, i2 : Tree(res.m, R, H, k2, p2, i2)
    BY <2>4, <2>6
  <2>9. res.m \in [tab : Tabs, taken : SUBSET Heap]
    BY <2>8 DEF Tree
  <2>10. ViewsSame(m, a.m, R \ {root})
    BY DEF Makings
  <2>11. ViewsSame(m, res.m, R \ {root})
    BY <2>6, <2>10 DEF ViewsSame, ViewsBut
  <2>12. PICK K \in SUBSET KernelPages : \A v \in VPages : Translate(a.m, root, v) = New(K, v)
    BY DEF Makings
  <2>13. \E L \in SUBSET KernelPages : \A v \in VPages : Translate(res.m, root, v) = New(L, v)
    <3>1. CASE ~res.ok
      BY <2>6, <2>12, <3>1 DEF ViewsSame
    <3>2. CASE res.ok
      <4> DEFINE L == K \cup {p}
      <4>1. \A v \in VPages : v # p => Translate(res.m, root, v) = New(L, v)
        BY <2>6, <2>12, <3>2 DEF ViewsBut, New
      <4>2. Translate(res.m, root, p) = New(L, p)
        BY <2>6, <3>2 DEF New
      <4>3. L \in SUBSET KernelPages
        BY <1>2
      <4> HIDE DEF L
      <4>4. QED
        BY <4>1, <4>2, <4>3
    <3>3. QED
      BY <3>1, <3>2
  <2>14. res \in Makings(R, H, root, m)
    BY <2>7, <2>8, <2>9, <2>11, <2>13 DEF Makings
  <2>15. QED
    BY <2>1, <2>14
<1>3. QED
  BY <1>1, <1>2

\* identity_map_kernel.
LEMMA IdentityKeeps ==
    ASSUME NEW m, NEW R, NEW H, NEW kind, NEW par, NEW idx, Tree(m, R, H, kind, par, idx),
           NEW root \in R, \A v \in VPages : Translate(m, root, v) = New({}, v)
    PROVE  IdentityMapped(m, root) \in Makings(R, H, root, m)
<1> DEFINE S == Makings(R, H, root, m)
           k == FirstHeap
           s0 == [m |-> m, ok |-> TRUE, wild |-> FALSE]
           Loop(g) == [n \in 0 .. k |-> IF n = 0 THEN s0 ELSE MapKernelPage(g[n - 1], root, n - 1)]
           F == [x \in S \X (0 .. k - 1) |-> MapKernelPage(x[1], root, x[2])]
           acc == CHOOSE g : g = Loop(g)
<1>1. k \in Nat /\ s0 \in S
  <2>1. m \in [tab : Tabs, taken : SUBSET Heap] /\ ViewsSame(m, m, R \ {root})
    BY DEF Tree, ViewsSame
  <2>2. \E K \in SUBSET KernelPages : \A v \in VPages : Translate(m, root, v) = New(K, v)
    OBVIOUS
  <2>3. s0.m = m /\ s0 \in [m : {m}, ok : BOOLEAN, wild : BOOLEAN]
    OBVIOUS
  <2> HIDE DEF s0
  <2>4. s0 \in Makings(R, H, root, m)
    BY <2>1, <2>2, <2>3 DEF Makings
  <2>5. QED
    BY <2>4, MmuAssumption
<1>2. \A x \in S, i \in 0 .. k - 1 : MapKernelPage(x, root, i) \in S
  BY KernelPageKeeps
<1>3. IdentityMapped(m, root) = acc[k]
  BY DEF IdentityMapped
<1> HIDE DEF S, k, s0
<1>4. \E g : g = Loop(g)
  <2>1. Rounds(F, S, k)
    BY <1>2 DEF Rounds
  <2>2. \A x \in S, i \in 0 .. k - 1 : F[<<x, i>>] = MapKernelPage(x, root, i)
    OBVIOUS
  <2> HIDE DEF F
  <2>3. PICK g : g \in Passes(F, S, k, s0)
    BY <1>1, <2>1, LoopExists
  <2>4. \A n \in 0 .. k : n # 0 => n \in 1 .. k /\ n - 1 \in 0 .. k - 1 /\ g[n - 1] \in S
    BY <1>1, <2>3 DEF Passes
  <2>5. \A n \in 0 .. k : g[n] = Loop(g)[n]
    BY <2>2, <2>3, <2>4 DEF Passes
  <2>6. g = Loop(g)
    BY <2>3, <2>5 DEF Passes
  <2>7. QED
    BY <2>6
<1>5. acc = Loop(acc)
  BY <1>4
<1> HIDE DEF acc
<1>6. acc[0] \in S /\ \A n \in 1 .. k : acc[n - 1] \in S => acc[n] \in S
  BY <1>1, <1>2, <1>5
<1>7. acc[k] \in S
  BY <1>1, <1>6, LoopStays
<1>8. QED
  BY <1>3, <1>7 DEF S

-----------------------------------------------------------------------------
(* mmu_walk_to_entry.                                                       *)

\* One step of the walk, from a valid entry that is not in the kernel's window.
LEMMA DeeperReaches ==
    ASSUME NEW m, NEW R, NEW H, NEW kind, NEW par, NEW idx, Tree(m, R, H, kind, par, idx),
           NEW p \in Heap, kind[p] \in {"root", "mid"}, NEW i \in Index, NEW j \in Index,
           kind[p] = "root" => i < Half, Valid(m.tab[p][i]),
           NEW a, a = Deeper(m, <<p, i>>, j), a \notin {NoEntry, Wild}
    PROVE  \E q \in Heap : /\ a = <<q, j>> /\ kind[q] = Under[kind[p]] /\ par[q] = p
                           /\ idx[q] = i /\ Valid(m.tab[q][j])
<1> DEFINE e == m.tab[p][i]
<1>1. Shape(m.tab, kind, par, idx) /\ Owns(m.tab, kind, par, idx)
  BY DEF Tree
<1>2. ~Frame(e) /\ e.page \in Heap \cup {NULL}
  BY <1>1 DEF Shape, Fits, RootEntry, TableEntry
<1>3. Entry(m, <<p, i>>) = e /\ <<p, i>> \notin {NoEntry, Wild}
  BY HeapFacts DEF Entry, NoEntry, Wild
<1> HIDE DEF e
<1>4. a = IfValid(m, EntryGetAny(e, j))
  BY <1>2, <1>3 DEF Deeper
<1>5. e.page # NULL
  BY <1>4 DEF EntryGetAny, IfValid
<1>6. EntryGetAny(e, j) = <<e.page, j>>
  BY <1>2, <1>5 DEF EntryGetAny, e
<1>7. e.page \in Heap /\ a = <<e.page, j>> /\ Valid(m.tab[e.page][j])
  BY <1>2, <1>4, <1>5, <1>6 DEF IfValid, Entry
<1>8. kind[e.page] = Under[kind[p]] /\ par[e.page] = p /\ idx[e.page] = i
  BY <1>1, <1>2, <1>7 DEF Owns, Points, Tables, e
<1>9. QED
  BY <1>7, <1>8

\* A walk for a page of the user ends at no entry or at one of the user's.
LEMMA WalkReaches ==
    ASSUME NEW m, NEW R, NEW H, NEW kind, NEW par, NEW idx, Tree(m, R, H, kind, par, idx),
           NEW root \in R, NEW v, Private(v),
           NEW a, a = WalkToEntry(m, root, v), a \notin {NoEntry, Wild}
    PROVE  \E q \in Heap, j \in Index :
              /\ a = <<q, j>> /\ kind[q] = "low" /\ Valid(m.tab[q][j]) /\ Frame(m.tab[q][j])
              /\ "U" \in m.tab[q][j].flags /\ m.tab[q][j].page \in Heap \cup {NULL}
              /\ j = Vpn(v, 2) /\ At(kind, par, idx, root, v, q) /\ m.tab[q][j].flags \in UserFlags
<1>1. /\ v \in VPages /\ v \notin KernelPages /\ Vpn(v, 0) < Half
      /\ Vpn(v, 0) \in Index /\ Vpn(v, 1) \in Index /\ Vpn(v, 2) \in Index
  BY VpnIndex, MmuAssumption DEF Private
<1>2. root \in Heap /\ kind[root] = "root" /\ Shape(m.tab, kind, par, idx)
  BY DEF Tree, Accounts
<1> DEFINE a0 == IfValid(m, <<root, Vpn(v, 0)>>)
           a1 == Deeper(m, a0, Vpn(v, 1))
<1>3. a = Deeper(m, a1, Vpn(v, 2))
  BY DEF WalkToEntry
<1>4. a1 \notin {NoEntry, Wild}
  BY <1>3 DEF Deeper
<1>5. a0 \notin {NoEntry, Wild}
  BY <1>4 DEF Deeper
<1>6. a0 = <<root, Vpn(v, 0)>> /\ Valid(m.tab[root][Vpn(v, 0)])
  BY <1>2, <1>5, HeapFacts DEF IfValid, Entry, NoEntry, Wild
<1> HIDE DEF a0
<1>7. a1 = Deeper(m, <<root, Vpn(v, 0)>>, Vpn(v, 1))
  BY <1>6
<1> HIDE DEF a1
<1>8. PICK q1 \in Heap : /\ a1 = <<q1, Vpn(v, 1)>> /\ kind[q1] = Under[kind[root]]
                         /\ par[q1] = root /\ idx[q1] = Vpn(v, 0) /\ Valid(m.tab[q1][Vpn(v, 1)])
  BY <1>1, <1>2, <1>4, <1>6, <1>7, DeeperReaches
<1>9. kind[q1] = "mid" /\ a = Deeper(m, <<q1, Vpn(v, 1)>>, Vpn(v, 2))
  BY <1>2, <1>3, <1>8 DEF Under
<1>10. PICK q \in Heap : /\ a = <<q, Vpn(v, 2)>> /\ kind[q] = Under[kind[q1]]
                         /\ par[q] = q1 /\ idx[q] = Vpn(v, 1) /\ Valid(m.tab[q][Vpn(v, 2)])
  BY <1>1, <1>9, <1>8, DeeperReaches
<1>11. kind[q] = "low"
  BY <1>9, <1>10 DEF Under
<1>12. ~KernelSlot(par, idx, q, Vpn(v, 2))
  <2> SUFFICES ASSUME NEW w \in KernelPages, idx[par[q]] = Vpn(w, 0), idx[q] = Vpn(w, 1),
                      Vpn(v, 2) = Vpn(w, 2)
               PROVE  FALSE
    BY DEF KernelSlot
  <2>1. w \in VPages
    <3>1. FirstHeap \in PPages /\ w \in Nat /\ w < FirstHeap
      BY MmuAssumption DEF Heap
    <3>2. Fanout * Fanout \in Nat /\ Half * (Fanout * Fanout) =< Fanout * (Fanout * Fanout)
      BY Sizes
    <3>3. QED
      BY <3>1, <3>2, Sizes DEF PPages, VPages
  <2>2. v = w
    BY <1>1, <1>8, <1>10, <2>1, VpnInjective
  <2>3. QED
    BY <1>1, <2>2
<1>13. Fits(kind, par, idx, q, Vpn(v, 2), m.tab[q][Vpn(v, 2)])
  BY <1>1, <1>2 DEF Shape
<1>14. LET e == m.tab[q][Vpn(v, 2)]
       IN Frame(e) /\ "U" \in e.flags /\ e.page \in Heap \cup {NULL} /\ e.flags \in UserFlags
  BY <1>10, <1>11, <1>12, <1>13 DEF Fits, LeafEntry
<1>15. At(kind, par, idx, root, v, q)
  BY <1>8, <1>10, <1>11 DEF At
<1>16. QED
  BY <1>1, <1>10, <1>11, <1>14, <1>15

-----------------------------------------------------------------------------
(* The invariant, and what each operation does to it.                       *)

\* The pages have roles that agree with the trees, the roots and the pages held.
TreeInv == \E kind, par, idx : Tree(Mem, roots, held, kind, par, idx)

\* At first every page is free.
LEMMA InitTree == Init => TreeInv
<1> SUFFICES ASSUME Init PROVE TreeInv
  OBVIOUS
<1> DEFINE kind == [p \in Heap |-> "free"]
           par == [p \in Heap |-> p]
           idx == [p \in Heap |-> 0]
<1>1. /\ Mem.tab = [p \in Heap |-> ZeroTable] /\ Mem.taken = {} /\ Mem = [tab |-> tab, taken |-> taken]
      /\ roots = {} /\ held = {}
  BY DEF Init, Mem
<1>2. ZeroTable \in [Index -> EntrySet] /\ 0 \in Index
  BY HeapFacts, Sizes DEF ZeroTable, Empty, EntrySet, Index
<1>3. Mem \in [tab : Tabs, taken : SUBSET Heap]
  BY <1>1, <1>2 DEF Tabs, Init
<1>4. Roles(kind, par, idx) /\ \A p \in Heap : kind[p] = "free"
  BY <1>2 DEF Roles, Kinds
<1> HIDE DEF kind, par, idx
<1>5. Shape(Mem.tab, kind, par, idx) /\ Owns(Mem.tab, kind, par, idx) /\ Owned(Mem.tab, kind, par, idx)
  BY <1>4 DEF Shape, Fits, Owns, Owned, Tables
<1>6. Accounts(Mem.taken, roots, held, kind)
  BY <1>1, <1>4 DEF Accounts
<1>7. QED
  BY <1>3, <1>4, <1>5, <1>6 DEF TreeInv, Tree

\* The trees of the next state, from the memory that an operation leaves.
LEMMA Next_Tree ==
    ASSUME NEW m, m \in [tab : Tabs, taken : SUBSET Heap], Becomes(m),
           NEW kind, NEW par, NEW idx, Tree(m, roots', held', kind, par, idx)
    PROVE  TreeInv' /\ Mem' = m
<1>1. m = [tab |-> m.tab, taken |-> m.taken]
  OBVIOUS
<1>2. Mem' = m
  BY <1>1 DEF Becomes, Mem
<1>3. QED
  BY <1>2 DEF TreeInv

\* What callers map a page to, and what an operation may do to a translation.
UserMappings == [page : PPages, flags : UserFlags]
Changes(a, b) ==
    \/ a = Unmapped /\ b \in UserMappings
    \/ a \in UserMappings /\ b = Unmapped
    \/ a \in UserMappings /\ b \in UserMappings /\ a.page = b.page

\* What a step does to the translations: it changes none, or one, or makes a space.
NoChange == roots' = roots /\ ViewsSame(Mem, Mem', roots)
OneChange ==
    /\ roots' = roots
    /\ \E r \in roots, w \in VPages :
          /\ ViewsBut(Mem, Mem', roots, r, w)
          /\ Changes(Translate(Mem, r, w), Translate(Mem', r, w))
NewSpace ==
    \E r : /\ r \notin roots /\ roots' = roots \cup {r}
           /\ ViewsSame(Mem, Mem', roots)
           /\ \E K \in SUBSET KernelPages : \A v \in VPages : Translate(Mem', r, v) = New(K, v)

\* A translation depends on the tables only.
LEMMA TabViews ==
    ASSUME NEW m, NEW n, n.tab = m.tab, NEW R
    PROVE  ViewsSame(m, n, R)
  BY DEF ViewsSame, Translate, Child

\* Without a page the kernel faults, and nothing else happens.
LEMMA FaultKeeps == TreeInv /\ Fault => TreeInv' /\ NoChange
  BY DEF Fault, TreeInv, Mem, NoChange, ViewsSame

\* The mappings of users: a page of the heap, or NULL.
LEMMA UserMapping ==
    ASSUME NEW page \in Heap \cup {NULL}, NEW fl \in UserFlags
    PROVE  [page |-> page, flags |-> fl] \in UserMappings
<1>1. page \in PPages
  <2>1. FirstHeap \in PPages /\ Heap \subseteq PPages
    BY MmuAssumption DEF Heap
  <2>2. 0 \in PPages
    <3> DEFINE top == Half * Fanout * Fanout
    <3>1. top \in Int /\ FirstHeap \in 0 .. top - 1
      BY <2>1, Sizes DEF PPages
    <3> HIDE DEF top
    <3>2. 0 \in 0 .. top - 1
      BY <3>1
    <3>3. QED
      BY <3>2 DEF PPages, top
  <2>3. QED
    BY <2>1, <2>2 DEF NULL
<1>2. QED
  BY <1>1 DEF UserMappings

\* alloc_pages changes no translation: the page was not part of a tree.
LEMMA AllocViews ==
    ASSUME NEW m, NEW R, NEW H, NEW kind, NEW par, NEW idx, Tree(m, R, H, kind, par, idx),
           NEW p, p = FreshPage(m), p # NULL
    PROVE  ViewsSame(m, Allocated(m, p), R)
<1> DEFINE n == Allocated(m, p)
           k == [kind EXCEPT ![p] = "held"]
<1>1. p \in Heap /\ kind[p] = "free" /\ Tree(n, R, H \cup {p}, k, par, idx)
  BY AllocTree
<1>2. m \in [tab : Tabs, taken : SUBSET Heap] /\ Roles(kind, par, idx)
  BY DEF Tree
<1>3. \A q \in Heap : q # p => n.tab[q] = m.tab[q]
  BY <1>1, <1>2 DEF Allocated, Tabs
<1>4. k[p] = "held" /\ \A q \in Heap : q # p => k[q] = kind[q]
  BY <1>1, <1>2 DEF Roles
<1> HIDE DEF n, k
<1>5. Keeps(kind, par, idx, k, par, idx) /\ Carries(m, n, kind, k)
  BY <1>1, <1>3, <1>4 DEF Keeps, Carries
<1>6. QED
  BY <1>1, <1>5, CarriedViews DEF n

\* A new root without pages of the kernel translates the kernel's window.
LEMMA WindowView ==
    ASSUME NEW m, NEW root, m.tab[root] = KernelWindow, NEW v \in VPages
    PROVE  Translate(m, root, v) = New({}, v)
<1> DEFINE i == Vpn(v, 0)
           e0 == m.tab[root][i]
           e1 == Child(m, e0, Vpn(v, 1))
           e2 == Child(m, e1, Vpn(v, 2))
           d == v % (Fanout * Fanout)
<1>1. i \in Index
  BY VpnIndex
<1>2. Translate(m, root, v) =
         IF Valid(e2) /\ Frame(e2)
         THEN [page |-> e2.page + (IF Frame(e0) THEN d ELSE IF Frame(e1) THEN v % Fanout ELSE 0),
               flags |-> e2.flags]
         ELSE Unmapped
  BY DEF Translate
<1>3. CASE i < Half
  <2>1. e0 = Empty
    BY <1>1, <1>3 DEF KernelWindow
  <2>2. ~Valid(e0)
    BY <2>1 DEF Empty, Valid
  <2>3. e1 = e0
    BY <2>2 DEF Child
  <2>4. e2 = e0
    BY <2>2, <2>3 DEF Child
  <2> HIDE DEF e0, e1, e2, d
  <2>5. QED
    BY <1>2, <1>3, <2>2, <2>4 DEF New
<1>4. CASE ~(i < Half)
  <2> DEFINE g == (i - Half) * Fanout * Fanout
             fl == {"V", "R", "W"}
  <2>1. e0 = [flags |-> fl, page |-> g]
    BY <1>1, <1>4 DEF KernelWindow
  <2>2. Valid(e0) /\ Frame(e0) /\ e0.page = g /\ e0.flags = fl
    BY <2>1 DEF Valid, Frame
  <2>3. e1 = e0
    BY <2>2 DEF Child
  <2>4. e2 = e0
    BY <2>2, <2>3 DEF Child
  <2>5. g + d = v - Half * Fanout * Fanout
    <3> DEFINE s == Fanout * Fanout
    <3>1. Fanout \in Nat \ {0} /\ Half \in Nat /\ v \in Nat /\ s \in Nat \ {0}
      BY Sizes DEF VPages
    <3>2. i = v \div s
      BY DEF Vpn
    <3>3. \A q, r : q = v \div s /\ r = v % s => v = q * s + r
      BY <3>1, DivMod
    <3>4. v = i * s + d /\ i \in Nat /\ d \in Nat
      BY <3>1, <3>2, <3>3, DivLemma, ModRange
    <3>5. g = (i - Half) * s /\ Half * Fanout * Fanout = Half * s
      BY <1>1, <3>1, <3>4
    <3> HIDE DEF i, d, g, s
    <3>6. (i - Half) * s = i * s - Half * s
      BY <3>1, <3>4
    <3>7. i * s \in Nat /\ Half * s \in Nat
      BY <3>1, <3>4
    <3>8. QED
      BY <3>1, <3>4, <3>5, <3>6, <3>7
  <2> HIDE DEF e0, e1, e2, d, g, fl
  <2>6. Translate(m, root, v) = [page |-> g + d, flags |-> fl]
    BY <1>2, <2>2, <2>4
  <2>7. QED
    BY <1>4, <2>5, <2>6 DEF New, fl
<1>5. QED
  BY <1>3, <1>4

\* create_mmu_table: the new root and the tables below it are pages of its own, and
\* the new space holds the kernel.
LEMMA CreateTree == TreeInv /\ create_mmu_table => TreeInv' /\ (NoChange \/ NewSpace)
<1> SUFFICES ASSUME TreeInv, create_mmu_table PROVE TreeInv' /\ (NoChange \/ NewSpace)
  OBVIOUS
<1> DEFINE root == FreshPage(Mem)
           m1 == Allocated(Mem, root)
           m2 == [m1 EXCEPT !.tab[root] = KernelWindow]
           made == IdentityMapped(m2, root)
<1>1. PICK kind, par, idx : Tree(Mem, roots, held, kind, par, idx)
  BY DEF TreeInv
<1>2. CASE Fault
  BY <1>2, FaultKeeps
<1>3. CASE ~Fault
  <2>1. root # NULL /\ Becomes(made.m) /\ roots' = roots \cup {root} /\ held' = held
    BY <1>3 DEF create_mmu_table
  <2> DEFINE k1 == [kind EXCEPT ![root] = "held"]
             k2 == [k1 EXCEPT ![root] = "root"]
  <2>2. /\ root \in Heap /\ kind[root] = "free"
        /\ Tree(m1, roots, held \cup {root}, k1, par, idx)
    BY <1>1, <2>1, AllocTree
  <2>a. \A p \in Heap : p # root => m1.tab[p] = Mem.tab[p]
    <3>1. Mem \in [tab : Tabs, taken : SUBSET Heap]
      BY <1>1 DEF Tree
    <3>2. QED
      BY <2>1, <2>2, <3>1 DEF Allocated, Tabs
  <2> HIDE DEF root, m1
  <2>3. KernelWindow \in [Index -> EntrySet]
    <3>1. ASSUME NEW i \in Index, ~(i < Half) PROVE (i - Half) * Fanout * Fanout \in Nat
      <4>1. i - Half \in Nat /\ Fanout \in Nat
        BY <3>1, Sizes DEF Index
      <4>2. (i - Half) * Fanout \in Nat
        BY <4>1
      <4>3. QED
        BY <4>1, <4>2
    <3>2. Empty \in EntrySet
      BY HeapFacts DEF Empty, EntrySet
    <3>3. ASSUME NEW i \in Index, ~(i < Half)
          PROVE  [flags |-> {"V", "R", "W"}, page |-> (i - Half) * Fanout * Fanout] \in EntrySet
      BY <3>1, <3>3 DEF EntrySet
    <3>4. QED
      BY <3>2, <3>3 DEF KernelWindow
  <2>4. m1 \in [tab : Tabs, taken : SUBSET Heap]
    BY <2>2 DEF Tree
  <2>5. /\ m2 \in [tab : Tabs, taken : SUBSET Heap] /\ m2.taken = m1.taken
        /\ m2.tab[root] = KernelWindow /\ \A p \in Heap : p # root => m2.tab[p] = m1.tab[p]
    <3>1. m2.taken = m1.taken /\ m2.tab = [m1.tab EXCEPT ![root] = KernelWindow]
      BY <2>4
    <3>2. m2.tab \in Tabs /\ m2.tab[root] = KernelWindow
          /\ \A p \in Heap : p # root => m2.tab[p] = m1.tab[p]
      BY <2>2, <2>3, <2>4, <3>1 DEF Tabs
    <3>3. m2 \in [tab : Tabs, taken : SUBSET Heap]
      BY <2>4, <3>1, <3>2
    <3>4. QED
      BY <3>1, <3>2, <3>3
  <2> HIDE DEF m2, made
  <2>6. Roles(kind, par, idx) /\ Accounts(Mem.taken, roots, held, kind)
        /\ Accounts(m1.taken, roots, held \cup {root}, k1)
    BY <1>1, <2>2 DEF Tree
  <2>7. k1[root] = "held" /\ k2[root] = "root" /\ \A p \in Heap : p # root => k2[p] = kind[p] /\ k1[p] = kind[p]
    BY <2>2, <2>6 DEF Roles
  <2> HIDE DEF k1
  <2>8. Accounts(m2.taken, roots \cup {root}, held, k2)
    <3>1. m2.taken = {p \in Heap : k2[p] # "free"}
      BY <2>2, <2>5, <2>6, <2>7 DEF Accounts
    <3>2. roots \cup {root} = {p \in Heap : k2[p] = "root"}
      BY <2>2, <2>6, <2>7 DEF Accounts
    <3>3. held \ {NULL} = {p \in Heap : k2[p] = "held"}
      BY <2>2, <2>6, <2>7 DEF Accounts
    <3>4. QED
      BY <3>1, <3>2, <3>3 DEF Accounts
  <2>9. Tree(m2, roots \cup {root}, held, k2, par, idx)
    BY <2>2, <2>5, <2>7, <2>8, Recolour
  <2> HIDE DEF k2
  <2>b. ViewsSame(Mem, m2, roots)
    <3>1. Keeps(kind, par, idx, k2, par, idx)
      BY <2>2, <2>7 DEF Keeps
    <3>2. Carries(Mem, m2, kind, k2)
      BY <2>a, <2>2, <2>5, <2>7 DEF Carries
    <3>3. QED
      BY <1>1, <2>9, <3>1, <3>2, CarriedViews
  <2>10. made \in Makings(roots \cup {root}, held, root, m2)
    <3>1. \A v \in VPages : Translate(m2, root, v) = New({}, v)
      BY <2>5, WindowView
    <3>2. QED
      BY <2>9, <3>1, IdentityKeeps DEF made
  <2>11. PICK k3, p3, i3 : Tree(made.m, roots \cup {root}, held, k3, p3, i3)
    BY <2>10 DEF Makings
  <2>12. made.m \in [tab : Tabs, taken : SUBSET Heap]
    BY <2>11 DEF Tree
  <2>13. TreeInv' /\ Mem' = made.m
    BY <2>1, <2>11, <2>12, Next_Tree
  <2>14. root \notin roots
    BY <2>2, <2>6 DEF Accounts
  <2>15. ViewsSame(m2, made.m, roots)
    <3>1. ViewsSame(m2, made.m, (roots \cup {root}) \ {root})
      BY <2>10 DEF Makings
    <3>2. QED
      BY <2>14, <3>1 DEF ViewsSame
  <2>16. ViewsSame(Mem, Mem', roots)
    BY <2>b, <2>13, <2>15 DEF ViewsSame
  <2>17. \E K \in SUBSET KernelPages : \A v \in VPages : Translate(Mem', root, v) = New(K, v)
    BY <2>10, <2>13 DEF Makings
  <2>18. NewSpace
    BY <2>1, <2>14, <2>16, <2>17 DEF NewSpace
  <2>19. QED
    BY <2>13, <2>18
<1>4. QED
  BY <1>2, <1>3

\* A page of the caller is given back.
LEMMA GiveBack ==
    ASSUME NEW m, NEW R, NEW H, NEW kind, NEW par, NEW idx, Tree(m, R, H, kind, par, idx),
           NEW page \in Heap, kind[page] = "held", NEW n, n = [m EXCEPT !.taken = @ \ {page}]
    PROVE  Tree(n, R, H \ {page}, [kind EXCEPT ![page] = "free"], par, idx)
<1>1. m \in [tab : Tabs, taken : SUBSET Heap] /\ Roles(kind, par, idx) /\ Accounts(m.taken, R, H, kind)
  BY DEF Tree
<1>2. /\ n \in [tab : Tabs, taken : SUBSET Heap] /\ n.tab = m.tab /\ n.taken = m.taken \ {page}
  BY <1>1
<1> DEFINE k == [kind EXCEPT ![page] = "free"]
<1>3. k[page] = "free" /\ \A p \in Heap : p # page => k[p] = kind[p]
  BY <1>1 DEF Roles
<1>4. Accounts(n.taken, R, H \ {page}, k)
  <2> HIDE DEF k
  <2>1. n.taken = {p \in Heap : k[p] # "free"}
    BY <1>1, <1>2, <1>3 DEF Accounts
  <2>2. R = {p \in Heap : k[p] = "root"}
    BY <1>1, <1>3 DEF Accounts
  <2>3. (H \ {page}) \ {NULL} = {p \in Heap : k[p] = "held"}
    BY <1>1, <1>3 DEF Accounts
  <2>4. QED
    BY <2>1, <2>2, <2>3 DEF Accounts
<1>5. QED
  BY <1>2, <1>4, Recolour

\* mmu_alloc: the new page is the user's, or is given back.
LEMMA AllocKeepsTree ==
    ASSUME TreeInv, NEW root \in roots, NEW v \in UserPages, NEW f \in Perms,
           mmu_alloc(root, v, f \cup {"U"})
    PROVE  TreeInv' /\ (NoChange \/ OneChange)
<1> DEFINE page == FreshPage(Mem)
           flags == f \cup {"U"}
           fl == flags \cup {"V"}
           m1 == Allocated(Mem, page)
           res == MapResult(m1, root, v, page, flags)
<1>1. PICK kind, par, idx : Tree(Mem, roots, held, kind, par, idx)
  BY DEF TreeInv
<1>2. root \in Heap /\ kind[root] = "root" /\ v \in VPages
  BY <1>1, MmuAssumption DEF Tree, Accounts
<1>3. /\ flags \in SUBSET {"R", "W", "X", "U"} /\ "U" \in flags /\ flags \cap {"R", "W", "X"} # {}
      /\ fl \in UserFlags
  <2>1. f \subseteq {"R", "W", "X"} /\ f # {}
    BY MmuAssumption
  <2>2. fl = f \cup {"V", "U"}
    OBVIOUS
  <2>3. QED
    BY <2>1, <2>2 DEF UserFlags
<1> HIDE DEF flags
<1>4. CASE Fault
  BY <1>4, FaultKeeps
<1>5. CASE ~Fault
  <2>1. /\ Becomes(IF res.ok THEN res.m ELSE Released(res.m, page))
        /\ roots' = roots /\ held' = held
    BY <1>5 DEF mmu_alloc, flags
  <2>2. ASSUME NEW H, NEW k1, Tree(m1, roots, H, k1, par, idx), k1[root] = "root",
               page = NULL \/ (page \in Heap /\ k1[page] = "held")
        PROVE  /\ \E k2, p2, i2 :
                     /\ Tree(res.m, roots, IF res.ok /\ page \in Heap THEN H \ {page} ELSE H, k2, p2, i2)
                     /\ ~res.ok => Keeps(k1, par, idx, k2, p2, i2)
               /\ ~res.ok => ViewsSame(m1, res.m, roots)
               /\ res.ok => /\ ViewsBut(m1, res.m, roots, root, v) /\ Vpn(v, 0) < Half
                            /\ Translate(m1, root, v) = Unmapped
                            /\ Translate(res.m, root, v) = [page |-> page, flags |-> fl]
    <3> HIDE DEF page, m1
    <3>1. page \in Nat
      BY <2>2, HeapFacts
    <3>2. IF "U" \in flags THEN /\ page = NULL \/ (page \in Heap /\ k1[page] = "held")
                                /\ flags \cup {"V"} \in UserFlags
                           ELSE page \notin Heap /\ v \in KernelPages
      BY <1>3, <2>2
    <3>3. QED
      <4>1. MayMap(k1, v, page, flags)
        BY <1>2, <1>3, <3>1, <3>2 DEF MayMap
      <4>2. MapOutcome(m1, roots, H, k1, par, idx, root, v, page, flags)
        BY <1>2, <2>2, <4>1, MapKeeps
      <4>3. QED
        BY <4>2 DEF MapOutcome
  <2>3. ASSUME ViewsSame(Mem, m1, roots), page \in Heap \cup {NULL},
               ~res.ok => ViewsSame(m1, res.m, roots),
               res.ok => /\ ViewsBut(m1, res.m, roots, root, v)
                         /\ Translate(m1, root, v) = Unmapped
                         /\ Translate(res.m, root, v) = [page |-> page, flags |-> fl],
               NEW n, n = Mem', n.tab = res.m.tab
        PROVE  NoChange \/ OneChange
    <3> HIDE DEF page, m1, res, fl
    <3>1. ViewsSame(res.m, n, roots)
      BY <2>3, TabViews
    <3>2. CASE ~res.ok
      BY <2>1, <2>3, <3>1, <3>2 DEF ViewsSame, NoChange
    <3>3. CASE res.ok
      <4>1. ViewsBut(Mem, n, roots, root, v)
        BY <2>3, <3>1, <3>3 DEF ViewsSame, ViewsBut
      <4>2. Translate(Mem, root, v) = Unmapped /\ Translate(n, root, v) = [page |-> page, flags |-> fl]
        BY <1>2, <2>3, <3>1, <3>3 DEF ViewsSame
      <4>3. [page |-> page, flags |-> fl] \in UserMappings
        BY <1>3, <2>3, UserMapping
      <4>4. Changes(Translate(Mem, root, v), Translate(n, root, v))
        BY <4>2, <4>3 DEF Changes
      <4>5. QED
        BY <1>2, <2>1, <2>3, <4>1, <4>4 DEF OneChange
    <3>4. QED
      BY <3>2, <3>3
  <2>4. CASE page = NULL
    <3>1. m1 = Mem /\ ViewsSame(Mem, m1, roots)
      BY <2>4 DEF Allocated, ViewsSame
    <3> HIDE DEF m1, page, res, fl
    <3>2. Tree(m1, roots, held, kind, par, idx)
      BY <1>1, <3>1
    <3>3. /\ \E k2, p2, i2 :
                Tree(res.m, roots, IF res.ok /\ page \in Heap THEN held \ {page} ELSE held, k2, p2, i2)
          /\ ~res.ok => ViewsSame(m1, res.m, roots)
          /\ res.ok => /\ ViewsBut(m1, res.m, roots, root, v)
                       /\ Translate(m1, root, v) = Unmapped
                       /\ Translate(res.m, root, v) = [page |-> page, flags |-> fl]
      BY <1>2, <2>2, <2>4, <3>2
    <3>4. PICK k2, p2, i2 : Tree(res.m, roots, held, k2, p2, i2)
      BY <2>4, <3>3, HeapFacts
    <3>5. res.m \in [tab : Tabs, taken : SUBSET Heap]
      BY <3>4 DEF Tree
    <3>6. Released(res.m, page).tab = res.m.tab /\ Released(res.m, page).taken = res.m.taken
      BY <2>4, <3>5, HeapFacts DEF Released
    <3>7. Becomes(res.m)
      BY <2>1, <3>6 DEF Becomes
    <3>8. TreeInv' /\ Mem' = res.m
      BY <2>1, <3>4, <3>5, <3>7, Next_Tree
    <3>9. NoChange \/ OneChange
      BY <2>3, <2>4, <3>1, <3>3, <3>8
    <3>10. QED
      BY <3>8, <3>9
  <2>5. CASE page # NULL
    <3> DEFINE k1 == [kind EXCEPT ![page] = "held"]
    <3>1. /\ page \in Heap /\ kind[page] = "free"
          /\ Tree(m1, roots, held \cup {page}, k1, par, idx)
          /\ ViewsSame(Mem, m1, roots)
      BY <1>1, <2>5, AllocTree, AllocViews
    <3>2. k1[page] = "held" /\ k1[root] = "root"
      BY <1>1, <1>2, <3>1 DEF Tree, Roles
    <3>3. page \notin held
      BY <1>1, <2>5, <3>1 DEF Tree, Accounts
    <3> HIDE DEF page, k1, m1, res, fl
    <3>4. /\ \E k2, p2, i2 :
                /\ Tree(res.m, roots,
                        IF res.ok /\ page \in Heap THEN (held \cup {page}) \ {page} ELSE held \cup {page},
                        k2, p2, i2)
                /\ ~res.ok => Keeps(k1, par, idx, k2, p2, i2)
          /\ ~res.ok => ViewsSame(m1, res.m, roots)
          /\ res.ok => /\ ViewsBut(m1, res.m, roots, root, v)
                       /\ Translate(m1, root, v) = Unmapped
                       /\ Translate(res.m, root, v) = [page |-> page, flags |-> fl]
      BY <2>2, <3>1, <3>2
    <3>5. (held \cup {page}) \ {page} = held
      BY <3>3
    <3>6. CASE res.ok
      <4>1. PICK k2, p2, i2 : Tree(res.m, roots, held, k2, p2, i2)
        BY <3>1, <3>4, <3>5, <3>6
      <4>2. res.m \in [tab : Tabs, taken : SUBSET Heap]
        BY <4>1 DEF Tree
      <4>3. TreeInv' /\ Mem' = res.m
        BY <2>1, <3>6, <4>1, <4>2, Next_Tree
      <4>4. NoChange \/ OneChange
        BY <2>3, <3>1, <3>4, <4>3
      <4>5. QED
        BY <4>3, <4>4
    <3>7. CASE ~res.ok
      <4>1. PICK k2, p2, i2 : /\ Tree(res.m, roots, held \cup {page}, k2, p2, i2)
                              /\ Keeps(k1, par, idx, k2, p2, i2)
        BY <3>4, <3>7
      <4>2. k2[page] = "held"
        BY <3>1, <3>2, <4>1 DEF Keeps
      <4> DEFINE n == Released(res.m, page)
      <4>3. n = [res.m EXCEPT !.taken = @ \ {page}]
        BY DEF Released
      <4> HIDE DEF n
      <4>4. Tree(n, roots, (held \cup {page}) \ {page}, [k2 EXCEPT ![page] = "free"], p2, i2)
        BY <3>1, <4>1, <4>2, <4>3, GiveBack
      <4>5. n \in [tab : Tabs, taken : SUBSET Heap] /\ Becomes(n)
        BY <2>1, <3>7, <4>4 DEF Tree, n
      <4>6. Tree(n, roots', held', [k2 EXCEPT ![page] = "free"], p2, i2)
        BY <2>1, <3>5, <4>4
      <4>7. TreeInv' /\ Mem' = n
        BY <4>5, <4>6, Next_Tree
      <4>8. n.tab = res.m.tab
        <5>1. res.m \in [tab : Tabs, taken : SUBSET Heap]
          BY <4>1 DEF Tree
        <5>2. QED
          BY <4>3, <5>1
      <4>9. NoChange \/ OneChange
        BY <2>3, <3>1, <3>4, <4>7, <4>8
      <4>10. QED
        BY <4>7, <4>9
    <3>8. QED
      BY <3>6, <3>7
  <2>6. QED
    BY <2>4, <2>5
<1>6. QED
  BY <1>4, <1>5

\* mmu_change_flags: the entry of the user points where it did.
LEMMA ChangeKeepsTree ==
    ASSUME TreeInv, NEW root \in roots, NEW v \in UserPages, NEW f \in Perms, Private(v),
           mmu_change_flags(root, v, f \cup {"U"})
    PROVE  TreeInv' /\ (NoChange \/ OneChange)
<1> DEFINE at == WalkToEntry(Mem, root, v)
           flags == (f \cup {"U"}) \cup {"V"}
<1>1. PICK kind, par, idx : Tree(Mem, roots, held, kind, par, idx)
  BY DEF TreeInv
<1>2. CASE Fault
  BY <1>2, FaultKeeps
<1>3. CASE ~Fault
  <2>1. /\ at \notin {NoEntry, Wild} /\ roots' = roots /\ held' = held
        /\ Becomes(SetEntry(Mem, at, flags, Entry(Mem, at).page))
    BY <1>3 DEF mmu_change_flags
  <2> HIDE DEF at
  <2>2. PICK q \in Heap, j \in Index :
              /\ at = <<q, j>> /\ kind[q] = "low" /\ Valid(Mem.tab[q][j]) /\ Frame(Mem.tab[q][j])
              /\ "U" \in Mem.tab[q][j].flags /\ Mem.tab[q][j].page \in Heap \cup {NULL}
              /\ j = Vpn(v, 2) /\ At(kind, par, idx, root, v, q) /\ Mem.tab[q][j].flags \in UserFlags
    BY <1>1, <2>1, WalkReaches DEF at
  <2> DEFINE page == Mem.tab[q][j].page
             x == [flags |-> flags, page |-> page]
             n == SetEntry(Mem, <<q, j>>, flags, page)
  <2>3. /\ flags \in SUBSET {"V", "R", "W", "X", "U"} /\ "U" \in flags /\ "V" \in flags
        /\ flags \cap {"R", "W", "X"} # {} /\ flags \in UserFlags
    <3>1. f \subseteq {"R", "W", "X"} /\ f # {}
      BY MmuAssumption
    <3>2. flags = f \cup {"V", "U"}
      OBVIOUS
    <3>3. QED
      BY <3>1, <3>2 DEF UserFlags
  <2>4. page \in Nat /\ page \in Heap \cup {NULL}
    BY <2>2, HeapFacts
  <2>5. Points(Mem.tab[q][j]) <=> page \in Heap
    BY <2>2 DEF Points
  <2> HIDE DEF flags, page
  <2>6. Valid(x) /\ Frame(x) /\ x.page = page /\ x.flags = flags
    BY <2>3 DEF Valid, Frame
  <2>7. x = [flags |-> flags, page |-> page]
    OBVIOUS
  <2> HIDE DEF x
  <2>8. Fits(kind, par, idx, q, j, x)
    BY <2>2, <2>3, <2>4, <2>6 DEF Fits, LeafEntry
  <2>9. (Points(x) <=> Points(Mem.tab[q][j])) /\ (Points(x) => x.page = Mem.tab[q][j].page)
    BY <2>3, <2>5, <2>6 DEF Points, page
  <2>10. kind[q] \in Tables
    BY <2>2 DEF Tables
  <2>11. Tree(n, roots, held, kind, par, idx)
    BY <1>1, <2>3, <2>4, <2>7, <2>8, <2>9, <2>10, SetSame
  <2>12. Becomes(n)
    BY <2>1, <2>2 DEF Entry, page
  <2> HIDE DEF n
  <2>13. n \in [tab : Tabs, taken : SUBSET Heap]
    BY <2>11 DEF Tree
  <2>14. Tree(n, roots', held', kind, par, idx)
    BY <2>1, <2>11
  <2>15. TreeInv' /\ Mem' = n
    BY <2>12, <2>13, <2>14, Next_Tree
  <2>16. v \in VPages
    BY MmuAssumption
  <2>17. /\ ViewsBut(Mem, n, roots, root, v)
         /\ Translate(Mem, root, v) = Leaf(Mem.tab[q][j]) /\ Translate(n, root, v) = Leaf(x)
    BY <1>1, <2>2, <2>3, <2>4, <2>11, <2>16, LeafViews DEF n, x
  <2>18. Leaf(Mem.tab[q][j]) = [page |-> page, flags |-> Mem.tab[q][j].flags]
         /\ Leaf(x) = [page |-> page, flags |-> flags]
    BY <2>2, <2>6 DEF Leaf, page
  <2>19. Changes(Translate(Mem, root, v), Translate(n, root, v))
    BY <2>2, <2>3, <2>4, <2>17, <2>18, UserMapping DEF Changes
  <2>20. OneChange
    BY <2>1, <2>15, <2>16, <2>17, <2>19 DEF OneChange
  <2>21. QED
    BY <2>15, <2>20
<1>4. QED
  BY <1>2, <1>3

\* mmu_remove: the page of the user is the caller's.
LEMMA RemoveKeepsTree ==
    ASSUME TreeInv, NEW root \in roots, NEW v \in UserPages, Private(v), mmu_remove(root, v)
    PROVE  TreeInv' /\ (NoChange \/ OneChange)
<1> DEFINE at == WalkToEntry(Mem, root, v)
<1>1. PICK kind, par, idx : Tree(Mem, roots, held, kind, par, idx)
  BY DEF TreeInv
<1>2. CASE Fault
  BY <1>2, FaultKeeps
<1>3. CASE ~Fault
  <2>1. /\ at \notin {NoEntry, Wild} /\ roots' = roots
        /\ held' = held \cup {Entry(Mem, at).page}
        /\ Becomes(SetEntry(Mem, at, {}, NULL))
    BY <1>3 DEF mmu_remove
  <2> HIDE DEF at
  <2>2. PICK q \in Heap, j \in Index :
              /\ at = <<q, j>> /\ kind[q] = "low" /\ Valid(Mem.tab[q][j]) /\ Frame(Mem.tab[q][j])
              /\ "U" \in Mem.tab[q][j].flags /\ Mem.tab[q][j].page \in Heap \cup {NULL}
              /\ j = Vpn(v, 2) /\ At(kind, par, idx, root, v, q) /\ Mem.tab[q][j].flags \in UserFlags
    BY <1>1, <2>1, WalkReaches DEF at
  <2> DEFINE page == Mem.tab[q][j].page
             n == SetEntry(Mem, <<q, j>>, {}, NULL)
  <2>3. held' = held \cup {page} /\ Becomes(n)
    BY <2>1, <2>2 DEF Entry
  <2>4. Points(Mem.tab[q][j]) <=> page \in Heap
    BY <2>2 DEF Points
  <2>5. ASSUME NEW k, Tree(n, roots, held \cup {page}, k, par, idx),
               \A p \in Heap : kind[p] \in Tables => k[p] = kind[p],
               \A p \in Heap : k[p] = "low" => kind[p] = "low"
        PROVE  TreeInv' /\ OneChange
    <3> HIDE DEF n
    <3>1. n \in [tab : Tabs, taken : SUBSET Heap]
      BY <2>5 DEF Tree
    <3>2. Tree(n, roots', held', k, par, idx)
      BY <2>1, <2>3, <2>5
    <3>3. TreeInv' /\ Mem' = n
      BY <2>3, <3>1, <3>2, Next_Tree
    <3>4. v \in VPages /\ NULL \in Nat
      BY MmuAssumption, HeapFacts
    <3>5. ASSUME NEW fl \in SUBSET {"V", "R", "W", "X", "U"}, NEW g \in Nat, fl = {}, g = NULL
          PROVE  /\ ViewsBut(Mem, n, roots, root, v) /\ Translate(Mem, root, v) = Leaf(Mem.tab[q][j])
                 /\ Translate(n, root, v) = Unmapped
      <4>1. n = SetEntry(Mem, <<q, Vpn(v, 2)>>, fl, g)
        BY <2>2, <3>5 DEF n
      <4>2. /\ ViewsBut(Mem, n, roots, root, v) /\ Translate(Mem, root, v) = Leaf(Mem.tab[q][j])
            /\ Translate(n, root, v) = Leaf([flags |-> fl, page |-> g])
        BY <1>1, <2>2, <2>5, <3>4, <4>1, LeafViews
      <4>3. QED
        BY <3>5, <4>2 DEF Leaf, Valid
    <3>6. {} \in SUBSET {"V", "R", "W", "X", "U"}
      OBVIOUS
    <3>7. /\ ViewsBut(Mem, n, roots, root, v) /\ Translate(Mem, root, v) = Leaf(Mem.tab[q][j])
          /\ Translate(n, root, v) = Unmapped
      BY <3>4, <3>5, <3>6
    <3>8. Leaf(Mem.tab[q][j]) = [page |-> page, flags |-> Mem.tab[q][j].flags]
      BY <2>2 DEF Leaf
    <3>9. Changes(Translate(Mem, root, v), Translate(n, root, v))
      BY <2>2, <3>7, <3>8, UserMapping DEF Changes
    <3>10. OneChange
      BY <2>1, <3>3, <3>4, <3>7, <3>9 DEF OneChange
    <3>11. QED
      BY <3>3, <3>10
  <2>6. CASE page \in Heap
    <3>1. Points(Mem.tab[q][j]) /\ page = Mem.tab[q][j].page
      BY <2>4, <2>6
    <3> HIDE DEF page
    <3>2. Tree(n, roots, held \cup {page}, [kind EXCEPT ![page] = "held"], par, idx)
      BY <1>1, <2>2, <3>1, ClearPoint
    <3>3. kind[page] = "user" /\ Roles(kind, par, idx)
      BY <1>1, <2>2, <3>1 DEF Tree, Owns, Tables, Under, Points
    <3>4. /\ \A p \in Heap : kind[p] \in Tables => [kind EXCEPT ![page] = "held"][p] = kind[p]
          /\ \A p \in Heap : [kind EXCEPT ![page] = "held"][p] = "low" => kind[p] = "low"
      BY <3>3 DEF Tables, Roles
    <3>5. QED
      BY <2>5, <3>2, <3>4
  <2>7. CASE page = NULL
    <3>1. ASSUME NEW fl \in SUBSET {"V", "R", "W", "X", "U"}, NEW g \in Nat, fl = {}, g = NULL
          PROVE  Tree(SetEntry(Mem, <<q, j>>, fl, g), roots, held, kind, par, idx)
      <4> DEFINE x == [flags |-> fl, page |-> g]
      <4>1. ~Valid(x) /\ ~Points(x) /\ ~Points(Mem.tab[q][j])
        BY <2>4, <2>7, <3>1, HeapFacts DEF Valid, Points
      <4>2. x = [flags |-> fl, page |-> g]
        OBVIOUS
      <4> HIDE DEF x
      <4>3. Fits(kind, par, idx, q, j, x) /\ kind[q] \in Tables
        BY <2>2, <4>1 DEF Fits, LeafEntry, Tables
      <4>4. QED
        BY <1>1, <4>1, <4>2, <4>3, SetSame
    <3>2. {} \in SUBSET {"V", "R", "W", "X", "U"} /\ NULL \in Nat
      BY HeapFacts
    <3>3. Tree(n, roots, held, kind, par, idx)
      BY <3>1, <3>2
    <3> HIDE DEF n, page
    <3>4. Tree(n, roots, held \cup {page}, kind, par, idx)
      BY <2>7, <3>3 DEF Tree, Accounts
    <3>5. QED
      BY <2>5, <3>4
  <2>8. QED
    BY <2>2, <2>6, <2>7
<1>4. QED
  BY <1>2, <1>3

\* dealloc_pages: the page is free; none is if mmu_remove returned NULL.
LEMMA DeallocKeepsTree ==
    ASSUME TreeInv, NEW page \in held, dealloc_pages(page)
    PROVE  TreeInv' /\ NoChange
<1> DEFINE n == [Mem EXCEPT !.taken = @ \ {page}]
<1>1. PICK kind, par, idx : Tree(Mem, roots, held, kind, par, idx)
  BY DEF TreeInv
<1>2. /\ held' = held \ {page} /\ roots' = roots /\ Becomes(n)
  BY DEF dealloc_pages, Becomes, Mem
<1>3. Mem \in [tab : Tabs, taken : SUBSET Heap] /\ Accounts(Mem.taken, roots, held, kind)
  BY <1>1 DEF Tree
<1>4. n \in [tab : Tabs, taken : SUBSET Heap] /\ n.tab = Mem.tab
  BY <1>3
<1>a. Mem' = n => NoChange
  BY <1>2, <1>4, TabViews DEF NoChange
<1>5. CASE page = NULL
  <2>1. n = Mem
    BY <1>3, <1>5, HeapFacts
  <2> HIDE DEF n
  <2>2. Tree(n, roots', held', kind, par, idx)
    BY <1>1, <1>2, <1>5, <2>1 DEF Tree, Accounts
  <2>3. QED
    BY <1>a, <1>2, <1>4, <2>2, Next_Tree
<1>6. CASE page # NULL
  <2>1. page \in Heap /\ kind[page] = "held"
    BY <1>3, <1>6 DEF Accounts
  <2>2. Tree(n, roots, held \ {page}, [kind EXCEPT ![page] = "free"], par, idx)
    BY <1>1, <2>1, GiveBack
  <2> HIDE DEF n
  <2>3. Tree(n, roots', held', [kind EXCEPT ![page] = "free"], par, idx)
    BY <1>2, <2>2
  <2>4. QED
    BY <1>a, <1>2, <1>4, <2>3, Next_Tree
<1>7. QED
  BY <1>5, <1>6

\* Every step keeps the trees, and changes at most one translation.
LEMMA StepTree == TreeInv /\ [Next]_vars => TreeInv' /\ (NoChange \/ OneChange \/ NewSpace)
<1> SUFFICES ASSUME TreeInv, [Next]_vars PROVE TreeInv' /\ (NoChange \/ OneChange \/ NewSpace)
  OBVIOUS
<1>1. CASE UNCHANGED vars
  BY <1>1 DEF vars, TreeInv, Mem, NoChange, ViewsSame
<1>2. CASE create_mmu_table
  BY <1>2, CreateTree
<1>3. CASE \E root \in roots, v \in UserPages, f \in Perms : mmu_alloc(root, v, f \cup {"U"})
  BY <1>3, AllocKeepsTree
<1>4. CASE \E root \in roots, v \in UserPages, f \in Perms :
              Private(v) /\ mmu_change_flags(root, v, f \cup {"U"})
  BY <1>4, ChangeKeepsTree
<1>5. CASE \E root \in roots, v \in UserPages : held = {} /\ Private(v) /\ mmu_remove(root, v)
  BY <1>5, RemoveKeepsTree
<1>6. CASE \E page \in held : dealloc_pages(page)
  BY <1>6, DeallocKeepsTree
<1>7. QED
  BY <1>1, <1>2, <1>3, <1>4, <1>5, <1>6 DEF Next

-----------------------------------------------------------------------------
(* The roles give every page its owner.                                     *)

\* The entries of the pages of one kind.
Of(kind, c) == {s \in Heap \X Index : kind[s[1]] = c}

\* Below the entries of roots are those of tables of the middle level, and so on.
LEMMA BelowKind ==
    ASSUME NEW kind, NEW par, NEW idx, Tree(Mem, roots, held, kind, par, idx),
           NEW c \in {"root", "mid"}, NEW S, S = Of(kind, c)
    PROVE  Below(S) = Of(kind, Under[c])
<1>0. /\ Mem \in [tab : Tabs, taken : SUBSET Heap] /\ Roles(kind, par, idx)
      /\ Shape(Mem.tab, kind, par, idx) /\ Owns(Mem.tab, kind, par, idx)
      /\ Owned(Mem.tab, kind, par, idx)
  BY DEF Tree
<1>1. \A s \in S : /\ s \in Heap \X Index /\ s[1] \in Heap /\ s[2] \in Index /\ kind[s[1]] = c
                   /\ Entry(Mem, s) = Mem.tab[s[1]][s[2]]
  BY DEF Of, Entry
<1>2. ASSUME NEW s \in S, NEW i \in Index, Valid(Entry(Mem, s)), ~Frame(Entry(Mem, s)),
             Entry(Mem, s).page \in Heap
      PROVE  <<Entry(Mem, s).page, i>> \in Of(kind, Under[c])
  <2>1. Points(Mem.tab[s[1]][s[2]]) /\ c \in Tables
    BY <1>1, <1>2 DEF Points, Tables
  <2>2. kind[Entry(Mem, s).page] = Under[c]
    BY <1>0, <1>1, <2>1 DEF Owns
  <2>3. QED
    BY <1>2, <2>2 DEF Of
<1>3. Below(S) \subseteq Of(kind, Under[c])
  BY <1>2 DEF Below
<1>4. ASSUME NEW t \in Of(kind, Under[c]) PROVE t \in Below(S)
  <2> DEFINE q == t[1]
             s == <<par[q], idx[q]>>
             e == Mem.tab[par[q]][idx[q]]
  <2>1. q \in Heap /\ t[2] \in Index /\ t = <<q, t[2]>> /\ kind[q] = Under[c]
    BY DEF Of
  <2>2. kind[q] \in {"mid", "low"}
    BY <2>1 DEF Under
  <2>3. /\ par[q] \in Heap /\ idx[q] \in Index /\ kind[par[q]] \in Tables
        /\ Under[kind[par[q]]] = kind[q] /\ Points(e) /\ e.page = q
    BY <1>0, <2>1, <2>2 DEF Owned, Roles
  <2>4. kind[par[q]] = c
    BY <2>1, <2>3 DEF Under, Tables
  <2>5. Fits(kind, par, idx, par[q], idx[q], e)
    BY <1>0, <2>3, SMTT(30) DEF Shape
  <2>6. ~Frame(e) /\ Valid(e)
    BY <2>3, <2>4, <2>5 DEF Fits, RootEntry, TableEntry, Points
  <2>7. s \in S /\ Entry(Mem, s) = e
    BY <2>3, <2>4 DEF Of, Entry
  <2> HIDE DEF s, e, q
  <2>8. t = <<Entry(Mem, s).page, t[2]>> /\ s \in {u \in S : Valid(Entry(Mem, u)) /\ ~Frame(Entry(Mem, u))
                         /\ Entry(Mem, u).page \in Heap}
    BY <2>1, <2>3, <2>6, <2>7
  <2>9. QED
    BY <2>1, <2>8 DEF Below
<1>5. QED
  BY <1>3, <1>4

\* The entries of all trees are those of the pages that are tables.
LEMMA SlotsAre ==
    ASSUME NEW kind, NEW par, NEW idx, Tree(Mem, roots, held, kind, par, idx)
    PROVE  Slots = {s \in Heap \X Index : kind[s[1]] \in Tables}
<1>1. RootSlots = Of(kind, "root")
  BY DEF RootSlots, Of, Tree, Accounts
<1>2. Under["root"] = "mid" /\ Under["mid"] = "low"
  BY DEF Under
<1>3. Below(RootSlots) = Of(kind, "mid")
  BY <1>1, <1>2, BelowKind
<1>4. Below(Below(RootSlots)) = Of(kind, "low")
  BY <1>2, <1>3, BelowKind
<1>5. QED
  BY <1>1, <1>3, <1>4 DEF Slots, Of, Tables

\* With the roles, OneOwner holds.
LEMMA TreeOneOwner == TreeInv => OneOwner
<1> SUFFICES ASSUME TreeInv PROVE OneOwner
  OBVIOUS
<1>1. PICK kind, par, idx : Tree(Mem, roots, held, kind, par, idx)
  BY DEF TreeInv
<1>2. /\ Roles(kind, par, idx) /\ Owns(Mem.tab, kind, par, idx) /\ Owned(Mem.tab, kind, par, idx)
      /\ Accounts(Mem.taken, roots, held, kind)
  BY <1>1 DEF Tree
<1>3. Slots = {s \in Heap \X Index : kind[s[1]] \in Tables}
  BY <1>1, SlotsAre
<1>4. \A s \in Slots : s[1] \in Heap /\ s[2] \in Index /\ s = <<s[1], s[2]>> /\ kind[s[1]] \in Tables
                       /\ Entry(Mem, s) = Mem.tab[s[1]][s[2]]
  BY <1>3 DEF Entry
<1>5. Pointing = {s \in Slots : Points(Entry(Mem, s))}
  BY DEF Pointing, Points
<1>6. ASSUME NEW s \in Pointing
      PROVE  LET p == Entry(Mem, s).page IN
             /\ p \in Heap /\ kind[p] \in {"mid", "low", "user"} /\ par[p] = s[1] /\ idx[p] = s[2]
  <2>1. /\ s \in Slots /\ Points(Mem.tab[s[1]][s[2]]) /\ s[1] \in Heap /\ s[2] \in Index
        /\ kind[s[1]] \in Tables /\ Entry(Mem, s) = Mem.tab[s[1]][s[2]]
    BY <1>4, <1>5
  <2>2. LET p == Mem.tab[s[1]][s[2]].page
        IN p \in Heap /\ kind[p] = Under[kind[s[1]]] /\ par[p] = s[1] /\ idx[p] = s[2]
    BY <1>2, <2>1 DEF Owns, Points
  <2>3. Under[kind[s[1]]] \in {"mid", "low", "user"}
    BY <2>1 DEF Under, Tables
  <2>4. QED
    BY <2>1, <2>2, <2>3
<1>7. \A s, t \in Pointing : Entry(Mem, s).page = Entry(Mem, t).page => s = t
  BY <1>4, <1>5, <1>6
<1>8. \A s \in Pointing : Entry(Mem, s).page \notin roots \cup held
  BY <1>2, <1>6, HeapFacts DEF Accounts
<1>9. ASSUME NEW p \in Heap, kind[p] \in {"mid", "low", "user"}
      PROVE  \E s \in Pointing : Entry(Mem, s).page = p
  <2> DEFINE s == <<par[p], idx[p]>>
  <2>1. /\ par[p] \in Heap /\ idx[p] \in Index /\ kind[par[p]] \in Tables
        /\ Points(Mem.tab[par[p]][idx[p]]) /\ Mem.tab[par[p]][idx[p]].page = p
    BY <1>2, <1>9 DEF Owned, Roles
  <2>2. s \in Slots /\ Entry(Mem, s) = Mem.tab[par[p]][idx[p]]
    BY <1>3, <2>1 DEF Entry
  <2> HIDE DEF s
  <2>3. QED
    BY <1>5, <2>1, <2>2
<1>10. Mem.taken = taken
  BY DEF Mem
<1>11. ASSUME NEW p \in taken
       PROVE  p \in roots \cup (held \ {NULL}) \cup {Entry(Mem, s).page : s \in Pointing}
  <2>1. p \in Heap /\ kind[p] \in Kinds /\ kind[p] # "free"
    BY <1>2, <1>10 DEF Accounts, Roles
  <2>2. CASE kind[p] = "root"
    BY <1>2, <2>1, <2>2 DEF Accounts
  <2>3. CASE kind[p] = "held"
    BY <1>2, <2>1, <2>3 DEF Accounts
  <2>4. CASE kind[p] \in {"mid", "low", "user"}
    BY <1>9, <2>1, <2>4
  <2>5. QED
    BY <2>1, <2>2, <2>3, <2>4 DEF Kinds
<1>12. ASSUME NEW p \in roots \cup (held \ {NULL}) \cup {Entry(Mem, s).page : s \in Pointing}
       PROVE  p \in taken
  <2>1. CASE p \in roots \cup (held \ {NULL})
    BY <1>2, <1>10, <2>1 DEF Accounts
  <2>2. CASE p \in {Entry(Mem, s).page : s \in Pointing}
    <3>1. p \in Heap /\ kind[p] \in {"mid", "low", "user"}
      BY <1>6, <2>2
    <3>2. QED
      BY <1>2, <1>10, <3>1 DEF Accounts
  <2>3. QED
    BY <2>1, <2>2
<1>13. taken = roots \cup (held \ {NULL}) \cup {Entry(Mem, s).page : s \in Pointing}
  BY <1>11, <1>12
<1>14. QED
  BY <1>7, <1>8, <1>13 DEF OneOwner

\* Every page of the heap has one owner, whatever tables mmu_map, mmu_alloc and
\* create_mmu_table had to allocate and wherever on the way pages ran out: no page
\* of one address space is a table or a page of another, and none is lost.
THEOREM PagesHaveOneOwner == Spec => []OneOwner
<1>1. Init => TreeInv
  BY InitTree
<1>2. TreeInv /\ [Next]_vars => TreeInv'
  BY StepTree
<1>3. TreeInv => OneOwner
  BY TreeOneOwner
<1>4. QED
  BY <1>1, <1>2, <1>3, PTL DEF Spec

-----------------------------------------------------------------------------
(* The trees implement AddressSpaces.                                       *)

\* At first there is no space.
LEMMA InitSpace == Init => Abstract!Init
  BY DEF Init, Abstract!Init, Space

\* The translations of the pages that are compared.
LEMMA SpaceFacts ==
    /\ DOMAIN Space = roots
    /\ \A r \in roots, v \in Watched : v \in VPages /\ Space[r][v] = Translate(Mem, r, v)
  BY MmuAssumption DEF Space

\* The same for the next state.
LEMMA NextSpaceFacts ==
    /\ DOMAIN Space' = roots'
    /\ \A r \in roots', v \in Watched : v \in VPages /\ Space'[r][v] = Translate(Mem', r, v)
  BY MmuAssumption DEF Space

\* A new space is one of those AddressSpaces allows.
LEMMA FreshIsNew ==
    ASSUME NEW K \in SUBSET KernelPages, NEW v \in Watched
    PROVE  Fresh(K)[v] = New(K, v)
<1>1. v \in VPages /\ Vpn(v, 0) \in Int /\ Half \in Int
  BY VpnIndex, MmuAssumption, Sizes DEF Index
<1>2. (Vpn(v, 0) >= Half) <=> ~(Vpn(v, 0) < Half)
  BY <1>1
<1>3. QED
  BY <1>2 DEF Fresh, New

\* A step that changes at most one translation is a step of AddressSpaces.
LEMMA ChangeIsStep == NoChange \/ OneChange => Abstract!Next
<1>1. ASSUME NoChange PROVE Abstract!Next
  <2>1. Abstract!Touched = {}
    BY <1>1, SpaceFacts, NextSpaceFacts DEF Abstract!Touched, NoChange, ViewsSame
  <2>2. QED
    BY <1>1, <2>1, SpaceFacts, NextSpaceFacts DEF Abstract!Next, NoChange
<1>2. ASSUME OneChange PROVE Abstract!Next
  <2>1. PICK r \in roots, w \in VPages :
              /\ ViewsBut(Mem, Mem', roots, r, w)
              /\ Changes(Translate(Mem, r, w), Translate(Mem', r, w))
    BY <1>2 DEF OneChange
  <2>2. roots' = roots
    BY <1>2 DEF OneChange
  <2>3. ASSUME NEW x \in Abstract!Touched PROVE x = <<r, w>> /\ w \in Watched
    <3>1. /\ x \in roots \X Watched /\ x = <<x[1], x[2]>> /\ x[1] \in roots /\ x[2] \in Watched
          /\ Space'[x[1]][x[2]] # Space[x[1]][x[2]]
      BY <2>3, SpaceFacts DEF Abstract!Touched
    <3>2. Translate(Mem', x[1], x[2]) # Translate(Mem, x[1], x[2]) /\ x[2] \in VPages
      BY <2>2, <3>1, SpaceFacts, NextSpaceFacts
    <3>3. <<x[1], x[2]>> = <<r, w>>
      BY <2>1, <3>1, <3>2 DEF ViewsBut
    <3>4. QED
      BY <3>1, <3>3
  <2>4. ASSUME w \in Watched
        PROVE  Abstract!Map(r, w) \/ Abstract!Remove(r, w) \/ Abstract!Protect(r, w)
    <3>1. Space[r][w] = Translate(Mem, r, w) /\ Space'[r][w] = Translate(Mem', r, w)
      BY <2>2, <2>4, SpaceFacts, NextSpaceFacts
    <3>2. UserMappings = [page : PPages, flags : {f \cup {"V", "U"} : f \in Perms}]
      BY DEF UserMappings, UserFlags
    <3>3. QED
      BY <2>1, <3>1, <3>2 DEF Changes, Abstract!Map, Abstract!Remove, Abstract!Protect
  <2>5. \A x, y \in Abstract!Touched :
           x = y /\ (\/ Abstract!Map(x[1], x[2]) \/ Abstract!Remove(x[1], x[2])
                    \/ Abstract!Protect(x[1], x[2]))
    BY <2>3, <2>4
  <2>6. DOMAIN Space' = DOMAIN Space
    BY <2>2, SpaceFacts, NextSpaceFacts
  <2>7. QED
    BY <2>5, <2>6 DEF Abstract!Next
<1>3. QED
  BY <1>1, <1>2

\* create_mmu_table adds a space of AddressSpaces.
LEMMA NewIsStep == NewSpace => Abstract!Next
<1> SUFFICES ASSUME NewSpace PROVE Abstract!Next
  OBVIOUS
<1>1. PICK r : /\ r \notin roots /\ roots' = roots \cup {r}
               /\ ViewsSame(Mem, Mem', roots)
               /\ \E K \in SUBSET KernelPages : \A v \in VPages : Translate(Mem', r, v) = New(K, v)
  BY DEF NewSpace
<1>2. PICK K \in SUBSET KernelPages : \A v \in VPages : Translate(Mem', r, v) = New(K, v)
  BY <1>1
<1>3. \A v \in Watched : Space'[r][v] = Fresh(K)[v]
  BY <1>1, <1>2, NextSpaceFacts, FreshIsNew
<1>4. Abstract!Create(r)
  BY <1>1, <1>3, SpaceFacts, NextSpaceFacts DEF Abstract!Create
<1>5. Abstract!Touched = {}
  BY <1>1, SpaceFacts, NextSpaceFacts DEF Abstract!Touched, ViewsSame
<1>6. r \in (DOMAIN Space') \ (DOMAIN Space)
  BY <1>1, SpaceFacts, NextSpaceFacts
<1>7. QED
  BY <1>4, <1>5, <1>6 DEF Abstract!Next

\* The page tables implement AddressSpaces, for every fan-out and amount of memory:
\* mmu_map, mmu_remove and mmu_change_flags change the translation of the page they
\* are asked for and no other, in any space, mmu_map replaces no translation, and
\* those of the kernel stay, also when pages run out on the way.
THEOREM TreesImplementSpaces == Spec => SpaceSpec
<1>1. Init => TreeInv /\ Abstract!Init
  BY InitTree, InitSpace
<1>2. TreeInv /\ [Next]_vars => TreeInv' /\ [Abstract!Next]_Space
  BY StepTree, ChangeIsStep, NewIsStep
<1>3. QED
  BY <1>1, <1>2, PTL DEF Spec, SpaceSpec, Abstract!Spec
=============================================================================
