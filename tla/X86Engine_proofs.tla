-------------------------- MODULE X86Engine_proofs --------------------------
(***************************************************************************)
(* Proofs about the translation engine, for every guest program, cache      *)
(* size, hash, arena and quantum.                                           *)
(*                                                                          *)
(* The inductive invariant IInv says what the cache, the links and the      *)
(* executing block are.  The facts about the cache are stated for a table   *)
(* tab, so that they can be cited of the table a step is half-way through:  *)
(* publishing, then linking.                                                *)
(***************************************************************************)
EXTENDS X86Engine, TLAPS

-----------------------------------------------------------------------------
(* The invariant *)

EndIn(tab, s) == tab[s].off + Blocks[tab[s].pc].bytes

\* A used entry is of this generation, patched with its own link slots if any,
\* and its slots name it and its targets; an unused one has blank slots.
EntryOK(tab, cur, gen, s) ==
  IF tab[s].used
  THEN /\ tab[s].gen = gen /\ tab[s].pc \in PCs
       /\ tab[s].patch \in {s, NoSlot}
       /\ EndIn(tab, s) <= cur
       /\ \A i \in ExitIds : /\ tab[s].link[i].source = tab[s].pc
                             /\ tab[s].link[i].target = Target(tab[s].pc, i)
  ELSE \A i \in ExitIds : tab[s].link[i].target = 0

Findable(tab, gen) ==
  \A s \in Slots : tab[s].used => Reaches(tab, gen, tab[s].pc, s)
OnePerPc(tab) ==
  \A s, t \in Slots : tab[s].used /\ tab[t].used /\ tab[s].pc = tab[t].pc => s = t
Apart(tab) ==
  \A s, t \in Slots : tab[s].used /\ tab[t].used /\ s # t
                      => EndIn(tab, s) <= tab[t].off \/ EndIn(tab, t) <= tab[s].off

TableOK(tab, cur, gen) ==
  /\ tab \in [Slots -> CacheEntry]
  /\ cur \in 0 .. ArenaBytes
  /\ \A s \in Slots : EntryOK(tab, cur, gen, s)
  /\ Findable(tab, gen) /\ OnePerPc(tab) /\ Apart(tab)

\* LinkOK, for the value l of slot <<s, i>> of table tab.
LinkVal(tab, s, i, l) ==
  LET Leads(c, at) == c.at = at /\ \E t \in Slots : /\ tab[t].used
                                                   /\ tab[t].off = c.off
                                                   /\ tab[t].pc = l.target
  IN  /\ l.target = Target(tab[s].pc, i)
      /\ ~l.linked => l.code = Code(tab[s].off, "stub", i)
      /\ l.linked => \/ /\ Leads(l.code, "chain")
                        /\ ContractsMatch(tab[s].pc, l.target)
                     \/ /\ l.code = Code(tab[s].off, "reconcile", i)
                        /\ Leads(l.canonical, "canonical")
LinksIn(tab) ==
  \A s \in Slots : tab[s].used =>
    \A i \in Exits(tab[s].pc) : LinkVal(tab, s, i, tab[s].link[i])

PagesSealed == failed \/ \A s \in Used : \A p \in PagesOf(s) : prot[p] = "RX"

Bound == IF Quantum > 0 THEN Quantum ELSE 1
Running ==
  run # NoSlot => /\ table[run].used
                  /\ budget >= 1 /\ budget + transitions <= Bound
                  /\ exact = retired
                  /\ transitions = 0 => entryPc = table[run].pc

\* A caller that stops after an error never has a poisoned engine run.
Stopped == CallerRetries = FALSE /\ failed => run = NoSlot /\ status # "ok"

IInv ==
  /\ TypeOK
  /\ TableOK(table, cursor, generation)
  /\ failed \/ LinksIn(table)
  /\ PagesSealed
  /\ Running
  /\ ChainBounded
  /\ Stopped

-----------------------------------------------------------------------------
(* Arithmetic of slots and addresses *)

\* A probe lands on a slot of the table.
LEMMA ProbeSlot == ASSUME NEW pc \in PCs, NEW k \in Nat PROVE Probe(pc, k) \in Slots
<1>1. FirstSlot[pc] \in Nat /\ Capacity \in Nat \ {0}
  BY CacheAssumption DEF Slots
<1>2. (FirstSlot[pc] + k) % Capacity \in 0 .. Capacity-1
  BY <1>1
<1>3. QED
  BY <1>2 DEF Probe, Slots

\* Rounding up to a multiple does not go below.
LEMMA RoundedUp ==
  ASSUME NEW a \in Nat \ {0}, NEW n \in Nat
  PROVE  /\ ((n + a - 1) \div a) * a \in Int
         /\ ((n + a - 1) \div a) * a >= n
<1> DEFINE q == (n + a - 1) \div a
<1>1. q \in Int /\ n + a - 1 = q * a + ((n + a - 1) % a)
  OBVIOUS
<1>2. (n + a - 1) % a \in 0 .. a-1
  OBVIOUS
<1>3. QED
  BY <1>1, <1>2

\* The cursor moves past the new block and stays within the arena.
LEMMA CursorAdvances ==
  ASSUME NEW n \in Nat, n <= ArenaBytes
  PROVE  NextCursor(n) \in n .. ArenaBytes
<1>1. Align \in Nat \ {0} /\ ArenaBytes \in Nat
  BY ArenaAssumption
<1>2. RoundUp(n) \in Int /\ RoundUp(n) >= n
  BY <1>1, RoundedUp DEF RoundUp
<1>3. QED
  BY <1>1, <1>2 DEF NextCursor

\* A page that ends after address n is not before the page of n.
LEMMA PageOfAddress ==
  ASSUME NEW a \in Nat \ {0}, NEW n \in Nat, NEW p \in Int, (p+1) * a > n
  PROVE  p >= n \div a
<1> DEFINE q == n \div a
<1>1. q \in Int /\ n = q * a + (n % a)
  OBVIOUS
<1>2. n % a \in 0 .. a-1
  OBVIOUS
<1>3. (p+1) * a > q * a
  BY <1>1, <1>2
<1>4. p + 1 > q
  BY <1>1, <1>3
<1>5. QED
  BY <1>1, <1>4

\* The pages the new block lies on are among those compile unseals and seals.
LEMMA NewPagesTouched ==
  ASSUME NEW pc \in PCs, cursor \in Nat, NEW p \in Pages,
         (p+1) * PageBytes > cursor, p * PageBytes < cursor + Blocks[pc].bytes
  PROVE  p \in Touched(pc)
<1>1. PageBytes \in Nat \ {0} /\ p \in Int
  BY ArenaAssumption DEF Pages
<1>2. p >= cursor \div PageBytes
  BY <1>1, PageOfAddress
<1>3. QED
  BY <1>2 DEF Touched

\* What a program says of each of its blocks.
LEMMA ProgramFacts ==
  ASSUME NEW pc \in PCs
  PROVE  /\ pc \in Nat \ {0}
         /\ Blocks[pc].insns \in Nat \ {0} /\ Blocks[pc].bytes \in Nat \ {0}
         /\ Exits(pc) \subseteq ExitIds
         /\ \A i \in Exits(pc) : Target(pc, i) \in PCs
         /\ \A i : Target(pc, i) \in PCs \cup {0}
<1>1. Blocks[pc].exits \in Seq(PCs) /\ Len(Blocks[pc].exits) <= 2
  BY ProgramAssumption
<1>2. Exits(pc) = 1 .. Len(Blocks[pc].exits) /\ Len(Blocks[pc].exits) \in Nat
  BY <1>1 DEF Exits
<1>3. Exits(pc) \subseteq ExitIds
  BY <1>1, <1>2 DEF ExitIds
<1>4. \A i \in Exits(pc) : Blocks[pc].exits[i] \in PCs
  BY <1>1, <1>2
<1>5. QED
  BY <1>3, <1>4, ProgramAssumption DEF Target

-----------------------------------------------------------------------------
(* Tables *)

\* Tables with the same blocks at the same places; their links may differ.
SameBlocks(a, b) ==
  \A s \in Slots :
    /\ b[s].used = a[s].used /\ b[s].pc = a[s].pc /\ b[s].gen = a[s].gen
    /\ b[s].off = a[s].off /\ b[s].patch = a[s].patch
    /\ \A i \in ExitIds : /\ b[s].link[i].source = a[s].link[i].source
                          /\ b[s].link[i].target = a[s].link[i].target

\* Probing looks only at the blocks.
LEMMA LookupSame ==
  ASSUME NEW a, NEW b, SameBlocks(a, b), NEW gen, NEW pc \in PCs
  PROVE  /\ \A s \in Slots : Reaches(b, gen, pc, s) <=> Reaches(a, gen, pc, s)
         /\ Lookup(b, gen, pc) = Lookup(a, gen, pc)
<1>1. \A k \in 0 .. Capacity-1 : Probe(pc, k) \in Slots
  BY ProbeSlot, CacheAssumption
<1>2. \A s \in Slots : Hit(b, gen, pc, s) <=> Hit(a, gen, pc, s)
  BY DEF SameBlocks, Hit
<1>3. \A s \in Slots : b[s].used = a[s].used
  BY DEF SameBlocks
<1>4. \A s \in Slots : Reaches(b, gen, pc, s) <=> Reaches(a, gen, pc, s)
  <2>1. \A k \in 0 .. Capacity-1 : \A j \in 0 .. k-1 : Probe(pc, j) \in Slots
    BY <1>1, CacheAssumption
  <2>2. QED
    BY <1>2, <1>3, <2>1 DEF Reaches
<1>5. QED
  BY <1>2, <1>4 DEF Lookup

\* So does everything the invariant says of a table but its links' code.
LEMMA TableSame ==
  ASSUME NEW a, NEW b \in [Slots -> CacheEntry], SameBlocks(a, b),
         NEW cur, NEW gen, TableOK(a, cur, gen)
  PROVE  TableOK(b, cur, gen)
<1>1. \A s \in Slots : EntryOK(b, cur, gen, s)
  BY DEF TableOK, EntryOK, SameBlocks, EndIn
<1>2. Findable(b, gen)
  <2>1. \A s \in Slots : a[s].used => a[s].pc \in PCs
    BY DEF TableOK, EntryOK
  <2>2. \A s \in Slots : b[s].used = a[s].used /\ b[s].pc = a[s].pc
    BY DEF SameBlocks
  <2>3. \A s \in Slots : a[s].used => Reaches(b, gen, a[s].pc, s)
    BY <2>1, LookupSame DEF TableOK, Findable
  <2>4. QED
    BY <2>2, <2>3 DEF Findable
<1>3. OnePerPc(b) /\ Apart(b)
  BY DEF TableOK, OnePerPc, Apart, SameBlocks, EndIn
<1>4. QED
  BY <1>1, <1>2, <1>3 DEF TableOK

LEMMA LinkValSame ==
  ASSUME NEW a, NEW b, SameBlocks(a, b), NEW s \in Slots, NEW i, NEW l,
         LinkVal(a, s, i, l)
  PROVE  LinkVal(b, s, i, l)
BY DEF SameBlocks, LinkVal

\* pw_x86_cache_lookup_mut finds each published block, and only it.
LEMMA FoundOnce ==
  ASSUME NEW tab, NEW cur, NEW gen, TableOK(tab, cur, gen), NEW pc \in PCs
  PROVE  /\ \A s \in Slots : tab[s].used /\ tab[s].pc = pc
                             => Lookup(tab, gen, pc) = {s}
         /\ \A s \in Lookup(tab, gen, pc) : /\ s \in Slots /\ tab[s].used
                                            /\ tab[s].pc = pc
<1>1. \A s \in Slots : tab[s].used /\ tab[s].pc = pc => s \in Lookup(tab, gen, pc)
  BY DEF TableOK, EntryOK, Findable, Lookup, Hit
<1>2. \A s \in Lookup(tab, gen, pc) : s \in Slots /\ tab[s].used /\ tab[s].pc = pc
  BY DEF Lookup, Hit
<1>3. QED
  BY <1>1, <1>2 DEF TableOK, OnePerPc

\* A probe path ends at its first unused slot.
LEMMA VacantOnce ==
  ASSUME NEW tab, NEW gen, NEW pc \in PCs,
         NEW s \in Vacant(tab, gen, pc), NEW t \in Vacant(tab, gen, pc)
  PROVE  s = t
<1>1. PICK k \in 0 .. Capacity-1 :
        s = Probe(pc, k) /\ \A j \in 0 .. k-1 : tab[Probe(pc, j)].used
  BY DEF Vacant, Reaches
<1>2. PICK m \in 0 .. Capacity-1 :
        t = Probe(pc, m) /\ \A j \in 0 .. m-1 : tab[Probe(pc, j)].used
  BY DEF Vacant, Reaches
<1>3. ~tab[s].used /\ ~tab[t].used
  BY DEF Vacant
<1>4. k \in Int /\ m \in Int /\ 0 <= k /\ 0 <= m
  BY CacheAssumption
<1>5. ~(k < m) /\ ~(m < k)
  BY <1>1, <1>2, <1>3, <1>4
<1>6. QED
  BY <1>1, <1>2, <1>4, <1>5

\* The entry compile publishes: typed, blank links, past every other block.
LEMMA Published ==
  ASSUME TypeOK, TableOK(table, cursor, generation), Misses, Fits,
         NEW s \in Vacant(table, generation, eip)
  PROVE  LET tab == Publish(table, eip, s)
             end == cursor + Blocks[eip].bytes
         IN  /\ TableOK(tab, NextCursor(end), generation)
             /\ s \in Slots /\ ~table[s].used
             /\ \A t \in Slots \ {s} : tab[t] = table[t]
             /\ tab[s].used /\ tab[s].pc = eip /\ tab[s].off = cursor
             /\ \A i \in ExitIds : /\ ~tab[s].link[i].linked
                                   /\ tab[s].link[i].target = Target(eip, i)
<1> DEFINE tab == Publish(table, eip, s)
           end == cursor + Blocks[eip].bytes
           cur == NextCursor(end)
<1>1. s \in Slots /\ ~table[s].used /\ Reaches(table, generation, eip, s)
  BY DEF Vacant
<1>2. eip \in PCs /\ Lookup(table, generation, eip) = {}
  BY DEF Misses
<1>3. PatchedSlot(table, eip) \in {s, NoSlot}
  BY <1>2, VacantOnce DEF PatchedSlot
<1>4. \A i \in ExitIds : Target(eip, i) \in PCs \cup {0}
  BY <1>2, ProgramFacts
<1>5. Blocks[eip].bytes \in Nat \ {0} /\ cursor \in Nat /\ ArenaBytes \in Nat
  BY <1>2, ProgramFacts, ArenaAssumption DEF TypeOK
<1>6. end \in Nat /\ end <= ArenaBytes
  BY <1>5 DEF Fits
<1>7. cur \in end .. ArenaBytes
  BY <1>6, CursorAdvances
<1> DEFINE fresh == [used |-> TRUE, pc |-> eip, gen |-> generation, off |-> cursor,
                     patch |-> PatchedSlot(table, eip),
                     link |-> [i \in ExitIds |->
                                 [ZeroLink EXCEPT !.target = Target(eip, i),
                                                  !.source = eip]]]
<1>8. tab = [table EXCEPT ![s] = fresh]
  BY DEF Publish
<1>9. table \in [Slots -> CacheEntry]
  BY DEF TypeOK
<1>10. tab[s] = fresh /\ \A t \in Slots \ {s} : tab[t] = table[t]
  BY <1>1, <1>8, <1>9
<1>11. \A i \in ExitIds : /\ fresh.link[i].source = eip
                          /\ fresh.link[i].target = Target(eip, i)
                          /\ ~fresh.link[i].linked
                          /\ fresh.link[i] \in LinkSlot
  <2> SUFFICES ASSUME NEW i \in ExitIds
               PROVE  /\ fresh.link[i].source = eip
                      /\ fresh.link[i].target = Target(eip, i)
                      /\ ~fresh.link[i].linked
                      /\ fresh.link[i] \in LinkSlot
    OBVIOUS
  <2>1. fresh.link[i] = [target |-> Target(eip, i), source |-> eip, code |-> NullCode,
                         canonical |-> NullCode, linked |-> FALSE]
    BY DEF ZeroLink
  <2>2. NullCode \in CodeAddress
    BY <1>5 DEF NullCode, Code, CodeAddress
  <2>3. QED
    BY <1>2, <1>4, <2>1, <2>2 DEF LinkSlot
<1>12. fresh \in CacheEntry
  <2>1. fresh.link \in [ExitIds -> LinkSlot]
    BY <1>11
  <2>2. generation \in 0 .. MaxGeneration /\ cursor \in 0 .. ArenaBytes
    BY RunAssumption DEF TypeOK
  <2>3. QED
    BY <1>1, <1>2, <1>3, <2>1, <2>2 DEF CacheEntry
<1>13. tab \in [Slots -> CacheEntry]
  BY <1>8, <1>9, <1>12
<1> DEFINE new == tab[s]
<1>13a. /\ new.used /\ new.pc = eip /\ new.gen = generation /\ new.off = cursor
       /\ new.patch \in {s, NoSlot}
       /\ \A i \in ExitIds : /\ new.link[i].source = eip /\ ~new.link[i].linked
                             /\ new.link[i].target = Target(eip, i)
  <2>1. new = fresh
    BY <1>10
  <2>2. fresh.used /\ fresh.pc = eip /\ fresh.gen = generation /\ fresh.off = cursor
        /\ fresh.patch = PatchedSlot(table, eip)
    OBVIOUS
  <2> HIDE DEF fresh, new
  <2>3. QED
    BY <1>3, <1>11, <2>1, <2>2
<1>13b. EndIn(tab, s) = end
  BY <1>13a DEF EndIn
<1> HIDE DEF tab, fresh, cur
<1>14. \A t \in Slots : table[t].used => /\ table[t].pc \in PCs /\ table[t].pc # eip
                                         /\ EndIn(table, t) <= cursor
                                         /\ EndIn(table, t) \in Nat
  <2> SUFFICES ASSUME NEW t \in Slots, table[t].used
               PROVE  /\ table[t].pc \in PCs /\ table[t].pc # eip
                      /\ EndIn(table, t) <= cursor
                      /\ EndIn(table, t) \in Nat
    OBVIOUS
  <2>1. table[t].pc \in PCs /\ EndIn(table, t) <= cursor
    BY DEF TableOK, EntryOK
  <2>2. table[t].pc # eip
    BY <1>2, FoundOnce
  <2>3. table[t].off \in Nat
    BY <1>9, ArenaAssumption DEF CacheEntry
  <2>4. QED
    BY <2>1, <2>2, <2>3, ProgramFacts DEF EndIn
<1>15. \A t \in Slots : EntryOK(tab, cur, generation, t)
  <2>1. EntryOK(tab, cur, generation, s)
    BY <1>2, <1>6, <1>7, <1>13a, <1>13b DEF EntryOK
  <2>2. ASSUME NEW t \in Slots \ {s} PROVE EntryOK(tab, cur, generation, t)
    <3>1. tab[t] = table[t] /\ EntryOK(table, cursor, generation, t)
      BY <1>10 DEF TableOK
    <3>2. EndIn(tab, t) = EndIn(table, t)
      BY <3>1 DEF EndIn
    <3>3. table[t].used => EndIn(table, t) <= cur
      BY <1>5, <1>6, <1>7, <1>14
    <3>4. QED
      BY <3>1, <3>2, <3>3 DEF EntryOK
  <2>3. QED
    BY <2>1, <2>2
<1>16. Findable(tab, generation)
  <2> SUFFICES ASSUME NEW t \in Slots, tab[t].used
               PROVE  Reaches(tab, generation, tab[t].pc, t)
    BY DEF Findable
  <2>1. CASE t = s
    <3>1. PICK k \in 0 .. Capacity-1 :
            /\ s = Probe(eip, k)
            /\ \A j \in 0 .. k-1 : /\ table[Probe(eip, j)].used
                                   /\ ~Hit(table, generation, eip, Probe(eip, j))
      BY <1>1 DEF Reaches
    <3>2. \A j \in 0 .. k-1 : Probe(eip, j) \in Slots /\ Probe(eip, j) # s
      BY <1>1, <1>2, <3>1, ProbeSlot
    <3>3. \A j \in 0 .. k-1 : tab[Probe(eip, j)] = table[Probe(eip, j)]
      BY <1>10, <3>2
    <3>4. \A j \in 0 .. k-1 : /\ tab[Probe(eip, j)].used
                              /\ ~Hit(tab, generation, eip, Probe(eip, j))
      BY <3>1, <3>3 DEF Hit
    <3>5. tab[t].pc = eip
      BY <1>13a, <2>1
    <3>6. QED
      BY <2>1, <3>1, <3>4, <3>5 DEF Reaches
  <2>2. CASE t # s
    <3> DEFINE pc == table[t].pc
    <3>1. table[t].used /\ tab[t] = table[t] /\ pc \in PCs /\ pc # eip
      BY <1>10, <1>14, <2>2
    <3>2. PICK k \in 0 .. Capacity-1 :
            /\ t = Probe(pc, k)
            /\ \A j \in 0 .. k-1 : /\ table[Probe(pc, j)].used
                                   /\ ~Hit(table, generation, pc, Probe(pc, j))
      BY <3>1 DEF TableOK, Findable, Reaches
    <3>3. \A j \in 0 .. k-1 : Probe(pc, j) \in Slots
      BY <3>1, ProbeSlot
    <3>4. \A j \in 0 .. k-1 : tab[Probe(pc, j)] = table[Probe(pc, j)]
      BY <1>1, <1>10, <3>2, <3>3
    <3>5. \A j \in 0 .. k-1 : /\ tab[Probe(pc, j)].used
                              /\ ~Hit(tab, generation, pc, Probe(pc, j))
      BY <3>2, <3>4 DEF Hit
    <3>6. QED
      BY <3>1, <3>2, <3>5 DEF Reaches
  <2>3. QED
    BY <2>1, <2>2
<1>17. OnePerPc(tab)
  BY <1>10, <1>14, <1>13a DEF TableOK, OnePerPc
<1>18. Apart(tab)
  <2> SUFFICES ASSUME NEW t \in Slots, NEW u \in Slots,
                      tab[t].used, tab[u].used, t # u
               PROVE  EndIn(tab, t) <= tab[u].off \/ EndIn(tab, u) <= tab[t].off
    BY DEF Apart
  <2>1. CASE t = s
    <3>1. EndIn(tab, u) <= cursor /\ tab[t].off = cursor
      BY <1>10, <1>14, <1>13a, <2>1 DEF EndIn
    <3>2. QED
      BY <3>1
  <2>2. CASE u = s
    <3>1. EndIn(tab, t) <= cursor /\ tab[u].off = cursor
      BY <1>10, <1>14, <1>13a, <2>2 DEF EndIn
    <3>2. QED
      BY <3>1
  <2>3. CASE t # s /\ u # s
    BY <1>10, <2>3 DEF TableOK, Apart, EndIn
  <2>4. QED
    BY <2>1, <2>2, <2>3
<1>19. cur \in 0 .. ArenaBytes
  BY <1>6, <1>7
<1>20. TableOK(tab, cur, generation)
  BY <1>13, <1>15, <1>16, <1>17, <1>18, <1>19 DEF TableOK
<1>21. QED
  BY <1>1, <1>10, <1>20, <1>13a DEF tab, cur

-----------------------------------------------------------------------------
(* Linking *)

\* An entry whose link slots are replaced.
LEMMA EntryRelinked ==
  ASSUME NEW e \in CacheEntry, NEW g \in [ExitIds -> LinkSlot],
         NEW x, x = [e EXCEPT !.link = g]
  PROVE  /\ x \in CacheEntry /\ x.link = g
         /\ x.used = e.used /\ x.pc = e.pc /\ x.gen = e.gen
         /\ x.off = e.off /\ x.patch = e.patch
BY DEF CacheEntry

\* The code addresses of a typed entry.
LEMMA CodeTyped ==
  ASSUME NEW e \in CacheEntry, NEW i \in ExitIds \cup {0},
         NEW at \in {"null", "canonical", "chain", "stub", "reconcile"}
  PROVE  Code(e.off, at, i) \in CodeAddress
BY DEF Code, CodeAddress, CacheEntry, ExitIds

\* Linking exit i of a block to a block of its target makes a sound link.
LEMMA LinkToSound ==
  ASSUME NEW tab \in [Slots -> CacheEntry],
         NEW s \in Slots, NEW t \in Slots, NEW i \in ExitIds
  PROVE  LET l == LinkTo(tab[s], i, tab[t])
         IN  /\ l \in LinkSlot
             /\ l.source = tab[s].link[i].source
             /\ l.target = tab[s].link[i].target
             /\ /\ tab[t].used /\ tab[t].pc = l.target
                /\ l.target = Target(tab[s].pc, i)
                => LinkVal(tab, s, i, l)
<1> DEFINE e == tab[s]
           code == IF ContractsMatch(e.pc, tab[t].pc)
                   THEN Code(tab[t].off, "chain", 0) ELSE Code(e.off, "reconcile", i)
           canonical == Code(tab[t].off, "canonical", 0)
           l == LinkTo(e, i, tab[t])
<1>1. e \in CacheEntry /\ tab[t] \in CacheEntry
  OBVIOUS
<1>2. e.link[i] \in LinkSlot
  BY <1>1 DEF CacheEntry
<1>3. code \in CodeAddress /\ canonical \in CodeAddress
  BY <1>1, CodeTyped
<1>4. l = [e.link[i] EXCEPT !.code = code, !.canonical = canonical, !.linked = TRUE]
  BY DEF LinkTo
<1>5. /\ l.code = code /\ l.canonical = canonical /\ l.linked = TRUE
      /\ l.source = e.link[i].source /\ l.target = e.link[i].target
  BY <1>2, <1>4 DEF LinkSlot
<1>6. l \in LinkSlot
  BY <1>2, <1>3, <1>4 DEF LinkSlot
<1>7. ASSUME tab[t].used, tab[t].pc = l.target, l.target = Target(e.pc, i)
      PROVE  LinkVal(tab, s, i, l)
  <2>1. canonical.at = "canonical" /\ canonical.off = tab[t].off
    BY DEF Code
  <2>2. CASE ContractsMatch(e.pc, tab[t].pc)
    <3>1. code.at = "chain" /\ code.off = tab[t].off
      BY <2>2 DEF Code
    <3> HIDE DEF l, code, canonical
    <3>2. QED
      BY <1>5, <1>7, <2>2, <3>1 DEF LinkVal
  <2>3. CASE ~ContractsMatch(e.pc, tab[t].pc)
    <3>1. code = Code(tab[s].off, "reconcile", i)
      BY <2>3
    <3> HIDE DEF l, code, canonical
    <3>2. QED
      BY <1>5, <1>7, <2>1, <3>1 DEF LinkVal
  <2>4. QED
    BY <2>2, <2>3
<1> HIDE DEF code, canonical
<1>8. QED
  BY <1>5, <1>6, <1>7

\* An exit that points at its own stub is sound.
LEMMA StubSound ==
  ASSUME NEW tab \in [Slots -> CacheEntry], NEW s \in Slots, NEW i \in ExitIds,
         ~tab[s].link[i].linked
  PROVE  LET l == StubLink(tab[s], i)
         IN  /\ l \in LinkSlot
             /\ l.source = tab[s].link[i].source
             /\ l.target = tab[s].link[i].target
             /\ l.target = Target(tab[s].pc, i) => LinkVal(tab, s, i, l)
<1> DEFINE l == StubLink(tab[s], i)
           code == Code(tab[s].off, "stub", i)
<1>1. tab[s].link[i] \in LinkSlot
  BY DEF CacheEntry
<1>2. code \in CodeAddress
  BY CodeTyped
<1>3. l = [tab[s].link[i] EXCEPT !.code = code]
  BY DEF StubLink
<1>4. /\ l.code = code /\ l.linked = tab[s].link[i].linked
      /\ l.source = tab[s].link[i].source /\ l.target = tab[s].link[i].target
  BY <1>1, <1>3 DEF LinkSlot
<1>5. l \in LinkSlot
  BY <1>1, <1>2, <1>3 DEF LinkSlot
<1> HIDE DEF l
<1>6. QED
  BY <1>4, <1>5 DEF LinkVal, l

\* The late link of the slot the guest left through last is sound, however
\* long ago that was, because a slot is blank unless its block is cached.
LEMMA ResolvedOK ==
  ASSUME TypeOK, TableOK(table, cursor, generation)
  PROVE  /\ TableOK(Resolved, cursor, generation)
         /\ SameBlocks(table, Resolved)
         /\ LinksIn(table) => LinksIn(Resolved)
<1> DEFINE found == Lookup(table, generation, eip)
           t == CHOOSE u \in found : TRUE
           links(s, i) == last = <<s, i>> /\ found # {} /\ ResolvesLast(s, i)
           f == [s \in Slots |-> [i \in ExitIds |->
                   IF links(s, i) THEN LinkLast(table[s], i, table[t])
                                  ELSE table[s].link[i]]]
<1>1. table \in [Slots -> CacheEntry]
  BY DEF TypeOK
<1>2. found # {} => t \in Slots /\ table[t].used /\ table[t].pc = eip /\ eip # 0
  <2> SUFFICES ASSUME found # {}
               PROVE  t \in Slots /\ table[t].used /\ table[t].pc = eip /\ eip # 0
    OBVIOUS
  <2>1. t \in found
    OBVIOUS
  <2>2. t \in Slots /\ table[t].used /\ table[t].pc = eip
    BY <2>1 DEF Lookup, Hit
  <2>3. eip \in PCs
    BY <2>2 DEF TableOK, EntryOK
  <2>4. QED
    BY <2>2, <2>3, ProgramFacts
<1>3. ASSUME NEW s \in Slots, NEW i \in ExitIds, links(s, i)
      PROVE  /\ table[s].used /\ table[s].link[i].target = eip
             /\ LinkLast(table[s], i, table[t]) = LinkTo(table[s], i, table[t])
  <2>1. found # {} /\ table[s].link[i].target = eip
    BY <1>3 DEF ResolvesLast
  <2>2. table[s].used
    BY <1>2, <2>1 DEF TableOK, EntryOK
  <2>3. table[s].link[i].source = table[s].pc /\ table[s].pc \in PCs
    BY <2>2 DEF TableOK, EntryOK
  <2>4. Lookup(table, generation, table[s].link[i].source) # {}
    BY <2>2, <2>3, FoundOnce
  <2>5. QED
    BY <2>1, <2>2, <2>4 DEF LinkLast
<1>4. ASSUME NEW s \in Slots, NEW i \in ExitIds
      PROVE  /\ f[s][i] \in LinkSlot
             /\ f[s][i].source = table[s].link[i].source
             /\ f[s][i].target = table[s].link[i].target
  <2>1. CASE links(s, i)
    <3>1. f[s][i] = LinkTo(table[s], i, table[t]) /\ t \in Slots
      BY <1>2, <1>3, <2>1
    <3>2. QED
      BY <1>1, <3>1, LinkToSound
  <2>2. CASE ~links(s, i)
    <3>1. f[s][i] = table[s].link[i]
      BY <2>2
    <3>2. QED
      BY <1>1, <3>1 DEF CacheEntry
  <2>3. QED
    BY <2>1, <2>2
<1>5. f \in [Slots -> [ExitIds -> LinkSlot]]
  <2>1. \A s \in Slots : f[s] \in [ExitIds -> LinkSlot]
    <3>1. \A s \in Slots : f[s] = [i \in ExitIds |-> f[s][i]]
      OBVIOUS
    <3> HIDE DEF f
    <3>2. QED
      BY <1>4, <3>1
  <2>2. f = [s \in Slots |-> f[s]]
    OBVIOUS
  <2> HIDE DEF f
  <2>3. QED
    BY <2>1, <2>2
<1>6. /\ Resolved = [s \in Slots |-> Resolved[s]]
      /\ \A s \in Slots : Resolved[s] = [table[s] EXCEPT !.link = f[s]]
  BY DEF Resolved
<1> HIDE DEF f
<1>7. /\ Resolved \in [Slots -> CacheEntry] /\ SameBlocks(table, Resolved)
      /\ \A s \in Slots : Resolved[s].link = f[s]
  <2>1. \A s \in Slots : /\ Resolved[s] \in CacheEntry
                         /\ Resolved[s].link = f[s]
                         /\ Resolved[s].used = table[s].used
                         /\ Resolved[s].pc = table[s].pc
                         /\ Resolved[s].gen = table[s].gen
                         /\ Resolved[s].off = table[s].off
                         /\ Resolved[s].patch = table[s].patch
    <3> TAKE s \in Slots
    <3>1. Resolved[s] = [table[s] EXCEPT !.link = f[s]]
      BY <1>6
    <3>2. table[s] \in CacheEntry /\ f[s] \in [ExitIds -> LinkSlot]
      BY <1>1, <1>5
    <3>3. QED
      BY <3>1, <3>2, EntryRelinked
  <2>2. Resolved \in [Slots -> CacheEntry]
    BY <1>6, <2>1
  <2>3. QED
    BY <1>4, <2>1, <2>2 DEF SameBlocks
<1>8. TableOK(Resolved, cursor, generation)
  BY <1>7, TableSame
<1>9. ASSUME LinksIn(table) PROVE LinksIn(Resolved)
  <2> SUFFICES ASSUME NEW s \in Slots, table[s].used, NEW i \in Exits(table[s].pc)
               PROVE  LinkVal(Resolved, s, i, f[s][i])
    BY <1>7 DEF LinksIn, SameBlocks
  <2>1. i \in ExitIds /\ table[s].link[i].target = Target(table[s].pc, i)
    BY ProgramFacts DEF TableOK, EntryOK
  <2>2. LinkVal(table, s, i, f[s][i])
    <3>1. CASE links(s, i)
      <4>1. /\ f[s][i] = LinkTo(table[s], i, table[t])
            /\ t \in Slots /\ table[t].used /\ table[t].pc = table[s].link[i].target
        BY <1>2, <1>3, <2>1, <3>1 DEF f
      <4>2. QED
        BY <1>1, <2>1, <4>1, LinkToSound
    <3>2. CASE ~links(s, i)
      BY <1>9, <2>1, <3>2 DEF LinksIn, f
    <3>3. QED
      BY <3>1, <3>2
  <2>3. QED
    BY <1>7, <2>2, LinkValSame
<1>10. QED
  BY <1>7, <1>8, <1>9

\* After the stubs, forward and backward links of a new block at s are set.
LEMMA LinkAllOK ==
  ASSUME NEW tab, NEW cur, TableOK(tab, cur, generation),
         NEW s \in Slots, tab[s].used, \A i \in ExitIds : ~tab[s].link[i].linked
  PROVE  /\ TableOK(LinkAll(tab, s), cur, generation)
         /\ SameBlocks(tab, LinkAll(tab, s))
         /\ (\A t \in Slots \ {s} : tab[t].used =>
               \A i \in Exits(tab[t].pc) : LinkVal(tab, t, i, tab[t].link[i]))
            => LinksIn(LinkAll(tab, s))
<1> DEFINE f == [t \in Slots |-> [i \in ExitIds |->
                   IF t = s THEN ForwardLink(tab, tab[s], i)
                            ELSE BackwardLink(tab[t], i, tab[s])]]
           Old(t, i) == tab[t].link[i]
           Kept(t, i) == f[t][i] = Old(t, i)
           Stub(t, i) == t = s /\ f[t][i] = StubLink(tab[t], i)
           Linked(t, i) == \E u \in Slots : /\ f[t][i] = LinkTo(tab[t], i, tab[u])
                                            /\ tab[u].used
                                            /\ tab[u].pc = Old(t, i).target
<1>1. tab \in [Slots -> CacheEntry]
  BY DEF TableOK
<1>2. ASSUME NEW t \in Slots, tab[t].used
      PROVE  /\ tab[t].pc \in PCs /\ Exits(tab[t].pc) \subseteq ExitIds
             /\ \A i \in ExitIds : Old(t, i).target = Target(tab[t].pc, i)
  BY <1>2, ProgramFacts DEF TableOK, EntryOK
<1>3. ASSUME NEW i \in ExitIds
      PROVE  \/ i \notin Exits(tab[s].pc) /\ Kept(s, i)
             \/ Stub(s, i) \/ Linked(s, i)
  <2> DEFINE found == Lookup(tab, generation, Target(tab[s].pc, i))
             u == CHOOSE x \in found : TRUE
  <2>1. f[s][i] = ForwardLink(tab, tab[s], i)
    OBVIOUS
  <2>2. CASE i \notin Exits(tab[s].pc)
    BY <2>1, <2>2 DEF ForwardLink
  <2>3. CASE i \in Exits(tab[s].pc) /\ chaining /\ found # {}
    <3>1. f[s][i] = LinkTo(tab[s], i, tab[u])
      BY <2>1, <2>3 DEF ForwardLink
    <3>2. u \in found
      BY <2>3
    <3>3. Target(tab[s].pc, i) \in PCs
      BY <1>2, <2>3, ProgramFacts
    <3>4. u \in Slots /\ tab[u].used /\ tab[u].pc = Old(s, i).target
      BY <1>2, <3>2, <3>3, FoundOnce
    <3> HIDE DEF u, f
    <3>5. QED
      BY <3>1, <3>4
  <2>4. CASE i \in Exits(tab[s].pc) /\ ~(chaining /\ found # {})
    BY <2>1, <2>4 DEF ForwardLink
  <2>5. QED
    BY <2>2, <2>3, <2>4
<1>4. ASSUME NEW t \in Slots \ {s}, NEW i \in ExitIds
      PROVE  Kept(t, i) \/ Linked(t, i)
  <2>1. f[t][i] = BackwardLink(tab[t], i, tab[s])
    OBVIOUS
  <2> HIDE DEF f
  <2>2. QED
    BY <2>1 DEF BackwardLink
<1> HIDE DEF f
<1>5. ASSUME NEW t \in Slots, NEW i \in ExitIds
      PROVE  /\ f[t][i] \in LinkSlot
             /\ f[t][i].source = Old(t, i).source
             /\ f[t][i].target = Old(t, i).target
  <2>1. CASE Kept(t, i)
    BY <1>1, <2>1 DEF CacheEntry
  <2>2. CASE Stub(t, i)
    BY <1>1, <2>2, StubSound
  <2>3. CASE Linked(t, i)
    BY <1>1, <2>3, LinkToSound
  <2>4. QED
    BY <1>3, <1>4, <2>1, <2>2, <2>3
<1>6. f \in [Slots -> [ExitIds -> LinkSlot]]
  <2>1. /\ f = [t \in Slots |-> f[t]]
        /\ \A t \in Slots : f[t] = [i \in ExitIds |-> f[t][i]]
    BY DEF f
  <2>2. QED
    BY <1>5, <2>1
<1>7. /\ LinkAll(tab, s) = [t \in Slots |-> LinkAll(tab, s)[t]]
      /\ \A t \in Slots : LinkAll(tab, s)[t] = [tab[t] EXCEPT !.link = f[t]]
  BY DEF LinkAll, f
<1>8. /\ LinkAll(tab, s) \in [Slots -> CacheEntry] /\ SameBlocks(tab, LinkAll(tab, s))
      /\ \A t \in Slots : LinkAll(tab, s)[t].link = f[t]
  <2>1. \A t \in Slots : /\ LinkAll(tab, s)[t] \in CacheEntry
                         /\ LinkAll(tab, s)[t].link = f[t]
                         /\ LinkAll(tab, s)[t].used = tab[t].used
                         /\ LinkAll(tab, s)[t].pc = tab[t].pc
                         /\ LinkAll(tab, s)[t].gen = tab[t].gen
                         /\ LinkAll(tab, s)[t].off = tab[t].off
                         /\ LinkAll(tab, s)[t].patch = tab[t].patch
    <3> TAKE t \in Slots
    <3>1. LinkAll(tab, s)[t] = [tab[t] EXCEPT !.link = f[t]]
      BY <1>7
    <3>2. tab[t] \in CacheEntry /\ f[t] \in [ExitIds -> LinkSlot]
      BY <1>1, <1>6
    <3>3. QED
      BY <3>1, <3>2, EntryRelinked
  <2>2. LinkAll(tab, s) \in [Slots -> CacheEntry]
    BY <1>7, <2>1
  <2>3. QED
    BY <1>5, <2>1, <2>2 DEF SameBlocks
<1>9. TableOK(LinkAll(tab, s), cur, generation)
  BY <1>8, TableSame
<1>10. ASSUME \A t \in Slots \ {s} : tab[t].used =>
                \A i \in Exits(tab[t].pc) : LinkVal(tab, t, i, Old(t, i))
       PROVE  LinksIn(LinkAll(tab, s))
  <2> SUFFICES ASSUME NEW t \in Slots, tab[t].used, NEW i \in Exits(tab[t].pc)
               PROVE  LinkVal(tab, t, i, f[t][i])
    BY <1>8, LinkValSame DEF LinksIn, SameBlocks
  <2>1. i \in ExitIds /\ Old(t, i).target = Target(tab[t].pc, i)
    BY <1>2
  <2>2. CASE Kept(t, i) /\ t # s
    BY <1>10, <2>2
  <2>3. CASE Stub(t, i)
    BY <1>1, <2>1, <2>3, StubSound
  <2>4. CASE Linked(t, i)
    BY <1>1, <2>1, <2>4, LinkToSound
  <2>5. QED
    BY <1>3, <1>4, <2>1, <2>2, <2>3, <2>4
<1>11. QED
  BY <1>8, <1>9, <1>10

-----------------------------------------------------------------------------
(* The invariant holds initially and after every step *)

\* What the invariant says of the cache, the links and the arena.
StaticOK ==
  /\ TableOK(table, cursor, generation)
  /\ failed \/ LinksIn(table)
  /\ PagesSealed

\* Keeping the blocks and the protection keeps the pages sealed.
LEMMA PagesKept ==
  ASSUME SameBlocks(table, table'), PagesSealed, UNCHANGED <<prot, failed>>
  PROVE  PagesSealed'
<1>1. \A s \in Slots : EndOf(s)' = EndOf(s) /\ table'[s].off = table[s].off
  BY DEF SameBlocks, EndOf
<1>2. Used' = Used
  BY DEF Used, SameBlocks
<1>3. \A s \in Slots : PagesOf(s)' = PagesOf(s)
  BY <1>1 DEF PagesOf
<1>4. QED
  BY <1>2, <1>3 DEF PagesSealed, Used

LEMMA StaticKept ==
  ASSUME StaticOK, UNCHANGED <<table, cursor, generation, prot, failed>>
  PROVE  StaticOK'
<1>1. SameBlocks(table, table')
  BY DEF SameBlocks
<1>2. QED
  BY <1>1, PagesKept DEF StaticOK

LEMMA BoundPositive == Bound \in Nat /\ Bound >= 1
BY RunAssumption DEF Bound

\* A block is started with a whole budget and nothing retired.
LEMMA DispatchOK ==
  ASSUME NEW s \in Slots, Dispatch(table', s), table'[s].used, table'[s].pc \in PCs
  PROVE  /\ Running' /\ ChainBounded'
         /\ run' \in Slots /\ via' = "canonical" /\ entryPc' \in PCs
         /\ budget' \in Nat /\ transitions' = 0 /\ retired' = 0 /\ exact' = 0
         /\ reported' = 0 /\ last' = <<>> /\ status' = "ok"
<1>1. budget' \in 1 .. Bound
  BY RunAssumption DEF Dispatch, Bound
<1>2. QED
  BY <1>1, BoundPositive, RunAssumption DEF Dispatch, Running, ChainBounded, Bound

\* The cache, links and arena after a new block was published, linked, sealed.
LEMMA CompiledOK ==
  ASSUME TypeOK, StaticOK, Misses, Fits, NEW s \in Vacant(table, generation, eip),
         table' = LinkAll(Publish(table, eip, s), s),
         cursor' = NextCursor(cursor + Blocks[eip].bytes),
         prot' = Protect(Touched(eip), "RX"),
         UNCHANGED <<generation, failed, chaining>>
  PROVE  StaticOK' /\ s \in Slots /\ table'[s].used /\ table'[s].pc = eip
<1> DEFINE tab == Publish(table, eip, s)
           cur == NextCursor(cursor + Blocks[eip].bytes)
<1>1. /\ TableOK(tab, cur, generation)
      /\ s \in Slots /\ ~table[s].used
      /\ \A t \in Slots \ {s} : tab[t] = table[t]
      /\ tab[s].used /\ tab[s].pc = eip /\ tab[s].off = cursor
      /\ \A i \in ExitIds : /\ ~tab[s].link[i].linked
                            /\ tab[s].link[i].target = Target(eip, i)
  BY Published DEF StaticOK
<1> HIDE DEF tab
<1>2. /\ TableOK(LinkAll(tab, s), cur, generation)
      /\ SameBlocks(tab, LinkAll(tab, s))
      /\ (\A t \in Slots \ {s} : tab[t].used =>
            \A i \in Exits(tab[t].pc) : LinkVal(tab, t, i, tab[t].link[i]))
         => LinksIn(LinkAll(tab, s))
  BY <1>1, LinkAllOK
<1>3. table' = LinkAll(tab, s)
  BY DEF tab
<1>4. TableOK(table', cursor', generation')
  BY <1>2, <1>3
<1>5. ASSUME LinksIn(table) PROVE LinksIn(table')
  <2> SUFFICES ASSUME NEW t \in Slots \ {s}, tab[t].used, NEW i \in Exits(tab[t].pc)
               PROVE  LinkVal(tab, t, i, tab[t].link[i])
    BY <1>2, <1>3
  <2>1. LinkVal(table, t, i, table[t].link[i]) /\ tab[t] = table[t]
    BY <1>1, <1>5 DEF LinksIn
  <2>2. \A u \in Slots : table[u].used => tab[u] = table[u]
    BY <1>1
  <2>3. QED
    BY <2>1, <2>2 DEF LinkVal
<1>6. ASSUME ~failed PROVE \A t \in Used' : \A p \in PagesOf(t)' : prot'[p] = "RX"
  <2> SUFFICES ASSUME NEW t \in Slots, table'[t].used, NEW p \in PagesOf(t)'
               PROVE  prot'[p] = "RX"
    BY DEF Used
  <2>1. p \in Pages
    BY DEF PagesOf
  <2>2. prot' = [q \in Pages |-> IF q \in Touched(eip) THEN "RX" ELSE prot[q]]
    BY DEF Protect
  <2>3. /\ tab[t].used /\ table'[t].off = tab[t].off
        /\ EndOf(t)' = tab[t].off + Blocks[tab[t].pc].bytes
    BY <1>2, <1>3 DEF SameBlocks, EndOf
  <2>4. CASE t = s
    <3>1. eip \in PCs /\ cursor \in Nat
      BY ArenaAssumption DEF Misses, TypeOK
    <3>2. (p+1) * PageBytes > cursor /\ p * PageBytes < cursor + Blocks[eip].bytes
      BY <1>1, <2>3, <2>4 DEF PagesOf
    <3>3. p \in Touched(eip)
      BY <2>1, <3>1, <3>2, NewPagesTouched
    <3>4. QED
      BY <2>1, <2>2, <3>3
  <2>5. CASE t # s
    <3>1. tab[t] = table[t] /\ t \in Used
      BY <1>1, <2>3, <2>5 DEF Used
    <3>2. p \in PagesOf(t)
      BY <2>3, <3>1 DEF PagesOf, EndOf
    <3>3. prot[p] = "RX"
      BY <1>6, <3>1, <3>2 DEF StaticOK, PagesSealed
    <3>4. QED
      BY <2>1, <2>2, <3>3
  <2>6. QED
    BY <2>4, <2>5
<1>7. table'[s].used /\ table'[s].pc = eip
  BY <1>1, <1>2, <1>3 DEF SameBlocks
<1>8. QED
  BY <1>1, <1>4, <1>5, <1>6, <1>7 DEF StaticOK, PagesSealed

\* An empty table satisfies what is said of tables.
LEMMA EmptyOK ==
  ASSUME NEW tab, tab = [s \in Slots |-> ZeroEntry], NEW gen \in 0 .. MaxGeneration
  PROVE  TableOK(tab, 0, gen) /\ LinksIn(tab) /\ \A s \in Slots : ~tab[s].used
<1>1. ArenaBytes \in Nat /\ MaxGeneration \in Nat
  BY ArenaAssumption, RunAssumption
<1>2. NullCode \in CodeAddress
  BY <1>1 DEF NullCode, Code, CodeAddress
<1>3. ZeroLink \in LinkSlot
  BY <1>2 DEF ZeroLink, LinkSlot
<1>4. ZeroEntry \in CacheEntry
  BY <1>1, <1>3 DEF ZeroEntry, CacheEntry
<1>5. /\ tab \in [Slots -> CacheEntry]
      /\ \A s \in Slots : /\ ~tab[s].used
                          /\ \A i \in ExitIds : tab[s].link[i].target = 0
  BY <1>4 DEF ZeroEntry, ZeroLink
<1>6. QED
  BY <1>1, <1>5 DEF TableOK, EntryOK, Findable, OnePerPc, Apart, LinksIn

LEMMA InitInv == Init => IInv
<1> SUFFICES ASSUME Init PROVE IInv
  OBVIOUS
<1> USE DEF Init
<1>1. generation \in 1 .. MaxGeneration /\ generation \in 0 .. MaxGeneration
  BY RunAssumption
<1>2. /\ TableOK(table, cursor, generation) /\ LinksIn(table)
      /\ \A s \in Slots : ~table[s].used
  BY <1>1, EmptyOK
<1>3. TypeOK
  <2>1. eip \in Nat
    BY ProgramAssumption
  <2>2. prot \in [Pages -> {"RW", "RX"}]
    BY DEF AllRW
  <2>3. QED
    BY <1>1, <1>2, <2>1, <2>2 DEF TypeOK, TableOK
<1>4. QED
  BY <1>2, <1>3, BoundPositive
     DEF IInv, PagesSealed, Used, Running, ChainBounded, Stopped, Bound, Slots, NoSlot

\* A step that fails before or while compiling leaves the guest where it was.
LEMMA FailedStepOK ==
  ASSUME IInv, InDispatcher, NEW code \in {"not_found", "limit", "vm"}, StepFails(code),
         StaticOK', table' \in [Slots -> CacheEntry], cursor' \in 0 .. ArenaBytes,
         prot' \in [Pages -> {"RW", "RX"}], sealed' \in BOOLEAN, failed' \in BOOLEAN,
         UNCHANGED <<generation, chaining, eip>>
  PROVE  IInv'
<1> USE DEF StepFails, InDispatcher
<1>1. TypeOK'
  BY DEF IInv, TypeOK
<1>2. Running' /\ ChainBounded' /\ Stopped'
  BY DEF IInv, Running, ChainBounded, Stopped
<1>3. QED
  BY <1>1, <1>2 DEF IInv, StaticOK

\* The steps of pw_x86_engine_step up to the call of generated code.
LEMMA StepPreserves ==
  ASSUME IInv, \/ StepHit \/ StepUntranslated \/ StepNoRoom \/ StepUnwritable
               \/ StepTableFull \/ StepSealFails \/ StepCompiles
  PROVE  IInv'
<1>1. TypeOK /\ StaticOK /\ table \in [Slots -> CacheEntry]
      /\ cursor \in 0 .. ArenaBytes /\ prot \in [Pages -> {"RW", "RX"}]
  BY DEF IInv, StaticOK, TypeOK
<1>2. CASE StepHit
  <2> USE <1>2 DEF StepHit, protVars
  <2>1. PICK s \in Lookup(Resolved, generation, eip) :
          table' = Resolved /\ Dispatch(Resolved, s)
    OBVIOUS
  <2>2. /\ TableOK(Resolved, cursor, generation) /\ SameBlocks(table, Resolved)
        /\ LinksIn(table) => LinksIn(Resolved)
    BY <1>1, ResolvedOK DEF StaticOK
  <2>3. s \in Slots /\ Resolved[s].used /\ Resolved[s].pc \in PCs
    BY <2>2 DEF Lookup, Hit, TableOK, EntryOK
  <2>4. StaticOK'
    BY <1>1, <2>1, <2>2, PagesKept DEF StaticOK
  <2>5. /\ Running' /\ ChainBounded'
        /\ run' \in Slots /\ via' = "canonical" /\ entryPc' \in PCs
        /\ budget' \in Nat /\ transitions' = 0 /\ retired' = 0 /\ exact' = 0
        /\ reported' = 0 /\ last' = <<>> /\ status' = "ok"
    BY <2>1, <2>3, DispatchOK
  <2>6. TypeOK'
    BY <1>1, <2>1, <2>2, <2>5 DEF TypeOK, TableOK
  <2>7. Stopped'
    BY DEF IInv, Stopped, InDispatcher
  <2>8. QED
    BY <2>4, <2>5, <2>6, <2>7 DEF IInv, StaticOK
<1>3. CASE StepNoRoom
  <2>1. StaticOK'
    BY <1>1, <1>3, StaticKept DEF StepNoRoom, cacheVars, protVars
  <2>2. QED
    BY <1>1, <1>3, <2>1, FailedStepOK
       DEF StepNoRoom, cacheVars, protVars, Misses, IInv, TypeOK
<1>4. CASE StepUnwritable
  <2>1. StaticOK'
    BY <1>1, <1>4, StaticKept DEF StepUnwritable, cacheVars, protVars
  <2>2. QED
    BY <1>1, <1>4, <2>1, FailedStepOK
       DEF StepUnwritable, cacheVars, protVars, Misses, IInv, TypeOK
<1>5. CASE StepTableFull
  <2> USE <1>5 DEF StepTableFull, cacheVars
  <2>1. /\ prot' \in [Pages -> {"RW", "RX"}]
        /\ sealed' \in BOOLEAN /\ failed' \in BOOLEAN
    BY <1>1 DEF Protect, TypeOK
  <2>3. PagesSealed'
    <3>1. CASE failed'
      BY <3>1 DEF PagesSealed
    <3>2. CASE ~failed'
      <4>1. ~failed /\ \A p \in Pages : prot[p] = "RX" => prot'[p] = "RX"
        <5>1. prot' = Protect(Touched(eip), "RX") /\ ~failed
          BY <3>2
        <5>2. QED
          BY <5>1 DEF Protect
      <4>2. \A s \in Used : \A p \in PagesOf(s) : p \in Pages /\ prot[p] = "RX"
        BY <1>1, <4>1 DEF StaticOK, PagesSealed, PagesOf
      <4>3. Used' = Used /\ \A s \in Used : PagesOf(s)' = PagesOf(s)
        BY DEF Used, PagesOf, EndOf
      <4>4. QED
        BY <4>1, <4>2, <4>3 DEF PagesSealed
    <3>3. QED
      BY <3>1, <3>2
  <2>4. StaticOK'
    BY <1>1, <2>3 DEF StaticOK
  <2>5. QED
    BY <1>1, <2>1, <2>4, FailedStepOK DEF Misses
<1>6. CASE StepSealFails
  <2> USE <1>6 DEF StepSealFails
  <2>1. PICK s \in Vacant(table, generation, eip) : table' = Publish(table, eip, s)
    OBVIOUS
  <2>2. TableOK(table', cursor', generation')
    BY <1>1, <2>1, Published DEF StaticOK
  <2>3. StaticOK'
    BY <2>2 DEF StaticOK, PagesSealed
  <2>4. prot' \in [Pages -> {"RW", "RX"}]
    BY <1>1 DEF Protect
  <2>5. QED
    BY <2>2, <2>3, <2>4, FailedStepOK DEF Misses, TableOK
<1>7. CASE StepCompiles
  <2> USE <1>7 DEF StepCompiles
  <2>1. PICK s \in Vacant(table, generation, eip) :
          /\ table' = LinkAll(Publish(table, eip, s), s)
          /\ Dispatch(table', s)
    OBVIOUS
  <2>2. StaticOK' /\ s \in Slots /\ table'[s].used /\ table'[s].pc \in PCs
    BY <1>1, <2>1, CompiledOK DEF Misses
  <2>3. /\ Running' /\ ChainBounded'
        /\ run' \in Slots /\ via' = "canonical" /\ entryPc' \in PCs
        /\ budget' \in Nat /\ transitions' = 0 /\ retired' = 0 /\ exact' = 0
        /\ reported' = 0 /\ last' = <<>> /\ status' = "ok"
    BY <2>1, <2>2, DispatchOK
  <2>4. prot' \in [Pages -> {"RW", "RX"}]
    BY <1>1 DEF Protect
  <2>5. TypeOK'
    BY <1>1, <2>2, <2>3, <2>4 DEF TypeOK, StaticOK, TableOK
  <2>6. Stopped'
    BY DEF IInv, Stopped, Misses, InDispatcher
  <2>7. QED
    BY <2>2, <2>3, <2>5, <2>6 DEF IInv, StaticOK
<1>8. CASE StepUntranslated
  <2>1. StaticOK'
    BY <1>1, <1>8, StaticKept DEF StepUntranslated, cacheVars, protVars
  <2>2. QED
    BY <1>1, <1>8, <2>1, FailedStepOK
       DEF StepUntranslated, cacheVars, protVars, IInv, TypeOK
<1>9. QED
  BY <1>2, <1>3, <1>4, <1>5, <1>6, <1>7, <1>8

\* A block faults at one of its own instructions.
LEMMA FaultInside ==
  ASSUME NEW pc \in PCs, NEW k \in Blocks[pc].faults
  PROVE  k \in Nat /\ pc \in Nat /\ k < Blocks[pc].insns
<1>1. k \in 0 .. Blocks[pc].insns-1
  BY ProgramAssumption
<1>2. Blocks[pc].insns \in Nat /\ pc \in Nat
  BY ProgramFacts
<1>3. QED
  BY <1>1, <1>2

\* What is known of the executing block.
LEMMA RunningBlock ==
  ASSUME IInv, run # NoSlot
  PROVE  /\ run \in Slots /\ table[run].used /\ table[run].pc \in PCs
         /\ table[run].patch \in {run, NoSlot}
         /\ Blocks[table[run].pc].insns \in Nat \ {0}
         /\ Exits(table[run].pc) \subseteq ExitIds
         /\ \A i \in Exits(table[run].pc) : Target(table[run].pc, i) \in PCs
         /\ budget \in Nat \ {0} /\ transitions \in Nat
         /\ budget + transitions <= Bound /\ exact = retired
<1>1. run \in Slots /\ table[run].used /\ budget >= 1
  BY DEF IInv, TypeOK, Running
<1>2. table[run].pc \in PCs /\ table[run].patch \in {run, NoSlot}
  BY <1>1 DEF IInv, TableOK, EntryOK
<1>3. QED
  BY <1>1, <1>2, ProgramFacts DEF IInv, TypeOK, Running

\* Generated code that is back in the dispatcher.
LEMMA ReturnOK ==
  ASSUME IInv, run # NoSlot, NEW pc \in Nat, Return(pc),
         last' = <<>> \/ last' \in Slots \X ExitIds,
         budget' \in Nat, transitions' \in Nat, retired' \in Nat, exact' \in Nat,
         reported' \in Nat, status' \in {"ok", "vm"}, transitions' < Bound
  PROVE  IInv'
<1> USE DEF Return, cacheVars, protVars
<1>1. StaticOK'
  BY StaticKept DEF IInv, StaticOK
<1>2. TypeOK'
  BY DEF IInv, TypeOK
<1>3. Running' /\ ChainBounded' /\ Stopped'
  BY DEF IInv, Running, ChainBounded, Stopped, Bound
<1>4. QED
  BY <1>1, <1>2, <1>3 DEF IInv, StaticOK

\* The exits of a block and a fault in it.
LEMMA CodePreserves ==
  ASSUME IInv, \/ ExitDynamic \/ Fault
               \/ \E i \in ExitIds : ExitSafepoint(i) \/ ExitUnlinked(i) \/ ExitLinked(i)
  PROVE  IInv'
<1>1. run # NoSlot
  BY DEF ExitDynamic, Fault, ExitSafepoint, ExitUnlinked, ExitLinked, ChainExit
<1>2. /\ run \in Slots /\ table[run].used /\ table[run].pc \in PCs
      /\ table[run].patch \in {run, NoSlot}
      /\ Blocks[table[run].pc].insns \in Nat \ {0}
      /\ Exits(table[run].pc) \subseteq ExitIds
      /\ \A i \in Exits(table[run].pc) : Target(table[run].pc, i) \in PCs
      /\ budget \in Nat \ {0} /\ transitions \in Nat
      /\ budget + transitions <= Bound /\ exact = retired
  BY <1>1, RunningBlock
<1>3. retired \in Nat /\ PCs \subseteq Nat /\ entryPc \in Nat
  BY ProgramAssumption DEF IInv, TypeOK
<1>4. CASE ExitDynamic
  <2> USE <1>4 DEF ExitDynamic, RetireBlock, ReturnRetired
  <2>1. PICK pc \in PCs : Return(pc)
    OBVIOUS
  <2>2. retired' \in Nat /\ exact' \in Nat /\ reported' \in Nat
    BY <1>2, <1>3
  <2>3. transitions' < Bound
    BY <1>2, BoundPositive
  <2>4. QED
    BY <1>1, <1>2, <1>3, <2>1, <2>2, <2>3, ReturnOK
<1>5. CASE Fault
  <2> USE <1>5 DEF Fault
  <2>1. PICK k \in Blocks[table[run].pc].faults :
          /\ Return(table[run].pc + k) /\ exact' = exact + k
          /\ reported' = retired + Intra(table[run].pc + k)
    OBVIOUS
  <2>2. k \in Nat
    <3> HIDE <1>5
    <3>1. QED
      BY <1>2, <2>1, FaultInside
  <2> DEFINE pc == table[run].pc + k
  <2>3. pc \in Nat /\ exact' \in Nat
    <3>1. table[run].pc \in Nat /\ exact \in Nat
      BY <1>2, <1>3
    <3> HIDE <1>5
    <3>2. QED
      BY <2>1, <2>2, <3>1
  <2>4. Intra(pc) \in Nat
    BY <1>3, <2>3 DEF Intra
  <2>5. reported' \in Nat /\ Return(pc)
    BY <1>3, <2>1, <2>4
  <2>6. transitions' < Bound
    BY <1>2, BoundPositive
  <2> HIDE DEF pc
  <2>7. QED
    BY <1>1, <1>2, <1>3, <2>3, <2>5, <2>6, ReturnOK DEF IInv, TypeOK
<1>6. ASSUME NEW i \in ExitIds, ChainExit(i)
      PROVE  /\ i \in Exits(table[run].pc)
             /\ retired' \in Nat \ {0} /\ exact' = retired' /\ budget' \in Nat
             /\ budget' + 1 + transitions <= Bound
  BY <1>2, <1>3, <1>6, BoundPositive DEF ChainExit, RetireBlock
<1>7. ASSUME NEW i \in ExitIds, ExitSafepoint(i) PROVE IInv'
  <2> USE <1>7 DEF ExitSafepoint, ReturnRetired
  <2>1. transitions' < Bound
    BY <1>2, <1>6, BoundPositive
  <2>2. Target(table[run].pc, i) \in Nat
    BY <1>2, <1>3, <1>6
  <2>3. QED
    BY <1>1, <1>2, <1>6, <2>1, <2>2, ReturnOK
<1>8. ASSUME NEW i \in ExitIds, ExitUnlinked(i) PROVE IInv'
  <2> USE <1>8 DEF ExitUnlinked, ReturnRetired
  <2>1. transitions' < Bound /\ transitions' \in Nat
    BY <1>2, <1>6, BoundPositive
  <2>2. Target(table[run].pc, i) \in Nat
    BY <1>2, <1>3, <1>6
  <2>3. last' = <<>> \/ last' \in Slots \X ExitIds
    BY <1>2
  <2>4. QED
    BY <1>1, <1>2, <1>6, <2>1, <2>2, <2>3, ReturnOK
<1>9. ASSUME NEW i \in ExitIds, ExitLinked(i) PROVE IInv'
  <2> USE <1>9 DEF ExitLinked, cacheVars, protVars
  <2>1. StaticOK'
    BY StaticKept DEF IInv, StaticOK
  <2>2. PICK t \in Slots : table[t].used /\ run' = t
    OBVIOUS
  <2>3. budget' >= 1 /\ transitions' \in Nat \ {0} /\ budget' + transitions' <= Bound
    BY <1>2, <1>6, BoundPositive
  <2>4. via' \in {"null", "canonical", "chain", "stub", "reconcile"}
    <3>1. table[run].patch = run
      BY <1>2
    <3>2. SlotOf(i) \in LinkSlot
      BY <1>2, <3>1 DEF SlotOf, IInv, TypeOK, CacheEntry
    <3>3. Destination(i) \in CodeAddress
      BY <3>2 DEF Destination, LinkSlot
    <3>4. QED
      BY <3>3 DEF CodeAddress
  <2>5. TypeOK'
    BY <1>6, <2>2, <2>3, <2>4 DEF IInv, TypeOK
  <2>6. Running' /\ ChainBounded'
    BY <1>6, <2>2, <2>3, BoundPositive DEF Running, ChainBounded, Bound
  <2>7. Stopped'
    BY <1>1 DEF IInv, Stopped
  <2>8. QED
    BY <2>1, <2>5, <2>6, <2>7 DEF IInv, StaticOK
<1>10. QED
  BY <1>4, <1>5, <1>7, <1>8, <1>9

\* A reset to another generation leaves nothing of the old one.
LEMMA ResetOK ==
  ASSUME IInv, NEW gen \in 1 .. MaxGeneration, ResetDone(gen)
  PROVE  IInv'
<1> USE DEF ResetDone, stepVars
<1>1. gen \in 0 .. MaxGeneration
  BY RunAssumption
<1>2. /\ TableOK(table', cursor', generation') /\ LinksIn(table')
      /\ \A s \in Slots : ~table'[s].used
  BY <1>1, EmptyOK
<1>3. prot' \in [Pages -> {"RW", "RX"}]
  BY DEF IInv, TypeOK, AllRW
<1>4. TypeOK'
  BY <1>2, <1>3 DEF IInv, TypeOK, TableOK
<1>5. PagesSealed'
  BY <1>2 DEF PagesSealed, Used
<1>6. Running' /\ ChainBounded' /\ Stopped'
  BY DEF IInv, Running, ChainBounded, Stopped
<1>7. QED
  BY <1>2, <1>4, <1>5, <1>6 DEF IInv

\* The other calls of the engine's owner.
LEMMA OwnerPreserves ==
  ASSUME IInv, \/ ResetUnwritable \/ ResetRefused
               \/ \E b \in BOOLEAN : SetChaining(b)
               \/ \E pc \in PCs : SetEip(pc)
  PROVE  IInv'
<1> USE DEF cacheVars, protVars, stepVars
<1>1. StaticOK
  BY DEF IInv, StaticOK
<1>2. CASE ResetUnwritable
  <2> USE <1>2 DEF ResetUnwritable
  <2>1. StaticOK'
    BY <1>1, StaticKept
  <2>2. QED
    BY <2>1 DEF IInv, StaticOK, TypeOK, Running, ChainBounded, Stopped
<1>3. CASE ResetRefused
  <2> USE <1>3 DEF ResetRefused
  <2>1. /\ prot' \in [Pages -> {"RW", "RX"}] /\ sealed' \in BOOLEAN /\ failed' \in BOOLEAN
        /\ \/ failed'
           \/ ~failed /\ \A p \in Pages : prot[p] = "RX" => prot'[p] = "RX"
           \/ \A p \in Pages : prot'[p] = "RX"
    <3>1. CASE sealed
      BY <3>1 DEF IInv, TypeOK, AllRW
    <3>2. CASE ~sealed /\ failed
      BY <3>2 DEF IInv, TypeOK, AllRW
    <3>3. CASE ~sealed /\ ~failed
      BY <3>3 DEF IInv, TypeOK
    <3>4. sealed \in BOOLEAN /\ failed \in BOOLEAN
      BY DEF IInv, TypeOK
    <3>5. QED
      BY <3>1, <3>2, <3>3, <3>4
  <2>2. failed => failed' \/ \A p \in Pages : prot'[p] = "RX"
    BY <2>1
  <2>3. PagesSealed'
    <3>1. Used' = Used /\ \A s \in Used : PagesOf(s)' = PagesOf(s)
      BY DEF Used, PagesOf, EndOf
    <3>2. \A s \in Used : PagesOf(s) \subseteq Pages
      BY DEF PagesOf
    <3>3. QED
      BY <1>1, <2>1, <3>1, <3>2 DEF StaticOK, PagesSealed
  <2>4. failed' \/ LinksIn(table')
    <3>1. failed => failed'
      BY DEF IInv, TypeOK
    <3>2. QED
      BY <1>1, <3>1 DEF StaticOK
  <2>5. TypeOK'
    BY <2>1 DEF IInv, TypeOK
  <2>6. Running' /\ ChainBounded' /\ Stopped'
    BY DEF IInv, Running, ChainBounded, Stopped
  <2>7. QED
    BY <1>1, <2>3, <2>4, <2>5, <2>6 DEF IInv, StaticOK
<1>4. ASSUME NEW b \in BOOLEAN, SetChaining(b) PROVE IInv'
  <2> USE <1>4 DEF SetChaining
  <2>1. StaticOK'
    BY <1>1, StaticKept
  <2>2. QED
    BY <2>1 DEF IInv, StaticOK, TypeOK, Running, ChainBounded, Stopped
<1>5. ASSUME NEW pc \in PCs, SetEip(pc) PROVE IInv'
  <2> USE <1>5 DEF SetEip
  <2>1. StaticOK'
    BY <1>1, StaticKept
  <2>2. eip' \in Nat
    BY ProgramAssumption
  <2>3. QED
    BY <2>1, <2>2 DEF IInv, StaticOK, TypeOK, Running, ChainBounded, Stopped
<1>6. QED
  BY <1>2, <1>3, <1>4, <1>5

LEMMA NextInv == IInv /\ [Next]_vars => IInv'
<1> SUFFICES ASSUME IInv, [Next]_vars PROVE IInv'
  OBVIOUS
<1>1. CASE Next
  BY <1>1, StepPreserves, CodePreserves, ResetOK, OwnerPreserves DEF Next
<1>2. CASE UNCHANGED vars
  <2> USE <1>2 DEF vars, cacheVars, protVars, stepVars
  <2>1. StaticOK'
    BY StaticKept DEF IInv, StaticOK
  <2>2. QED
    BY <2>1 DEF IInv, StaticOK, TypeOK, Running, ChainBounded, Stopped
<1>3. QED
  BY <1>1, <1>2

-----------------------------------------------------------------------------
(* Theorems *)

\* The invariant holds in every reachable state.
THEOREM Invariance == Spec => []IInv
BY InitInv, NextInv, PTL DEF Spec

\* Every variable keeps its type.
THEOREM TypeCorrect == Spec => []TypeOK
<1>1. IInv => TypeOK
  BY DEF IInv
<1>2. QED
  BY <1>1, Invariance, PTL

\* Published blocks can be found, once each, and their code is disjoint.
THEOREM CacheAlwaysSound == Spec => []CacheSound
<1>1. IInv => CacheSound
  <2> SUFFICES ASSUME IInv PROVE CacheSound
    OBVIOUS
  <2>1. ASSUME NEW s \in Used
        PROVE  Lookup(table, generation, table[s].pc) = {s} /\ EndOf(s) <= cursor
    <3>1. TableOK(table, cursor, generation) /\ s \in Slots /\ table[s].used
      BY DEF IInv, Used
    <3>2. table[s].pc \in PCs /\ EndIn(table, s) <= cursor
      BY <3>1 DEF TableOK, EntryOK
    <3>3. Lookup(table, generation, table[s].pc) = {s}
      BY <3>1, <3>2, FoundOnce
    <3>4. QED
      BY <3>2, <3>3 DEF EndOf, EndIn
  <2>2. ASSUME NEW s \in Used, NEW t \in Used, s # t
        PROVE  EndOf(s) <= table[t].off \/ EndOf(t) <= table[s].off
    BY <2>2 DEF IInv, Used, TableOK, Apart, EndOf, EndIn
  <2>3. QED
    BY <2>1, <2>2 DEF CacheSound
<1>2. QED
  BY <1>1, Invariance, PTL

\* No link slot of a published block is stale, blank or names another PC.
THEOREM LinksAlwaysSound == Spec => []LinkSound
<1>1. IInv => LinkSound
  <2> SUFFICES ASSUME IInv, ~failed, NEW s \in Used, NEW i \in Exits(table[s].pc)
               PROVE  LinkOK(s, i)
    BY DEF LinkSound
  <2>1. LinkVal(table, s, i, table[s].link[i])
    BY DEF IInv, LinksIn, Used
  <2>2. QED
    BY <2>1 DEF LinkVal, LinkOK, Used
<1>2. QED
  BY <1>1, Invariance, PTL

\* A chain of linked blocks is back in the dispatcher within the quantum.
THEOREM ChainsAlwaysBounded == Spec => []ChainBounded
<1>1. IInv => ChainBounded
  BY DEF IInv
<1>2. QED
  BY <1>1, Invariance, PTL

\* With a caller that stops after an error, generated code runs only from
\* sealed pages of a live engine.
THEOREM AlwaysRunsSealed == ASSUME CallerRetries = FALSE PROVE Spec => []RunsSealed
<1>1. IInv => RunsSealed
  <2> SUFFICES ASSUME IInv, run # NoSlot
               PROVE  /\ table[run].used /\ ~failed
                      /\ \A p \in PagesOf(run) : prot[p] = "RX"
                      /\ table[run].patch \in {run, NoSlot}
    BY DEF RunsSealed
  <2>1. run \in Used /\ table[run].patch \in {run, NoSlot}
    BY RunningBlock DEF Used
  <2>2. ~failed
    BY DEF IInv, Stopped
  <2>3. QED
    BY <2>1, <2>2 DEF IInv, PagesSealed, Used
<1>2. QED
  BY <1>1, Invariance, PTL

RetiredStep ==
  run # NoSlot /\ run' = NoSlot /\ (status' = "ok" \/ transitions = 0)
  => reported' = exact'

\* The reported count is exact but for faults behind a link.
THEOREM RetiredAlwaysExact == Spec => RetiredExact
<1>1. ASSUME IInv, Next PROVE RetiredStep
  <2> SUFFICES ASSUME run # NoSlot, run' = NoSlot, status' = "ok" \/ transitions = 0
               PROVE  reported' = exact'
    BY DEF RetiredStep
  <2>1. /\ run \in Slots /\ table[run].pc \in PCs /\ exact = retired
        /\ Blocks[table[run].pc].insns \in Nat \ {0}
    BY <1>1, RunningBlock
  <2>2. CASE ExitDynamic
    BY <2>1, <2>2 DEF ExitDynamic, RetireBlock, ReturnRetired
  <2>3. CASE Fault
    <3>1. PICK k \in Blocks[table[run].pc].faults :
            /\ exact' = exact + k
            /\ reported' = retired + Intra(table[run].pc + k)
            /\ status' = "vm"
      BY <2>3 DEF Fault
    <3>2. entryPc = table[run].pc
      BY <1>1, <3>1 DEF IInv, Running
    <3>3. k \in Nat /\ k <= Blocks[entryPc].insns /\ entryPc \in Nat
      BY <2>1, <3>2, FaultInside
    <3>4. Intra(table[run].pc + k) = k
      BY <2>1, <3>2, <3>3 DEF Intra
    <3>5. QED
      BY <2>1, <3>1, <3>4
  <2>4. ASSUME NEW i \in ExitIds, ExitSafepoint(i) \/ ExitUnlinked(i)
        PROVE  reported' = exact'
    BY <2>1, <2>4 DEF ExitSafepoint, ExitUnlinked, ChainExit, RetireBlock, ReturnRetired
  <2>5. ASSUME NEW i \in ExitIds, ExitLinked(i) PROVE FALSE
    <3>1. run' \in Slots
      BY <2>5 DEF ExitLinked
    <3>2. QED
      BY <3>1, CacheAssumption DEF Slots, NoSlot
  <2>6. QED
    BY <1>1, <2>2, <2>3, <2>4, <2>5
       DEF Next, StepHit, StepUntranslated, StepNoRoom, StepUnwritable, StepTableFull,
           StepSealFails, StepCompiles, Misses, InDispatcher, ResetDone, ResetUnwritable,
           ResetRefused, SetChaining, SetEip
<1>2. IInv /\ [Next]_vars => [RetiredStep]_vars
  BY <1>1
<1>3. QED
  BY <1>2, Invariance, PTL DEF Spec, RetiredExact, RetiredStep

FollowStep ==
  run # NoSlot =>
    LET pc == table[run].pc
        targets == {Target(pc, i) : i \in Exits(pc)}
    IN  IF run' # NoSlot
        THEN /\ table[run'].pc \in targets
             /\ via' = "chain" => ContractsMatch(pc, table[run'].pc)
        ELSE \/ eip' \in targets
             \/ targets = {}
             \/ status' = "vm" /\ eip' - pc \in Blocks[pc].faults

\* With a caller that stops after an error, control only follows the guest's
\* own exits, and loads are skipped only under an equal register contract.
THEOREM AlwaysFollowsGuest ==
  ASSUME CallerRetries = FALSE PROVE Spec => FollowsGuest
<1>1. ASSUME IInv, Next PROVE FollowStep
  <2> DEFINE pc == table[run].pc
             targets == {Target(pc, i) : i \in Exits(pc)}
  <2> SUFFICES ASSUME run # NoSlot
               PROVE  IF run' # NoSlot
                      THEN /\ table[run'].pc \in targets
                           /\ via' = "chain" => ContractsMatch(pc, table[run'].pc)
                      ELSE \/ eip' \in targets
                           \/ targets = {}
                           \/ status' = "vm" /\ eip' - pc \in Blocks[pc].faults
    BY DEF FollowStep
  <2>1. /\ run \in Slots /\ table[run].used /\ pc \in PCs
        /\ table[run].patch \in {run, NoSlot} /\ ~failed
    BY <1>1, RunningBlock DEF IInv, Stopped
  <2>2. CASE ExitDynamic
    BY <2>2 DEF ExitDynamic, Return
  <2>3. CASE Fault
    <3>1. PICK k \in Blocks[pc].faults : Return(pc + k) /\ status' = "vm"
      BY <2>3 DEF Fault
    <3>2. k \in Nat /\ pc \in Nat
      BY <2>1, FaultInside
    <3>3. eip' - pc = k /\ run' = NoSlot
      BY <3>1, <3>2 DEF Return
    <3>4. QED
      BY <3>1, <3>3
  <2>4. ASSUME NEW i \in ExitIds, ExitSafepoint(i) \/ ExitUnlinked(i)
        PROVE  eip' \in targets /\ run' = NoSlot
    BY <2>4 DEF ExitSafepoint, ExitUnlinked, ChainExit, Return
  <2>5. ASSUME NEW i \in ExitIds, ExitLinked(i)
        PROVE  /\ run' # NoSlot /\ table[run'].pc \in targets
               /\ via' = "chain" => ContractsMatch(pc, table[run'].pc)
    <3> DEFINE l == table[run].link[i]
    <3>1. /\ table[run].patch = run /\ i \in Exits(pc)
          /\ SlotOf(i).code.at \notin {"stub", "null"} /\ via' = Destination(i).at
      BY <2>1, <2>5 DEF ExitLinked, ChainExit
    <3>2. PICK t \in Slots : table[t].used /\ table[t].off = Destination(i).off /\ run' = t
      BY <2>5 DEF ExitLinked
    <3>3. SlotOf(i) = l
      BY <3>1 DEF SlotOf
    <3>4. LinkVal(table, run, i, l)
      BY <1>1, <2>1, <3>1 DEF IInv, LinksIn
    <3>5. l.linked
      BY <3>1, <3>3, <3>4 DEF LinkVal, Code
    <3>6. PICK u \in Slots :
            /\ table[u].used /\ table[u].pc = l.target
            /\ \/ /\ l.code.at = "chain" /\ table[u].off = l.code.off
                  /\ ContractsMatch(pc, l.target)
               \/ /\ l.code.at = "reconcile" /\ l.canonical.at = "canonical"
                  /\ table[u].off = l.canonical.off
      <4>1. CASE l.code = Code(table[run].off, "reconcile", i)
        BY <3>4, <3>5, <4>1 DEF LinkVal, Code
      <4>2. CASE l.code # Code(table[run].off, "reconcile", i)
        BY <3>4, <3>5, <4>2 DEF LinkVal
      <4>3. QED
        BY <4>1, <4>2
    <3>7. table[t].off = table[u].off /\ (via' = "chain" => ContractsMatch(pc, l.target))
      BY <3>1, <3>2, <3>3, <3>6 DEF Destination
    <3>8. t = u
      <4>1. /\ Blocks[table[t].pc].bytes \in Nat \ {0}
            /\ Blocks[table[u].pc].bytes \in Nat \ {0}
        BY <1>1, <3>2, <3>6, ProgramFacts DEF IInv, TableOK, EntryOK
      <4>2. table[t].off \in Nat
        BY <1>1, ArenaAssumption DEF IInv, TypeOK, CacheEntry
      <4>3. QED
        BY <1>1, <3>2, <3>6, <3>7, <4>1, <4>2 DEF IInv, TableOK, Apart, EndIn
    <3>9. l.target \in targets
      BY <3>1, <3>4 DEF LinkVal
    <3>10. t # NoSlot
      BY CacheAssumption DEF Slots, NoSlot
    <3>11. QED
      BY <3>2, <3>6, <3>7, <3>8, <3>9, <3>10
  <2> HIDE DEF pc, targets
  <2>6. QED
    BY <1>1, <2>2, <2>3, <2>4, <2>5
       DEF Next, StepHit, StepUntranslated, StepNoRoom, StepUnwritable, StepTableFull,
           StepSealFails, StepCompiles, Misses, InDispatcher, ResetDone, ResetUnwritable,
           ResetRefused, SetChaining, SetEip
<1>2. IInv /\ [Next]_vars => [FollowStep]_vars
  BY <1>1
<1>3. QED
  BY <1>2, Invariance, PTL DEF Spec, FollowsGuest, FollowStep
=============================================================================
