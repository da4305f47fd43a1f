----------------------------- MODULE X86Engine -----------------------------
(***************************************************************************)
(* The translation engine of projects/prospero-win: the open-addressed     *)
(* block cache (src/pw_x86_cache.c), the executable arena with its W^X      *)
(* pages and the RW link slots (src/pw_x86_engine.c), and the exits of a    *)
(* translated block (emit_chain_exit of src/pw_x86_block.c), which follow   *)
(* those slots from block to block until the budget of the step is spent.   *)
(*                                                                          *)
(* A guest program is the constant Blocks: what translating at each guest   *)
(* PC yields.  Instructions take one address each, so the block at pc       *)
(* covers pc .. pc+insns-1 and blocks may overlap, as loop heads do.        *)
(***************************************************************************)
EXTENDS Integers, Sequences

CONSTANTS PCs,            \* guest addresses with translatable source
          Blocks,         \* pc -> [insns, bytes, exits, contract, faults]
          Capacity,       \* cache entries
          FirstSlot,      \* pc -> slot its hash selects
          ArenaBytes, PageBytes, Align,
          Quantum,        \* engine->quantum
          MaxGeneration,  \* bound on generation numbers
          CallerRetries   \* whether a caller steps again after an error

Slots == 0 .. Capacity-1
NoSlot == -1
Pages == 0 .. (ArenaBytes \div PageBytes) - 1
ExitIds == {1, 2}         \* taken or direct exit, fall-through exit

ASSUME ProgramAssumption ==
  /\ PCs \subseteq Nat \ {0}
  /\ \A pc \in PCs : /\ Blocks[pc].insns \in Nat \ {0}
                     /\ Blocks[pc].bytes \in Nat \ {0}
                     /\ Blocks[pc].exits \in Seq(PCs)
                     /\ Len(Blocks[pc].exits) <= 2
                     /\ Blocks[pc].faults \subseteq 0 .. Blocks[pc].insns-1
ASSUME CacheAssumption ==
  /\ Capacity \in Nat \ {0}
  /\ FirstSlot \in [PCs -> Slots]
ASSUME ArenaAssumption ==
  /\ ArenaBytes \in Nat \ {0} /\ PageBytes \in Nat \ {0} /\ Align \in Nat \ {0}
  /\ ArenaBytes % PageBytes = 0
ASSUME RunAssumption ==
  Quantum \in Nat /\ MaxGeneration \in Nat \ {0} /\ CallerRetries \in BOOLEAN

VARIABLES
  table,       \* cache.entries, each with its two link slots
  cursor,      \* cache.cursor
  generation,  \* cache.generation
  prot,        \* protection of each arena page
  sealed, failed, chaining,
  eip, last,   \* guest state: program counter and last_exit_slot
  run,         \* slot of the executing block, NoSlot in the dispatcher
  via,         \* entry point the executing block was entered by
  entryPc,     \* guest_pc of the block the step dispatched
  budget, transitions, retired,  \* chain_budget, step_transitions, step_retired
  exact,       \* instructions the guest really retired in this step
  reported,    \* report.retired of the last step
  status       \* what the last step or reset returned

cacheVars == <<table, cursor, generation>>
protVars  == <<prot, sealed, failed>>
stepVars  == <<via, entryPc, budget, transitions, retired, exact, reported>>
vars == <<cacheVars, protVars, chaining, eip, last, run, stepVars, status>>

-----------------------------------------------------------------------------
(* Addresses in emitted code, link slots and cache entries *)

Code(off, at, i) == [off |-> off, at |-> at, exit |-> i]
NullCode == Code(0, "null", 0)
ZeroLink == [target |-> 0, source |-> 0, code |-> NullCode,
             canonical |-> NullCode, linked |-> FALSE]
ZeroEntry == [used |-> FALSE, pc |-> 0, gen |-> 0, off |-> 0,
              patch |-> NoSlot, link |-> [i \in ExitIds |-> ZeroLink]]

CodeAddress == [off : 0 .. ArenaBytes, exit : 0 .. 2,
                at : {"null", "canonical", "chain", "stub", "reconcile"}]
LinkSlot == [target : PCs \cup {0}, source : PCs \cup {0}, code : CodeAddress,
             canonical : CodeAddress, linked : BOOLEAN]
CacheEntry == [used : BOOLEAN, pc : PCs \cup {0}, gen : 0 .. MaxGeneration,
               off : 0 .. ArenaBytes, patch : Slots \cup {NoSlot},
               link : [ExitIds -> LinkSlot]]

Exits(pc) == DOMAIN Blocks[pc].exits
Target(pc, i) == IF i \in Exits(pc) THEN Blocks[pc].exits[i] ELSE 0
ContractsMatch(a, b) == Blocks[a].contract = Blocks[b].contract

-----------------------------------------------------------------------------
(* pw_x86_cache: open addressing from first_slot, ending at an unused entry *)

Probe(pc, k) == (FirstSlot[pc] + k) % Capacity
Hit(tab, gen, pc, s) == tab[s].used /\ tab[s].gen = gen /\ tab[s].pc = pc
Reaches(tab, gen, pc, s) ==
  \E k \in 0 .. Capacity-1 :
    /\ s = Probe(pc, k)
    /\ \A j \in 0 .. k-1 : /\ tab[Probe(pc, j)].used
                           /\ ~Hit(tab, gen, pc, Probe(pc, j))
Lookup(tab, gen, pc) ==
  {s \in Slots : Hit(tab, gen, pc, s) /\ Reaches(tab, gen, pc, s)}
\* Seeded bug: publish into any unused entry, off the probe chain.
VacantAnywhere(tab, gen, pc) == {s \in Slots : ~tab[s].used}

Vacant(tab, gen, pc) ==
  {s \in Slots : ~tab[s].used /\ Reaches(tab, gen, pc, s)}

RoundUp(n) == ((n + Align - 1) \div Align) * Align
NextCursor(end) == IF RoundUp(end) > ArenaBytes THEN ArenaBytes ELSE RoundUp(end)

\* The slot whose address compile writes into the block's exits.
PatchedSlot(tab, pc) ==
  IF chaining /\ Exits(pc) # {}
  THEN CHOOSE s \in Vacant(tab, generation, pc) : TRUE
  ELSE NoSlot

Publish(tab, pc, s) ==
  [tab EXCEPT ![s] =
     [used |-> TRUE, pc |-> pc, gen |-> generation, off |-> cursor,
      patch |-> PatchedSlot(tab, pc),
      link |-> [i \in ExitIds |-> [ZeroLink EXCEPT !.target = Target(pc, i),
                                                   !.source = pc]]]]

-----------------------------------------------------------------------------
(* Linking *)

\* Seeded bug: link to the chain entry whatever registers the blocks keep.
LinkToChainEntry(e, i, tgt) ==
  [e.link[i] EXCEPT !.code = Code(tgt.off, "chain", 0),
                    !.canonical = Code(tgt.off, "canonical", 0),
                    !.linked = TRUE]

\* Link exit i of entry e to the block at tgt: its chain entry when the
\* register contracts agree, the exit's reconcile stub when they do not.
LinkTo(e, i, tgt) ==
  [e.link[i] EXCEPT
     !.code = IF ContractsMatch(e.pc, tgt.pc) THEN Code(tgt.off, "chain", 0)
                                              ELSE Code(e.off, "reconcile", i),
     !.canonical = Code(tgt.off, "canonical", 0),
     !.linked = TRUE]

StubLink(e, i) == [e.link[i] EXCEPT !.code = Code(e.off, "stub", i)]

\* Stubs of the new entry and its forward links to targets already cached.
ForwardLink(tab, e, i) ==
  LET found == Lookup(tab, generation, Target(e.pc, i))
  IN  IF i \notin Exits(e.pc) THEN e.link[i]
      ELSE IF chaining /\ found # {} THEN LinkTo(e, i, tab[CHOOSE t \in found : TRUE])
      ELSE StubLink(e, i)

\* Seeded bug: relink every unlinked exit, whatever its target.
BackwardLinkAny(e, i, new) ==
  IF chaining /\ e.used /\ i \in Exits(e.pc) /\ ~e.link[i].linked
  THEN LinkTo(e, i, new)
  ELSE e.link[i]

\* Existing unlinked exits that target the new entry.
BackwardLink(e, i, new) ==
  IF /\ chaining /\ e.used /\ i \in Exits(e.pc)
     /\ e.link[i].target = new.pc /\ ~e.link[i].linked
  THEN LinkTo(e, i, new)
  ELSE e.link[i]

LinkAll(tab, s) ==
  [t \in Slots |->
     [tab[t] EXCEPT !.link =
        [i \in ExitIds |-> IF t = s THEN ForwardLink(tab, tab[s], i)
                                    ELSE BackwardLink(tab[t], i, tab[s])]]]

\* The link a step first makes for the slot its predecessor left through:
\* straight to the canonical entry when the slot's source is cached no more.
LinkLast(e, i, tgt) ==
  IF Lookup(table, generation, e.link[i].source) # {}
  THEN LinkTo(e, i, tgt)
  ELSE [e.link[i] EXCEPT !.code = Code(tgt.off, "canonical", 0),
                         !.canonical = Code(tgt.off, "canonical", 0),
                         !.linked = TRUE]

ResolvesLast(s, i) == LET l == table[s].link[i]
                      IN  chaining /\ l.target = eip /\ ~l.linked

Resolved ==
  LET found == Lookup(table, generation, eip)
  IN  [s \in Slots |->
         [table[s] EXCEPT !.link =
            [i \in ExitIds |->
               IF last = <<s, i>> /\ found # {} /\ ResolvesLast(s, i)
               THEN LinkLast(table[s], i, table[CHOOSE t \in found : TRUE])
               ELSE table[s].link[i]]]]

-----------------------------------------------------------------------------
(* pw_x86_engine_step up to the call of generated code *)

\* Seeded bug: a block that crosses a page boundary unseals only its first page.
TouchedFirst(pc) == {p \in Pages : p = cursor \div PageBytes}
Touched(pc) == {p \in Pages : /\ p >= cursor \div PageBytes
                              /\ p * PageBytes < cursor + Blocks[pc].bytes}
Protect(pages, value) == [p \in Pages |-> IF p \in pages THEN value ELSE prot[p]]

InDispatcher == run = NoSlot /\ (status = "ok" \/ CallerRetries)

Dispatch(tab, s) ==
  /\ run' = s /\ via' = "canonical" /\ entryPc' = tab[s].pc
  /\ budget' = IF chaining /\ Quantum > 0 THEN Quantum ELSE 1
  /\ transitions' = 0 /\ retired' = 0 /\ exact' = 0 /\ reported' = 0
  /\ last' = <<>>
  /\ status' = "ok"

StepFails(code) ==
  /\ reported' = 0 /\ exact' = 0 /\ status' = code
  /\ UNCHANGED <<run, via, entryPc, budget, transitions, retired, last>>

StepHit ==
  /\ InDispatcher
  /\ \E s \in Lookup(Resolved, generation, eip) :
       /\ table' = Resolved
       /\ Dispatch(Resolved, s)
  /\ UNCHANGED <<cursor, generation, protVars, chaining, eip>>

Misses == /\ InDispatcher /\ eip \in PCs
          /\ Lookup(table, generation, eip) = {}
Fits == Blocks[eip].bytes <= ArenaBytes - cursor

\* No readable source at eip, or an instruction the translator refuses.
StepUntranslated ==
  /\ InDispatcher /\ Lookup(table, generation, eip) = {}
  /\ StepFails("not_found")
  /\ UNCHANGED <<cacheVars, protVars, chaining, eip>>

StepNoRoom ==
  /\ Misses /\ ~Fits
  /\ StepFails("limit")
  /\ UNCHANGED <<cacheVars, protVars, chaining, eip>>

StepUnwritable ==
  /\ Misses /\ Fits
  /\ StepFails("vm")
  /\ UNCHANGED <<cacheVars, protVars, chaining, eip>>

\* The code was copied before publishing was refused; the page is resealed.
StepTableFull ==
  /\ Misses /\ Fits /\ Vacant(table, generation, eip) = {}
  /\ \/ /\ prot' = Protect(Touched(eip), "RX")
        /\ sealed' = TRUE /\ UNCHANGED failed
     \/ /\ prot' = Protect(Touched(eip), "RW")
        /\ sealed' = FALSE /\ failed' = TRUE
  /\ StepFails("limit")
  /\ UNCHANGED <<cacheVars, chaining, eip>>

\* The entry is published before its page is sealed, and stays published.
StepSealFails ==
  /\ Misses /\ Fits
  /\ \E s \in Vacant(table, generation, eip) : table' = Publish(table, eip, s)
  /\ cursor' = NextCursor(cursor + Blocks[eip].bytes)
  /\ prot' = Protect(Touched(eip), "RW")
  /\ sealed' = FALSE /\ failed' = TRUE
  /\ StepFails("vm")
  /\ UNCHANGED <<generation, chaining, eip>>

StepCompiles ==
  /\ Misses /\ Fits
  /\ \E s \in Vacant(table, generation, eip) :
       LET tab == LinkAll(Publish(table, eip, s), s)
       IN  table' = tab /\ Dispatch(tab, s)
  /\ cursor' = NextCursor(cursor + Blocks[eip].bytes)
  /\ prot' = Protect(Touched(eip), "RX")
  /\ sealed' = TRUE
  /\ UNCHANGED <<generation, failed, chaining, eip>>

-----------------------------------------------------------------------------
(* Generated code: the exits of a block, and a fault inside it *)

Return(pc) == /\ run' = NoSlot /\ eip' = pc
              /\ UNCHANGED <<cacheVars, protVars, chaining, via, entryPc>>

RetireBlock == /\ retired' = retired + Blocks[table[run].pc].insns
               /\ exact' = exact + Blocks[table[run].pc].insns

ReturnRetired == reported' = retired' /\ status' = "ok"

ExitDynamic ==
  /\ run # NoSlot /\ Exits(table[run].pc) = {}
  /\ RetireBlock /\ ReturnRetired
  /\ \E pc \in PCs : Return(pc)
  /\ last' = <<>>
  /\ UNCHANGED <<budget, transitions>>

\* Seeded bug: the budget is not spent.
ChainExitFree(i) ==
  /\ run # NoSlot /\ i \in Exits(table[run].pc)
  /\ RetireBlock
  /\ budget' = budget

\* Every chain exit retires the block and spends one unit of budget.
ChainExit(i) ==
  /\ run # NoSlot /\ i \in Exits(table[run].pc)
  /\ RetireBlock
  /\ budget' = budget - 1

ExitSafepoint(i) ==
  /\ ChainExit(i) /\ budget' = 0
  /\ Return(Target(table[run].pc, i)) /\ ReturnRetired
  /\ last' = <<>>
  /\ UNCHANGED transitions

\* The link slot exit i was patched with; none when it was emitted unchained.
SlotOf(i) == table[table[run].patch].link[i]

ExitUnlinked(i) ==
  /\ ChainExit(i) /\ budget' # 0
  /\ transitions' = transitions + 1
  /\ \/ table[run].patch = NoSlot /\ last' = <<>>
     \/ /\ table[run].patch # NoSlot /\ SlotOf(i).code.at = "stub"
        /\ last' = <<table[run].patch, i>>
  /\ Return(Target(table[run].pc, i)) /\ ReturnRetired

\* The address the jump through the slot ends at: a chain entry, or through
\* the reconcile stub the canonical entry the slot names.
Destination(i) == IF SlotOf(i).code.at = "reconcile" THEN SlotOf(i).canonical
                                                     ELSE SlotOf(i).code

ExitLinked(i) ==
  /\ ChainExit(i) /\ budget' # 0
  /\ transitions' = transitions + 1
  /\ table[run].patch # NoSlot /\ SlotOf(i).code.at \notin {"stub", "null"}
  /\ \E t \in Slots : /\ table[t].used /\ table[t].off = Destination(i).off
                      /\ run' = t
  /\ via' = Destination(i).at
  /\ UNCHANGED <<cacheVars, protVars, chaining, eip, last, entryPc, reported, status>>

\* Seeded bugs: no range check; the faulting instruction counted as retired.
IntraUnchecked(pc) == pc - entryPc
IntraInclusive(pc) ==
  IF entryPc <= pc /\ pc <= entryPc + Blocks[entryPc].insns
  THEN pc - entryPc + 1 ELSE 0

\* The dispatcher's reckoning of the partly retired block, from the entry it
\* dispatched and the PC the fault left.
Intra(pc) ==
  IF entryPc <= pc /\ pc <= entryPc + Blocks[entryPc].insns
  THEN pc - entryPc ELSE 0

Fault ==
  /\ run # NoSlot
  /\ \E k \in Blocks[table[run].pc].faults :
       LET pc == table[run].pc + k
       IN  /\ Return(pc)
           /\ exact' = exact + k
           /\ reported' = retired + Intra(pc)
  /\ status' = "vm"
  /\ UNCHANGED <<last, budget, transitions, retired>>

-----------------------------------------------------------------------------
(* pw_x86_engine_reset and the calls the owner of the engine makes *)

MustUnseal == sealed \/ failed
AllRW == [p \in Pages |-> "RW"]

ResetDone(gen) ==
  /\ run = NoSlot /\ gen # generation
  /\ table' = [s \in Slots |-> ZeroEntry] /\ cursor' = 0 /\ generation' = gen
  /\ prot' = IF MustUnseal THEN AllRW ELSE prot
  /\ sealed' = FALSE /\ failed' = FALSE
  /\ status' = "ok"
  /\ UNCHANGED <<chaining, eip, last, run, stepVars>>

ResetUnwritable ==
  /\ run = NoSlot /\ MustUnseal
  /\ status' = "vm"
  /\ UNCHANGED <<cacheVars, protVars, chaining, eip, last, run, stepVars>>

\* A reset to the current generation is refused after the arena was unsealed.
ResetRefused ==
  /\ run = NoSlot
  /\ CASE sealed -> \/ /\ prot' = [p \in Pages |-> "RX"]
                       /\ sealed' = TRUE /\ UNCHANGED failed
                    \/ prot' = AllRW /\ sealed' = FALSE /\ failed' = TRUE
       [] ~sealed /\ failed -> prot' = AllRW /\ UNCHANGED <<sealed, failed>>
       [] OTHER -> UNCHANGED protVars
  /\ status' = "precondition"
  /\ UNCHANGED <<cacheVars, chaining, eip, last, run, stepVars>>

SetChaining(b) ==
  /\ run = NoSlot
  /\ chaining' = b
  /\ UNCHANGED <<cacheVars, protVars, eip, last, run, stepVars, status>>

\* The adapter or a callback moves the guest to another address.
SetEip(pc) ==
  /\ run = NoSlot
  /\ eip' = pc
  /\ UNCHANGED <<cacheVars, protVars, chaining, last, run, stepVars, status>>

-----------------------------------------------------------------------------
Init ==
  /\ table = [s \in Slots |-> ZeroEntry] /\ cursor = 0 /\ generation = 1
  /\ prot = AllRW /\ sealed = FALSE /\ failed = FALSE
  /\ chaining = FALSE
  /\ eip \in PCs /\ last = <<>>
  /\ run = NoSlot /\ via = "canonical" /\ entryPc = 0
  /\ budget = 0 /\ transitions = 0 /\ retired = 0 /\ exact = 0 /\ reported = 0
  /\ status = "ok"

Next ==
  \/ StepHit \/ StepUntranslated \/ StepNoRoom \/ StepUnwritable \/ StepTableFull
  \/ StepSealFails \/ StepCompiles
  \/ ExitDynamic \/ Fault
  \/ \E i \in ExitIds : ExitSafepoint(i) \/ ExitUnlinked(i) \/ ExitLinked(i)
  \/ ResetUnwritable \/ ResetRefused
  \/ \E g \in 1 .. MaxGeneration : ResetDone(g)
  \/ \E b \in BOOLEAN : SetChaining(b)
  \/ \E pc \in PCs : SetEip(pc)

Spec == Init /\ [][Next]_vars

-----------------------------------------------------------------------------
(* Properties *)

\* Every variable has the type its C declaration gives it.
TypeOK ==
  /\ table \in [Slots -> CacheEntry]
  /\ cursor \in 0 .. ArenaBytes
  /\ generation \in 1 .. MaxGeneration
  /\ prot \in [Pages -> {"RW", "RX"}]
  /\ sealed \in BOOLEAN /\ failed \in BOOLEAN /\ chaining \in BOOLEAN
  /\ eip \in Nat
  /\ last = <<>> \/ last \in Slots \X ExitIds
  /\ run \in Slots \cup {NoSlot}
  /\ via \in {"null", "canonical", "chain", "stub", "reconcile"}
  /\ entryPc \in PCs \cup {0}
  /\ budget \in Nat /\ transitions \in Nat /\ retired \in Nat
  /\ exact \in Nat /\ reported \in Nat
  /\ status \in {"ok", "not_found", "limit", "vm", "precondition"}

Used == {s \in Slots : table[s].used}
EndOf(s) == table[s].off + Blocks[table[s].pc].bytes

\* Every published block can be found again (pw_x86_cache_lookup_mut), there
\* is one per guest PC, and the code of two blocks never shares a byte of the
\* arena: the append-only cursor and the probe chains stay consistent through
\* failed publications, failed seals and resets.
CacheSound ==
  /\ \A s \in Used : /\ Lookup(table, generation, table[s].pc) = {s}
                     /\ EndOf(s) <= cursor
  /\ \A s, t \in Used : s # t => EndOf(s) <= table[t].off \/ EndOf(t) <= table[s].off

\* The block a slot's code address may lead to: its exit's own stub while
\* unlinked, and once linked the live block of the target PC, entered past its
\* loads only under an equal register contract.
LinkOK(s, i) ==
  LET e == table[s]
      l == e.link[i]
      Leads(c, at) == c.at = at /\ \E t \in Used : /\ table[t].off = c.off
                                                  /\ table[t].pc = l.target
  IN  /\ l.target = Target(e.pc, i)
      /\ ~l.linked => l.code = Code(e.off, "stub", i)
      /\ l.linked => \/ /\ Leads(l.code, "chain")
                        /\ ContractsMatch(e.pc, l.target)
                     \/ /\ l.code = Code(e.off, "reconcile", i)
                        /\ Leads(l.canonical, "canonical")

\* Every link slot of every published block is sound: no slot is left empty,
\* names code of an earlier generation or of another PC, whatever the order of
\* publications, chaining toggles, resets and late resolutions of a stale
\* last_exit_slot.  Only a failed seal may leave slots unset.
LinkSound == failed \/ \A s \in Used : \A i \in Exits(table[s].pc) : LinkOK(s, i)

PagesOf(s) == {p \in Pages : /\ (p+1) * PageBytes > table[s].off
                             /\ p * PageBytes < EndOf(s)}

\* Generated code runs only from sealed pages of a live engine, and a chained
\* block was patched with its own link slots: W^X holds across every publication
\* into a page that already holds published code.
RunsSealed ==
  run # NoSlot => /\ table[run].used /\ ~failed
                  /\ \A p \in PagesOf(run) : prot[p] = "RX"
                  /\ table[run].patch \in {run, NoSlot}

\* A chain makes fewer transitions than the quantum before it is back in the
\* dispatcher (A bounded block quantum returns to the dispatcher).
ChainBounded == transitions < (IF Quantum > 0 THEN Quantum ELSE 1)

\* The retired count the dispatcher reports is exact, except for a fault in a
\* block that was reached through a link.
RetiredExact ==
  [][run # NoSlot /\ run' = NoSlot /\ (status' = "ok" \/ transitions = 0)
     => reported' = exact']_vars

\* Execution follows the guest program: control passes from a block only to the
\* block of one of its targets, to the dispatcher at one of its targets, or to
\* a faulting address inside it; the loads of the next block are skipped only
\* if both blocks keep the same registers.
FollowsGuest ==
  [][run # NoSlot =>
       LET pc == table[run].pc
           targets == {Target(pc, i) : i \in Exits(pc)}
       IN  IF run' # NoSlot
           THEN /\ table[run'].pc \in targets
                /\ via' = "chain" => ContractsMatch(pc, table[run'].pc)
           ELSE \/ eip' \in targets
                \/ targets = {}
                \/ status' = "vm" /\ eip' - pc \in Blocks[pc].faults]_vars

\* "A protection failure poisons the engine; reset invalidates every entry and
\* changes the generation before translation resumes."
\* (projects/prospero-win/docs/ARCHITECTURE.md:145)
PoisonedUntilReset == failed => run = NoSlot

\* "If a translated memory guard fails midway, the dispatcher reports only the
\* exact retired prefix." (projects/prospero-win/docs/ARCHITECTURE.md:148)
RetiredPrefixExact == run = NoSlot => reported = exact
=============================================================================
