------------------------------ MODULE X86Regs ------------------------------
(***************************************************************************)
(* Where the value of each guest register lives while translated blocks     *)
(* run: src/pw_x86_block.c keeps up to three guest registers in r8-r10,     *)
(* tracks which of them are newer than the PwX86State copy (dirty_mask),    *)
(* and carries them across a linked exit when the register contracts match. *)
(*                                                                          *)
(* Values are abstracted to whether a copy is the register's latest one:    *)
(* mem is the set of registers whose canonical copy is, and host[h] the     *)
(* register host register h holds the latest value of.  The translator      *)
(* emits straight-line code, so the dirty mask it tracks while emitting is  *)
(* the dirty mask while the code runs.                                      *)
(***************************************************************************)
EXTENDS Integers, FiniteSets

CONSTANTS Regs,      \* guest general registers
          MaxHost,   \* PW_X86_MAX_HOST_REGS
          RawHazard  \* whether the instruction forms that bypass residency meet
                     \* a register with an update of its own still resident

NoReg == "none"
Hosts == 0 .. MaxHost-1

ASSUME RegsAssumption == NoReg \notin Regs /\ IsFiniteSet(Regs)
ASSUME HostAssumption == MaxHost \in Nat \ {0} /\ RawHazard \in BOOLEAN

\* The contracts the allocator can produce: each register once, no gaps.
Contract ==
  {m \in [Hosts -> Regs \cup {NoReg}] :
     /\ \A g, h \in Hosts : m[g] = m[h] /\ g # h => m[g] = NoReg
     /\ \A g, h \in Hosts : g < h /\ m[g] = NoReg => m[h] = NoReg}

VARIABLES
  inBlock,  \* FALSE in the dispatcher
  map,      \* contract of the executing block
  dirty,    \* exit_contract.dirty_mask where the block has got to
  mem, host,
  stale     \* history: the registers an instruction used an old value of

vars == <<inBlock, map, dirty, mem, host, stale>>

Resident(m) == {m[h] : h \in Hosts} \ {NoReg}
HostOf(r) == CHOOSE h \in Hosts : map[h] = r
Holds(r) == host[HostOf(r)] = r

-----------------------------------------------------------------------------
(* Emitted loads and spills *)

\* Seeded bug: the spill of a register goes missing.
SpilledNone(regs) == mem
\* Canonical state after the registers in regs are stored to it.
Spilled(regs) == (mem \ regs) \cup {r \in regs : Holds(r)}

\* Host registers after loading the residents of m from canonical state.
Loaded(m, from) == [h \in Hosts |-> IF m[h] \in from THEN m[h] ELSE NoReg]

\* Host registers once r has a new value that only `where` hold.
Outdated(r, where) ==
  [h \in Hosts |-> IF host[h] = r /\ h \notin where THEN NoReg ELSE host[h]]

-----------------------------------------------------------------------------
(* Entering and leaving blocks *)

\* Seeded bug: a chain entry starts with the clean mask of a canonical one.
DirtyAtEntryClean(m) == {}
\* Seeded bug: registers that are not resident are marked too.
DirtyAtEntryAll(m) == Regs
\* A chain entry cannot know what its predecessors updated.
DirtyAtEntry(m) == Resident(m)

EnterCanonical(m, from) ==
  /\ map' = m /\ dirty' = DirtyAtEntry(m)
  /\ host' = Loaded(m, from)
  /\ inBlock' = TRUE

Dispatch(m) ==
  /\ ~inBlock
  /\ EnterCanonical(m, mem)
  /\ UNCHANGED <<mem, stale>>

\* Returning to C leaves r8-r10 to the caller.
ToDispatcher(canonical) ==
  /\ inBlock' = FALSE /\ mem' = canonical
  /\ host' = [h \in Hosts |-> NoReg]
  /\ UNCHANGED <<map, dirty, stale>>

\* Dynamic exit, safepoint exit and unlinked stub.
Leave == inBlock /\ ToDispatcher(Spilled(dirty))

\* Seeded bug: equal residency is enough, whatever registers it is kept in.
ContractsMatchResidency(a, b) == Resident(a) = Resident(b)
\* Resident mask and guest_to_host mapping agree.
ContractsMatch(a, b) == a = b

ChainMatching(m) ==
  /\ inBlock /\ ContractsMatch(map, m)
  /\ map' = m /\ dirty' = DirtyAtEntry(m)
  /\ UNCHANGED <<inBlock, mem, host, stale>>

\* Through the reconcile stub into the canonical entry.
ChainReconciled(m) ==
  /\ inBlock /\ ~ContractsMatch(map, m)
  /\ mem' = Spilled(dirty)
  /\ EnterCanonical(m, Spilled(dirty))
  /\ UNCHANGED stale

-----------------------------------------------------------------------------
(* Guest instructions, by what they do to the register file *)

\* store_guest_reg, store_guest_imm: the whole register gets a new value.
Write(r) ==
  /\ inBlock
  /\ IF r \in Resident(map)
     THEN /\ host' = [Outdated(r, {HostOf(r)}) EXCEPT ![HostOf(r)] = r]
          /\ mem' = mem \ {r} /\ dirty' = dirty \cup {r}
     ELSE /\ host' = Outdated(r, {}) /\ mem' = mem \cup {r} /\ UNCHANGED dirty
  /\ UNCHANGED <<inBlock, map, stale>>

\* Part of the register is updated in canonical state, which held `before`,
\* and a resident copy is loaded again from there.
UpdatePart(r, before) ==
  /\ mem' = before
  /\ IF r \in Resident(map)
     THEN /\ host' = [Outdated(r, {}) EXCEPT
                        ![HostOf(r)] = IF r \in before THEN r ELSE NoReg]
          /\ dirty' = dirty \cup {r}
     ELSE host' = Outdated(r, {}) /\ UNCHANGED dirty

\* Byte and word forms that spill the register first (emit_spill_single).
PartialWrite(r) ==
  /\ inBlock
  /\ UpdatePart(r, Spilled({r} \cap dirty))
  /\ UNCHANGED <<inBlock, map, stale>>

\* Operands taken from PwX86State as it is, whatever is resident.
RawRead(regs) ==
  /\ regs \cap dirty # {} => RawHazard
  /\ stale' = stale \cup (regs \ mem)

\* Register-form byte ALU: the source s and the destination r are both read
\* raw.  SETcc and 16-bit immediate ALU keep the rest of r's canonical copy
\* (s = r).
RawPartialWrite(r, s) ==
  /\ inBlock /\ RawRead({r, s})
  /\ UpdatePart(r, mem)
  /\ UNCHANGED <<inBlock, map>>

\* CMP in its byte register form writes no register.
RawCompare(r, s) ==
  /\ inBlock /\ RawRead({r, s})
  /\ UNCHANGED <<inBlock, map, dirty, mem, host>>

\* A memory guard: dirty registers are spilled before it, and it may leave.
Guard ==
  /\ inBlock
  /\ \/ /\ mem' = Spilled(dirty) /\ dirty' = {}
        /\ UNCHANGED <<inBlock, map, host, stale>>
     \/ ToDispatcher(Spilled(dirty))

\* A byte ALU store to memory keeps the guarded address in r8, host register 0.
ByteStore ==
  /\ inBlock /\ (map[0] # NoReg => RawHazard)
  /\ mem' = Spilled(dirty) /\ dirty' = {}
  /\ host' = [host EXCEPT ![0] = NoReg]
  /\ UNCHANGED <<inBlock, map, stale>>

\* String, x87, multiply and divide helpers work on canonical state; they fail
\* to the dispatcher or the residents are loaded again.
Helper ==
  /\ inBlock
  /\ \/ /\ mem' = Spilled(dirty) /\ dirty' = {}
        /\ host' = Loaded(map, Spilled(dirty))
        /\ UNCHANGED <<inBlock, map, stale>>
     \/ ToDispatcher(Spilled(dirty))

-----------------------------------------------------------------------------
Init ==
  /\ inBlock = FALSE
  /\ map = [h \in Hosts |-> NoReg] /\ dirty = {}
  /\ mem = Regs /\ host = [h \in Hosts |-> NoReg]
  /\ stale = {}

Next ==
  \/ \E m \in Contract : Dispatch(m) \/ ChainMatching(m) \/ ChainReconciled(m)
  \/ \E r \in Regs : Write(r) \/ PartialWrite(r)
  \/ \E r, s \in Regs : RawPartialWrite(r, s) \/ RawCompare(r, s)
  \/ Guard \/ ByteStore \/ Helper \/ Leave

Spec == Init /\ [][Next]_vars

-----------------------------------------------------------------------------
(* Properties *)

TypeOK ==
  /\ inBlock \in BOOLEAN
  /\ map \in Contract
  /\ dirty \subseteq Resident(map)
  /\ mem \subseteq Regs
  /\ host \in [Hosts -> Regs \cup {NoReg}]
  /\ stale \subseteq Regs

\* No instruction has used an old value of a guest register, and the next one
\* will not either: a resident register is current in its host register, any
\* other one in PwX86State.  "A chain entry must never lose a predecessor's
\* update." (pw_x86_block.c:1238)
OperandsCurrent ==
  /\ stale = {}
  /\ inBlock => \A r \in Regs : IF r \in Resident(map) THEN Holds(r) ELSE r \in mem

\* Whatever way a block is left, PwX86State then holds the latest value of
\* every register: the adapter, callbacks and fault reports read only that.
CanonicalCurrent == ~inBlock => mem = Regs

\* A resident register that is not marked dirty has its value in PwX86State
\* too, so that skipping its spill loses nothing.
CleanIsCanonical == inBlock => \A r \in Regs \ dirty : r \in mem
=============================================================================
