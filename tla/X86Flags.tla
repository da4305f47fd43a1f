------------------------------ MODULE X86Flags ------------------------------
(***************************************************************************)
(* Where the guest's arithmetic flags live while translated blocks run:     *)
(* src/pw_x86_block.c drops snapshots its backward liveness pass finds      *)
(* dead, and in lazy mode leaves the others pending in deferred_flags,      *)
(* across linked exits, until an instruction or the dispatcher needs them.  *)
(*                                                                          *)
(* Values are abstracted to whether a copy is the flag's latest one: canon  *)
(* is the set of flags whose bit in eflags is, raw the set whose bit in     *)
(* raw_flags is.  known is known_mask itself.  Flags with the same          *)
(* treatment are one: "Z" stands for ZF, SF and PF.                         *)
(***************************************************************************)
EXTENDS Integers, Sequences

CONSTANTS MaxBlock,    \* bound on the instructions of a block (32 in the code)
          MulHazard,   \* whether blocks have a MUL/IMUL that may meet pending flags
          TrapHazard   \* whether they have a register-form DIV or x87 instruction
                       \* that may trap while a flag is dropped

ASSUME BlockAssumption == MaxBlock \in Nat \ {0}
ASSUME HazardAssumption == MulHazard \in BOOLEAN /\ TrapHazard \in BOOLEAN

Flags == {"C", "O", "A", "Z"}

VARIABLES
  lazy,     \* engine->lazy_flags_enabled, set before the engine runs
  running,  \* FALSE in the dispatcher
  prog,     \* instructions of the executing block; <<>> outside of blocks
  ip,       \* index of the next one
  canon, known, raw,
  stale     \* an instruction has read a flag that was not its latest value

vars == <<lazy, running, prog, ip, canon, known, raw, stale>>

-----------------------------------------------------------------------------
(* Instructions, by what decoding says of them: flags_def, flags_use,       *)
(* can_fault (a memory guard).                                              *)

Ins(def, use, guard) == [def |-> def, use |-> use, guard |-> guard]
Instruction ==
  [add   |-> Ins(Flags, {}, FALSE),        \* ADD, SUB, CMP, NEG
   addm  |-> Ins(Flags, {}, TRUE),         \* the same on memory
   logic |-> Ins(Flags \ {"A"}, {}, FALSE),
   inc   |-> Ins(Flags \ {"C"}, {}, FALSE),
   imul  |-> Ins({"C", "O"}, {}, FALSE),   \* two and three operands
   adc   |-> Ins(Flags, {"C"}, FALSE),
   setz  |-> Ins({}, {"Z"}, FALSE),        \* SETcc, and Jcc at a block's end
   shl   |-> Ins({"C", "Z"}, {}, FALSE),   \* by an immediate above 1
   shlcl |-> Ins(Flags \ {"A"}, Flags \ {"A"}, FALSE),
   cmps  |-> Ins({}, {}, TRUE),            \* string helpers
   mul   |-> Ins({}, {}, FALSE),           \* one-operand MUL, IMUL
   div   |-> Ins({}, {}, FALSE)]           \* DIV, IDIV, x87 on registers
Shifts == {"shl", "shlcl"}
Saving == {"add", "addm", "logic", "inc", "imul", "adc", "setz"}
CommitsBefore == Shifts \cup {"cmps"}
Block == UNION {[1..n -> DOMAIN Instruction] : n \in 1..MaxBlock}

-----------------------------------------------------------------------------
(* Backward liveness over the block                                         *)

\* Seeded bug: a guard's barrier is put after its instruction.
LiveBarrierAfter(p) ==
  LET L[i \in 1 .. Len(p)+1] ==
        IF i = Len(p)+1 THEN Flags
        ELSE LET d == Instruction[p[i]]
                 out == IF d.guard THEN Flags ELSE L[i+1]
             IN  (out \ d.def) \cup d.use
  IN  L

\* live before the i-th instruction; all flags are live at the block's exit.
Live(p) ==
  LET L[i \in 1 .. Len(p)+1] ==
        IF i = Len(p)+1 THEN Flags
        ELSE LET d == Instruction[p[i]]
             IN  IF d.guard THEN Flags ELSE (L[i+1] \ d.def) \cup d.use
  IN  L

FlagsDead(p, i) ==
  LET def == Instruction[p[i]].def
  IN  def # {} /\ def \cap Live(p)[i+1] = {}

\* What keeps MUL away from pending flags: a commit, and no producer since.
MulMeetsNone(p, i) ==
  \E j \in 1 .. i-1 : /\ p[j] \in CommitsBefore
                       /\ \A k \in j+1 .. i-1 : p[k] \notin Saving \ {"setz"}
\* What keeps a trap away from dropped flags: each is overwritten before it.
TrapMeetsNone(p, i) ==
  \A k \in 1 .. i-1 : FlagsDead(p, k) =>
    \A f \in Instruction[p[k]].def :
      \E j \in k+1 .. i-1 : f \in Instruction[p[j]].def

Translatable(p) ==
  \A i \in DOMAIN p :
    /\ p[i] = "mul" /\ lazy => MulHazard \/ MulMeetsNone(p, i)
    /\ p[i] = "div" => TrapHazard \/ TrapMeetsNone(p, i)

-----------------------------------------------------------------------------
(* Emitted flag handling, on a canonical copy                               *)

\* Seeded bug: known_mask is not consulted.
MaterializedAll(mask) == (canon \ mask) \cup (mask \cap raw)
\* eflags after the pending ones of the demanded bits are merged into it.
Materialized(mask) ==
  (canon \ (mask \cap known)) \cup (mask \cap known \cap raw)

\* Seeded bug: an eager block leaves its flags pending as well.
KnownAfterAlways(def) == IF def = Flags THEN Flags ELSE known \cup def
KnownAfter(def) == IF ~lazy THEN known
                   ELSE IF def = Flags THEN Flags ELSE known \cup def

\* The flags of def get new values, which emit_save_flags snapshots unless dead.
Save(def, dead, base) ==
  LET stored == IF dead THEN {} ELSE def
  IN  IF lazy
      THEN /\ raw' = (raw \ def) \cup stored
           /\ canon' = base \ def
           /\ known' = IF stored = {} THEN known ELSE KnownAfter(stored)
      ELSE /\ raw' = raw \ def
           /\ canon' = (base \ def) \cup stored
           /\ known' = IF stored = {} THEN known ELSE KnownAfter(stored)

\* The flags of set are written to eflags itself.
WriteCanonical(base, set, stored) ==
  /\ canon' = (base \ set) \cup stored
  /\ raw' = raw \ set

ToDispatcher ==
  /\ running' = FALSE /\ prog' = <<>> /\ ip' = 1
  /\ canon' = Materialized(Flags) /\ known' = {}
  /\ UNCHANGED <<lazy, raw, stale>>

-----------------------------------------------------------------------------
(* Running a block                                                          *)

At(kinds) == ip \in DOMAIN prog /\ prog[ip] \in kinds
Next1 == ip' = ip + 1 /\ UNCHANGED <<lazy, running, prog>>

\* From the dispatcher, or from a linked exit with flags still pending.
EnterBlock ==
  /\ prog = <<>>
  /\ running' = TRUE /\ ip' = 1
  /\ \E p \in Block : Translatable(p) /\ prog' = p
  /\ UNCHANGED <<lazy, canon, known, raw, stale>>

\* Consumers merge what they read; producers snapshot what they define.
Execute ==
  /\ At(Saving)
  /\ LET d == Instruction[prog[ip]]
         base == Materialized(d.use)
     IN  /\ stale' = (stale \/ ~(d.use \subseteq base))
         /\ Save(d.def, FlagsDead(prog, ip), base)
  /\ Next1

\* Seeded bug: shifts work on eflags as they are.
CommittedStrings(kind) == IF kind = "cmps" THEN Materialized(Flags) ELSE canon
Committed(kind) ==
  IF kind \in CommitsBefore THEN Materialized(Flags) ELSE canon
KnownCommitted(kind) == IF kind \in CommitsBefore THEN {} ELSE known

\* The flags a shift writes: by CL also none for a masked count of zero, and
\* all but OF for a count above one.
Written(kind) ==
  IF kind = "shl" THEN {{"C", "Z"}} ELSE {{}, {"C", "Z"}, {"C", "Z", "O"}}

Shift ==
  /\ At(Shifts)
  /\ known' = KnownCommitted(prog[ip])
  /\ \E w \in Written(prog[ip]) :
       WriteCanonical(Committed(prog[ip]), w,
                      IF FlagsDead(prog, ip) THEN {} ELSE w)
  /\ UNCHANGED stale
  /\ Next1

\* A compare under REP may run no iteration and leave the flags as they were.
String ==
  /\ At({"cmps"})
  /\ known' = KnownCommitted("cmps")
  /\ \E w \in {{}, Flags} : WriteCanonical(Committed("cmps"), w, w)
  /\ UNCHANGED stale
  /\ Next1

\* muldiv_dispatch replaces CF and OF of eflags and commits nothing.
Multiply ==
  /\ At({"mul"})
  /\ WriteCanonical(canon, {"C", "O"}, {"C", "O"})
  /\ UNCHANGED <<known, stale>>
  /\ Next1

Divide ==
  /\ At({"div"})
  /\ UNCHANGED <<canon, known, raw, stale>>
  /\ Next1

DivideTraps ==
  /\ At({"div"})
  /\ ToDispatcher

\* A guest memory guard fails before its instruction changes flags.
GuardFails ==
  /\ ip \in DOMAIN prog /\ Instruction[prog[ip]].guard
  /\ ToDispatcher

AtExit == prog # <<>> /\ ip = Len(prog) + 1

LinkedExit ==
  /\ AtExit
  /\ prog' = <<>> /\ ip' = 1
  /\ UNCHANGED <<lazy, running, canon, known, raw, stale>>

\* Dynamic, unlinked and safepoint exits; the engine commits what is pending.
Leave == AtExit /\ ToDispatcher

-----------------------------------------------------------------------------
Init ==
  /\ lazy \in BOOLEAN
  /\ running = FALSE /\ prog = <<>> /\ ip = 1
  /\ canon = Flags /\ known = {} /\ raw = {}
  /\ stale = FALSE

Next == \/ EnterBlock \/ Execute \/ Shift \/ String \/ Multiply
        \/ Divide \/ DivideTraps \/ GuardFails \/ LinkedExit \/ Leave

Spec == Init /\ [][Next]_vars

-----------------------------------------------------------------------------
(* Properties *)

\* Each variable's type; nothing is pending in eager mode or in the dispatcher.
TypeOK ==
  /\ lazy \in BOOLEAN /\ running \in BOOLEAN /\ stale \in BOOLEAN
  /\ prog \in Block \cup {<<>>} /\ ip \in 1 .. MaxBlock+1
  /\ canon \subseteq Flags /\ known \subseteq Flags /\ raw \subseteq Flags
  /\ (lazy /\ running) \/ known = {}

\* No instruction reads a flag other than as the last instruction that defines
\* it left it, with every mix of dropped, pending and canonical flags, within a
\* block and across links: lazy mode computes what eager mode does ("exact
\* eager/lazy host parity", projects/prospero-win/docs/ROADMAP.md:84).
NoStaleRead == ~stale

\* In the dispatcher eflags holds the latest value of every flag, at a fault as
\* well as at an exit.  "The engine commits the complete pending subset at every
\* dispatcher safepoint." (projects/prospero-win/docs/X86_EXECUTION.md:320), and
\* the liveness pass "only omits a flag snapshot when a later instruction in the
\* same block provably overwrites every affected flag before any observation".
FlagsReturned == ~running => canon = Flags

\* The pass drops a snapshot only if each flag of it is overwritten later in the
\* block with no memory guard and no reader of the flag up to there.
DeadIsOverwritten ==
  \A i \in DOMAIN prog : FlagsDead(prog, i) =>
    \A f \in Instruction[prog[i]].def :
      \E j \in i+1 .. Len(prog) :
        /\ f \in Instruction[prog[j]].def
        /\ \A k \in i+1 .. j : /\ ~Instruction[prog[k]].guard
                               /\ f \notin Instruction[prog[k]].use
=============================================================================
