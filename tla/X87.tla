-------------------------------- MODULE X87 --------------------------------
(***************************************************************************)
(* The guest's x87 unit, pw_x87.c over the state of pw_guest_fp.c, as the   *)
(* translated code and three msvcrt imports use it.  A register holds a     *)
(* class of values: "zero", "finite" (denormals never reach a register) or  *)
(* "special" (an infinity or a NaN).  What the arithmetic yields within a   *)
(* class, and whether it is exact, is a choice; which exceptions it raises, *)
(* what a masked and an unmasked one do to registers, tags, TOP and memory, *)
(* and the response to a stack fault are the code's.                        *)
(***************************************************************************)
EXTENDS Naturals, FiniteSets

CONSTANTS
    Slots,       \* registers of the stack (8 in the code)
    MaskChoices, \* the exception masks a guest asks _controlfp for
    FpSteps      \* instructions, imports and control changes (bound)

FpFlags == {"IE", "DE", "ZE", "OE", "UE", "PE"}

ASSUME X87Assumption ==
    /\ Slots \in Nat \ {0, 1}
    /\ MaskChoices \subseteq SUBSET FpFlags
    /\ FpSteps \in Nat

VARIABLES
    fp,          \* registers, tags, TOP, status word and pending traps
    fpMask,      \* the exceptions the control word masks
    fpMemory,    \* what the last store left in the memory operand
    fpRan,       \* history: what the last step was to do to TOP, and whether
                 \* it met a stack fault
    fpEnd,       \* "run", or why the guest stopped
    fpCount      \* steps taken

x87Vars == <<fp, fpMask, fpMemory, fpRan, fpEnd, fpCount>>

Values == {"zero", "finite", "special"}
\* The tag of what a register holds.
Tag(v) == CASE v = "finite" -> 0 [] v = "zero" -> 1 [] v = "special" -> 2 [] OTHER -> 3

X87Init ==
    /\ fp = [st |-> [s \in 0 .. Slots - 1 |-> "empty"], tag |-> [s \in 0 .. Slots - 1 |-> 3],
             top |-> 0, flags |-> {}, c1 |-> FALSE, condition |-> {}, pending |-> {},
             summary |-> FALSE]
    /\ fpMask = FpFlags
    /\ fpMemory = "none"
    /\ fpRan = [down |-> 0, up |-> 0, fault |-> FALSE]
    /\ fpEnd = "run"
    /\ fpCount = 0

(***************************************************************************)
(* Registers and exceptions.                                               *)
(***************************************************************************)
FpSlot(f, i) == (f.top + i) % Slots
ST(f, i) == f.st[FpSlot(f, i)]
IsEmpty(f, i) == f.tag[FpSlot(f, i)] = 3

WriteST(f, i, v) == [f EXCEPT !.st[FpSlot(f, i)] = v, !.tag[FpSlot(f, i)] = Tag(v)]
PushST(f, v) == WriteST([f EXCEPT !.top = FpSlot(f, Slots - 1)], 0, v)
PopST(f) == [WriteST(f, 0, "empty") EXCEPT !.top = FpSlot(f, 1)]
Popped(f, n) == CASE n = 0 -> f [] n = 1 -> PopST(f) [] n = 2 -> PopST(PopST(f))

Unmasked(e) == e \ fpMask
Raise(f, e) == [f EXCEPT !.flags = @ \cup e, !.pending = @ \cup Unmasked(e),
                         !.summary = @ \/ Unmasked(e) # {}]

\* How an instruction can end.
Completed(f) == [fp |-> f, memory |-> fpMemory, end |-> "run", fault |-> FALSE]
Stops(f, why) == [Completed(f) EXCEPT !.end = why]
\* Raising e from f; g is what the instruction makes of the registers if no
\* exception of e is unmasked.
Complete(f, e, g) == IF Unmasked(e) # {} THEN Stops(Raise(f, e), "trap") ELSE Completed(Raise(g, e))

(***************************************************************************)
(* The instructions: an operation, where its operand is, the register named *)
(* and how many it pops.                                                   *)
(***************************************************************************)
Ins(op, arg, i, pops) == [op |-> op, arg |-> arg, i |-> i, pops |-> pops]
Registers == 0 .. Slots - 1
Instructions ==
    {Ins("load", arg, 0, 0) : arg \in {"memory", "constant"}}
    \cup {Ins("load", "st", i, 0) : i \in Registers}
    \cup {Ins("store", "memory", 0, n) : n \in {0, 1}}
    \cup {Ins("store", "st", i, n) : i \in Registers, n \in {0, 1}}
    \cup {Ins(op, "none", 0, 0) : op \in {"status", "sign", "sqrt", "trig", "acos"}}
    \cup {Ins(op, "memory", 0, 0) : op \in {"add", "mul", "div"}}
    \cup {Ins(op, "st", i, 0) : op \in {"add", "mul", "div"}, i \in Registers}
    \cup {Ins(op, "to_st", i, n) : op \in {"add", "mul", "div"}, i \in Registers, n \in {0, 1}}
    \cup {Ins("compare", "memory", 0, n) : n \in {0, 1}}
    \cup {Ins("compare", "st", i, n) : i \in Registers, n \in {0, 1}}
    \cup {Ins("compare", "st", 1, 2)}

Destination(ins) == IF ins.arg = "to_st" \/ ins.op = "store" THEN ins.i ELSE 0

(***************************************************************************)
(* Stack faults.                                                           *)
(***************************************************************************)
Underflows(f, ins) ==
    CASE ins.op = "status" -> FALSE
      [] ins.op = "load" -> ins.arg = "st" /\ IsEmpty(f, ins.i)
      [] OTHER -> IsEmpty(f, 0) \/ IsEmpty(f, ins.i)
Overflows(f, ins) == ins.op = "load" /\ ~IsEmpty(f, Slots - 1)

Unordered == {"C0", "C2", "C3"}
Indefinite(f, ins) ==
    CASE ins.op = "load" -> PushST(f, "special")
      [] ins.op = "compare" -> [f EXCEPT !.condition = Unordered]
      [] ins.op = "store" /\ ins.arg = "memory" -> f
      [] OTHER -> WriteST(f, Destination(ins), "special")

\* A bug: the masked response to a fault of a store leaves TOP alone.
MStackFault(f, ins) ==
    LET g == [f EXCEPT !.flags = @ \cup {"SF"}, !.c1 = ~Underflows(f, ins)]
        r == Complete(g, {"IE"}, IF ins.op = "store" THEN Indefinite(g, ins)
                                 ELSE Popped(Indefinite(g, ins), ins.pops))
    IN  [r EXCEPT !.fault = TRUE,
                  !.memory = IF ins.op = "store" /\ ins.arg = "memory" /\ r.end = "run"
                             THEN "special" ELSE @]

StackFault(f, ins) ==
    LET g == [f EXCEPT !.flags = @ \cup {"SF"}, !.c1 = ~Underflows(f, ins)]
        r == Complete(g, {"IE"}, Popped(Indefinite(g, ins), ins.pops))
    IN  [r EXCEPT !.fault = TRUE,
                  !.memory = IF ins.op = "store" /\ ins.arg = "memory" /\ r.end = "run"
                             THEN "special" ELSE @]

(***************************************************************************)
(* The arithmetic by class: the results and exceptions there can be.        *)
(***************************************************************************)
Result(v, e) == [to |-> v, raise |-> e]
TooSmall == Result("refused", {})
RoundedFp == {Result("finite", {}), Result("finite", {"PE"}), Result("special", {"OE", "PE"}), TooSmall}
Invalid == Result("special", {"IE"})
MaybeInvalid == {Result("special", {}), Invalid}

Add(a, b) ==
    CASE "special" \in {a, b} -> MaybeInvalid
      [] {a, b} = {"zero"} -> {Result("zero", {})}
      [] {a, b} = {"finite"} -> RoundedFp \cup {Result("zero", {})}
      [] OTHER -> RoundedFp
Mul(a, b) ==
    CASE {a, b} = {"special", "zero"} -> MaybeInvalid
      [] "special" \in {a, b} -> {Result("special", {})}
      [] "zero" \in {a, b} -> {Result("zero", {})}
      [] OTHER -> RoundedFp
Div(a, b) ==
    CASE a = "special" /\ b = "special" -> MaybeInvalid
      [] a = "zero" /\ b = "zero" -> {Invalid}
      [] a = "special" /\ b = "zero" -> {Result("special", {}), Result("special", {"ZE"})}
      [] b = "zero" -> {Result("special", {"ZE"})}
      [] a = "special" -> {Result("special", {})}
      [] b = "special" -> {Result("zero", {}), Result("special", {})}
      [] a = "zero" -> {Result("zero", {})}
      [] OTHER -> RoundedFp
\* The reversed forms swap the operands.
Compute(op, a, b) ==
    CASE op = "add" -> Add(a, b) [] op = "mul" -> Mul(a, b) [] op = "div" -> Div(a, b) \cup Div(b, a)

Sqrt(v) ==
    CASE v = "zero" -> {Result("zero", {})}
      [] v = "finite" -> {Result("finite", {}), Result("finite", {"PE"}), Invalid}
      [] OTHER -> MaybeInvalid
Acos(v) ==
    CASE v = "zero" -> {Result("finite", {})}
      [] v = "finite" -> {Result("finite", {}), Result("zero", {}), Invalid}
      [] OTHER -> {Invalid}
\* "keep": a NaN is left as it is; "range": too large, only C2 is set.
Trig(v) ==
    CASE v = "zero" -> {Result("zero", {}), Result("finite", {})}
      [] v = "finite" -> {Result("zero", {}), Result("finite", {}), Result("range", {})}
      [] OTHER -> {Result("keep", {}), Invalid}

\* The underflow is raised first: unmasked, it hides that the result is inexact.
Narrow(v) ==
    IF v # "finite" THEN {Result(v, {})}
    ELSE {Result("finite", {}), Result("finite", {"PE"}), Result("finite", {"OE", "PE"}),
          Result("special", {"OE", "PE"})}
         \cup {Result(w, IF "UE" \in fpMask THEN {"UE", "PE"} ELSE {"UE"}) : w \in {"zero", "finite"}}
\* A denormal in memory is normalised and raises DE.
Widen == {Result(v, {}) : v \in Values} \cup {Result("finite", {"DE"})}

Orders(a, b) ==
    CASE "special" \in {a, b} -> {{"C0"}, {"C3"}, {}, Unordered}
      [] {a, b} = {"zero"} -> {{"C3"}}
      [] "zero" \in {a, b} -> {{"C0"}, {}}
      [] OTHER -> {{"C0"}, {"C3"}, {}}

(***************************************************************************)
(* What an instruction whose registers are there can do.                   *)
(***************************************************************************)
Operand(f, ins) == IF ins.arg = "memory" THEN Widen ELSE {Result(ST(f, ins.i), {})}

LoadFp(f, ins) ==
    LET from == IF ins.arg = "constant" THEN {Result(v, {}) : v \in {"zero", "finite"}}
                ELSE Operand(f, ins)
    IN  {Complete(f, m.raise, PushST(f, m.to)) : m \in from}

StoreMemory(f, ins) ==
    {LET r == Complete(f, o.raise, Popped(f, ins.pops))
     IN  [r EXCEPT !.memory = IF r.end = "run" THEN o.to ELSE @] : o \in Narrow(ST(f, 0))}

StoreST(f, ins) == {Completed(Popped(WriteST(f, ins.i, ST(f, 0)), ins.pops))}

\* The operand's DE stays raised when the operation itself traps.
Binary(f, ins) ==
    UNION {IF Unmasked(m.raise) # {} THEN {Stops(Raise(f, m.raise), "trap")}
           ELSE LET g == Raise(f, m.raise)
                IN  {IF o = TooSmall THEN Stops(g, "refused")
                     ELSE Complete(g, o.raise, Popped(WriteST(g, Destination(ins), o.to), ins.pops)) :
                        o \in Compute(ins.op, ST(g, 0), m.to)} :
           m \in Operand(f, ins)}

Compare(f, ins) ==
    UNION {IF Unmasked(m.raise) # {} THEN {Stops(Raise(f, m.raise), "trap")}
           ELSE LET g == Raise(f, m.raise)
                IN  {Complete(g, IF o = Unordered THEN {"IE"} ELSE {},
                              Popped([g EXCEPT !.condition = o], ins.pops)) :
                        o \in Orders(ST(g, 0), m.to)} :
           m \in Operand(f, ins)}

Transcendental(f) ==
    {CASE o.to = "keep" -> Completed(f)
       [] o.to = "range" -> Completed([f EXCEPT !.condition = @ \cup {"C2"}])
       [] OTHER -> Complete(f, o.raise, [WriteST(f, 0, o.to) EXCEPT !.condition = @ \ {"C2"}]) :
        o \in Trig(ST(f, 0))}

Unary(f, results) == {Complete(f, o.raise, WriteST(f, 0, o.to)) : o \in results}

Execute(f, ins) ==
    IF Underflows(f, ins) \/ Overflows(f, ins) THEN {StackFault(f, ins)}
    ELSE CASE ins.op = "load" -> LoadFp(f, ins)
           [] ins.op = "store" -> IF ins.arg = "st" THEN StoreST(f, ins) ELSE StoreMemory(f, ins)
           [] ins.op = "status" -> {Completed(f)}
           [] ins.op = "sign" -> {Completed(f)}
           [] ins.op = "sqrt" -> Unary(f, Sqrt(ST(f, 0)))
           [] ins.op = "acos" -> Unary(f, Acos(ST(f, 0)))
           [] ins.op = "trig" -> Transcendental(f)
           [] ins.op = "compare" -> Compare(f, ins)
           [] OTHER -> Binary(f, ins)

(***************************************************************************)
(* Steps.  A trap or a refusal ends the guest: it has no handler for either.*)
(***************************************************************************)
FpTurn == fpEnd = "run" /\ fpCount < FpSteps /\ fpCount' = fpCount + 1
Moves(down, up, fault) == [down |-> down, up |-> up, fault |-> fault]

Instruction(ins) ==
    /\ FpTurn
    /\ \E r \in Execute(fp, ins) :
        /\ fp' = r.fp
        /\ fpMemory' = r.memory
        /\ fpEnd' = r.end
        /\ fpRan' = Moves(IF ins.op = "load" THEN 1 ELSE 0, ins.pops, r.fault)
    /\ UNCHANGED fpMask

\* _CIacos and floor work on a copy of the guest, which a trap throws away.
OnCopy(ins, results) ==
    /\ FpTurn
    /\ \E r \in results :
        /\ fp' = IF r.end = "run" THEN r.fp ELSE fp
        /\ fpEnd' = r.end
        /\ fpRan' = Moves(IF ins.op = "load" THEN 1 ELSE 0, 0, r.fault)
    /\ UNCHANGED <<fpMask, fpMemory>>

CIacos == LET ins == Ins("acos", "none", 0, 0) IN OnCopy(ins, Execute(fp, ins))

\* What floor pushes is never a denormal.
Floor == LET ins == Ins("load", "constant", 0, 0) IN
         OnCopy(ins, IF Overflows(fp, ins) THEN {StackFault(fp, ins)}
                     ELSE {Completed(PushST(fp, v)) : v \in Values})

Ftol ==
    /\ FpTurn
    /\ IF IsEmpty(fp, 0) THEN fpEnd' = "refused" /\ fpRan' = Moves(0, 0, TRUE) /\ UNCHANGED fp
       ELSE fpEnd' = "run" /\ fpRan' = Moves(0, 1, FALSE) /\ fp' = PopST(fp)
    /\ UNCHANGED <<fpMask, fpMemory>>

\* _controlfp cannot change the mask of the denormal exception.
ControlFp(value, which) ==
    /\ FpTurn
    /\ fpMask' = (fpMask \ (which \ {"DE"})) \cup (value \cap (which \ {"DE"}))
    /\ fpRan' = Moves(0, 0, FALSE)
    /\ UNCHANGED <<fp, fpMemory, fpEnd>>

X87Next ==
    \/ \E ins \in Instructions : Instruction(ins)
    \/ CIacos
    \/ Floor
    \/ Ftol
    \/ \E value \in MaskChoices, which \in {FpFlags, {"IE"}} : ControlFp(value, which)

X87Spec == X87Init /\ [][X87Next]_x87Vars

-----------------------------------------------------------------------------
Occupied(f) == Cardinality({s \in Registers : f.tag[s] # 3})

(* Registers and tags tell the same; a trap is pending exactly when the     *)
(* status word sums one up, and only while the guest is stopped by it.      *)
X87TypeOK ==
    /\ fp.st \in [Registers -> Values \cup {"empty"}]
    /\ \A s \in Registers : fp.tag[s] = Tag(fp.st[s])
    /\ fp.top \in Registers
    /\ fp.condition \subseteq Unordered
    /\ fp.summary = (fp.pending # {})
    /\ fp.pending \subseteq fp.flags \ fpMask
    /\ fpEnd = "run" => fp.pending = {}
    /\ "DE" \in fpMask
    /\ fpCount \in 0 .. FpSteps

(* An instruction that does not complete leaves registers, tags, TOP and     *)
(* memory as they were; one that does moves TOP by just what it is to push   *)
(* or pop, stack fault or not, so that the guest's later ST(i) name what it  *)
(* thinks; and without a fault it fills and empties as many registers.       *)
Precise ==
    IF fpEnd' # "run"
    THEN /\ <<fp'.st, fp'.tag, fp'.top>> = <<fp.st, fp.tag, fp.top>>
         /\ fpMemory' = fpMemory
    ELSE /\ (fp'.top + fpRan'.down) % Slots = (fp.top + fpRan'.up) % Slots
         /\ ~fpRan'.fault => Occupied(fp') + fpRan'.up = Occupied(fp) + fpRan'.down
X87Precise == [][Precise]_x87Vars
=============================================================================
