-------------------------- MODULE X86Flags_proofs --------------------------
(***************************************************************************)
(* That the translator's handling of the arithmetic flags computes what    *)
(* the instructions say, for blocks of any length linked in any order, in  *)
(* eager and in lazy mode, wherever MUL meets no pending flag and a trap   *)
(* no dropped one (the two runs of those hazards show what happens there). *)
(***************************************************************************)
EXTENDS X86Flags, TLAPS, SequenceTheorems, FiniteSetTheorems, WellFoundedInduction

Kinds == {"add", "addm", "logic", "inc", "imul", "adc", "setz", "shl", "shlcl", "cmps", "mul", "div"}

\* What decoding says of the instructions, as the proofs use it.
LEMMA InstructionsAre ==
  /\ DOMAIN Instruction = Kinds
  /\ \A x \in Kinds : /\ Instruction[x].def \subseteq Flags /\ Instruction[x].use \subseteq Flags
                      /\ Instruction[x].guard \in BOOLEAN
  /\ Instruction["cmps"].guard = TRUE
  /\ Instruction["setz"].def = {} /\ Instruction["mul"].def = {} /\ Instruction["div"].def = {}
  /\ Instruction["shl"].def = {"C", "Z"} /\ Instruction["shl"].guard = FALSE
  /\ Instruction["shlcl"].def = {"C", "O", "Z"} /\ Instruction["shlcl"].use = {"C", "O", "Z"}
<1> USE DEF Ins, Flags
<1>1. DOMAIN Instruction = Kinds
  BY DEF Instruction, Kinds
<1>2. ASSUME NEW x \in Kinds
      PROVE  /\ Instruction[x].def \subseteq Flags /\ Instruction[x].use \subseteq Flags
             /\ Instruction[x].guard \in BOOLEAN
  <2>1. CASE x = "add"
    BY <2>1 DEF Instruction
  <2>2. CASE x = "addm"
    BY <2>2 DEF Instruction
  <2>3. CASE x = "logic"
    BY <2>3 DEF Instruction
  <2>4. CASE x = "inc"
    BY <2>4 DEF Instruction
  <2>5. CASE x = "imul"
    BY <2>5 DEF Instruction
  <2>6. CASE x = "adc"
    BY <2>6 DEF Instruction
  <2>7. CASE x = "setz"
    BY <2>7 DEF Instruction
  <2>8. CASE x = "shl"
    BY <2>8 DEF Instruction
  <2>9. CASE x = "shlcl"
    BY <2>9 DEF Instruction
  <2>10. CASE x = "cmps"
    BY <2>10 DEF Instruction
  <2>11. CASE x = "mul"
    BY <2>11 DEF Instruction
  <2>12. CASE x = "div"
    BY <2>12 DEF Instruction
  <2> QED
    BY <2>1, <2>2, <2>3, <2>4, <2>5, <2>6, <2>7, <2>8, <2>9, <2>10, <2>11, <2>12 DEF Kinds
<1>3. Instruction["cmps"].guard = TRUE
  BY DEF Instruction
<1>4. Instruction["setz"].def = {} /\ Instruction["mul"].def = {} /\ Instruction["div"].def = {}
  BY DEF Instruction
<1>5. Instruction["shl"].def = {"C", "Z"} /\ Instruction["shl"].guard = FALSE
  BY DEF Instruction
<1>6. Instruction["shlcl"].def = {"C", "O", "Z"} /\ Instruction["shlcl"].use = {"C", "O", "Z"}
  BY DEF Instruction
<1> QED
  BY <1>1, <1>2, <1>3, <1>4, <1>5, <1>6

\* A block is a sequence of instructions.
LEMMA BlocksAre ==
  ASSUME NEW p \in Block
  PROVE  /\ p \in Seq(Kinds) /\ Len(p) \in 1 .. MaxBlock /\ Len(p) \in Nat /\ DOMAIN p = 1 .. Len(p)
         /\ \A i \in 1 .. Len(p) : p[i] \in Kinds
<1>1. PICK n \in 1 .. MaxBlock : p \in [1 .. n -> Kinds]
  BY InstructionsAre DEF Block
<1>2. n \in Nat
  BY <1>1
<1>3. p \in Seq(Kinds) /\ Len(p) = n
  BY <1>1, <1>2
<1> QED
  BY <1>1, <1>3

-----------------------------------------------------------------------------
(***************************************************************************)
(* The liveness pass.                                                      *)
(***************************************************************************)

\* A non-empty set of naturals has a least element.
LEMMA Least ==
  ASSUME NEW T \in SUBSET Nat, T # {}
  PROVE  \E n \in T : \A m \in T : n <= m
<1> DEFINE Below == {0 .. n : n \in T}
<1>1. Below \subseteq FiniteSubsetsOf(Nat)
  <2> SUFFICES ASSUME NEW n \in T PROVE 0 .. n \in FiniteSubsetsOf(Nat)
    OBVIOUS
  <2>1. IsFiniteSet(0 .. n)
    BY FS_Interval
  <2> QED
    BY <2>1 DEF FiniteSubsetsOf
<1>2. PICK X \in Below : \A Y \in Below : ~(<<Y, X>> \in StrictSubsetOrdering(Nat))
  <2>1. IsWellFoundedOn(StrictSubsetOrdering(Nat), FiniteSubsetsOf(Nat))
    BY FS_StrictSubsetOrderingWellFounded
  <2>2. Below # {}
    OBVIOUS
  <2> QED
    BY <1>1, <2>1, <2>2, WFMin
<1>3. PICK n \in T : X = 0 .. n
  OBVIOUS
<1>4. ASSUME NEW m \in T, m < n PROVE FALSE
  <2>1. 0 .. m \in Below /\ 0 .. m \subseteq 0 .. n /\ 0 .. m # 0 .. n
    BY <1>4
  <2>2. <<0 .. m, 0 .. n>> \in StrictSubsetOrdering(Nat)
    BY <2>1 DEF StrictSubsetOrdering
  <2> QED
    BY <2>1, <2>2, <1>2, <1>3
<1> QED
  BY <1>4

\* What is live before an instruction of kind x, from what is live after it.
Before(x, after) ==
    IF Instruction[x].guard THEN Flags ELSE (after \ Instruction[x].def) \cup Instruction[x].use

\* L is the result of the pass, from the a-th instruction on.
Pass(p, a, L) == L = [i \in a .. Len(p) + 1 |-> IF i = Len(p) + 1 THEN Flags ELSE Before(p[i], L[i + 1])]

\* The pass has a result from every instruction on.
LEMMA PassExists ==
  ASSUME NEW p, Len(p) \in Nat
  PROVE  \A k \in 0 .. Len(p) : \E L : Pass(p, Len(p) + 1 - k, L)
<1> DEFINE n == Len(p)
           T == {k \in 0 .. n : ~ \E L : Pass(p, n + 1 - k, L)}
<1> SUFFICES ASSUME T # {} PROVE FALSE
  OBVIOUS
<1>1. n \in Nat
  OBVIOUS
<1> HIDE DEF n
<1>2. T \in SUBSET Nat
  BY <1>1
<1>3. PICK k \in T : \A m \in T : k <= m
  BY <1>2, Least
<1>4. k \in 0 .. n /\ ~ \E L : Pass(p, n + 1 - k, L)
  BY <1>3
<1>5. CASE k = 0
  <2> DEFINE L == [i \in n + 1 .. n + 1 |-> Flags]
  <2>1. L = [i \in n + 1 .. n + 1 |-> IF i = n + 1 THEN Flags ELSE Before(p[i], L[i + 1])]
    BY <1>1
  <2>2. n + 1 - k = n + 1
    BY <1>1, <1>5
  <2>3. Pass(p, n + 1 - k, L)
    BY <2>1, <2>2 DEF Pass, n
  <2> QED
    BY <1>4, <2>3
<1>6. CASE k # 0
  <2>1. k - 1 \in 0 .. n /\ ~(k <= k - 1) /\ n + 1 - (k - 1) = n + 2 - k
    BY <1>1, <1>4, <1>6
  <2>2. k - 1 \notin T
    BY <1>3, <2>1
  <2>3. PICK L : Pass(p, n + 1 - (k - 1), L)
    BY <2>1, <2>2
  <2> DEFINE a == n + 1 - k
             G == [i \in a .. n + 1 |-> IF i = a THEN Before(p[a], L[a + 1]) ELSE L[i]]
  <2>4. a \in 1 .. n /\ n + 1 - (k - 1) = a + 1
    BY <1>1, <1>4, <1>6
  <2>5. L = [i \in a + 1 .. n + 1 |-> IF i = n + 1 THEN Flags ELSE Before(p[i], L[i + 1])]
    BY <2>3, <2>4 DEF Pass, n
  <2> HIDE DEF a
  <2>6. \A i \in a + 1 .. n + 1 : G[i] = L[i]
    BY <1>1, <2>4
  <2>7. G = [i \in a .. n + 1 |-> IF i = n + 1 THEN Flags ELSE Before(p[i], G[i + 1])]
    <3> SUFFICES ASSUME NEW i \in a .. n + 1
                 PROVE  G[i] = IF i = n + 1 THEN Flags ELSE Before(p[i], G[i + 1])
      OBVIOUS
    <3>1. CASE i = a
      <4>1. a + 1 \in a + 1 .. n + 1 /\ i # n + 1
        BY <1>1, <2>4, <3>1
      <4>2. G[a + 1] = L[a + 1]
        BY <2>6, <4>1
      <4>3. G[i] = Before(p[a], L[a + 1])
        BY <3>1
      <4> HIDE DEF G
      <4> QED
        BY <3>1, <4>1, <4>2, <4>3
    <3>2. CASE i # a /\ i # n + 1
      <4>1. i \in a + 1 .. n + 1 /\ i + 1 \in a + 1 .. n + 1
        BY <1>1, <2>4, <3>2
      <4>2. G[i] = L[i] /\ G[i + 1] = L[i + 1]
        BY <2>6, <4>1
      <4>3. L[i] = Before(p[i], L[i + 1])
        BY <2>5, <3>2, <4>1
      <4> HIDE DEF G
      <4> QED
        BY <3>2, <4>2, <4>3
    <3>3. CASE i # a /\ i = n + 1
      <4>1. i \in a + 1 .. n + 1
        BY <1>1, <2>4, <3>3
      <4>2. G[i] = L[i] /\ L[i] = Flags
        BY <2>5, <2>6, <3>3, <4>1
      <4> HIDE DEF G
      <4> QED
        BY <3>3, <4>2
    <3> QED
      BY <3>1, <3>2, <3>3
  <2>8. Pass(p, a, G)
    <3> HIDE DEF G
    <3> QED
      BY <2>7 DEF Pass, n
  <2> QED
    BY <1>4, <2>8 DEF a
<1> QED
  BY <1>5, <1>6

\* The result: every flag is live at the exit, and each instruction is passed
\* backwards.
LEMMA LiveIs ==
  ASSUME NEW p, Len(p) \in Nat
  PROVE  /\ Live(p)[Len(p) + 1] = Flags
         /\ \A i \in 1 .. Len(p) : Live(p)[i] = Before(p[i], Live(p)[i + 1])
<1>1. \E L : Pass(p, 1, L)
  <2>1. Len(p) \in 0 .. Len(p) /\ Len(p) + 1 - Len(p) = 1
    OBVIOUS
  <2> QED
    BY <2>1, PassExists
<1>2. Live(p) = CHOOSE L : Pass(p, 1, L)
  BY DEF Live, Pass, Before
<1>3. Pass(p, 1, Live(p))
  BY <1>1, <1>2
<1>4. PICK L : L = Live(p)
  OBVIOUS
<1>5. L = [i \in 1 .. Len(p) + 1 |-> IF i = Len(p) + 1 THEN Flags ELSE Before(p[i], L[i + 1])]
  BY <1>3, <1>4 DEF Pass
<1>6. L[Len(p) + 1] = Flags /\ \A i \in 1 .. Len(p) : L[i] = Before(p[i], L[i + 1])
  BY <1>5
<1> QED
  BY <1>4, <1>6

\* What is live before an instruction: what is live after it and it does not
\* define, what it uses, and everything when it may fault.
LEMMA LiveAt ==
  ASSUME NEW p \in Block, NEW i \in 1 .. Len(p)
  PROVE  /\ Live(p)[i + 1] \ Instruction[p[i]].def \subseteq Live(p)[i]
         /\ Instruction[p[i]].use \subseteq Live(p)[i]
         /\ Instruction[p[i]].guard => Live(p)[i] = Flags
         /\ Live(p)[i] \subseteq Flags /\ Live(p)[i + 1] \subseteq Flags
<1>1. /\ Len(p) \in Nat /\ p[i] \in Kinds /\ DOMAIN p = 1 .. Len(p)
      /\ \A k \in 1 .. Len(p) : p[k] \in Kinds
  BY BlocksAre
<1>2. Live(p)[Len(p) + 1] = Flags /\ \A k \in 1 .. Len(p) : Live(p)[k] = Before(p[k], Live(p)[k + 1])
  BY <1>1, LiveIs
<1>3. \A x \in Kinds, s \in SUBSET Flags : Before(x, s) \subseteq Flags
  BY InstructionsAre DEF Before
<1>4. \A k \in 1 .. Len(p) + 1 : Live(p)[k] \subseteq Flags
  <2> DEFINE n == Len(p)
             T == {m \in 0 .. n : ~(Live(p)[n + 1 - m] \subseteq Flags)}
  <2>1. n \in Nat
    BY <1>1
  <2>2. T = {}
    <3> SUFFICES ASSUME T # {} PROVE FALSE
      OBVIOUS
    <3>1. T \in SUBSET Nat
      BY <2>1
    <3>2. PICK m \in T : \A l \in T : m <= l
      BY <3>1, Least
    <3>3. m # 0
      BY <1>2, <2>1, <3>2
    <3>4. m - 1 \in 0 .. n /\ ~(m <= m - 1)
      BY <2>1, <3>2, <3>3
    <3>5. Live(p)[n + 1 - (m - 1)] \subseteq Flags
      BY <3>2, <3>4
    <3>6. n + 1 - m \in 1 .. n /\ n + 1 - (m - 1) = (n + 1 - m) + 1
      BY <2>1, <3>2, <3>3
    <3>7. PICK k \in 1 .. n : k = n + 1 - m
      BY <3>6
    <3>8. Live(p)[k] = Before(p[k], Live(p)[k + 1]) /\ Live(p)[k + 1] \subseteq Flags /\ p[k] \in Kinds
      BY <1>1, <1>2, <3>5, <3>6, <3>7
    <3>9. Live(p)[k] \subseteq Flags
      BY <1>3, <3>8
    <3> QED
      BY <3>2, <3>7, <3>9
  <2> SUFFICES ASSUME NEW k \in 1 .. n + 1 PROVE Live(p)[k] \subseteq Flags
    OBVIOUS
  <2>3. n + 1 - k \in 0 .. n /\ n + 1 - (n + 1 - k) = k
    BY <2>1
  <2> QED
    BY <2>2, <2>3
<1>5. i \in 1 .. Len(p) + 1 /\ i + 1 \in 1 .. Len(p) + 1
  BY <1>1
<1>6. Live(p)[i] = Before(p[i], Live(p)[i + 1]) /\ Instruction[p[i]].use \subseteq Flags
  BY <1>1, <1>2, InstructionsAre
<1>7. Live(p)[i] \subseteq Flags /\ Live(p)[i + 1] \subseteq Flags
  BY <1>4, <1>5
<1> QED
  BY <1>6, <1>7 DEF Before

\* A flag that is not live somewhere is overwritten later, and nothing in
\* between faults or reads it.
LEMMA DeadUntil ==
  ASSUME NEW p \in Block, NEW i \in 1 .. Len(p), NEW f \in Flags, f \notin Live(p)[i + 1]
  PROVE  \E j \in i + 1 .. Len(p) :
            /\ f \in Instruction[p[j]].def
            /\ \A k \in i + 1 .. j : ~Instruction[p[k]].guard /\ f \notin Instruction[p[k]].use
<1> DEFINE n == Len(p)
           T == {m \in i + 1 .. n + 1 : f \in Live(p)[m]}
<1>1. n \in Nat
  BY BlocksAre
<1>2. n + 1 \in T
  BY <1>1, LiveIs
<1>3. T \in SUBSET Nat
  BY <1>1
<1>4. PICK m \in T : \A l \in T : m <= l
  BY <1>2, <1>3, Least
<1>5. m # i + 1 /\ m \in i + 1 .. n + 1
  BY <1>4
<1>6. PICK j \in i + 1 .. n : m = j + 1
  <2>1. m - 1 \in i + 1 .. n /\ m = (m - 1) + 1
    BY <1>1, <1>5
  <2> QED
    BY <2>1
<1>7. \A k \in i + 1 .. j : k \in 1 .. n /\ f \notin Live(p)[k]
  <2> SUFFICES ASSUME NEW k \in i + 1 .. j PROVE k \in 1 .. n /\ f \notin Live(p)[k]
    OBVIOUS
  <2>1. k \in 1 .. n /\ k \in i + 1 .. n + 1 /\ ~(m <= k)
    BY <1>1, <1>6
  <2> QED
    BY <1>4, <2>1
<1>8. \A k \in i + 1 .. j : ~Instruction[p[k]].guard /\ f \notin Instruction[p[k]].use
  BY <1>7, LiveAt
<1>9. f \in Live(p)[j + 1] /\ f \notin Live(p)[j] /\ j \in 1 .. n
  BY <1>4, <1>6, <1>7
<1>10. f \in Instruction[p[j]].def
  BY <1>9, LiveAt
<1> QED
  BY <1>6, <1>8, <1>10

-----------------------------------------------------------------------------
(***************************************************************************)
(* The emitted code.                                                       *)
(***************************************************************************)

\* The flags whose latest value is where a consumer would take it from: in
\* raw_flags while it is pending, in eflags otherwise.
Latest == {f \in Flags : IF f \in known THEN f \in raw ELSE f \in canon}

\* Inside a block: what is live is at its latest value; nothing is pending
\* where MUL may stand; what is not at its latest value was dropped, and has
\* not been overwritten yet.
InBlock ==
    /\ prog \in Block /\ ip \in 1 .. Len(prog) + 1 /\ Translatable(prog)
    /\ Live(prog)[ip] \subseteq Latest
    /\ MulMeetsNone(prog, ip) => known = {}
    /\ \A f \in Flags \ Latest : \E k \in 1 .. ip - 1 :
          /\ FlagsDead(prog, k) /\ f \in Instruction[prog[k]].def
          /\ \A j \in k + 1 .. ip - 1 : f \notin Instruction[prog[j]].def

\* The inductive invariant.
FlagsInv ==
    /\ TypeOK /\ stale = FALSE
    /\ ~running => prog = <<>> /\ canon = Flags
    /\ prog = <<>> => ip = 1 /\ Latest = Flags
    /\ prog # <<>> => InBlock

\* What a demand finds in eflags: the latest value of what it asks for, and
\* of what is not pending what was there.
LEMMA MaterializedIs ==
  ASSUME canon \subseteq Flags, known \subseteq Flags, raw \subseteq Flags, NEW mask \in SUBSET Flags
  PROVE  /\ Materialized(mask) \subseteq Flags /\ Materialized(Flags) = Latest
         /\ mask \cap Latest \subseteq Materialized(mask)
         /\ \A f \in Flags \ known : f \in Materialized(mask) <=> f \in canon
  BY DEF Materialized, Latest

\* What keeps MUL away from pending flags after an instruction did before it.
LEMMA MulBefore ==
  ASSUME NEW p, NEW i \in Nat, MulMeetsNone(p, i + 1), p[i] \notin CommitsBefore
  PROVE  MulMeetsNone(p, i) /\ p[i] \notin Saving \ {"setz"}
<1>1. PICK j \in 1 .. (i + 1) - 1 : /\ p[j] \in CommitsBefore
                                    /\ \A k \in j + 1 .. (i + 1) - 1 : p[k] \notin Saving \ {"setz"}
  BY DEF MulMeetsNone
<1>2. j # i /\ j \in 1 .. i - 1 /\ i \in j + 1 .. (i + 1) - 1
  BY <1>1
<1>3. \A k \in j + 1 .. i - 1 : k \in j + 1 .. (i + 1) - 1
  OBVIOUS
<1> QED
  BY <1>1, <1>2, <1>3 DEF MulMeetsNone

\* An instruction that is done keeps the invariant when it leaves what is live
\* after it at its latest value, nothing pending but what its kind allows, and
\* drops no flag but those it defines and the pass finds dead.
LEMMA Advance ==
  ASSUME FlagsInv, ip \in DOMAIN prog, Next1, stale' = FALSE,
         canon' \subseteq Flags, known' \subseteq Flags, raw' \subseteq Flags, lazy \/ known' = {},
         Live(prog)[ip + 1] \subseteq Latest',
         \/ known' = {}
         \/ prog[ip] \notin CommitsBefore /\ (known' = known \/ prog[ip] \in Saving \ {"setz"}),
         \A f \in Flags \ Latest' :
            \/ f \in Instruction[prog[ip]].def /\ FlagsDead(prog, ip)
            \/ f \notin Instruction[prog[ip]].def /\ f \notin Latest
  PROVE  FlagsInv'
<1>1. PICK p : p = prog
  OBVIOUS
<1>2. PICK i : i = ip
  OBVIOUS
<1>3. /\ p \in Block /\ i \in 1 .. Len(p) /\ p # <<>> /\ Len(p) \in 1 .. MaxBlock /\ InBlock /\ running
      /\ MaxBlock \in Nat
  <2>1. prog # <<>>
    OBVIOUS
  <2>2. InBlock /\ running
    BY <2>1 DEF FlagsInv
  <2>3. p \in Block
    BY <2>2, <1>1 DEF InBlock
  <2> QED
    BY <1>1, <1>2, <2>1, <2>2, <2>3, BlocksAre, BlockAssumption
<1>4. prog' = p /\ ip' = i + 1 /\ running' = running /\ lazy' = lazy
  BY <1>1, <1>2 DEF Next1
<1>5. Live(prog)[ip]' \subseteq Latest'
  BY <1>1, <1>2, <1>4
<1>6. MulMeetsNone(p, i + 1) => known' = {}
  <2> SUFFICES ASSUME MulMeetsNone(p, i + 1), p[i] \notin CommitsBefore,
                      known' = known \/ p[i] \in Saving \ {"setz"}
               PROVE  known' = {}
    BY <1>1, <1>2
  <2>1. MulMeetsNone(p, i) /\ p[i] \notin Saving \ {"setz"}
    BY <1>3, MulBefore
  <2> QED
    BY <1>1, <1>2, <1>3, <2>1 DEF InBlock
<1>7. ASSUME NEW f \in Flags \ Latest'
      PROVE  \E k \in 1 .. (i + 1) - 1 :
                /\ FlagsDead(p, k) /\ f \in Instruction[p[k]].def
                /\ \A j \in k + 1 .. (i + 1) - 1 : f \notin Instruction[p[j]].def
  <2>1. CASE f \in Instruction[p[i]].def /\ FlagsDead(p, i)
    <3>1. i \in 1 .. (i + 1) - 1 /\ i + 1 .. (i + 1) - 1 = {}
      BY <1>3
    <3> QED
      BY <2>1, <3>1
  <2>2. CASE f \notin Instruction[p[i]].def /\ f \notin Latest
    <3>1. PICK k \in 1 .. i - 1 : /\ FlagsDead(p, k) /\ f \in Instruction[p[k]].def
                                  /\ \A j \in k + 1 .. i - 1 : f \notin Instruction[p[j]].def
      BY <1>1, <1>2, <1>3, <2>2 DEF InBlock
    <3>2. k \in 1 .. (i + 1) - 1 /\ \A j \in k + 1 .. (i + 1) - 1 : j = i \/ j \in k + 1 .. i - 1
      BY <1>3
    <3> QED
      BY <2>2, <3>1, <3>2
  <2> QED
    BY <1>1, <1>2, <1>7, <2>1, <2>2
<1>8. i + 1 \in 1 .. Len(p) + 1 /\ i + 1 \in 1 .. MaxBlock + 1
  BY <1>3
<1>9. TypeOK'
  BY <1>3, <1>4, <1>8 DEF FlagsInv, TypeOK
<1>10. Translatable(p)'
  <2>1. Translatable(p)
    BY <1>1, <1>3 DEF InBlock
  <2> QED
    BY <2>1, <1>4 DEF Translatable
<1>11. InBlock'
  <2>1. prog' \in Block /\ ip' \in 1 .. Len(prog') + 1 /\ Translatable(prog)'
    BY <1>3, <1>4, <1>8, <1>10 DEF Translatable
  <2>2. MulMeetsNone(prog', ip') => known' = {}
    BY <1>4, <1>6
  <2>3. \A f \in Flags \ Latest' : \E k \in 1 .. ip' - 1 :
          /\ FlagsDead(prog', k) /\ f \in Instruction[prog'[k]].def
          /\ \A j \in k + 1 .. ip' - 1 : f \notin Instruction[prog'[j]].def
    BY <1>4, <1>7
  <2> QED
    BY <1>5, <2>1, <2>2, <2>3 DEF InBlock
<1> QED
  BY <1>3, <1>4, <1>9, <1>11 DEF FlagsInv

\* The engine commits what is pending: with every flag at its latest value
\* that returns all of them.
LEMMA Returned ==
  ASSUME FlagsInv, Latest = Flags, ToDispatcher
  PROVE  FlagsInv'
<1>1. canon \subseteq Flags /\ known \subseteq Flags /\ raw \subseteq Flags /\ lazy \in BOOLEAN /\ MaxBlock \in Nat
  BY BlockAssumption DEF FlagsInv, TypeOK
<1>2. canon' = Flags /\ known' = {} /\ raw' = raw /\ stale' = FALSE /\ prog' = <<>> /\ ip' = 1
      /\ running' = FALSE /\ lazy' = lazy
  BY <1>1, MaterializedIs DEF ToDispatcher, FlagsInv
<1>3. 1 \in 1 .. MaxBlock + 1
  BY <1>1
<1> QED
  BY <1>1, <1>2, <1>3 DEF FlagsInv, TypeOK, Latest

\* Where everything is live, everything is at its latest value.
LEMMA AllLive ==
  ASSUME FlagsInv, prog # <<>>
  PROVE  /\ prog \in Block /\ ip \in 1 .. Len(prog) + 1 /\ Len(prog) \in 1 .. MaxBlock
         /\ DOMAIN prog = 1 .. Len(prog) /\ running
         /\ ip = Len(prog) + 1 => Latest = Flags
         /\ ip \in DOMAIN prog => prog[ip] \in Kinds
         /\ ip \in DOMAIN prog /\ Instruction[prog[ip]].guard => Latest = Flags
<1>1. PICK p : p = prog
  OBVIOUS
<1>2. PICK i : i = ip
  OBVIOUS
<1>3. p \in Block /\ i \in 1 .. Len(p) + 1 /\ Live(p)[i] \subseteq Latest /\ running
  BY <1>1, <1>2 DEF FlagsInv, InBlock
<1>4. Len(p) \in 1 .. MaxBlock /\ Len(p) \in Nat /\ DOMAIN p = 1 .. Len(p) /\ \A k \in 1 .. Len(p) : p[k] \in Kinds
  BY <1>3, BlocksAre
<1>5. Latest \subseteq Flags
  BY DEF Latest
<1>6. i = Len(p) + 1 => Latest = Flags
  <2>1. Live(p)[Len(p) + 1] = Flags
    BY <1>4, LiveIs
  <2> QED
    BY <1>3, <1>5, <2>1
<1>7. i \in DOMAIN p /\ Instruction[p[i]].guard => Latest = Flags
  BY <1>3, <1>4, <1>5, LiveAt
<1> QED
  BY <1>1, <1>2, <1>3, <1>4, <1>6, <1>7

\* A producer or a consumer of flags.
LEMMA ExecuteKeeps ==
  ASSUME FlagsInv, Execute
  PROVE  FlagsInv' /\ (stale' = FALSE)
<1>1. PICK p : p = prog
  OBVIOUS
<1>2. PICK i : i = ip
  OBVIOUS
<1>3. ip \in DOMAIN prog /\ prog # <<>> /\ p[i] \in Saving
  BY <1>1, <1>2 DEF Execute, At
<1>4. p \in Block /\ i \in 1 .. Len(p) /\ p[i] \in Kinds /\ InBlock /\ running
  BY <1>1, <1>2, <1>3, AllLive DEF FlagsInv
<1>5. PICK d : d = Instruction[p[i]].def
  OBVIOUS
<1>6. PICK use : use = Instruction[p[i]].use
  OBVIOUS
<1>7. d \subseteq Flags /\ use \subseteq Flags
  BY <1>4, <1>5, <1>6, InstructionsAre
<1>8. canon \subseteq Flags /\ known \subseteq Flags /\ raw \subseteq Flags /\ lazy \in BOOLEAN
  BY DEF FlagsInv, TypeOK
<1>9. lazy \/ known = {}
  BY DEF FlagsInv, TypeOK
<1>10. PICK base : base = Materialized(use)
  OBVIOUS
<1>11. /\ base \subseteq Flags /\ use \cap Latest \subseteq base
       /\ \A f \in Flags \ known : f \in base <=> f \in canon
  BY <1>7, <1>8, <1>10, MaterializedIs
<1>12. Live(p)[i] \subseteq Latest
  BY <1>1, <1>2, <1>4 DEF InBlock
<1>13. /\ Live(p)[i + 1] \ d \subseteq Live(p)[i] /\ use \subseteq Live(p)[i] /\ Live(p)[i + 1] \subseteq Flags
  BY <1>4, <1>5, <1>6, LiveAt
<1>14. use \subseteq base
  BY <1>11, <1>12, <1>13
<1>15. stale' = FALSE /\ Next1
  BY <1>1, <1>2, <1>6, <1>10, <1>14 DEF Execute, FlagsInv
<1>16. PICK dead \in BOOLEAN : dead = FlagsDead(p, i)
  BY DEF FlagsDead
<1>17. dead <=> (d # {} /\ d \cap Live(p)[i + 1] = {})
  BY <1>5, <1>16 DEF FlagsDead
<1>18. Save(d, dead, base)
  BY <1>1, <1>2, <1>5, <1>6, <1>10, <1>16 DEF Execute
<1>19. PICK stored : stored = IF dead THEN {} ELSE d
  OBVIOUS
<1>20. IF lazy
       THEN /\ raw' = (raw \ d) \cup stored
            /\ canon' = base \ d
            /\ known' = IF stored = {} THEN known ELSE IF stored = Flags THEN Flags ELSE known \cup stored
       ELSE /\ raw' = raw \ d
            /\ canon' = (base \ d) \cup stored
            /\ known' = known
  BY <1>18, <1>19 DEF Save, KnownAfter
<1>21. stored \subseteq d
  BY <1>19
<1>22. canon' \subseteq Flags /\ known' \subseteq Flags /\ raw' \subseteq Flags /\ (lazy \/ known' = {})
  BY <1>7, <1>8, <1>9, <1>11, <1>20, <1>21
<1>23. \A f \in Flags \ d : f \in Latest' <=> f \in Latest
  <2> SUFFICES ASSUME NEW f \in Flags, f \notin d PROVE f \in Latest' <=> f \in Latest
    OBVIOUS
  <2>1. f \in raw' <=> f \in raw
    BY <1>20, <1>21
  <2>2. f \in known' <=> f \in known
    BY <1>9, <1>20, <1>21, <1>7
  <2>3. f \notin known => (f \in canon' <=> f \in canon)
    BY <1>11, <1>20, <1>21
  <2> QED
    BY <2>1, <2>2, <2>3 DEF Latest
<1>24. ~dead => d \subseteq Latest'
  <2> SUFFICES ASSUME ~dead, NEW f \in d PROVE f \in Latest'
    OBVIOUS
  <2>1. f \in stored /\ f \in Flags /\ stored # {}
    BY <1>7, <1>19
  <2>2. CASE lazy
    BY <2>1, <2>2, <1>20 DEF Latest
  <2>3. CASE ~lazy
    BY <2>1, <2>3, <1>9, <1>20 DEF Latest
  <2> QED
    BY <2>2, <2>3
<1>25. Live(p)[i + 1] \subseteq Latest'
  <2> SUFFICES ASSUME NEW f \in Live(p)[i + 1] PROVE f \in Latest'
    OBVIOUS
  <2>1. CASE f \in d
    BY <2>1, <1>17, <1>24
  <2>2. CASE f \notin d
    BY <2>2, <1>12, <1>13, <1>23
  <2> QED
    BY <2>1, <2>2
<1>26. known' = {} \/ (p[i] \notin CommitsBefore /\ (known' = known \/ p[i] \in Saving \ {"setz"}))
  <2>1. p[i] \notin CommitsBefore
    BY <1>3 DEF Saving, CommitsBefore, Shifts
  <2>2. p[i] = "setz" => known' = known
    BY <1>5, <1>20, <1>21, InstructionsAre
  <2> QED
    BY <2>1, <2>2, <1>3
<1>27. \A f \in Flags \ Latest' : (f \in d /\ FlagsDead(p, i)) \/ (f \notin d /\ f \notin Latest)
  BY <1>16, <1>23, <1>24
<1>28. FlagsInv'
  BY <1>1, <1>2, <1>3, <1>5, <1>15, <1>22, <1>25, <1>26, <1>27, Advance
<1> QED
  BY <1>15, <1>28

\* What a shift or a string compare works on: every flag committed to eflags,
\* those of w written there, unless the snapshot is dropped.
LEMMA CommittedKeeps ==
  ASSUME FlagsInv, ip \in DOMAIN prog, Next1, stale' = FALSE, known' = {},
         NEW w \in SUBSET Flags, w \subseteq Instruction[prog[ip]].def \/ Instruction[prog[ip]].guard,
         NEW stored \in SUBSET w, stored = w \/ (FlagsDead(prog, ip) /\ w \subseteq Instruction[prog[ip]].def),
         Instruction[prog[ip]].def \subseteq w \cup Instruction[prog[ip]].use,
         WriteCanonical(Materialized(Flags), w, stored)
  PROVE  FlagsInv'
<1>1. PICK p : p = prog
  OBVIOUS
<1>2. PICK i : i = ip
  OBVIOUS
<1>3. p \in Block /\ i \in 1 .. Len(p) /\ p[i] \in Kinds /\ InBlock
  <2>1. prog # <<>>
    OBVIOUS
  <2> QED
    BY <1>1, <1>2, <2>1, AllLive DEF FlagsInv
<1>4. PICK d : d = Instruction[p[i]].def
  OBVIOUS
<1>5. canon \subseteq Flags /\ known \subseteq Flags /\ raw \subseteq Flags
  BY DEF FlagsInv, TypeOK
<1>6. Materialized(Flags) = Latest /\ Latest \subseteq Flags
  BY <1>5, MaterializedIs DEF Latest
<1>7. canon' = (Latest \ w) \cup stored /\ raw' = raw \ w
  BY <1>6 DEF WriteCanonical
<1>8. Latest' = (Latest \ w) \cup stored
  BY <1>6, <1>7 DEF Latest
<1>9. Live(p)[i] \subseteq Latest
  BY <1>1, <1>2, <1>3 DEF InBlock
<1>10. /\ Live(p)[i + 1] \ d \subseteq Live(p)[i] /\ Instruction[p[i]].use \subseteq Live(p)[i]
       /\ Live(p)[i + 1] \subseteq Flags /\ (Instruction[p[i]].guard => Live(p)[i] = Flags)
  BY <1>3, <1>4, LiveAt
<1>11. d \subseteq w \cup Latest
  BY <1>1, <1>2, <1>4, <1>9, <1>10
<1>12. stored # w => w \cap Live(p)[i + 1] = {} /\ FlagsDead(p, i) /\ w \subseteq d
  BY <1>1, <1>2, <1>4 DEF FlagsDead
<1>13. Live(p)[i + 1] \subseteq Latest'
  BY <1>8, <1>9, <1>10, <1>11, <1>12
<1>14. \A f \in Flags \ Latest' : (f \in d /\ FlagsDead(p, i)) \/ (f \notin d /\ f \notin Latest)
  BY <1>8, <1>11, <1>12
<1>15. canon' \subseteq Flags /\ raw' \subseteq Flags
  BY <1>5, <1>6, <1>7
<1> QED
  BY <1>1, <1>2, <1>4, <1>13, <1>14, <1>15, Advance

\* Shifts commit what is pending, and may write no flag.
LEMMA ShiftKeeps ==
  ASSUME FlagsInv, Shift
  PROVE  FlagsInv'
<1>1. ip \in DOMAIN prog /\ prog[ip] \in {"shl", "shlcl"} /\ Next1 /\ stale' = FALSE
  BY DEF Shift, At, Shifts, FlagsInv
<1>2. prog[ip] \in CommitsBefore
  BY <1>1 DEF CommitsBefore, Shifts
<1>3. known' = {} /\ Committed(prog[ip]) = Materialized(Flags)
  BY <1>2 DEF Shift, KnownCommitted, Committed
<1>4. PICK w \in Written(prog[ip]) :
        WriteCanonical(Materialized(Flags), w, IF FlagsDead(prog, ip) THEN {} ELSE w)
  BY <1>3 DEF Shift
<1>5. PICK stored : stored = IF FlagsDead(prog, ip) THEN {} ELSE w
  OBVIOUS
<1>6. /\ w \in SUBSET Flags /\ w \subseteq Instruction[prog[ip]].def
      /\ Instruction[prog[ip]].def \subseteq w \cup Instruction[prog[ip]].use
  <2>1. CASE prog[ip] = "shl"
    BY <2>1, <1>4, InstructionsAre DEF Written, Flags
  <2>2. CASE prog[ip] = "shlcl"
    BY <2>2, <1>4, InstructionsAre DEF Written, Flags
  <2> QED
    BY <1>1, <2>1, <2>2
<1>7. stored \in SUBSET w /\ (stored = w \/ FlagsDead(prog, ip))
  BY <1>5
<1>8. WriteCanonical(Materialized(Flags), w, stored)
  BY <1>4, <1>5
<1> QED
  BY <1>1, <1>3, <1>6, <1>7, <1>8, CommittedKeeps

\* A string compare, which guards its memory, commits too.
LEMMA StringKeeps ==
  ASSUME FlagsInv, String
  PROVE  FlagsInv'
<1>1. ip \in DOMAIN prog /\ prog[ip] = "cmps" /\ Next1 /\ stale' = FALSE
  BY DEF String, At, FlagsInv
<1>2. known' = {} /\ Committed("cmps") = Materialized(Flags)
  BY DEF String, KnownCommitted, Committed, CommitsBefore
<1>3. PICK w \in {{}, Flags} : WriteCanonical(Materialized(Flags), w, w)
  BY <1>2 DEF String
<1>4. Instruction[prog[ip]].guard /\ Instruction[prog[ip]].def = {}
  BY <1>1 DEF Instruction, Ins
<1> QED
  BY <1>1, <1>2, <1>3, <1>4, CommittedKeeps

\* MUL replaces two flags of eflags: none of them is pending.
LEMMA MultiplyKeeps ==
  ASSUME MulHazard = FALSE, FlagsInv, Multiply
  PROVE  FlagsInv'
<1>1. PICK p : p = prog
  OBVIOUS
<1>2. PICK i : i = ip
  OBVIOUS
<1>3. ip \in DOMAIN prog /\ p[i] = "mul" /\ Next1 /\ stale' = FALSE /\ known' = known /\ prog # <<>>
  BY <1>1, <1>2 DEF Multiply, At, FlagsInv
<1>4. p \in Block /\ i \in 1 .. Len(p) /\ InBlock /\ DOMAIN p = 1 .. Len(p)
  BY <1>1, <1>2, <1>3, AllLive DEF FlagsInv
<1>5. canon \subseteq Flags /\ known \subseteq Flags /\ raw \subseteq Flags /\ (lazy \/ known = {})
  BY DEF FlagsInv, TypeOK
<1>6. known = {}
  <2>1. lazy => MulMeetsNone(p, i)
    BY <1>1, <1>3, <1>4 DEF InBlock, Translatable
  <2> QED
    BY <1>1, <1>2, <1>4, <1>5, <2>1 DEF InBlock
<1>7. {"C", "O"} \subseteq Flags
  BY DEF Flags
<1>8. canon' = canon \cup {"C", "O"} /\ raw' = raw \ {"C", "O"}
  BY DEF Multiply, WriteCanonical
<1>9. Latest \subseteq Latest' /\ Latest \subseteq Flags
  BY <1>3, <1>6, <1>8 DEF Latest
<1>10. Instruction[p[i]].def = {}
  BY <1>3, InstructionsAre
<1>11. Live(p)[i + 1] \subseteq Live(p)[i]
  BY <1>4, <1>10, LiveAt
<1>12. Live(p)[i] \subseteq Latest
  BY <1>1, <1>2, <1>4 DEF InBlock
<1> QED
  BY <1>1, <1>2, <1>3, <1>5, <1>6, <1>7, <1>8, <1>9, <1>10, <1>11, <1>12, Advance

\* A division that succeeds leaves the flags alone.
LEMMA DivideKeeps ==
  ASSUME FlagsInv, Divide
  PROVE  FlagsInv'
<1>1. PICK p : p = prog
  OBVIOUS
<1>2. PICK i : i = ip
  OBVIOUS
<1>3. /\ ip \in DOMAIN prog /\ p[i] = "div" /\ Next1 /\ stale' = FALSE /\ prog # <<>>
      /\ known' = known /\ canon' = canon /\ raw' = raw
  BY <1>1, <1>2 DEF Divide, At, FlagsInv
<1>4. p \in Block /\ i \in 1 .. Len(p) /\ InBlock
  BY <1>1, <1>2, <1>3, AllLive DEF FlagsInv
<1>5. canon \subseteq Flags /\ known \subseteq Flags /\ raw \subseteq Flags /\ (lazy \/ known = {})
  BY DEF FlagsInv, TypeOK
<1>6. Latest' = Latest
  BY <1>3 DEF Latest
<1>7. Instruction[p[i]].def = {} /\ p[i] \notin CommitsBefore
  BY <1>3, InstructionsAre DEF CommitsBefore, Shifts
<1>8. Live(p)[i + 1] \subseteq Live(p)[i]
  BY <1>4, <1>7, LiveAt
<1>9. Live(p)[i] \subseteq Latest
  BY <1>1, <1>2, <1>4 DEF InBlock
<1> QED
  BY <1>1, <1>2, <1>3, <1>5, <1>6, <1>7, <1>8, <1>9, Advance

\* A trap finds every dropped flag overwritten.
LEMMA TrapKeeps ==
  ASSUME TrapHazard = FALSE, FlagsInv, DivideTraps
  PROVE  FlagsInv'
<1>1. PICK p : p = prog
  OBVIOUS
<1>2. PICK i : i = ip
  OBVIOUS
<1>3. i \in DOMAIN p /\ p[i] = "div" /\ prog # <<>> /\ ToDispatcher
  BY <1>1, <1>2 DEF DivideTraps, At
<1>4. InBlock
  BY <1>3 DEF FlagsInv
<1>5. TrapMeetsNone(p, i)
  BY <1>1, <1>3, <1>4 DEF InBlock, Translatable
<1>6. Latest = Flags
  <2> SUFFICES ASSUME NEW f \in Flags \ Latest PROVE FALSE
    BY DEF Latest
  <2>1. PICK k \in 1 .. i - 1 : /\ FlagsDead(p, k) /\ f \in Instruction[p[k]].def
                                /\ \A j \in k + 1 .. i - 1 : f \notin Instruction[p[j]].def
    BY <1>1, <1>2, <1>4 DEF InBlock
  <2> QED
    BY <1>5, <2>1 DEF TrapMeetsNone
<1> QED
  BY <1>3, <1>6, Returned

\* A block is entered with every flag at its latest value, and left so.
LEMMA EnterKeeps ==
  ASSUME FlagsInv, EnterBlock
  PROVE  FlagsInv'
<1>1. PICK p \in Block : Translatable(p) /\ prog' = p
  BY DEF EnterBlock
<1>2. /\ prog = <<>> /\ running' = TRUE /\ ip' = 1 /\ lazy' = lazy /\ canon' = canon /\ known' = known
      /\ raw' = raw /\ stale' = stale
  BY DEF EnterBlock
<1>3. Latest' = Flags /\ stale' = FALSE
  BY <1>2 DEF FlagsInv, Latest
<1>4. Len(p) \in 1 .. MaxBlock /\ Len(p) \in Nat /\ MaxBlock \in Nat /\ 1 \in 1 .. MaxBlock + 1
  BY BlocksAre, BlockAssumption
<1>5. Live(p)[1] \subseteq Flags /\ 1 \in 1 .. Len(p) + 1
  BY <1>4, LiveAt
<1>6. ~MulMeetsNone(p, 1)
  BY DEF MulMeetsNone
<1>7. Translatable(p)'
  BY <1>1, <1>2 DEF Translatable
<1>8. InBlock'
  <2>1. prog' \in Block /\ ip' \in 1 .. Len(prog') + 1 /\ Live(prog')[ip'] \subseteq Latest'
    BY <1>1, <1>2, <1>3, <1>5
  <2>2. ~MulMeetsNone(prog', ip')
    BY <1>1, <1>2, <1>6
  <2>3. Translatable(prog)'
    BY <1>1, <1>2 DEF Translatable
  <2> QED
    BY <2>1, <2>2, <2>3, <1>3 DEF InBlock
<1>9. p # <<>>
  BY <1>4
<1>10. TypeOK'
  BY <1>1, <1>2, <1>3, <1>4 DEF FlagsInv, TypeOK
<1> QED
  BY <1>1, <1>2, <1>3, <1>8, <1>9, <1>10 DEF FlagsInv

\* A link hands over what is pending to the next block.
LEMMA LinkKeeps ==
  ASSUME FlagsInv, LinkedExit
  PROVE  FlagsInv'
<1>1. /\ prog # <<>> /\ ip = Len(prog) + 1 /\ prog' = <<>> /\ ip' = 1 /\ lazy' = lazy /\ running' = running
      /\ canon' = canon /\ known' = known /\ raw' = raw /\ stale' = stale
  BY DEF LinkedExit, AtExit
<1>2. Latest = Flags /\ running /\ 1 \in 1 .. MaxBlock + 1
  BY <1>1, AllLive, BlockAssumption
<1>3. Latest' = Latest
  BY <1>1 DEF Latest
<1> QED
  BY <1>1, <1>2, <1>3 DEF FlagsInv, TypeOK

\* Every step of the engine.
LEMMA FlagsStep ==
  ASSUME MulHazard = FALSE, TrapHazard = FALSE, FlagsInv, [Next]_vars
  PROVE  FlagsInv'
<1>1. CASE UNCHANGED vars
  BY <1>1 DEF vars, FlagsInv, TypeOK, Latest, InBlock, Translatable
<1>2. CASE GuardFails
  <2>1. prog # <<>> /\ ip \in DOMAIN prog /\ Instruction[prog[ip]].guard /\ ToDispatcher
    BY <1>2 DEF GuardFails
  <2> QED
    BY <2>1, AllLive, Returned
<1>3. CASE Leave
  BY <1>3, AllLive, Returned DEF Leave, AtExit
<1> QED
  BY <1>1, <1>2, <1>3, EnterKeeps, ExecuteKeeps, ShiftKeeps, StringKeeps, MultiplyKeeps, DivideKeeps, TrapKeeps,
     LinkKeeps DEF Next

\* The engine starts with nothing pending.
LEMMA FlagsStart == Init => FlagsInv
<1> SUFFICES ASSUME Init PROVE FlagsInv
  OBVIOUS
<1>1. 1 \in 1 .. MaxBlock + 1
  BY BlockAssumption
<1>2. TypeOK
  BY <1>1 DEF Init, TypeOK
<1>3. Latest = Flags
  BY DEF Init, Latest
<1> QED
  BY <1>2, <1>3 DEF Init, FlagsInv

\* The invariant holds of every behaviour in which MUL meets no pending flag
\* and no trap a dropped one.
LEMMA FlagsInvariant ==
  ASSUME MulHazard = FALSE, TrapHazard = FALSE
  PROVE  Spec => []FlagsInv
<1>1. FlagsInv /\ [Next]_vars => FlagsInv'
  BY FlagsStep
<1> QED
  BY <1>1, FlagsStart, PTL DEF Spec

\* Each variable has its type, and nothing is pending in eager mode or in the
\* dispatcher.
THEOREM FlagsTyped == ASSUME MulHazard = FALSE, TrapHazard = FALSE PROVE Spec => []TypeOK
<1>1. FlagsInv => TypeOK
  BY DEF FlagsInv
<1> QED
  BY <1>1, FlagsInvariant, PTL

\* No instruction of any block reads a stale flag, whatever is dropped and
\* whatever is pending when the block is entered.
THEOREM NeverStale == ASSUME MulHazard = FALSE, TrapHazard = FALSE PROVE Spec => []NoStaleRead
<1>1. FlagsInv => NoStaleRead
  BY DEF FlagsInv, NoStaleRead
<1> QED
  BY <1>1, FlagsInvariant, PTL

\* The dispatcher finds every flag in eflags, after an exit as after a fault.
THEOREM FlagsAlwaysReturned == ASSUME MulHazard = FALSE, TrapHazard = FALSE PROVE Spec => []FlagsReturned
<1>1. FlagsInv => FlagsReturned
  BY DEF FlagsInv, FlagsReturned
<1> QED
  BY <1>1, FlagsInvariant, PTL

\* What is executed is a block, or nothing.
SomeBlock == prog \in Block \cup {<<>>}

\* What the liveness pass drops is overwritten before anything can see it: of
\* every block there is.
THEOREM DeadAlwaysOverwritten == Spec => []DeadIsOverwritten
<1>1. ASSUME NEW p \in Block, NEW i \in 1 .. Len(p), FlagsDead(p, i), NEW f \in Instruction[p[i]].def
      PROVE  \E j \in i + 1 .. Len(p) :
                /\ f \in Instruction[p[j]].def
                /\ \A k \in i + 1 .. j : ~Instruction[p[k]].guard /\ f \notin Instruction[p[k]].use
  <2>1. f \in Flags /\ f \notin Live(p)[i + 1]
    BY <1>1, BlocksAre, InstructionsAre DEF FlagsDead
  <2> QED
    BY <2>1, DeadUntil
<1>2. Init => SomeBlock
  BY DEF Init, SomeBlock
<1>3. SomeBlock /\ [Next]_vars => SomeBlock'
  BY DEF SomeBlock, Next, vars, EnterBlock, Execute, Shift, String, Multiply, Divide, DivideTraps, GuardFails,
         LinkedExit, Leave, Next1, ToDispatcher
<1>4. SomeBlock => DeadIsOverwritten
  <2>1. prog = <<>> => DOMAIN prog = {}
    OBVIOUS
  <2>2. prog \in Block => DOMAIN prog = 1 .. Len(prog)
    BY BlocksAre
  <2> QED
    BY <1>1, <2>1, <2>2 DEF SomeBlock, DeadIsOverwritten
<1> QED
  BY <1>2, <1>3, <1>4, PTL DEF Spec
=============================================================================
