--------------------------- MODULE X86Regs_proofs ---------------------------
(***************************************************************************)
(* Proof that resident guest registers are never lost, for every set of     *)
(* guest registers and every number of host registers, provided the         *)
(* instruction forms that bypass residency touch no register they corrupt.  *)
(***************************************************************************)
EXTENDS X86Regs, TLAPS

\* Inductive: what a block may assume of each register at each point of it.
IInv == TypeOK /\ OperandsCurrent /\ CanonicalCurrent /\ CleanIsCanonical

\* A contract names each resident register's host register uniquely.
LEMMA HostOfResident ==
  ASSUME map \in Contract, NEW r \in Resident(map)
  PROVE  /\ HostOf(r) \in Hosts /\ map[HostOf(r)] = r
         /\ r \in Regs
         /\ \A h \in Hosts : map[h] = r => h = HostOf(r)
<1>1. PICK h \in Hosts : map[h] = r
  BY DEF Resident
<1>2. HostOf(r) \in Hosts /\ map[HostOf(r)] = r
  BY <1>1 DEF HostOf
<1>3. r # NoReg
  BY DEF Resident
<1>4. QED
  BY <1>1, <1>2, <1>3 DEF Contract

\* Within a block, spilling the dirty registers makes PwX86State complete.
LEMMA SpilledComplete ==
  ASSUME IInv, inBlock
  PROVE  Spilled(dirty) = Regs
<1>1. \A r \in Regs \ dirty : r \in mem
  BY DEF IInv, CleanIsCanonical
<1>2. \A r \in dirty : Holds(r)
  BY DEF IInv, TypeOK, OperandsCurrent, Contract, Resident
<1>3. mem \subseteq Regs /\ dirty \subseteq Regs
  BY DEF IInv, TypeOK, Contract, Resident
<1>4. QED
  BY <1>1, <1>2, <1>3 DEF Spilled

\* Spilling one register before part of it is updated completes that register.
LEMMA SpilledOne ==
  ASSUME IInv, inBlock, NEW r \in Regs
  PROVE  Spilled({r} \cap dirty) = mem \cup {r}
<1>1. CASE r \in dirty
  <2>1. Holds(r)
    BY <1>1 DEF IInv, TypeOK, OperandsCurrent
  <2>2. {r} \cap dirty = {r}
    BY <1>1
  <2>3. QED
    BY <2>1, <2>2 DEF Spilled
<1>2. CASE r \notin dirty
  <2>1. r \in mem
    BY <1>2 DEF IInv, CleanIsCanonical
  <2>2. {r} \cap dirty = {}
    BY <1>2
  <2>3. QED
    BY <2>1, <2>2 DEF Spilled
<1>3. QED
  BY <1>1, <1>2

\* Entering at the canonical entry from a complete PwX86State.
LEMMA EnterPreserves ==
  ASSUME NEW m \in Contract, EnterCanonical(m, Regs), mem' = Regs, stale' = {}
  PROVE  IInv'
<1> USE DEF EnterCanonical
<1>1. \A h \in Hosts : m[h] \in Regs \cup {NoReg}
  BY DEF Contract
<1>2. host' \in [Hosts -> Regs \cup {NoReg}]
  BY <1>1 DEF Loaded
<1>3. TypeOK'
  BY <1>2 DEF TypeOK, DirtyAtEntry
<1>4. OperandsCurrent'
  <2> SUFFICES ASSUME NEW r \in Resident(map') PROVE Holds(r)'
    BY DEF OperandsCurrent
  <2>1. PICK h \in Hosts : m[h] = r
    BY DEF Resident
  <2>2. HostOf(r)' \in Hosts /\ m[HostOf(r)'] = r
    BY <2>1 DEF HostOf
  <2>3. r \in Regs
    BY <1>1, <2>1 DEF Resident
  <2>4. QED
    BY <2>2, <2>3 DEF Holds, Loaded
<1>5. QED
  BY <1>3, <1>4 DEF IInv, CanonicalCurrent, CleanIsCanonical

\* Going back to the dispatcher with a complete PwX86State.
LEMMA LeavePreserves ==
  ASSUME IInv, ToDispatcher(Regs)
  PROVE  IInv'
<1>1. TypeOK'
  BY DEF ToDispatcher, IInv, TypeOK
<1>2. QED
  BY <1>1 DEF ToDispatcher, IInv, OperandsCurrent, CanonicalCurrent, CleanIsCanonical

\* A partial update of r, whose canonical copy is current just before it.
LEMMA UpdatePreserves ==
  ASSUME IInv, inBlock, NEW r \in Regs, UpdatePart(r, mem \cup {r}),
         stale' = {}, UNCHANGED <<inBlock, map>>
  PROVE  IInv'
<1> USE DEF UpdatePart
<1>1. map \in Contract /\ mem \subseteq Regs /\ dirty \subseteq Resident(map)
      /\ host \in [Hosts -> Regs \cup {NoReg}]
  BY DEF IInv, TypeOK
<1>2. \A q \in Resident(map) : host[HostOf(q)] = q /\ q \in Regs
  BY <1>1, HostOfResident DEF IInv, OperandsCurrent, Holds
<1>3. \A q \in Resident(map) : host'[HostOf(q)] = q
  <2> SUFFICES ASSUME NEW q \in Resident(map) PROVE host'[HostOf(q)] = q
    OBVIOUS
  <2>1. HostOf(q) \in Hosts /\ map[HostOf(q)] = q
    BY <1>1, HostOfResident
  <2>2. CASE q = r
    BY <2>1, <2>2 DEF Outdated
  <2>3. CASE q # r
    <3>1. HostOf(q) # HostOf(r) \/ r \notin Resident(map)
      BY <1>1, <2>1, <2>3, HostOfResident
    <3>2. QED
      BY <1>2, <2>1, <2>3, <3>1 DEF Outdated
  <2>4. QED
    BY <2>2, <2>3
<1>4. TypeOK'
  <2>1. host' \in [Hosts -> Regs \cup {NoReg}]
    BY <1>1 DEF Outdated
  <2>2. dirty' \subseteq Resident(map)
    BY <1>1
  <2>3. QED
    BY <1>1, <2>1, <2>2 DEF IInv, TypeOK, Resident
<1>5. OperandsCurrent'
  <2>1. \A q \in Regs : q \in Resident(map) \/ q \in mem
    BY DEF IInv, OperandsCurrent
  <2>2. QED
    BY <1>3, <2>1 DEF OperandsCurrent, Holds, HostOf, Resident
<1>6. CleanIsCanonical'
  <2>1. \A q \in Regs \ dirty : q \in mem
    BY DEF IInv, CleanIsCanonical
  <2>2. QED
    BY <2>1 DEF CleanIsCanonical
<1>7. QED
  BY <1>4, <1>5, <1>6 DEF IInv, CanonicalCurrent

\* A raw operand without an update of its own is current in PwX86State.
LEMMA RawReadsCurrent ==
  ASSUME RawHazard = FALSE, IInv, inBlock, NEW r \in Regs, NEW s \in Regs,
         RawRead({r, s})
  PROVE  mem \cup {r} = mem /\ stale' = {}
<1>1. r \notin dirty /\ s \notin dirty
  BY DEF RawRead
<1>2. r \in mem /\ s \in mem
  BY <1>1 DEF IInv, CleanIsCanonical
<1>3. QED
  BY <1>2 DEF RawRead, IInv, OperandsCurrent

\* The initial state, in the dispatcher, has everything in PwX86State.
LEMMA InitInv == Init => IInv
<1> SUFFICES ASSUME Init PROVE IInv
  OBVIOUS
<1> USE DEF Init
<1>1. TypeOK
  BY DEF TypeOK, Contract, Resident
<1>2. QED
  BY <1>1 DEF IInv, OperandsCurrent, CanonicalCurrent, CleanIsCanonical

\* Every step of a block, a link or the dispatcher keeps the invariant.
LEMMA NextInv ==
  ASSUME RawHazard = FALSE, IInv, [Next]_vars
  PROVE  IInv'
<1>1. ASSUME NEW m \in Contract, Dispatch(m) PROVE IInv'
  <2>1. mem = Regs /\ stale = {}
    BY <1>1 DEF Dispatch, IInv, CanonicalCurrent, OperandsCurrent
  <2>2. QED
    BY <1>1, <2>1, EnterPreserves DEF Dispatch
<1>2. ASSUME NEW m \in Contract, ChainMatching(m) PROVE IInv'
  <2> USE <1>2 DEF ChainMatching, ContractsMatch
  <2>1. map' = map
    OBVIOUS
  <2>2. TypeOK'
    BY <2>1 DEF IInv, TypeOK, DirtyAtEntry
  <2>3. OperandsCurrent'
    BY <2>1 DEF IInv, OperandsCurrent, Holds, HostOf, Resident
  <2>4. CleanIsCanonical'
    BY DEF IInv, OperandsCurrent, CleanIsCanonical, DirtyAtEntry
  <2>5. QED
    BY <2>2, <2>3, <2>4 DEF IInv, CanonicalCurrent
<1>3. ASSUME NEW m \in Contract, ChainReconciled(m) PROVE IInv'
  BY <1>3, SpilledComplete, EnterPreserves DEF ChainReconciled, IInv, OperandsCurrent
<1>4. ASSUME NEW r \in Regs, Write(r) PROVE IInv'
  <2> USE <1>4 DEF Write
  <2>1. map \in Contract /\ mem \subseteq Regs /\ dirty \subseteq Resident(map)
        /\ host \in [Hosts -> Regs \cup {NoReg}]
    BY DEF IInv, TypeOK
  <2>2. \A q \in Resident(map) : host[HostOf(q)] = q /\ q \in Regs
    BY <2>1, HostOfResident DEF IInv, OperandsCurrent, Holds
  <2>3. \A q \in Resident(map) : host'[HostOf(q)] = q
    <3> SUFFICES ASSUME NEW q \in Resident(map) PROVE host'[HostOf(q)] = q
      OBVIOUS
    <3>1. HostOf(q) \in Hosts /\ map[HostOf(q)] = q
      BY <2>1, HostOfResident
    <3>2. CASE q = r
      BY <2>1, <3>1, <3>2 DEF Outdated
    <3>3. CASE q # r
      <4>1. HostOf(q) # HostOf(r) \/ r \notin Resident(map)
        BY <2>1, <3>1, <3>3, HostOfResident
      <4>2. QED
        BY <2>1, <2>2, <3>1, <3>3, <4>1 DEF Outdated
    <3>4. QED
      BY <3>2, <3>3
  <2>4. TypeOK'
    <3>1. host' \in [Hosts -> Regs \cup {NoReg}]
      BY <2>1 DEF Outdated
    <3>2. dirty' \subseteq Resident(map) /\ mem' \subseteq Regs
      BY <2>1
    <3>3. QED
      BY <2>1, <3>1, <3>2 DEF IInv, TypeOK, Resident
  <2>5. OperandsCurrent'
    <3>1. \A q \in Regs : q \in Resident(map) \/ q \in mem
      BY DEF IInv, OperandsCurrent
    <3>2. QED
      BY <2>3, <3>1 DEF IInv, OperandsCurrent, Holds, HostOf, Resident
  <2>6. CleanIsCanonical'
    <3>1. \A q \in Regs \ dirty : q \in mem
      BY DEF IInv, CleanIsCanonical
    <3>2. QED
      BY <3>1 DEF CleanIsCanonical
  <2>7. QED
    BY <2>4, <2>5, <2>6 DEF IInv, CanonicalCurrent
<1>5. ASSUME NEW r \in Regs, PartialWrite(r) PROVE IInv'
  BY <1>5, SpilledOne, UpdatePreserves DEF PartialWrite, IInv, OperandsCurrent
<1>6. ASSUME NEW r \in Regs, NEW s \in Regs, RawPartialWrite(r, s) PROVE IInv'
  <2>1. inBlock /\ RawRead({r, s})
    BY <1>6 DEF RawPartialWrite
  <2>2. mem \cup {r} = mem /\ stale' = {}
    BY <2>1, RawReadsCurrent
  <2>3. QED
    BY <1>6, <2>2, UpdatePreserves DEF RawPartialWrite
<1>12. ASSUME NEW r \in Regs, NEW s \in Regs, RawCompare(r, s) PROVE IInv'
  <2>1. inBlock /\ RawRead({r, s}) /\ UNCHANGED <<inBlock, map, dirty, mem, host>>
    BY <1>12 DEF RawCompare
  <2>2. stale' = {}
    BY <2>1, RawReadsCurrent
  <2>3. QED
    BY <2>1, <2>2 DEF IInv, TypeOK, OperandsCurrent, CanonicalCurrent,
                      CleanIsCanonical, Holds, HostOf, Resident
<1>7. CASE Guard
  <2>1. Spilled(dirty) = Regs
    BY <1>7, SpilledComplete DEF Guard
  <2>2. CASE ToDispatcher(Spilled(dirty))
    BY <2>1, <2>2, LeavePreserves
  <2>3. CASE mem' = Spilled(dirty) /\ dirty' = {} /\ UNCHANGED <<inBlock, map, host, stale>>
    <3>1. TypeOK'
      BY <2>1, <2>3 DEF IInv, TypeOK
    <3>2. OperandsCurrent'
      BY <2>1, <2>3 DEF IInv, OperandsCurrent, Holds, HostOf, Resident
    <3>3. QED
      BY <2>1, <2>3, <3>1, <3>2 DEF IInv, CanonicalCurrent, CleanIsCanonical
  <2>4. QED
    BY <1>7, <2>2, <2>3 DEF Guard
<1>8. CASE ByteStore
  <2> USE <1>8 DEF ByteStore
  <2>1. mem' = Regs
    BY SpilledComplete
  <2>2. TypeOK'
    BY <2>1 DEF IInv, TypeOK
  <2>3. OperandsCurrent'
    <3>1. \A q \in Resident(map) : HostOf(q) # 0 /\ host[HostOf(q)] = q
      BY HostOfResident DEF IInv, TypeOK, OperandsCurrent, Holds, Resident
    <3>2. \A q \in Resident(map) : host'[HostOf(q)] = q
      BY <3>1 DEF IInv, TypeOK
    <3>3. QED
      BY <2>1, <3>2 DEF IInv, OperandsCurrent, Holds, HostOf, Resident
  <2>4. QED
    BY <2>1, <2>2, <2>3 DEF IInv, CanonicalCurrent, CleanIsCanonical
<1>9. CASE Helper
  <2>1. Spilled(dirty) = Regs
    BY <1>9, SpilledComplete DEF Helper
  <2>2. CASE ToDispatcher(Spilled(dirty))
    BY <2>1, <2>2, LeavePreserves
  <2>3. CASE /\ mem' = Spilled(dirty) /\ dirty' = {}
             /\ host' = Loaded(map, Spilled(dirty))
             /\ UNCHANGED <<inBlock, map, stale>>
    <3>1. map \in Contract
      BY DEF IInv, TypeOK
    <3>2. TypeOK'
      BY <2>1, <2>3, <3>1 DEF IInv, TypeOK, Loaded, Contract
    <3>3. \A q \in Resident(map) : host'[HostOf(q)] = q
      BY <2>1, <2>3, <3>1, HostOfResident DEF Loaded
    <3>4. OperandsCurrent'
      BY <2>1, <2>3, <3>3 DEF IInv, OperandsCurrent, Holds, HostOf, Resident
    <3>5. QED
      BY <1>9, <2>1, <2>3, <3>2, <3>4 DEF Helper, IInv, CanonicalCurrent, CleanIsCanonical
  <2>4. QED
    BY <1>9, <2>2, <2>3 DEF Helper
<1>10. CASE Leave
  BY <1>10, SpilledComplete, LeavePreserves DEF Leave
<1>11. CASE UNCHANGED vars
  BY <1>11 DEF vars, IInv, TypeOK, OperandsCurrent, CanonicalCurrent,
               CleanIsCanonical, Holds, HostOf, Resident
<1>13. QED
  BY <1>1, <1>2, <1>3, <1>4, <1>5, <1>6, <1>7, <1>8, <1>9, <1>10, <1>11, <1>12
  DEF Next

\* The invariant holds in every reachable state, with any number of registers.
THEOREM Invariance == ASSUME RawHazard = FALSE PROVE Spec => []IInv
<1>1. Init => IInv
  BY InitInv
<1>2. IInv /\ [Next]_vars => IInv'
  BY NextInv
<1>3. QED
  BY <1>1, <1>2, PTL DEF Spec

\* Every read of a guest register by translated code gets its latest value.
THEOREM OperandsAlwaysCurrent ==
  ASSUME RawHazard = FALSE PROVE Spec => []OperandsCurrent
<1>1. IInv => OperandsCurrent
  BY DEF IInv
<1>2. QED
  BY <1>1, Invariance, PTL

\* Every exit, fault and helper failure leaves PwX86State complete.
THEOREM CanonicalAlwaysCurrent ==
  ASSUME RawHazard = FALSE PROVE Spec => []CanonicalCurrent
<1>1. IInv => CanonicalCurrent
  BY DEF IInv
<1>2. QED
  BY <1>1, Invariance, PTL

\* Every variable keeps its type, and only resident registers are marked dirty.
THEOREM TypeCorrect == ASSUME RawHazard = FALSE PROVE Spec => []TypeOK
<1>1. IInv => TypeOK
  BY DEF IInv
<1>2. QED
  BY <1>1, Invariance, PTL

\* A register that is not marked dirty can be left unspilled.
THEOREM CleanAlwaysCanonical ==
  ASSUME RawHazard = FALSE PROVE Spec => []CleanIsCanonical
<1>1. IInv => CleanIsCanonical
  BY DEF IInv
<1>2. QED
  BY <1>1, Invariance, PTL
=============================================================================
