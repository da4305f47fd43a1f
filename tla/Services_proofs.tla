--------------------------- MODULE Services_proofs ---------------------------
(***************************************************************************)
(* The registry survives whatever stops the runtime, and the native titles *)
(* hold what the hardware may still use, for every number of slots, path,  *)
(* value and frame.  The registry's argument is that every image saved is  *)
(* one the next start accepts and gives the registry back from, and that   *)
(* the file is whole and safe whenever it is replaced (StateInv); the      *)
(* titles' is that the events, the flips on their way and the command      *)
(* buffers of the GPU are, one after the other, the buffers sent and not   *)
(* retired, and that a fence waited for is down (StageInv).  The guest's    *)
(* x87 unit is precise because whatever an instruction comes to, its       *)
(* registers and tags tell the same (FpPrecise).  And the guest's heap     *)
(* serves it as HeapService asks (HpInv).                                  *)
(***************************************************************************)
EXTENDS Services, Desktop_proofs

-----------------------------------------------------------------------------
(* The registry and its file.                                              *)

\* What a registry and an image are made of.
Paths == Seq(Components)
Keys == [path : Paths, opens : 0 .. MaxOpens]
Vals == [key : Nat, name : ValueNames, data : ValueData]
Regs == [keys : Seq(Keys), vals : Seq(Vals)]
PathVals == [path : Paths, name : ValueNames, data : ValueData]
StateImages == [keys : Seq(Paths), vals : Seq(PathVals)]
FileRecs == [image : StateImages, whole : BOOLEAN, safe : BOOLEAN, exists : BOOLEAN]

\* A registry the code can make: it fits, keys are distinct and not empty, and
\* each value has its key.
RegOk(r) ==
    /\ r \in Regs /\ Len(r.keys) <= KeySlots /\ Len(r.vals) <= ValueSlots
    /\ \A i \in DOMAIN r.keys : r.keys[i].path # <<>> /\ Len(r.keys[i].path) <= MaxPath
    /\ \A i, j \in DOMAIN r.keys : r.keys[i].path = r.keys[j].path => i = j
    /\ \A i \in DOMAIN r.vals : r.vals[i].key \in DOMAIN r.keys

\* An image the next start accepts, and makes such a registry of.
ImageOk(m) ==
    /\ m \in StateImages /\ Decodes(m)
    /\ \A i \in DOMAIN m.keys : Len(m.keys[i]) <= MaxPath
    /\ \A i, j \in DOMAIN m.keys : m.keys[i] = m.keys[j] => i = j

\* A file a crash leaves as it is, and which was saved.
Kept(f) == f \in FileRecs /\ f.safe /\ (f.exists => f.whole /\ f.image \in ToSet(acked))

StateInv ==
    /\ RegOk(reg) /\ gen \in 0 .. MaxChanges /\ saved \in 0 .. gen
    /\ run \in RunStates \ {"refused"}
    /\ acked \in Seq(StateImages) /\ acked # <<>> /\ \A i \in DOMAIN acked : ImageOk(acked[i])
    /\ ImageOk(buffer)
    /\ Kept(file) /\ Kept(before) /\ tmp \in FileRecs
    /\ file.exists => file.image = acked[Len(acked)] \/ file = before
    /\ run \in {"opened", "written", "synced", "closed"} => buffer = Encoded(reg)
    /\ run = "written" => tmp = File(buffer, TRUE, FALSE)
    /\ run \in {"synced", "closed"} => tmp = File(buffer, TRUE, TRUE)
    /\ gen # 0 /\ gen = saved => file.image = Encoded(reg)
    /\ closing \in {"no", "yes", "ok", "failed"} /\ (run = "done" <=> closing \in {"ok", "failed"})
    /\ closing = "ok" /\ gen # 0 => file.image = Encoded(reg)

\* pw_registry's lookup of a key by its path.
LEMMA KeyAt ==
  ASSUME RegOk(reg), NEW path
  PROVE  /\ FindKey(path) \in 0 .. Len(reg.keys)
         /\ FindKey(path) # 0 => FindKey(path) \in DOMAIN reg.keys
         /\ FindKey(path) = 0 => \A i \in DOMAIN reg.keys : reg.keys[i].path # path
<1>1. PICK n \in Nat : n = Len(reg.keys) /\ DOMAIN reg.keys = 1 .. n
  BY LenProperties DEF RegOk, Regs
<1> DEFINE I == {i \in 1 .. Len(reg.keys) : reg.keys[i].path = path}
<1>2. FindKey(path) = IF I # {} THEN Min(I) ELSE 0
  BY DEF FindKey, SelectInSeq
<1>3. I \subseteq 1 .. n
  BY <1>1
<1>4. PICK u : u = FindKey(path)
  OBVIOUS
<1>5. u \in 0 .. n /\ (u # 0 => u \in I) /\ (u = 0 => I = {})
  <2> HIDE DEF I
  <2> QED
    BY <1>2, <1>3, <1>4, FirstOf
<1> QED
  BY <1>1, <1>4, <1>5

\* What a registry is saved as, the next start accepts.
LEMMA EncodedOk ==
  ASSUME NEW r, RegOk(r)
  PROVE  ImageOk(Encoded(r))
<1>1. PICK n \in Nat, m \in Nat : /\ n = Len(r.keys) /\ DOMAIN r.keys = 1 .. n
                                  /\ m = Len(r.vals) /\ DOMAIN r.vals = 1 .. m
  BY LenProperties DEF RegOk, Regs
<1>2. /\ \A i \in 1 .. n : r.keys[i] \in Keys
      /\ \A i \in 1 .. m : r.vals[i] \in Vals /\ r.vals[i].key \in 1 .. n
  BY <1>1, ElementOfSeq DEF RegOk, Regs
<1> DEFINE K == [i \in 1 .. n |-> r.keys[i].path]
           V == [i \in 1 .. m |-> [path |-> r.keys[r.vals[i].key].path,
                                   name |-> r.vals[i].name, data |-> r.vals[i].data]]
<1>3. Encoded(r) = [keys |-> K, vals |-> V]
  BY <1>1 DEF Encoded
<1>4. \A i \in 1 .. n : r.keys[i].path \in Paths
  BY <1>2 DEF Keys
<1>5. K \in Seq(Paths) /\ Len(K) = n /\ DOMAIN K = 1 .. n /\ \A i \in 1 .. n : K[i] = r.keys[i].path
  BY <1>4
<1>6. \A i \in 1 .. m : V[i] \in PathVals
  BY <1>2, <1>4 DEF PathVals, Vals
<1>7. V \in Seq(PathVals) /\ Len(V) = m /\ DOMAIN V = 1 .. m
  BY <1>6
<1>8. \A i \in 1 .. m : V[i].path = K[r.vals[i].key]
  BY <1>2, <1>5
<1> HIDE DEF K, V
<1>9. PICK e : e = [keys |-> K, vals |-> V]
  OBVIOUS
<1>10. e.keys = K /\ e.vals = V /\ e \in StateImages
  BY <1>5, <1>7, <1>9 DEF StateImages
<1>11. /\ \A i \in 1 .. n : K[i] # <<>> /\ Len(K[i]) <= MaxPath
       /\ \A i, j \in 1 .. n : K[i] = K[j] => i = j
       /\ n <= KeySlots /\ m <= ValueSlots
  BY <1>1, <1>5 DEF RegOk
<1>12. \A i \in 1 .. m : V[i].path \in ToSet(K)
  BY <1>2, <1>5, <1>8 DEF ToSet
<1>13. Decodes(e)
  BY <1>5, <1>7, <1>10, <1>11, <1>12 DEF Decodes
<1> QED
  BY <1>3, <1>5, <1>9, <1>10, <1>11, <1>13 DEF ImageOk

\* What it makes of it is a registry.
LEMMA DecodedOk ==
  ASSUME NEW m, ImageOk(m)
  PROVE  RegOk(Decoded(m))
<1>1. PICK n \in Nat, l \in Nat : /\ n = Len(m.keys) /\ DOMAIN m.keys = 1 .. n
                                  /\ l = Len(m.vals) /\ DOMAIN m.vals = 1 .. l
  BY LenProperties DEF ImageOk, StateImages
<1>2. /\ \A i \in 1 .. n : m.keys[i] \in Paths /\ m.keys[i] # <<>> /\ Len(m.keys[i]) <= MaxPath
      /\ \A i, j \in 1 .. n : m.keys[i] = m.keys[j] => i = j
      /\ n <= KeySlots /\ l <= ValueSlots
      /\ \A i \in 1 .. l : m.vals[i] \in PathVals /\ \E k \in 1 .. n : m.keys[k] = m.vals[i].path
  <2>1. \A i \in 1 .. n : m.keys[i] \in Paths
    BY <1>1, ElementOfSeq DEF ImageOk, StateImages
  <2>2. \A i \in 1 .. l : m.vals[i] \in PathVals
    BY <1>1, ElementOfSeq DEF ImageOk, StateImages
  <2>3. \A i \in 1 .. l : m.vals[i].path \in ToSet(m.keys)
    BY <1>1 DEF ImageOk, Decodes
  <2>4. \A i \in 1 .. l : \E k \in 1 .. n : m.keys[k] = m.vals[i].path
    BY <1>1, <2>3 DEF ToSet
  <2> QED
    BY <1>1, <2>1, <2>2, <2>4 DEF ImageOk, Decodes
<1> DEFINE of(i) == SelectInSeq(m.keys, LAMBDA p : p = m.vals[i].path)
           K == [i \in 1 .. n |-> Key(m.keys[i], 0)]
           V == [i \in 1 .. l |-> Value(of(i), m.vals[i].name, m.vals[i].data)]
<1>3. Decoded(m) = [keys |-> K, vals |-> V]
  BY <1>1 DEF Decoded
<1>4. ASSUME NEW i \in 1 .. l PROVE of(i) \in 1 .. n
  <2> DEFINE I == {k \in 1 .. Len(m.keys) : m.keys[k] = m.vals[i].path}
  <2>1. of(i) = IF I # {} THEN Min(I) ELSE 0
    BY DEF SelectInSeq
  <2>2. I \subseteq 1 .. n /\ I # {}
    BY <1>1, <1>2
  <2> HIDE DEF of, I
  <2> QED
    BY <2>1, <2>2, FirstOf
<1> HIDE DEF of
<1>5. 0 \in 0 .. MaxOpens
  BY StateAssumption
<1>6. \A i \in 1 .. n : K[i] \in Keys /\ K[i].path = m.keys[i]
  BY <1>2, <1>5 DEF Keys, Key
<1>7. \A i \in 1 .. l : V[i] \in Vals /\ V[i].key = of(i)
  BY <1>2, <1>4 DEF Vals, Value, PathVals
<1>8. K \in Seq(Keys) /\ Len(K) = n /\ DOMAIN K = 1 .. n /\ V \in Seq(Vals) /\ Len(V) = l /\ DOMAIN V = 1 .. l
  BY <1>6, <1>7
<1> HIDE DEF K, V
<1>9. PICK r : r = [keys |-> K, vals |-> V]
  OBVIOUS
<1>10. r.keys = K /\ r.vals = V /\ r \in Regs
  BY <1>8, <1>9 DEF Regs
<1>11. RegOk(r)
  BY <1>2, <1>4, <1>6, <1>7, <1>8, <1>10 DEF RegOk
<1> QED
  BY <1>3, <1>9, <1>11

\* Opening and closing a key change nothing that is saved.
LEMMA OpensOk ==
  ASSUME NEW r, RegOk(r), NEW i \in DOMAIN r.keys, NEW o \in 0 .. MaxOpens,
         NEW x, x = [r EXCEPT !.keys[i].opens = o]
  PROVE  RegOk(x) /\ Encoded(x) = Encoded(r)
<1>1. PICK n \in Nat : n = Len(r.keys) /\ DOMAIN r.keys = 1 .. n
  BY LenProperties DEF RegOk, Regs
<1>2. \A j \in 1 .. n : r.keys[j] \in Keys
  BY <1>1, ElementOfSeq DEF RegOk, Regs
<1> DEFINE K == [r.keys EXCEPT ![i] = [r.keys[i] EXCEPT !.opens = o]]
<1>3. x = [r EXCEPT !.keys = K]
  BY DEF RegOk, Regs
<1>4. \A j \in 1 .. n : K[j] \in Keys /\ K[j].path = r.keys[j].path
  BY <1>1, <1>2 DEF Keys, RegOk, Regs
<1>5. K \in Seq(Keys) /\ Len(K) = n /\ DOMAIN K = 1 .. n
  <2>1. DOMAIN K = 1 .. n /\ K = [j \in DOMAIN K |-> K[j]]
    BY <1>1
  <2> HIDE DEF K
  <2>2. K \in [1 .. n -> Keys]
    BY <1>4, <2>1
  <2>3. Len(K) = n
    BY <2>1
  <2> QED
    BY <2>1, <2>2, <2>3, SeqDef
<1> HIDE DEF K
<1>6. x.keys = K /\ x.vals = r.vals /\ x \in Regs
  BY <1>3, <1>5 DEF RegOk, Regs
<1>7. RegOk(x)
  <2>1. /\ Len(r.keys) <= KeySlots /\ Len(r.vals) <= ValueSlots
        /\ \A j \in 1 .. n : r.keys[j].path # <<>> /\ Len(r.keys[j].path) <= MaxPath
        /\ \A j, k \in 1 .. n : r.keys[j].path = r.keys[k].path => j = k
        /\ \A j \in DOMAIN r.vals : r.vals[j].key \in 1 .. n
    BY <1>1 DEF RegOk
  <2>2. /\ \A j \in 1 .. n : K[j].path # <<>> /\ Len(K[j].path) <= MaxPath
        /\ \A j, k \in 1 .. n : K[j].path = K[k].path => j = k
    BY <1>4, <2>1
  <2>3. Len(x.keys) <= KeySlots /\ Len(x.vals) <= ValueSlots /\ DOMAIN x.keys = 1 .. n
    BY <1>1, <1>5, <1>6, <2>1
  <2>4. \A j \in DOMAIN x.vals : x.vals[j].key \in DOMAIN x.keys
    BY <1>6, <2>1, <2>3
  <2> QED
    BY <1>6, <2>2, <2>3, <2>4 DEF RegOk
<1>8. [j \in DOMAIN x.keys |-> x.keys[j].path] = [j \in DOMAIN r.keys |-> r.keys[j].path]
  BY <1>1, <1>4, <1>5, <1>6
<1>9. \A j \in DOMAIN r.vals : x.keys[x.vals[j].key].path = r.keys[r.vals[j].key].path
  BY <1>1, <1>4, <1>6 DEF RegOk
<1> QED
  BY <1>6, <1>7, <1>8, <1>9 DEF Encoded

\* One more key,
LEMMA NewKeyOk ==
  ASSUME NEW r, RegOk(r), Len(r.keys) < KeySlots, NEW path \in Paths, path # <<>>,
         Len(path) <= MaxPath, \A i \in DOMAIN r.keys : r.keys[i].path # path,
         NEW x, x = [r EXCEPT !.keys = Append(@, Key(path, 1))]
  PROVE  RegOk(x)
<1>1. PICK n \in Nat : n = Len(r.keys) /\ DOMAIN r.keys = 1 .. n
  BY LenProperties DEF RegOk, Regs
<1>2. Key(path, 1) \in Keys /\ Key(path, 1).path = path
  BY StateAssumption DEF Key, Keys
<1>3. PICK K : K = Append(r.keys, Key(path, 1))
  OBVIOUS
<1>4. /\ K \in Seq(Keys) /\ Len(K) = n + 1 /\ DOMAIN K = 1 .. n + 1
      /\ K[n + 1] = Key(path, 1) /\ \A i \in 1 .. n : K[i] = r.keys[i]
  BY <1>1, <1>2, <1>3, AppendProperties, LenProperties DEF RegOk, Regs
<1>5. x.keys = K /\ x.vals = r.vals /\ x \in Regs
  BY <1>3, <1>4 DEF RegOk, Regs
<1>6. n + 1 <= KeySlots
  BY <1>1, StateAssumption
<1>7. \A i \in 1 .. n + 1 : i \in 1 .. n \/ i = n + 1
  OBVIOUS
<1>8. \A i \in 1 .. n + 1 : K[i].path # <<>> /\ Len(K[i].path) <= MaxPath
  BY <1>1, <1>2, <1>4, <1>7 DEF RegOk
<1>9. \A i, j \in 1 .. n + 1 : K[i].path = K[j].path => i = j
  BY <1>1, <1>2, <1>4, <1>7 DEF RegOk
<1>10. \A i \in DOMAIN r.vals : r.vals[i].key \in 1 .. n + 1
  BY <1>1 DEF RegOk
<1>11. Len(x.keys) <= KeySlots /\ Len(x.vals) <= ValueSlots /\ DOMAIN x.keys = 1 .. n + 1
  BY <1>4, <1>5, <1>6 DEF RegOk
<1>12. \A i \in DOMAIN x.vals : x.vals[i].key \in DOMAIN x.keys
  BY <1>5, <1>10, <1>11
<1>13. \A i, j \in DOMAIN x.keys : x.keys[i].path = x.keys[j].path => i = j
  BY <1>5, <1>9, <1>11
<1>14. \A i \in DOMAIN x.keys : x.keys[i].path # <<>> /\ Len(x.keys[i].path) <= MaxPath
  BY <1>5, <1>8, <1>11
<1> QED
  BY <1>5, <1>11, <1>12, <1>13, <1>14 DEF RegOk

\* one more value,
LEMMA NewValOk ==
  ASSUME NEW r, RegOk(r), Len(r.vals) < ValueSlots, NEW h \in DOMAIN r.keys,
         NEW name \in ValueNames, NEW data \in ValueData,
         NEW x, x = [r EXCEPT !.vals = Append(@, Value(h, name, data))]
  PROVE  RegOk(x)
<1>1. PICK n \in Nat : n = Len(r.vals) /\ DOMAIN r.vals = 1 .. n
  BY LenProperties DEF RegOk, Regs
<1>2. h \in Nat
  BY LenProperties DEF RegOk, Regs
<1>3. PICK v \in Vals : v = Value(h, name, data) /\ v.key = h
  BY <1>2 DEF Value, Vals
<1>4. PICK V : V = Append(r.vals, v)
  OBVIOUS
<1>5. /\ V \in Seq(Vals) /\ Len(V) = n + 1 /\ DOMAIN V = 1 .. n + 1
      /\ V[n + 1] = v /\ \A i \in 1 .. n : V[i] = r.vals[i]
  BY <1>1, <1>3, <1>4, AppendProperties, LenProperties DEF RegOk, Regs
<1>6. x.vals = V /\ x.keys = r.keys /\ x \in Regs
  BY <1>3, <1>4, <1>5 DEF RegOk, Regs
<1>7. n + 1 <= ValueSlots
  BY <1>1, StateAssumption
<1>8. \A i \in 1 .. n + 1 : V[i].key \in DOMAIN r.keys
  <2>1. \A i \in 1 .. n + 1 : i \in 1 .. n \/ i = n + 1
    OBVIOUS
  <2> QED
    BY <1>1, <1>3, <1>5, <2>1 DEF RegOk
<1>9. Len(x.keys) <= KeySlots /\ Len(x.vals) <= ValueSlots
  BY <1>5, <1>6, <1>7 DEF RegOk
<1>10. \A i \in DOMAIN x.vals : x.vals[i].key \in DOMAIN x.keys
  BY <1>5, <1>6, <1>8
<1> QED
  BY <1>6, <1>9, <1>10 DEF RegOk

\* and a value with other data.
LEMMA NewDataOk ==
  ASSUME NEW r, RegOk(r), NEW i \in DOMAIN r.vals, NEW data \in ValueData,
         NEW x, x = [r EXCEPT !.vals[i].data = data]
  PROVE  RegOk(x)
<1>1. PICK n \in Nat : n = Len(r.vals) /\ DOMAIN r.vals = 1 .. n
  BY LenProperties DEF RegOk, Regs
<1>2. \A j \in 1 .. n : r.vals[j] \in Vals
  BY <1>1, ElementOfSeq DEF RegOk, Regs
<1> DEFINE V == [r.vals EXCEPT ![i] = [r.vals[i] EXCEPT !.data = data]]
<1>3. x = [r EXCEPT !.vals = V]
  BY DEF RegOk, Regs
<1>4. \A j \in 1 .. n : V[j] \in Vals /\ V[j].key = r.vals[j].key
  BY <1>1, <1>2 DEF Vals, RegOk, Regs
<1>5. V \in Seq(Vals) /\ Len(V) = n /\ DOMAIN V = 1 .. n
  <2>1. DOMAIN V = 1 .. n /\ V = [j \in DOMAIN V |-> V[j]]
    BY <1>1
  <2> HIDE DEF V
  <2>2. V \in [1 .. n -> Vals]
    BY <1>4, <2>1
  <2>3. Len(V) = n
    BY <2>1
  <2> QED
    BY <2>1, <2>2, <2>3, SeqDef
<1> HIDE DEF V
<1>6. x.vals = V /\ x.keys = r.keys /\ x \in Regs
  BY <1>3, <1>5 DEF RegOk, Regs
<1>7. \A j \in 1 .. n : r.vals[j].key \in DOMAIN r.keys
  BY <1>1 DEF RegOk
<1>8. \A j \in DOMAIN x.vals : x.vals[j].key \in DOMAIN x.keys
  BY <1>4, <1>5, <1>6, <1>7
<1>9. Len(x.keys) <= KeySlots /\ Len(x.vals) <= ValueSlots
  BY <1>1, <1>5, <1>6 DEF RegOk
<1> QED
  BY <1>6, <1>8, <1>9 DEF RegOk

\* A call of the guest keeps the registry what it is, and counts what matters.
LEMMA GuestOk ==
  ASSUME StateInv, Guest, FilesSame, RegOk(reg'),
         \/ gen' = gen /\ Encoded(reg') = Encoded(reg)
         \/ Changed
  PROVE  StateInv'
<1>1. /\ run' = "up" /\ closing' = "no" /\ buffer' = buffer /\ file' = file /\ tmp' = tmp /\ before' = before
      /\ acked' = acked /\ saved' = saved
  BY DEF FilesSame, Guest
<1>2. gen' \in 0 .. MaxChanges /\ saved' \in 0 .. gen'
  BY <1>1, StateAssumption DEF StateInv, Changed
<1>3. gen' # 0 /\ gen' = saved' => file'.image = Encoded(reg')
  <2>1. CASE gen' = gen /\ Encoded(reg') = Encoded(reg)
    BY <1>1, <2>1 DEF StateInv
  <2>2. CASE Changed
    <3>1. gen' # saved'
      BY <1>1, <2>2, StateAssumption DEF StateInv, Changed
    <3> QED
      BY <3>1
  <2> QED
    BY <2>1, <2>2
<1>4. Kept(file)' /\ Kept(before)'
  BY <1>1 DEF StateInv, Kept
<1> QED
  BY <1>1, <1>2, <1>3, <1>4 DEF StateInv, RunStates

\* RegCreateKeyExA,
LEMMA CreateOk ==
  ASSUME EmptyKey = FALSE, StateInv, NEW h \in KeyHandles, NEW sub \in SubKeys, CreateKey(h, sub)
  PROVE  StateInv'
<1>1. PICK path : path = Prefix(h) \o sub
  OBVIOUS
<1>2. path \in Paths
  <2>1. sub \in Seq(Components)
    BY StateAssumption
  <2>2. Prefix(h) \in Seq(Components)
    <3>1. CASE h = 0
      BY <3>1 DEF Prefix
    <3>2. CASE h # 0
      <4>1. h \in 1 .. Len(reg.keys) /\ reg.keys \in Seq(Keys)
        BY <3>2, LenProperties DEF KeyHandles, StateInv, RegOk, Regs
      <4>2. reg.keys[h] \in Keys
        BY <4>1, ElementOfSeq
      <4> QED
        BY <3>2, <4>2 DEF Prefix, Keys, Paths
    <3> QED
      BY <3>1, <3>2
  <2> QED
    BY <1>1, <2>1, <2>2, ConcatProperties DEF Paths
<1>3. PICK i : i = FindKey(path)
  OBVIOUS
<1>4. /\ Guest /\ FilesSame /\ Len(path) <= MaxPath
      /\ \/ /\ i # 0 /\ reg.keys[i].opens < MaxOpens
            /\ reg' = [reg EXCEPT !.keys[i].opens = @ + 1]
            /\ gen' = gen
         \/ /\ i = 0 /\ Len(reg.keys) < KeySlots
            /\ path = <<>> => EmptyKey
            /\ reg' = [reg EXCEPT !.keys = Append(@, Key(path, 1))]
            /\ Changed
  BY <1>1, <1>3 DEF CreateKey
<1>5. RegOk(reg)
  BY DEF StateInv
<1>6. /\ i # 0 => i \in DOMAIN reg.keys
      /\ i = 0 => \A j \in DOMAIN reg.keys : reg.keys[j].path # path
  BY <1>3, <1>5, KeyAt
<1>7. CASE i # 0
  <2>1. PICK o : o = reg.keys[i].opens + 1
    OBVIOUS
  <2>2. o \in 0 .. MaxOpens
    <3>1. reg.keys[i] \in Keys
      BY <1>5, <1>6, <1>7, ElementOfSeq, LenProperties DEF RegOk, Regs
    <3> QED
      BY <1>4, <1>7, <2>1, <3>1, StateAssumption DEF Keys
  <2>3. reg' = [reg EXCEPT !.keys[i].opens = o]
    BY <1>4, <1>7, <2>1
  <2>4. RegOk(reg') /\ Encoded(reg') = Encoded(reg)
    BY <1>5, <1>6, <1>7, <2>2, <2>3, OpensOk
  <2> QED
    BY <1>4, <1>7, <2>4, GuestOk
<1>8. CASE i = 0
  <2>1. path # <<>> /\ reg' = [reg EXCEPT !.keys = Append(@, Key(path, 1))] /\ Changed
    BY <1>4, <1>8
  <2>2. RegOk(reg')
    BY <1>2, <1>4, <1>5, <1>6, <1>8, <2>1, NewKeyOk
  <2> QED
    BY <1>4, <2>1, <2>2, GuestOk
<1> QED
  BY <1>7, <1>8

\* a count of open handles that changes,
LEMMA CountOk ==
  ASSUME StateInv, Guest, FilesSame, gen' = gen, NEW i \in DOMAIN reg.keys,
         NEW o \in 0 .. MaxOpens, reg' = [reg EXCEPT !.keys[i].opens = o]
  PROVE  StateInv'
<1>1. RegOk(reg)
  BY DEF StateInv
<1>2. RegOk(reg') /\ Encoded(reg') = Encoded(reg)
  BY <1>1, OpensOk
<1> QED
  BY <1>2, GuestOk

\* by RegOpenKeyA and RegOpenKeyExA,
LEMMA OpenOk ==
  ASSUME StateInv, NEW h \in KeyHandles, NEW sub \in SubKeys, OpenKey(h, sub)
  PROVE  StateInv'
<1>1. RegOk(reg) /\ Guest /\ FilesSame /\ gen' = gen
  BY DEF StateInv, OpenKey
<1>2. PICK i \in DOMAIN reg.keys : reg.keys[i].opens < MaxOpens /\ reg' = [reg EXCEPT !.keys[i].opens = @ + 1]
  <2>1. CASE sub = <<>>
    <3>1. h \in DOMAIN reg.keys
      <4>1. h \in 1 .. Len(reg.keys)
        BY <2>1, LenProperties DEF OpenKey, KeyLive, KeyHandles, StateInv, RegOk, Regs
      <4> QED
        BY <1>1, <4>1, LenProperties DEF RegOk, Regs
    <3> QED
      BY <2>1, <3>1 DEF OpenKey
  <2>2. CASE sub # <<>>
    <3>1. PICK p : p = Prefix(h) \o sub
      OBVIOUS
    <3>2. FindKey(p) # 0 => FindKey(p) \in DOMAIN reg.keys
      BY <1>1, KeyAt
    <3> QED
      BY <2>2, <3>1, <3>2 DEF OpenKey
  <2> QED
    BY <2>1, <2>2
<1>3. reg.keys[i] \in Keys
  BY <1>1, ElementOfSeq, LenProperties DEF RegOk, Regs
<1>4. PICK o : o = reg.keys[i].opens + 1
  OBVIOUS
<1>5. o \in 0 .. MaxOpens
  BY <1>2, <1>3, <1>4, StateAssumption DEF Keys
<1>6. reg' = [reg EXCEPT !.keys[i].opens = o]
  BY <1>2, <1>4
<1> QED
  BY <1>1, <1>5, <1>6, CountOk

\* and by RegCloseKey,
LEMMA CloseOk ==
  ASSUME StateInv, NEW h \in KeyHandles, CloseKey(h)
  PROVE  StateInv'
<1>1. RegOk(reg) /\ Guest /\ FilesSame /\ gen' = gen
  BY DEF StateInv, CloseKey
<1>2. h \in DOMAIN reg.keys /\ reg.keys[h].opens > 0
  <2>1. h \in 1 .. Len(reg.keys) /\ reg.keys[h].opens > 0
    BY LenProperties DEF CloseKey, KeyLive, KeyHandles, StateInv, RegOk, Regs
  <2> QED
    BY <1>1, <2>1, LenProperties DEF RegOk, Regs
<1>3. reg.keys[h] \in Keys
  BY <1>1, <1>2, ElementOfSeq, LenProperties DEF RegOk, Regs
<1>4. PICK o : o = reg.keys[h].opens - 1
  OBVIOUS
<1>5. o \in 0 .. MaxOpens
  BY <1>2, <1>3, <1>4, StateAssumption DEF Keys
<1>6. reg' = [reg EXCEPT !.keys[h].opens = o]
  BY <1>4 DEF CloseKey
<1> QED
  BY <1>1, <1>2, <1>5, <1>6, CountOk

\* and RegSetValueExA.
LEMMA SetOk ==
  ASSUME StateInv, NEW h \in KeyHandles, NEW name \in ValueNames, NEW data \in ValueData,
         SetValue(h, name, data)
  PROVE  StateInv'
<1>1. RegOk(reg) /\ Guest /\ FilesSame /\ Changed
  BY DEF StateInv, SetValue
<1>2. h \in DOMAIN reg.keys
  <2>1. h \in 1 .. Len(reg.keys)
    BY LenProperties DEF SetValue, KeyLive, KeyHandles, StateInv, RegOk, Regs
  <2> QED
    BY <1>1, <2>1, LenProperties DEF RegOk, Regs
<1>3. PICK n \in Nat : n = Len(reg.vals) /\ DOMAIN reg.vals = 1 .. n
  BY <1>1, LenProperties DEF RegOk, Regs
<1> DEFINE I == {i \in 1 .. Len(reg.vals) : reg.vals[i].key = h /\ reg.vals[i].name = name}
<1>4. PICK u : u = SelectInSeq(reg.vals, LAMBDA v : v.key = h /\ v.name = name)
  OBVIOUS
<1>5. u = IF I # {} THEN Min(I) ELSE 0
  BY <1>4 DEF SelectInSeq
<1>6. u \in 0 .. n /\ (u # 0 => u \in I) /\ I \subseteq 1 .. n
  <2>1. I \subseteq 1 .. n
    BY <1>3
  <2> HIDE DEF I
  <2> QED
    BY <1>5, <2>1, FirstOf
<1>7. \/ u # 0 /\ reg' = [reg EXCEPT !.vals[u].data = data]
      \/ Len(reg.vals) < ValueSlots /\ reg' = [reg EXCEPT !.vals = Append(@, Value(h, name, data))]
  BY <1>4 DEF SetValue
<1>8. RegOk(reg')
  <2> HIDE DEF I
  <2>1. CASE u # 0 /\ reg' = [reg EXCEPT !.vals[u].data = data]
    <3>1. u \in DOMAIN reg.vals
      BY <1>3, <1>6, <2>1
    <3> QED
      BY <1>1, <2>1, <3>1, NewDataOk
  <2>2. CASE Len(reg.vals) < ValueSlots /\ reg' = [reg EXCEPT !.vals = Append(@, Value(h, name, data))]
    BY <1>1, <1>2, <2>2, NewValOk
  <2> QED
    BY <1>7, <2>1, <2>2
<1> QED
  BY <1>1, <1>8, GuestOk

\* Nothing is a registry, an image and no file.
LEMMA NoneOk == ImageOk(NoImage) /\ NoFile \in FileRecs /\ RegOk(NoReg)
<1>1. ImageOk(NoImage)
  <2>1. PICK m : m = NoImage
    OBVIOUS
  <2>2. m.keys = <<>> /\ m.vals = <<>>
    BY <2>1 DEF NoImage
  <2>3. m \in StateImages
    BY <2>1 DEF NoImage, StateImages
  <2>4. DOMAIN m.keys = {} /\ DOMAIN m.vals = {} /\ Len(m.keys) = 0 /\ Len(m.vals) = 0
    BY <2>2
  <2>5. Decodes(m)
    BY <2>4, StateAssumption DEF Decodes
  <2> QED
    BY <2>1, <2>3, <2>4, <2>5 DEF ImageOk
<1>2. NoFile \in FileRecs
  BY <1>1 DEF NoFile, FileRecs, ImageOk
<1>3. RegOk(NoReg)
  <2>1. PICK r : r = NoReg
    OBVIOUS
  <2>2. r.keys = <<>> /\ r.vals = <<>> /\ r \in Regs
    BY <2>1 DEF NoReg, Regs
  <2>3. DOMAIN r.keys = {} /\ DOMAIN r.vals = {} /\ Len(r.keys) = 0 /\ Len(r.vals) = 0
    BY <2>2
  <2> QED
    BY <2>1, <2>2, <2>3, StateAssumption DEF RegOk
<1> QED
  BY <1>1, <1>2, <1>3

\* A save up to the rename touches only the temporary file,
LEMMA SavingOk ==
  ASSUME StateInv, SaveOpen \/ SaveWrite \/ SaveSync \/ SaveClose \/ SaveFail
  PROVE  StateInv'
<1>1. /\ reg' = reg /\ gen' = gen /\ saved' = saved /\ file' = file /\ before' = before /\ acked' = acked
  BY DEF SaveOpen, SaveWrite, SaveSync, SaveClose, SaveFail
<1>2. Kept(file)' /\ Kept(before)'
  BY <1>1 DEF StateInv, Kept
<1>3. ImageOk(NoImage)
  BY NoneOk
<1>4. ASSUME NEW m, ImageOk(m), NEW w \in BOOLEAN, NEW s \in BOOLEAN PROVE File(m, w, s) \in FileRecs
  BY <1>4 DEF File, FileRecs, ImageOk
<1>5. NoFile \in FileRecs
  BY NoneOk
<1>6. /\ ImageOk(buffer)' /\ run' \in RunStates \ {"refused"} /\ tmp' \in FileRecs
      /\ run' \in {"opened", "written", "synced", "closed"} => buffer' = Encoded(reg)
      /\ run' = "written" => tmp' = File(buffer', TRUE, FALSE)
      /\ run' \in {"synced", "closed"} => tmp' = File(buffer', TRUE, TRUE)
  <2>1. CASE SaveOpen
    <3>1. ImageOk(Encoded(reg)) /\ File(NoImage, FALSE, FALSE) \in FileRecs
      BY <1>3, <1>4, EncodedOk DEF StateInv
    <3>2. CASE run' = "opened" /\ closing' = closing /\ buffer' = Encoded(reg) /\ tmp' = File(NoImage, FALSE, FALSE)
      BY <3>1, <3>2 DEF RunStates
    <3>3. CASE SaveEnds("failed") /\ UNCHANGED <<buffer, tmp>>
      BY <2>1, <3>3 DEF StateInv, SaveOpen, SaveEnds, RunStates
    <3> QED
      BY <2>1, <3>2, <3>3 DEF SaveOpen
  <2>2. CASE SaveWrite
    <3>1. File(buffer, TRUE, FALSE) \in FileRecs /\ buffer' = buffer /\ run = "opened"
      BY <1>4, <2>2 DEF StateInv, SaveWrite
    <3>2. CASE run' = "written" /\ tmp' = File(buffer, TRUE, FALSE)
      BY <3>1, <3>2 DEF RunStates, StateInv
    <3>3. CASE run' = "failing" /\ tmp' = tmp
      BY <3>1, <3>3 DEF RunStates, StateInv
    <3> QED
      BY <2>2, <3>2, <3>3 DEF SaveWrite
  <2>3. CASE SaveSync
    <3>1. /\ File(buffer, TRUE, TRUE) \in FileRecs /\ buffer' = buffer /\ run = "written"
          /\ tmp = File(buffer, TRUE, FALSE)
      BY <1>4, <2>3 DEF StateInv, SaveSync
    <3>2. CASE run' = "synced" /\ tmp' = [tmp EXCEPT !.safe = TRUE]
      <4>1. tmp' = File(buffer, TRUE, TRUE)
        BY <3>1, <3>2 DEF File
      <4> QED
        BY <3>1, <3>2, <4>1 DEF RunStates, StateInv
    <3>3. CASE run' = "failing" /\ tmp' = tmp
      BY <3>1, <3>3 DEF RunStates, StateInv
    <3> QED
      BY <2>3, <3>2, <3>3 DEF SaveSync
  <2>4. CASE SaveClose
    BY <2>4 DEF SaveClose, StateInv, RunStates
  <2>5. CASE SaveFail
    BY <1>3, <1>5, <2>5 DEF SaveFail, SaveEnds, StateInv, RunStates
  <2> QED
    BY <2>1, <2>2, <2>3, <2>4, <2>5
<1>7. /\ closing' \in {"no", "yes", "ok", "failed"} /\ (run' = "done" <=> closing' \in {"ok", "failed"})
      /\ closing' # "ok"
  <2>1. CASE SaveEnds("failed") /\ run # "done"
    BY <2>1 DEF SaveEnds, StateInv
  <2>2. CASE closing' = closing /\ run # "done" /\ run' # "done"
    BY <2>2 DEF StateInv
  <2> QED
    BY <2>1, <2>2 DEF SaveOpen, SaveWrite, SaveSync, SaveClose, SaveFail
<1> QED
  BY <1>1, <1>2, <1>6, <1>7 DEF StateInv

\* and the rename puts a whole and safe file in the place of another.
LEMMA RenameOk ==
  ASSUME StateInv, SaveRename
  PROVE  StateInv'
<1>1. reg' = reg /\ gen' = gen /\ run = "closed"
  BY DEF SaveRename
<1>2. /\ buffer = Encoded(reg) /\ tmp = File(buffer, TRUE, TRUE) /\ ImageOk(buffer) /\ tmp \in FileRecs
  BY <1>1 DEF StateInv
<1>3. CASE run' = "failing" /\ UNCHANGED <<closing, buffer, file, tmp, before, acked, saved>>
  <2>1. Kept(file)' /\ Kept(before)'
    BY <1>3 DEF StateInv, Kept
  <2> QED
    BY <1>1, <1>3, <2>1 DEF StateInv, RunStates
<1>4. CASE /\ SaveEnds("ok") /\ file' = tmp /\ tmp' = NoFile /\ before' \in {before, file}
           /\ acked' = Append(acked, buffer) /\ buffer' = NoImage
           /\ saved' = IF closing = "no" THEN gen ELSE saved
  <2>1. PICK n \in Nat : n = Len(acked) /\ DOMAIN acked = 1 .. n
    BY LenProperties DEF StateInv
  <2>2. /\ acked' \in Seq(StateImages) /\ Len(acked') = n + 1 /\ DOMAIN acked' = 1 .. n + 1
        /\ acked'[n + 1] = buffer /\ \A i \in 1 .. n : acked'[i] = acked[i]
    BY <1>2, <1>4, <2>1, AppendProperties, LenProperties DEF StateInv, ImageOk
  <2>3. acked' # <<>>
    BY <2>2
  <2>4. \A i \in DOMAIN acked' : ImageOk(acked'[i])
    <3>1. \A i \in 1 .. n + 1 : i \in 1 .. n \/ i = n + 1
      OBVIOUS
    <3> QED
      BY <1>2, <2>1, <2>2, <3>1 DEF StateInv
  <2>5. ToSet(acked) \subseteq ToSet(acked') /\ buffer \in ToSet(acked')
    BY <2>1, <2>2 DEF ToSet
  <2>6. file'.image = buffer /\ file'.whole /\ file'.safe /\ file' \in FileRecs
    BY <1>2, <1>4 DEF File
  <2>7. Kept(file)' /\ Kept(before)'
    <3>1. Kept(file)'
      BY <2>5, <2>6 DEF Kept
    <3>2. Kept(before)'
      BY <1>4, <2>5 DEF Kept, StateInv
    <3> QED
      BY <3>1, <3>2
  <2>8. ImageOk(NoImage) /\ NoFile \in FileRecs
    BY NoneOk
  <2>9. file'.image = acked'[Len(acked')]
    BY <2>2, <2>6
  <2>10. file'.image = Encoded(reg')
    BY <1>1, <1>2, <2>6
  <2>11. saved' \in 0 .. gen'
    BY <1>1, <1>4 DEF StateInv
  <2>12. /\ run' \in {"up", "done"} /\ closing' \in {"no", "ok"}
         /\ run' = "done" <=> closing' \in {"ok", "failed"}
    BY <1>1, <1>4 DEF SaveEnds, StateInv
  <2> QED
    BY <1>1, <1>4, <2>2, <2>3, <2>4, <2>7, <2>8, <2>9, <2>10, <2>11, <2>12 DEF StateInv, RunStates
<1> QED
  BY <1>3, <1>4 DEF SaveRename

\* A start finds no file or one it accepts.
LEMMA StartOk ==
  ASSUME StateInv, Start
  PROVE  StateInv'
<1>1. /\ buffer' = buffer /\ file' = file /\ tmp' = tmp /\ before' = before /\ acked' = acked
      /\ gen' = 0 /\ saved' = 0
  BY DEF Start
<1>4. closing' = closing /\ closing \in {"no", "yes"}
  BY DEF Start, StateInv
<1>2. run' = "up" /\ RegOk(reg')
  <2>1. CASE ~file.exists
    BY <2>1, NoneOk DEF Start
  <2>2. CASE file.exists
    <3>1. file.whole /\ ImageOk(file.image)
      BY <2>2 DEF StateInv, Kept, ToSet
    <3> QED
      BY <2>2, <3>1, DecodedOk DEF Start, ImageOk
  <2> QED
    BY <2>1, <2>2
<1>3. Kept(file)' /\ Kept(before)'
  BY <1>1 DEF StateInv, Kept
<1> QED
  BY <1>1, <1>2, <1>3, <1>4, StateAssumption DEF StateInv, RunStates

\* The guest's return and a teardown with nothing to save change no file.
LEMMA FinishOk ==
  ASSUME StateInv, GuestReturn \/ Finish
  PROVE  StateInv'
<1>1. /\ reg' = reg /\ gen' = gen /\ saved' = saved /\ buffer' = buffer /\ file' = file /\ tmp' = tmp
      /\ before' = before /\ acked' = acked
  BY DEF GuestReturn, Finish
<1>2. Kept(file)' /\ Kept(before)'
  BY <1>1 DEF StateInv, Kept
<1>3. \/ run' = "up" /\ closing' = "yes"
      \/ run' = "done" /\ closing' = "ok" /\ gen = saved
  BY DEF GuestReturn, Finish, Guest, SaveEnds
<1> QED
  BY <1>1, <1>2, <1>3 DEF StateInv, RunStates

\* A process that dies leaves its files; the console may lose what is not safe,
\* which no state file is.
LEMMA CrashOk ==
  ASSUME StateInv, Kill \/ Outage
  PROVE  StateInv'
<1>1. /\ run' = "off" /\ closing' = "no" /\ reg' = NoReg /\ gen' = 0 /\ saved' = 0
      /\ buffer' = NoImage /\ acked' = acked
  BY DEF Kill, Outage
<1>2. ImageOk(NoImage) /\ NoFile \in FileRecs /\ RegOk(NoReg)
  BY NoneOk
<1>3. /\ tmp' \in FileRecs /\ Kept(file)' /\ Kept(before)'
      /\ file'.exists => file'.image = acked[Len(acked)] \/ file' = before'
  <2>1. CASE Kill
    BY <1>1, <2>1 DEF Kill, Kept, StateInv
  <2>2. CASE Outage
    <3>1. tmp' \in FileRecs
      <4>1. [tmp EXCEPT !.whole = FALSE] \in FileRecs
        BY DEF FileRecs, StateInv
      <4> QED
        BY <1>2, <2>2, <4>1 DEF Outage, Lost, StateInv
    <3>2. PICK f \in {file, before} : file' \in Lost(f) /\ before' = file'
      BY <2>2 DEF Outage
    <3>3. Kept(f)
      BY <3>2 DEF StateInv
    <3>4. file' = f /\ before' = f
      BY <3>2, <3>3 DEF Lost, Kept
    <3> QED
      BY <1>1, <3>1, <3>3, <3>4 DEF Kept
  <2> QED
    BY <2>1, <2>2
<1> QED
  BY <1>1, <1>2, <1>3, StateAssumption DEF StateInv, RunStates

\* Every step.
LEMMA StateStep ==
  ASSUME EmptyKey = FALSE, StateInv, [StateNext]_stateVars
  PROVE  StateInv'
<1>1. CASE StateNext
  BY <1>1, CreateOk, OpenOk, CloseOk, SetOk, SavingOk, RenameOk, StartOk, FinishOk, CrashOk DEF StateNext
<1>2. CASE UNCHANGED stateVars
  BY <1>2 DEF stateVars, StateInv, Kept
<1> QED
  BY <1>1, <1>2

\* At first there is nothing.
LEMMA StateStart ==
  ASSUME StateInit
  PROVE  StateInv
<1>1. /\ reg = NoReg /\ gen = 0 /\ saved = 0 /\ run = "off" /\ closing = "no" /\ buffer = NoImage
      /\ file = NoFile /\ tmp = NoFile /\ before = NoFile /\ acked = <<NoImage>>
  BY DEF StateInit
<1>2. ImageOk(NoImage) /\ NoFile \in FileRecs /\ RegOk(NoReg) /\ NoImage \in StateImages
  BY NoneOk DEF ImageOk
<1>3. PICK m \in StateImages : m = NoImage
  BY <1>2
<1>4. <<m>> \in Seq(StateImages) /\ Len(<<m>>) = 1 /\ <<m>> # <<>> /\ <<m>>[1] = m /\ DOMAIN <<m>> = {1}
  OBVIOUS
<1>5. acked \in Seq(StateImages) /\ acked # <<>> /\ \A i \in DOMAIN acked : ImageOk(acked[i])
  BY <1>1, <1>2, <1>3, <1>4
<1>6. Kept(file) /\ Kept(before) /\ ~file.exists
  BY <1>1, <1>2 DEF Kept, NoFile
<1> QED
  BY <1>1, <1>2, <1>5, <1>6, StateAssumption DEF StateInv, RunStates

\* The types and the limits are in the invariant.
LEMMA StateTyped ==
  ASSUME StateInv
  PROVE  StateTypeOK
<1>1. \A i \in DOMAIN reg.keys : reg.keys[i] \in Keys
  BY ElementOfSeq, LenProperties DEF StateInv, RegOk, Regs
<1>2. \A k \in ToSet(reg.keys) : k.opens \in 0 .. MaxOpens /\ Len(k.path) <= MaxPath
  BY <1>1 DEF StateInv, RegOk, ToSet, Keys
<1>3. \A v \in ToSet(reg.vals) : v.key \in DOMAIN reg.keys
  BY DEF StateInv, RegOk, ToSet
<1>4. saved \in 0 .. MaxChanges
  BY StateAssumption DEF StateInv
<1> QED
  BY <1>2, <1>3, <1>4 DEF StateInv, RegOk, StateTypeOK

\* The registry and the runtime keep their types and their limits.
THEOREM StateTyping ==
  ASSUME EmptyKey = FALSE
  PROVE  StateSpec => []StateTypeOK
<1>1. StateInit => StateInv
  BY StateStart
<1>2. StateInv /\ [StateNext]_stateVars => StateInv'
  BY StateStep
<1>3. StateInv => StateTypeOK
  BY StateTyped
<1> QED
  BY <1>1, <1>2, <1>3, PTL DEF StateSpec

\* What the property says of the file and the images is in the invariant.
LEMMA StateSurvivesFromInv ==
  ASSUME StateInv
  PROVE  StateSurvives
<1>1. run # "refused" /\ Kept(file) /\ Kept(before)
  BY DEF StateInv
<1> QED
  BY <1>1 DEF StateInv, StateSurvives, Kept

\* Wherever the process or the console stops, the next start finds a state
\* that was saved as a whole, and a teardown that reports its state as kept
\* leaves the last registry.
THEOREM StateAlwaysSurvives ==
  ASSUME EmptyKey = FALSE
  PROVE  StateSpec => []StateSurvives
<1>1. StateInv => StateSurvives
  BY StateSurvivesFromInv
<1>2. StateInit => StateInv
  BY StateStart
<1>3. StateInv /\ [StateNext]_stateVars => StateInv'
  BY StateStep
<1> QED
  BY <1>1, <1>2, <1>3, PTL DEF StateSpec

-----------------------------------------------------------------------------
(* The native titles.                                                      *)

StageLive == {"acquire", "turn", "submit", "poll", "event", "check", "scrub"}
StageOver == {"parked", "parked_safe", "complete", "killed"}

\* The hardware's queues hold command buffers by number, and a flip of each at
\* most is on its way.
StageTyped ==
    /\ build \in Builds /\ at \in StageLive \cup StageOver \cup {"release"}
    /\ next \in Nat /\ built \in Nat /\ sent \in Nat /\ retired \in Nat
    /\ armed \in BOOLEAN /\ faulty \in BOOLEAN /\ deferred \in BOOLEAN /\ gpuFlipped \in BOOLEAN
    /\ fences \in [{0, 1} -> {0, 1}] /\ sample \in {0, 1}
    /\ gpu \in Seq(Nat) /\ pending \in Seq(Nat) /\ events \in Seq(Nat)
    /\ gpuFlipped => gpu # <<>>
    /\ onScreen \in {0, 1, NoSlot}
    /\ build = "C" => pending = <<>> /\ onScreen = NoSlot

\* Until the title parks or gives back, the events to read, the flips on their
\* way and the command buffers of the GPU are those sent and not retired, in
\* order, and the fence of each that the GPU has is up.
StageOutstanding ==
    /\ retired <= sent /\ sent - retired <= InFlight(build) /\ sent <= Total(build)
    /\ at = "submit" => /\ sent < Total(build) /\ sent - retired < InFlight(build)
                        /\ fences[FrameSlot(sent)] = 1
    /\ built = IF build = "C" THEN 0 ELSE IF at = "submit" THEN sent + 1 ELSE sent
    /\ Len(gpu) <= sent - retired
    /\ \A i \in 1 .. Len(gpu) : gpu[i] = sent - Len(gpu) + i - 1 /\ fences[FrameSlot(gpu[i])] = 1
    /\ build = "C" => events = <<>>
    /\ build # "C" =>
         /\ Len(events) + Len(pending) + Len(gpu) - (IF gpuFlipped THEN 1 ELSE 0) = sent - retired
         /\ \A i \in 1 .. Len(pending) : pending[i] = retired + Len(events) + i - 1
         /\ \A i \in 1 .. Len(events) : events[i] = retired + i - 1

\* Where the title waits, the fence it waited for is down.
StageWaiting ==
    /\ at \in {"poll", "event"} => retired < sent /\ fences[FrameSlot(retired)] = 0
    /\ at = "event" => sample = 0
    /\ at = "check" => /\ sent = Total(build)
                       /\ IF build = "I" THEN retired = sent
                          ELSE retired + 1 = sent /\ fences[FrameSlot(retired)] = 0

\* What is held, by where the title is.
StageHeld ==
    /\ at = "acquire" =>
         /\ next < Len(Acquisitions(build))
         /\ holding = {Acquisitions(build)[i] : i \in 1 .. next} \ Momentary
         /\ sent = 0
    /\ at \in StageLive \ {"acquire"} => holding = Resources(build)
    /\ holding \subseteq Resources(build)
    /\ at \in StageLive => ~deferred
    /\ deferred /\ "buffers" \in holding => "video" \in holding
    /\ onScreen # NoSlot => {"video", "framebuffer_map"} \subseteq holding
    /\ at \in {"complete", "parked_safe"} => holding = {}
    /\ at = "parked" => faulty

StageInv ==
    /\ StageTyped /\ StageHeld /\ Retained
    /\ at \in StageLive => StageOutstanding /\ StageWaiting
    /\ at \in {"scrub", "release"} => ~HardwareBusy
    /\ retired <= sent /\ sent <= Total(build) /\ built \in {0} \cup (sent .. sent + 1)

\* The calls of every build.
AllCalls == {"agc", "agc_init", "command_reserve", "command_allocate", "command_map",
             "data_reserve", "data_allocate", "data_map", "video", "equeue", "event", "flip_rate",
             "framebuffer_allocate", "framebuffer_map", "buffers", "shader_allocate", "shader_map",
             "shaders", "depth_allocate", "depth_map", "depth_state"}

\* What a sequence of calls holds, and one after another, and backwards.
LEMMA ConcatSet ==
  ASSUME NEW s \in Seq(AllCalls), NEW t \in Seq(AllCalls)
  PROVE  s \o t \in Seq(AllCalls) /\ ToSet(s \o t) = ToSet(s) \cup ToSet(t)
<1>1. PICK m \in Nat, n \in Nat : m = Len(s) /\ n = Len(t) /\ DOMAIN s = 1 .. m /\ DOMAIN t = 1 .. n
  BY LenProperties
<1>2. PICK u \in Seq(AllCalls) : u = s \o t
  BY ConcatProperties
<1>3. DOMAIN u = 1 .. m + n /\ \A i \in 1 .. m + n : u[i] = IF i <= m THEN s[i] ELSE t[i - m]
  BY <1>1, <1>2, ConcatProperties, LenProperties
<1>4. \A i \in 1 .. m + n : (i \in 1 .. m /\ u[i] = s[i]) \/ (i - m \in 1 .. n /\ u[i] = t[i - m])
  BY <1>3
<1>5. \A i \in 1 .. m : i \in 1 .. m + n /\ u[i] = s[i]
  <2>1. \A i \in 1 .. m : i \in 1 .. m + n /\ i <= m
    OBVIOUS
  <2> QED
    BY <1>3, <2>1
<1>6. \A i \in 1 .. n : i + m \in 1 .. m + n /\ u[i + m] = t[i]
  <2>1. \A i \in 1 .. n : i + m \in 1 .. m + n /\ ~(i + m <= m) /\ (i + m) - m = i
    OBVIOUS
  <2> QED
    BY <1>3, <2>1
<1>7. ToSet(u) \subseteq ToSet(s) \cup ToSet(t)
  BY <1>1, <1>3, <1>4 DEF ToSet
<1>8. ToSet(s) \cup ToSet(t) \subseteq ToSet(u)
  <2>1. ASSUME NEW x \in ToSet(s) PROVE x \in ToSet(u)
    <3>1. PICK i \in 1 .. m : x = s[i]
      BY <1>1 DEF ToSet
    <3> QED
      BY <1>3, <1>5, <3>1 DEF ToSet
  <2>2. ASSUME NEW x \in ToSet(t) PROVE x \in ToSet(u)
    <3>1. PICK i \in 1 .. n : x = t[i]
      BY <1>1 DEF ToSet
    <3>2. PICK j \in 1 .. m + n : x = u[j]
      BY <1>6, <3>1
    <3> QED
      BY <1>3, <3>2 DEF ToSet
  <2> QED
    BY <2>1, <2>2
<1> QED
  BY <1>2, <1>7, <1>8

\* A list backwards holds the same calls.
LEMMA ReverseSet ==
  ASSUME NEW s \in Seq(AllCalls)
  PROVE  Reverse(s) \in Seq(AllCalls) /\ ToSet(Reverse(s)) = ToSet(s)
<1>1. PICK n \in Nat : n = Len(s) /\ DOMAIN s = 1 .. n /\ \A i \in 1 .. n : s[i] \in AllCalls
  BY LenProperties, ElementOfSeq
<1>2. PICK u : u = [i \in 1 .. n |-> s[(n - i) + 1]]
  OBVIOUS
<1>3. \A i \in 1 .. n : (n - i) + 1 \in 1 .. n /\ (n - ((n - i) + 1)) + 1 = i
  OBVIOUS
<1>4. DOMAIN u = 1 .. n /\ u \in [1 .. n -> AllCalls] /\ Len(u) = n
  BY <1>1, <1>2, <1>3
<1>5. \A i \in 1 .. n : u[(n - i) + 1] = s[i]
  BY <1>2, <1>3
<1>6. u \in Seq(AllCalls)
  BY <1>4, SeqDef
<1>7. ToSet(u) = ToSet(s)
  <2>1. ASSUME NEW x \in ToSet(s) PROVE x \in ToSet(u)
    <3>1. PICK i \in 1 .. n : x = s[i]
      BY <1>1 DEF ToSet
    <3>2. PICK j \in 1 .. n : x = u[j]
      BY <1>3, <1>5, <3>1
    <3> QED
      BY <1>4, <3>2 DEF ToSet
  <2>2. ASSUME NEW x \in ToSet(u) PROVE x \in ToSet(s)
    <3>1. PICK i \in 1 .. n : x = u[i]
      BY <1>4 DEF ToSet
    <3>2. PICK j \in 1 .. n : x = s[j]
      BY <1>2, <1>3, <3>1
    <3> QED
      BY <1>1, <3>2 DEF ToSet
  <2> QED
    BY <2>1, <2>2
<1> QED
  BY <1>1, <1>2, <1>6, <1>7 DEF Reverse

\* The calls of each arena and buffer.
LEMMA Lists ==
  /\ Command \in Seq(AllCalls) /\ ToSet(Command) = {"command_reserve", "command_allocate", "command_map"}
  /\ Data \in Seq(AllCalls) /\ ToSet(Data) = {"data_reserve", "data_allocate", "data_map"}
  /\ Framebuffer \in Seq(AllCalls) /\ ToSet(Framebuffer) = {"framebuffer_allocate", "framebuffer_map"}
  /\ Shader \in Seq(AllCalls) /\ ToSet(Shader) = {"shader_allocate", "shader_map"}
  /\ Depth \in Seq(AllCalls) /\ ToSet(Depth) = {"depth_allocate", "depth_map"}
<1>1. Command \in Seq(AllCalls) /\ ToSet(Command) = {"command_reserve", "command_allocate", "command_map"}
  <2>1. Command \in Seq(AllCalls)
    BY DEF Command, AllCalls
  <2> QED
    BY <2>1 DEF Command, ToSet
<1>2. Data \in Seq(AllCalls) /\ ToSet(Data) = {"data_reserve", "data_allocate", "data_map"}
  <2>1. Data \in Seq(AllCalls)
    BY DEF Data, AllCalls
  <2> QED
    BY <2>1 DEF Data, ToSet
<1>3. Framebuffer \in Seq(AllCalls) /\ ToSet(Framebuffer) = {"framebuffer_allocate", "framebuffer_map"}
  <2>1. Framebuffer \in Seq(AllCalls)
    BY DEF Framebuffer, AllCalls
  <2> QED
    BY <2>1 DEF Framebuffer, ToSet
<1>4. Shader \in Seq(AllCalls) /\ ToSet(Shader) = {"shader_allocate", "shader_map"}
  <2>1. Shader \in Seq(AllCalls)
    BY DEF Shader, AllCalls
  <2> QED
    BY <2>1 DEF Shader, ToSet
<1>5. Depth \in Seq(AllCalls) /\ ToSet(Depth) = {"depth_allocate", "depth_map"}
  <2>1. Depth \in Seq(AllCalls)
    BY DEF Depth, AllCalls
  <2> QED
    BY <2>1 DEF Depth, ToSet
<1> QED
  BY <1>1, <1>2, <1>3, <1>4, <1>5

\* All a build acquires stands in its order of release, and a build that flips
\* has the display and the memory it scans.
LEMMA CallSets ==
  ASSUME NEW b
  PROVE  /\ Acquisitions(b) \in Seq(AllCalls) /\ ReleaseOrder(b) \in Seq(AllCalls)
         /\ "agc" \in ToSet(Acquisitions(b)) /\ "agc" \in Resources(b)
         /\ Resources(b) \subseteq ToSet(ReleaseOrder(b))
         /\ b # "C" => {"video", "framebuffer_map"} \subseteq Resources(b)
<1> DEFINE head == <<"agc", "agc_init">>
           devices == <<"video", "equeue", "event", "flip_rate">>
           buffers == <<"buffers">>
           shading == IF b \in {"E", "I"} THEN Shader \o <<"shaders">> ELSE <<>>
           depth == IF b = "I" THEN Depth \o <<"depth_state">> ELSE <<>>
<1>1. /\ head \in Seq(AllCalls) /\ devices \in Seq(AllCalls) /\ buffers \in Seq(AllCalls)
      /\ <<"shaders">> \in Seq(AllCalls) /\ <<"depth_state">> \in Seq(AllCalls) /\ <<>> \in Seq(AllCalls)
  BY DEF AllCalls
<1>2. /\ ToSet(head) = {"agc", "agc_init"} /\ ToSet(devices) = {"video", "equeue", "event", "flip_rate"}
      /\ ToSet(buffers) = {"buffers"} /\ ToSet(<<"shaders">>) = {"shaders"}
      /\ ToSet(<<"depth_state">>) = {"depth_state"} /\ ToSet(<<>>) = {}
  BY DEF ToSet
<1> DEFINE one == <<"shaders">>
           two == <<"depth_state">>
<1>3. shading \in Seq(AllCalls) /\ ToSet(shading) \subseteq {"shader_allocate", "shader_map", "shaders"}
  <2>1. one \in Seq(AllCalls) /\ ToSet(one) = {"shaders"} /\ shading = IF b \in {"E", "I"} THEN Shader \o one ELSE <<>>
    BY <1>1, <1>2
  <2> HIDE DEF shading, one
  <2>2. Shader \o one \in Seq(AllCalls) /\ ToSet(Shader \o one) = ToSet(Shader) \cup ToSet(one)
    BY <2>1, Lists, ConcatSet
  <2> QED
    BY <1>1, <1>2, <2>1, <2>2, Lists
<1>4. depth \in Seq(AllCalls) /\ ToSet(depth) \subseteq {"depth_allocate", "depth_map", "depth_state"}
  <2>1. two \in Seq(AllCalls) /\ ToSet(two) = {"depth_state"} /\ depth = IF b = "I" THEN Depth \o two ELSE <<>>
    BY <1>1, <1>2
  <2> HIDE DEF depth, two
  <2>2. Depth \o two \in Seq(AllCalls) /\ ToSet(Depth \o two) = ToSet(Depth) \cup ToSet(two)
    BY <2>1, Lists, ConcatSet
  <2> QED
    BY <1>1, <1>2, <2>1, <2>2, Lists
<1> HIDE DEF shading, depth, head, devices, buffers
<1> DEFINE a == head \o Command
<1>5. a \in Seq(AllCalls) /\ ToSet(a) = ToSet(head) \cup ToSet(Command)
  BY <1>1, Lists, ConcatSet
<1> HIDE DEF a
<1> DEFINE d1 == devices \o Framebuffer
<1>6. d1 \in Seq(AllCalls) /\ ToSet(d1) = ToSet(devices) \cup ToSet(Framebuffer)
  BY <1>1, Lists, ConcatSet
<1> HIDE DEF d1
<1> DEFINE d2 == d1 \o buffers
<1>7. d2 \in Seq(AllCalls) /\ ToSet(d2) = ToSet(d1) \cup {"buffers"}
  BY <1>1, <1>2, <1>6, ConcatSet
<1> HIDE DEF d2
<1> DEFINE d3 == d2 \o shading
<1>8. d3 \in Seq(AllCalls) /\ ToSet(d3) = ToSet(d2) \cup ToSet(shading)
  BY <1>3, <1>7, ConcatSet
<1> HIDE DEF d3
<1> DEFINE d4 == d3 \o depth
<1>9. d4 \in Seq(AllCalls) /\ ToSet(d4) = ToSet(d3) \cup ToSet(depth)
  BY <1>4, <1>8, ConcatSet
<1> HIDE DEF d4
<1> DEFINE e == IF b = "C" THEN Data ELSE d4
<1>10. e \in Seq(AllCalls) /\ ToSet(e) = IF b = "C" THEN ToSet(Data) ELSE ToSet(d4)
  BY <1>9, Lists
<1> HIDE DEF e
<1> DEFINE acq == a \o e
<1>11. acq \in Seq(AllCalls) /\ ToSet(acq) = ToSet(a) \cup ToSet(e)
  BY <1>5, <1>10, ConcatSet
<1> HIDE DEF acq
<1>12. Acquisitions(b) = acq
  BY DEF Acquisitions, acq, a, e, d4, d3, d2, d1, head, devices, buffers, shading, depth
<1> DEFINE users == <<"buffers", "event", "equeue", "video">>
           last == <<"agc">>
<1>13. users \in Seq(AllCalls) /\ last \in Seq(AllCalls)
  BY DEF AllCalls
<1>14. ToSet(users) = {"buffers", "event", "equeue", "video"} /\ ToSet(last) = {"agc"}
  BY DEF ToSet
<1> HIDE DEF users, last
<1> DEFINE r1 == users \o Reverse(Framebuffer)
<1>15. r1 \in Seq(AllCalls) /\ ToSet(r1) = ToSet(users) \cup ToSet(Framebuffer)
  BY <1>13, Lists, ConcatSet, ReverseSet
<1> HIDE DEF r1
<1> DEFINE r2 == r1 \o Reverse(Depth)
<1>16. r2 \in Seq(AllCalls) /\ ToSet(r2) = ToSet(r1) \cup ToSet(Depth)
  BY <1>15, Lists, ConcatSet, ReverseSet
<1> HIDE DEF r2
<1> DEFINE r3 == r2 \o Reverse(Shader)
<1>17. r3 \in Seq(AllCalls) /\ ToSet(r3) = ToSet(r2) \cup ToSet(Shader)
  BY <1>16, Lists, ConcatSet, ReverseSet
<1> HIDE DEF r3
<1> DEFINE r4 == (IF b = "C" THEN Reverse(Data) ELSE r3)
<1>18. r4 \in Seq(AllCalls) /\ ToSet(r4) = IF b = "C" THEN ToSet(Data) ELSE ToSet(r3)
  BY <1>17, Lists, ReverseSet
<1> HIDE DEF r4
<1> DEFINE r5 == r4 \o Reverse(Command)
<1>19. r5 \in Seq(AllCalls) /\ ToSet(r5) = ToSet(r4) \cup ToSet(Command)
  BY <1>18, Lists, ConcatSet, ReverseSet
<1> HIDE DEF r5
<1> DEFINE rel == r5 \o last
<1>20. rel \in Seq(AllCalls) /\ ToSet(rel) = ToSet(r5) \cup {"agc"}
  BY <1>13, <1>14, <1>19, ConcatSet
<1> HIDE DEF rel
<1>21. ReleaseOrder(b) = rel
  BY DEF ReleaseOrder, rel, r5, r4, r3, r2, r1, users, last
<1>22. Resources(b) = ToSet(acq) \ Momentary
  BY <1>12 DEF Resources
<1>23. CASE b = "C"
  BY <1>2, <1>5, <1>10, <1>11, <1>12, <1>18, <1>19, <1>20, <1>21, <1>22, <1>23, Lists DEF Momentary
<1>24. CASE b # "C"
  <2>1. ToSet(acq) \subseteq ToSet(rel) \cup Momentary
    BY <1>2, <1>3, <1>4, <1>5, <1>6, <1>7, <1>8, <1>9, <1>10, <1>11, <1>14, <1>15, <1>16, <1>17, <1>18, <1>19, <1>20, <1>24, Lists DEF Momentary
  <2>2. {"agc", "video", "framebuffer_map"} \subseteq ToSet(acq)
    BY <1>2, <1>5, <1>6, <1>7, <1>8, <1>9, <1>10, <1>11, <1>24, Lists
  <2>3. Resources(b) \subseteq ToSet(rel)
    BY <1>22, <2>1
  <2>4. "agc" \notin Momentary /\ "video" \notin Momentary /\ "framebuffer_map" \notin Momentary
    BY DEF Momentary
  <2>5. {"agc", "video", "framebuffer_map"} \subseteq Resources(b)
    BY <1>22, <2>2, <2>4
  <2> QED
    BY <1>11, <1>12, <1>20, <1>21, <2>2, <2>3, <2>5
<1> QED
  BY <1>23, <1>24

\* What comes first in the order of release: the display is closed before the
\* memory it scans is released.
DisplayFirst(s) ==
    /\ Len(s) >= 4 /\ s[4] = "video"
    /\ \A i \in 1 .. 4 : s[i] # "framebuffer_map"

\* Something appended changes nothing in that.
LEMMA DisplayConcat ==
  ASSUME NEW s \in Seq(AllCalls), NEW t \in Seq(AllCalls), DisplayFirst(s)
  PROVE  DisplayFirst(s \o t)
<1>1. PICK m \in Nat, n \in Nat : m = Len(s) /\ n = Len(t) /\ m >= 4
  BY LenProperties DEF DisplayFirst
<1>2. Len(s \o t) = m + n /\ \A i \in 1 .. m + n : (s \o t)[i] = IF i <= m THEN s[i] ELSE t[i - m]
  BY <1>1, ConcatProperties
<1>3. m + n >= 4 /\ \A i \in 1 .. 4 : i \in 1 .. m + n /\ i <= m
  BY <1>1
<1>4. \A i \in 1 .. 4 : (s \o t)[i] = s[i]
  BY <1>2, <1>3
<1>5. 4 \in 1 .. 4
  OBVIOUS
<1> QED
  BY <1>2, <1>3, <1>4, <1>5 DEF DisplayFirst

\* Every build that flips closes the display first.
LEMMA DisplayClosedFirst ==
  ASSUME NEW b, b # "C"
  PROVE  DisplayFirst(ReleaseOrder(b))
<1> DEFINE users == <<"buffers", "event", "equeue", "video">>
           last == <<"agc">>
<1>1. users \in Seq(AllCalls) /\ last \in Seq(AllCalls)
  BY DEF AllCalls
<1>2. DisplayFirst(users)
  <2>1. Len(users) = 4 /\ users[1] = "buffers" /\ users[2] = "event" /\ users[3] = "equeue" /\ users[4] = "video"
    OBVIOUS
  <2>2. \A i \in 1 .. 4 : i = 1 \/ i = 2 \/ i = 3 \/ i = 4
    OBVIOUS
  <2> QED
    BY <2>1, <2>2 DEF DisplayFirst
<1> HIDE DEF users, last
<1> DEFINE r1 == users \o Reverse(Framebuffer)
<1>3. r1 \in Seq(AllCalls) /\ DisplayFirst(r1)
  BY <1>1, <1>2, Lists, ConcatSet, ReverseSet, DisplayConcat
<1> HIDE DEF r1
<1> DEFINE r2 == r1 \o Reverse(Depth)
<1>4. r2 \in Seq(AllCalls) /\ DisplayFirst(r2)
  BY <1>3, Lists, ConcatSet, ReverseSet, DisplayConcat
<1> HIDE DEF r2
<1> DEFINE r3 == r2 \o Reverse(Shader)
<1>5. r3 \in Seq(AllCalls) /\ DisplayFirst(r3)
  BY <1>4, Lists, ConcatSet, ReverseSet, DisplayConcat
<1> HIDE DEF r3
<1> DEFINE r4 == r3 \o Reverse(Command)
<1>6. r4 \in Seq(AllCalls) /\ DisplayFirst(r4)
  BY <1>5, Lists, ConcatSet, ReverseSet, DisplayConcat
<1> HIDE DEF r4
<1>7. DisplayFirst(r4 \o last)
  BY <1>1, <1>6, DisplayConcat
<1>8. ReleaseOrder(b) = r4 \o last
  BY DEF ReleaseOrder, r4, r3, r2, r1, users, last
<1> QED
  BY <1>7, <1>8

\* The next thing owed is held, and what stands before it is not owed; when
\* nothing is owed nothing held is.
LEMMA OwedFirst ==
  ASSUME NEW given, given = ReleaseOrder(build)
  PROVE  /\ Owed # 0 =>
              /\ Owed \in 1 .. Len(given) /\ Owes(given[Owed])
              /\ \A i \in 1 .. Len(given) : i < Owed => ~Owes(given[i])
         /\ Owed = 0 => \A r \in ToSet(given) : ~Owes(r)
<1>1. given \in Seq(AllCalls)
  BY CallSets
<1>2. PICK n \in Nat : n = Len(given) /\ DOMAIN given = 1 .. n
  BY <1>1, LenProperties
<1> DEFINE I == {i \in 1 .. n : Owes(given[i])}
           u == IF I # {} THEN Min(I) ELSE 0
<1>3. Owed = u
  BY <1>2 DEF Owed, SelectInSeq
<1>4. I \subseteq 1 .. n
  OBVIOUS
<1>5. ToSet(given) = {given[i] : i \in 1 .. n}
  BY <1>2 DEF ToSet
<1>6. \A i \in 1 .. n : Owes(given[i]) <=> i \in I
  OBVIOUS
<1> HIDE DEF I
<1>7. u \in 0 .. n /\ (u # 0 => u \in I /\ \A i \in I : u <= i) /\ (u = 0 => I = {})
  BY <1>4, FirstOf
<1> HIDE DEF u
<1>8. ASSUME u # 0, NEW i \in 1 .. n, i < u PROVE i \notin I
  BY <1>7, <1>8
<1> QED
  BY <1>2, <1>3, <1>4, <1>5, <1>6, <1>7, <1>8

\* Two buffers in flight, one after the other, never share a slot.
LEMMA FrameSlots ==
  /\ \A n \in Nat : FrameSlot(n) \in {0, 1}
  /\ \A n \in Nat : FrameSlot(n + 1) # FrameSlot(n)
  BY DEF FrameSlot

\* How many buffers a build sends, and how many may be in flight.
LEMMA Counts ==
  ASSUME NEW b \in Builds
  PROVE  /\ Total(b) \in Nat \ {0} /\ InFlight(b) \in {1, 2}
         /\ b # "I" => InFlight(b) = 1
         /\ b = "C" => Total(b) = 1
  BY AgcStageAssumption DEF Total, InFlight

\* With every buffer sent also retired the hardware has nothing to do.
LEMMA NothingInFlight ==
  ASSUME StageInv, at \in StageLive, sent = retired, at # "submit"
  PROVE  ~HardwareBusy /\ gpu = <<>> /\ pending = <<>>
<1>1. StageTyped /\ StageOutstanding
  BY DEF StageInv
<1>2. PICK g \in Nat, p \in Nat, e \in Nat : g = Len(gpu) /\ p = Len(pending) /\ e = Len(events)
  BY <1>1, LenProperties DEF StageTyped
<1>3. g = 0
  BY <1>1, <1>2 DEF StageOutstanding, StageTyped
<1>4. gpu = <<>>
  BY <1>1, <1>2, <1>3, EmptySeq DEF StageTyped
<1>5. pending = <<>>
  <2>1. CASE build = "C"
    BY <1>1, <2>1 DEF StageTyped
  <2>2. CASE build # "C"
    <3>1. e + p + g - 0 = 0
      BY <1>1, <1>2, <1>4, <2>2 DEF StageOutstanding, StageTyped
    <3> QED
      BY <1>1, <1>2, <1>3, <3>1, EmptySeq DEF StageTyped
  <2> QED
    BY <2>1, <2>2
<1>6. built <= sent
  BY <1>1 DEF StageOutstanding, StageTyped
<1> QED
  BY <1>1, <1>4, <1>5, <1>6 DEF HardwareBusy, StageTyped

\* A title that stops: it parks and keeps what it holds, or the hardware is
\* idle when it is killed or goes to give back.
LEMMA StageStops ==
  ASSUME StageInv, UNCHANGED <<build, stageCpu, hardware>>, faulty' = TRUE,
         at' \in {"parked", "release", "killed"},
         at \in StageLive \cup {"release"},
         at' # "parked" => ~HardwareBusy
  PROVE  StageInv'
<1>1. StageTyped'
  BY DEF StageInv, StageTyped, StageLive, StageOver, stageCpu, hardware
<1>2. StageHeld'
  BY DEF StageInv, StageHeld, StageLive, Resources, stageCpu, hardware
<1>3. Retained'
  <2>1. HardwareBusy' <=> HardwareBusy
    BY DEF HardwareBusy, stageCpu, hardware
  <2>2. HardwareBusy => holding = Resources(build)
    BY DEF StageInv, Retained
  <2> QED
    BY <2>1, <2>2 DEF Retained, Resources, stageCpu
<1>4. at' \notin StageLive /\ (at' \in {"scrub", "release"} => ~HardwareBusy')
  BY DEF StageLive, HardwareBusy, stageCpu, hardware
<1>5. (retired <= sent /\ sent <= Total(build) /\ built \in {0} \cup (sent .. sent + 1))'
  BY DEF StageInv, Total, stageCpu
<1> QED
  BY <1>1, <1>2, <1>3, <1>4, <1>5 DEF StageInv

\* One acquisition; with the last, all the resources are held.
LEMMA StageAcquireKeeps ==
  ASSUME StageInv, StageAcquire
  PROVE  StageInv'
<1> USE DEF StageAcquire
<1>0. StageTyped /\ StageHeld /\ StageOutstanding /\ at \in StageLive /\ at = "acquire" /\ sent = 0
  BY DEF StageInv, StageLive, StageHeld
<1>1. PICK calls \in Seq(AllCalls), n \in Nat :
         calls = Acquisitions(build) /\ n = Len(calls) /\ DOMAIN calls = 1 .. n /\ build' = build
  BY CallSets, LenProperties
<1>2. next \in Nat /\ next < n /\ next' = next + 1
  BY <1>0, <1>1 DEF StageTyped, StageHeld
<1>3. holding' = {calls[i] : i \in 1 .. next'} \ Momentary
  <2>1. holding' = holding \cup ({calls[next + 1]} \ Momentary)
    BY <1>1
  <2>2. holding = {calls[i] : i \in 1 .. next} \ Momentary
    BY <1>0, <1>1 DEF StageHeld
  <2>3. \A i \in Nat : i \in 1 .. next + 1 <=> i \in 1 .. next \/ i = next + 1
    BY <1>2
  <2>4. {calls[i] : i \in 1 .. next + 1} = {calls[i] : i \in 1 .. next} \cup {calls[next + 1]}
    BY <1>2, <2>3
  <2> QED
    BY <1>2, <2>1, <2>2, <2>4
<1>4. holding' \subseteq Resources(build) /\ (next' = n => holding' = Resources(build))
  BY <1>1, <1>2, <1>3 DEF Resources, ToSet
<1>5. at' = IF next' = n THEN "turn" ELSE "acquire"
  BY <1>1
<1>6. retired = 0 /\ sent = retired
  BY <1>0 DEF StageOutstanding, StageTyped
<1>7. ~HardwareBusy
  BY <1>0, <1>6, NothingInFlight
<1>8. StageTyped'
  BY <1>0, <1>2, <1>5 DEF StageTyped, StageLive, stageCpu, hardware
<1>9. StageHeld'
  <2>1. onScreen # NoSlot => {"video", "framebuffer_map"} \subseteq holding'
    BY <1>0 DEF StageHeld, hardware
  <2>2. next' < n \/ next' = n
    BY <1>2
  <2> QED
    BY <1>0, <1>1, <1>2, <1>3, <1>4, <1>5, <2>1, <2>2 DEF StageHeld, StageLive, hardware
<1>10. Retained'
  BY <1>7 DEF Retained, HardwareBusy, hardware
<1>11. StageOutstanding'
  BY <1>0, <1>5 DEF StageOutstanding, hardware
<1>12. StageWaiting'
  BY <1>5 DEF StageWaiting
<1>13. (retired <= sent /\ sent <= Total(build) /\ built \in {0} \cup (sent .. sent + 1))'
  BY DEF StageInv
<1>14. at' \notin {"scrub", "release"}
  BY <1>5
<1> QED
  BY <1>8, <1>9, <1>10, <1>11, <1>12, <1>13, <1>14 DEF StageInv

\* A title at work keeps what it holds as long as the display and what it holds
\* are left alone.
LEMMA HeldKept ==
  ASSUME StageInv, at \in StageLive \ {"acquire"},
         UNCHANGED <<build, holding, deferred, onScreen>>,
         at' \in (StageLive \ {"acquire"}) \cup {"parked", "release"},
         at' = "parked" => faulty'
  PROVE  StageHeld' /\ holding' = Resources(build)'
  BY DEF StageInv, StageHeld, StageLive, Resources

\* A buffer built raises its fence, and stays to be handed over.
LEMMA StageComposeKeeps ==
  ASSUME StageInv, Compose \/ BuilderFails
  PROVE  StageInv'
<1>0. /\ StageTyped /\ StageOutstanding /\ at = "turn" /\ at \in StageLive /\ build \in Builds
      /\ sent < Total(build) /\ sent - retired < InFlight(build)
      /\ fences' = [fences EXCEPT ![FrameSlot(sent)] = 1]
      /\ built' = IF build # "C" THEN built + 1 ELSE built
      /\ armed' = (armed \/ build # "E")
      /\ (at' = "submit" /\ faulty' = faulty) \/ (at' = "parked" /\ faulty' = TRUE)
      /\ UNCHANGED <<build, next, holding, sent, retired, sample, deferred, hardware>>
  BY DEF Compose, BuilderFails, MayCompose, Park, Flips, StageInv, StageTyped, StageLive
<1>1. /\ UNCHANGED <<gpu, gpuFlipped, pending, onScreen, events, holding, sent, retired, build>>
      /\ sent \in Nat /\ retired \in Nat
  BY <1>0 DEF hardware, StageTyped
<1>2. /\ FrameSlot(sent) \in {0, 1} /\ fences' \in [{0, 1} -> {0, 1}] /\ fences'[FrameSlot(sent)] = 1
      /\ \A s \in {0, 1} : fences[s] = 1 => fences'[s] = 1
  <2>1. PICK k \in {0, 1} : k = FrameSlot(sent)
    BY <1>1, FrameSlots
  <2>2. fences \in [{0, 1} -> {0, 1}] /\ fences' = [fences EXCEPT ![k] = 1]
    BY <1>0, <2>1 DEF StageTyped
  <2>3. fences' \in [{0, 1} -> {0, 1}] /\ fences'[k] = 1 /\ \A s \in {0, 1} : fences[s] = 1 => fences'[s] = 1
    BY <2>2
  <2> QED
    BY <2>1, <2>3
<1>3. StageTyped'
  <2>1. armed' \in BOOLEAN /\ built' \in Nat /\ faulty' \in BOOLEAN
    <3>1. built \in Nat /\ armed \in BOOLEAN /\ faulty \in BOOLEAN
      BY <1>0 DEF StageTyped
    <3>2. armed' \in BOOLEAN
      BY <1>0, <3>1
    <3>3. built' \in Nat
      BY <1>0, <3>1
    <3>4. faulty' \in BOOLEAN
      BY <1>0, <3>1
    <3> QED
      BY <3>2, <3>3, <3>4
  <2>2. at' \in StageLive \cup StageOver /\ sample' \in {0, 1} /\ next' \in Nat /\ deferred' \in BOOLEAN
    BY <1>0 DEF StageTyped, StageLive, StageOver
  <2> QED
    BY <1>0, <1>1, <1>2, <2>1, <2>2 DEF StageTyped
<1>4. StageHeld' /\ holding' = Resources(build)'
  BY <1>0, HeldKept DEF StageLive, hardware
<1>5. Retained'
  BY <1>0, <1>4 DEF Retained
<1>6. built' = (IF build = "C" THEN 0 ELSE sent + 1)
  BY <1>0 DEF StageOutstanding
<1>7. CASE at' = "submit"
  <2>1. \A i \in 1 .. Len(gpu) : gpu[i] \in Nat
    BY <1>0, ElementOfSeq DEF StageTyped
  <2>2. \A i \in 1 .. Len(gpu) : gpu[i] = sent - Len(gpu) + i - 1 /\ fences'[FrameSlot(gpu[i])] = 1
    BY <1>0, <1>2, <2>1, FrameSlots DEF StageOutstanding
  <2>3. StageOutstanding'
    BY <1>0, <1>1, <1>2, <1>6, <1>7, <2>2 DEF StageOutstanding, InFlight, Total
  <2>4. StageWaiting'
    BY <1>7 DEF StageWaiting
  <2>5. (retired <= sent /\ sent <= Total(build) /\ built \in {0} \cup (sent .. sent + 1))'
    BY <1>0, <1>1, <1>6 DEF StageInv, Total
  <2> QED
    BY <1>3, <1>4, <1>5, <1>7, <2>3, <2>4, <2>5 DEF StageInv
<1>8. CASE at' = "parked"
  <2>1. (retired <= sent /\ sent <= Total(build) /\ built \in {0} \cup (sent .. sent + 1))'
    BY <1>0, <1>1, <1>6 DEF StageInv, Total
  <2>2. at' \notin StageLive
    BY <1>8 DEF StageLive
  <2> QED
    BY <1>3, <1>4, <1>5, <1>8, <2>1, <2>2 DEF StageInv
<1> QED
  BY <1>0, <1>7, <1>8

\* A command buffer handed over.
LEMMA GpuAppend ==
  ASSUME StageTyped
  PROVE  /\ Append(gpu, sent) \in Seq(Nat) /\ Len(Append(gpu, sent)) = Len(gpu) + 1
         /\ Len(gpu) \in Nat /\ Append(gpu, sent) # <<>>
         /\ \A i \in 1 .. Len(gpu) : Append(gpu, sent)[i] = gpu[i]
         /\ Append(gpu, sent)[Len(gpu) + 1] = sent
<1>1. gpu \in Seq(Nat) /\ sent \in Nat /\ Len(gpu) \in Nat
  BY LenProperties DEF StageTyped
<1>2. /\ Append(gpu, sent) \in Seq(Nat) /\ Len(Append(gpu, sent)) = Len(gpu) + 1
      /\ \A i \in 1 .. Len(gpu) : Append(gpu, sent)[i] = gpu[i]
      /\ Append(gpu, sent)[Len(gpu) + 1] = sent
  BY <1>1, AppendProperties
<1> QED
  BY <1>1, <1>2, EmptySeq

\* A buffer handed over is the last of those the GPU has.
LEMMA StageSubmitKeeps ==
  ASSUME StageInv, SubmitDcb \/ SubmitFails
  PROVE  StageInv'
<1>0. /\ StageTyped /\ StageOutstanding /\ at = "submit" /\ at \in StageLive /\ build \in Builds
      /\ UNCHANGED <<build, next, holding, built, retired, fences, sample, deferred,
                     gpuFlipped, pending, onScreen, events>>
      /\ armed' = Arms /\ gpu' \in {gpu, Append(gpu, sent)}
  BY DEF SubmitDcb, SubmitFails, StageInv, StageTyped, StageLive
<1>1. sent \in Nat /\ retired \in Nat /\ armed' \in BOOLEAN
  BY <1>0 DEF StageTyped, Arms
<1>2. gpu' \in Seq(Nat) /\ (gpuFlipped => gpu' # <<>>)
  BY <1>0, GpuAppend DEF StageTyped
<1>3. CASE SubmitFails
  <2>1. at' = "parked" /\ faulty' = TRUE /\ sent' = sent
    BY <1>3 DEF SubmitFails, Park
  <2>2. StageTyped'
    BY <1>0, <1>1, <1>2, <2>1 DEF StageTyped, StageOver
  <2>3. StageHeld' /\ holding' = Resources(build)'
    BY <1>0, <2>1, HeldKept DEF StageLive
  <2>4. Retained'
    BY <2>1, <2>3 DEF Retained
  <2>5. (retired <= sent /\ sent <= Total(build) /\ built \in {0} \cup (sent .. sent + 1))'
    BY <1>0, <2>1 DEF StageInv, Total
  <2>6. at' \notin StageLive
    BY <2>1 DEF StageLive
  <2> QED
    BY <2>1, <2>2, <2>3, <2>4, <2>5, <2>6 DEF StageInv
<1>4. CASE SubmitDcb
  <2>1. at' = "turn" /\ faulty' = faulty /\ sent' = sent + 1 /\ gpu' = Append(gpu, sent)
    BY <1>4 DEF SubmitDcb
  <2>2. StageTyped'
    BY <1>0, <1>1, <1>2, <2>1 DEF StageTyped, StageLive
  <2>3. StageHeld' /\ holding' = Resources(build)'
    BY <1>0, <2>1, HeldKept DEF StageLive
  <2>4. Retained'
    BY <2>1, <2>3 DEF Retained
  <2>5. (retired <= sent /\ sent <= Total(build) /\ built \in {0} \cup (sent .. sent + 1))'
    <3>1. Total(build) \in Nat
      BY <1>0, Counts
    <3> QED
      BY <1>0, <1>1, <2>1, <3>1 DEF StageOutstanding, Total
  <2>6. PICK g \in Nat, p \in Nat, e \in Nat : g = Len(gpu) /\ p = Len(pending) /\ e = Len(events)
    BY <1>0, LenProperties DEF StageTyped
  <2>7. Len(gpu') = g + 1
    BY <1>0, <2>1, <2>6, GpuAppend
  <2>8. \A i \in 1 .. Len(gpu') : gpu'[i] = sent' - Len(gpu') + i - 1 /\ fences'[FrameSlot(gpu'[i])] = 1
    <3>1. SUFFICES ASSUME NEW i \in 1 .. g + 1
                   PROVE  gpu'[i] = (sent + 1) - (g + 1) + i - 1 /\ fences[FrameSlot(gpu'[i])] = 1
      BY <1>0, <2>1, <2>7
    <3>2. CASE i \in 1 .. g
      <4>1. gpu'[i] = gpu[i] /\ gpu[i] = sent - g + i - 1 /\ fences[FrameSlot(gpu[i])] = 1
        BY <1>0, <2>1, <2>6, <3>2, GpuAppend DEF StageOutstanding
      <4> QED
        BY <1>1, <4>1
    <3>3. CASE i = g + 1
      <4>1. gpu'[i] = sent
        BY <1>0, <2>1, <2>6, <3>3, GpuAppend
      <4>2. fences[FrameSlot(sent)] = 1
        BY <1>0 DEF StageOutstanding
      <4> QED
        BY <1>1, <3>3, <4>1, <4>2
    <3> QED
      BY <3>2, <3>3
  <2>9. StageOutstanding'
    <3>1. InFlight(build) \in Nat /\ Total(build) \in Nat
      BY <1>0, Counts
    <3>2. (retired <= sent /\ sent - retired <= InFlight(build) /\ sent <= Total(build))'
      BY <1>0, <1>1, <2>1, <3>1 DEF StageOutstanding, InFlight, Total
    <3>3. built' = IF build = "C" THEN 0 ELSE sent'
      BY <1>0, <2>1 DEF StageOutstanding
    <3>4. Len(gpu') <= sent' - retired'
      BY <1>0, <1>1, <2>1, <2>6, <2>7 DEF StageOutstanding
    <3>5. build # "C" => e + p + (g + 1) - (IF gpuFlipped THEN 1 ELSE 0) = (sent + 1) - retired
      BY <1>0, <1>1, <2>6 DEF StageOutstanding
    <3>6. build # "C" => Len(events') + Len(pending') + Len(gpu') - (IF gpuFlipped' THEN 1 ELSE 0) = sent' - retired'
      BY <1>0, <2>1, <2>6, <2>7, <3>5
    <3>7. /\ build = "C" => events' = <<>>
          /\ build # "C" =>
               /\ \A i \in 1 .. Len(pending') : pending'[i] = retired' + Len(events') + i - 1
               /\ \A i \in 1 .. Len(events') : events'[i] = retired' + i - 1
      BY <1>0 DEF StageOutstanding
    <3>8. build' = build /\ at' # "submit"
      BY <1>0, <2>1
    <3> QED
      BY <2>8, <3>2, <3>3, <3>4, <3>6, <3>7, <3>8 DEF StageOutstanding
  <2>10. StageWaiting'
    BY <2>1 DEF StageWaiting
  <2> QED
    BY <2>1, <2>2, <2>3, <2>4, <2>5, <2>9, <2>10 DEF StageInv
<1> QED
  BY <1>3, <1>4

\* A step of the title that touches neither its counters nor the hardware, and
\* stays at work.
LEMMA StageWalks ==
  ASSUME StageInv, UNCHANGED <<build, next, holding, armed, built, sent, retired, fences,
                               deferred, hardware, faulty>>,
         at \in StageLive \ {"acquire", "submit"}, at' \in {"turn", "poll", "event", "check", "scrub", "release"},
         sample' \in {0, 1}, StageWaiting',
         at' \in {"scrub", "release"} => ~HardwareBusy
  PROVE  StageInv'
<1>0. StageTyped /\ StageOutstanding /\ at \in StageLive
  BY DEF StageInv
<1>1. StageTyped'
  BY <1>0 DEF StageTyped, StageLive, StageOver, hardware
<1>2. StageHeld' /\ holding' = Resources(build)'
  BY HeldKept DEF StageLive, hardware
<1>3. Retained'
  BY <1>2 DEF Retained, StageLive
<1>4. StageOutstanding'
  <2>1. at # "submit" /\ at' # "submit"
    BY DEF StageLive
  <2> QED
    BY <1>0, <2>1 DEF StageOutstanding, InFlight, Total, hardware
<1>5. (retired <= sent /\ sent <= Total(build) /\ built \in {0} \cup (sent .. sent + 1))'
  BY DEF StageInv, Total
<1>6. at' \in {"scrub", "release"} => ~HardwareBusy'
  BY DEF HardwareBusy, hardware
<1> QED
  BY <1>1, <1>2, <1>3, <1>4, <1>5, <1>6 DEF StageInv

\* A wait for the fence ends when it is down.
LEMMA StageFenceKeeps ==
  ASSUME StageInv, FenceZero
  PROVE  StageInv'
<1>1. /\ StageTyped /\ StageOutstanding /\ at = "turn" /\ build \in Builds /\ retired < sent
      /\ fences[FrameSlot(retired)] = 0 /\ sent \in Nat /\ retired \in Nat
      /\ at' = IF build \in {"B", "I"} \/ sent < Total(build) THEN "poll" ELSE "check"
      /\ UNCHANGED <<build, next, holding, armed, built, sent, retired, fences, sample, deferred,
                     hardware, faulty>>
  BY DEF FenceZero, StageInv, StageTyped, StageLive, stageCpu
<1>2. StageWaiting'
  <2>1. CASE at' = "poll"
    BY <1>1, <2>1 DEF StageWaiting
  <2>2. CASE at' = "check"
    <3>1. build # "I" /\ ~(sent < Total(build)) /\ InFlight(build) = 1 /\ Total(build) \in Nat
      BY <1>1, <2>2, Counts
    <3>2. sent = Total(build) /\ retired + 1 = sent
      BY <1>1, <3>1 DEF StageOutstanding
    <3> QED
      BY <1>1, <2>2, <3>1, <3>2 DEF StageWaiting, Total
  <2> QED
    BY <1>1, <2>1, <2>2
<1>3. sample' \in {0, 1}
  BY <1>1 DEF StageTyped
<1>4. at \in StageLive \ {"acquire", "submit"} /\ at' \in {"poll", "check"}
  BY <1>1 DEF StageLive
<1> QED
  BY <1>1, <1>2, <1>3, <1>4, StageWalks

\* A poll reads a fence that is down already.
LEMMA StagePollKeeps ==
  ASSUME StageInv, PollFence \/ PollAgain
  PROVE  StageInv'
<1>1. /\ StageTyped /\ StageWaiting /\ at \in {"poll", "event"} /\ at' \in {"poll", "event"}
      /\ sample' = fences[FrameSlot(retired)] \/ (at' = "poll" /\ sample' = sample)
      /\ UNCHANGED <<build, next, holding, armed, built, sent, retired, fences, deferred, hardware, faulty>>
  BY DEF PollFence, PollAgain, StageInv, StageLive, stageCpu
<1>2. retired < sent /\ fences[FrameSlot(retired)] = 0
  BY <1>1 DEF StageWaiting
<1>3. StageWaiting'
  BY <1>1, <1>2 DEF StageWaiting
<1>4. sample' \in {0, 1}
  BY <1>1, <1>2 DEF StageTyped
<1>5. at \in StageLive \ {"acquire", "submit"}
  BY <1>1 DEF StageLive
<1> QED
  BY <1>1, <1>3, <1>4, <1>5, StageWalks

\* Nothing is in flight when the scrub is done.
LEMMA StageScrubKeeps ==
  ASSUME StageInv, Scrub
  PROVE  StageInv'
<1>1. /\ StageTyped /\ at = "scrub" /\ at' = "release" /\ ~HardwareBusy
      /\ UNCHANGED <<build, next, holding, armed, built, sent, retired, fences, sample, deferred,
                     hardware, faulty>>
  BY DEF Scrub, StageInv, stageCpu
<1>2. StageWaiting' /\ sample' \in {0, 1} /\ at \in StageLive \ {"acquire", "submit"}
  BY <1>1 DEF StageWaiting, StageTyped, StageLive
<1> QED
  BY <1>1, <1>2, StageWalks

\* The frame at the head is retired: its flip is no longer on its way and the
\* GPU does not have it.
LEMMA OldestIsGone ==
  ASSUME StageInv, at \in StageLive, retired < sent, fences[FrameSlot(retired)] = 0
  PROVE  Len(gpu) \in Nat /\ Len(gpu) <= sent - (retired + 1)
<1>1. /\ StageTyped /\ StageOutstanding /\ sent \in Nat /\ retired \in Nat
  BY DEF StageInv, StageTyped
<1>2. PICK g \in Nat : g = Len(gpu)
  BY <1>1, LenProperties DEF StageTyped
<1>3. g <= sent - retired
  BY <1>1, <1>2 DEF StageOutstanding
<1>4. ASSUME g = sent - retired PROVE FALSE
  <2>1. 1 \in 1 .. g
    BY <1>1, <1>4
  <2>2. gpu[1] = sent - g + 1 - 1 /\ fences[FrameSlot(gpu[1])] = 1
    BY <1>1, <1>2, <2>1 DEF StageOutstanding
  <2>3. gpu[1] = retired
    BY <1>1, <1>4, <2>2
  <2> QED
    BY <2>2, <2>3
<1> QED
  BY <1>1, <1>2, <1>3, <1>4

\* The check, which retires the one buffer of a build that never flips.
LEMMA StageCheckKeeps ==
  ASSUME StageInv, NEW ok \in BOOLEAN, Check(ok)
  PROVE  StageInv'
<1>1. /\ StageTyped /\ StageOutstanding /\ StageWaiting /\ at = "check" /\ build \in Builds
      /\ sent \in Nat /\ retired \in Nat /\ at \in StageLive
  BY DEF Check, StageInv, StageTyped, StageLive
<1>2. /\ UNCHANGED <<build, next, holding, armed, built, sent, fences, sample, deferred, hardware>>
      /\ UNCHANGED <<gpu, gpuFlipped, pending, onScreen, events>>
  BY DEF Check, hardware
<1>3. /\ sent = Total(build)
      /\ build = "I" => retired = sent
      /\ build # "I" => retired + 1 = sent /\ fences[FrameSlot(retired)] = 0
  BY <1>1 DEF StageWaiting
<1>4. CASE ~ok
  <2>1. at' = "parked" /\ retired' = retired /\ faulty' = TRUE
    BY <1>1, <1>4 DEF Check, StageTyped
  <2> QED
    BY <1>1, <1>2, <2>1, StageStops DEF stageCpu
<1>5. CASE ok /\ build = "I"
  <2>1. at' = "scrub" /\ retired' = retired /\ faulty' = faulty
    BY <1>1, <1>5 DEF Check, StageTyped
  <2>2. ~HardwareBusy
    BY <1>1, <1>3, <1>5, NothingInFlight
  <2>3. StageWaiting' /\ sample' \in {0, 1} /\ at \in StageLive \ {"acquire", "submit"}
    BY <1>1, <1>2, <2>1 DEF StageWaiting, StageTyped, StageLive
  <2> QED
    BY <1>2, <2>1, <2>2, <2>3, StageWalks
<1>6. CASE ok /\ build \notin {"C", "I"}
  <2>1. at' = "poll" /\ retired' = retired /\ faulty' = faulty
    BY <1>1, <1>6 DEF Check, StageTyped
  <2>2. retired < sent
    BY <1>1, <1>3, <1>6
  <2>3. StageWaiting' /\ sample' \in {0, 1} /\ at \in StageLive \ {"acquire", "submit"}
    BY <1>1, <1>2, <1>3, <1>6, <2>1, <2>2 DEF StageWaiting, StageTyped, StageLive
  <2> QED
    BY <1>2, <2>1, <2>3, StageWalks
<1>7. CASE ok /\ build = "C"
  <2>1. at' = "scrub" /\ retired' = retired + 1 /\ faulty' = faulty /\ retired' = sent
    BY <1>1, <1>3, <1>7 DEF Check, StageTyped
  <2>2. Len(gpu) \in Nat /\ Len(gpu) <= 0 /\ gpu \in Seq(Nat)
    <3>1. retired < sent
      BY <1>1, <1>3, <1>7
    <3> QED
      BY <1>1, <1>3, <1>7, <3>1, OldestIsGone DEF StageTyped
  <2>3. gpu = <<>> /\ Len(gpu) = 0
    BY <2>2, EmptySeq
  <2>4. built = 0 /\ pending = <<>> /\ events = <<>>
    BY <1>1, <1>7 DEF StageOutstanding, StageTyped
  <2>5. ~HardwareBusy'
    BY <1>1, <1>2, <2>3, <2>4 DEF HardwareBusy
  <2>6. StageTyped'
    BY <1>1, <1>2, <2>1 DEF StageTyped, StageLive
  <2>7. StageHeld'
    BY <1>1, <1>2, <2>1, HeldKept DEF StageLive
  <2>8. StageOutstanding'
    <3>1. InFlight(build) \in Nat /\ Total(build) \in Nat
      BY <1>1, Counts
    <3>2. (retired <= sent /\ sent - retired <= InFlight(build) /\ sent <= Total(build) /\ Len(gpu) <= sent - retired)'
      BY <1>1, <1>2, <1>3, <2>1, <2>2, <3>1 DEF InFlight, Total
    <3>3. at' # "submit" /\ built' = 0 /\ build' = "C" /\ events' = <<>>
      BY <1>2, <1>7, <2>1, <2>4
    <3>4. 1 .. Len(gpu') = {}
      BY <1>2, <2>3
    <3> QED
      BY <3>2, <3>3, <3>4 DEF StageOutstanding
  <2>9. StageWaiting'
    BY <2>1 DEF StageWaiting
  <2>10. (retired <= sent /\ sent <= Total(build) /\ built \in {0} \cup (sent .. sent + 1))'
    BY <1>2, <2>8, <2>4 DEF StageOutstanding
  <2> QED
    BY <2>5, <2>6, <2>7, <2>8, <2>9, <2>10 DEF StageInv, Retained
<1> QED
  BY <1>4, <1>5, <1>6, <1>7

\* The event the title reads is that of the frame it waits for.
LEMMA StageEventKeeps ==
  ASSUME StageInv, PollEvent
  PROVE  StageInv'
<1>1. /\ StageTyped /\ StageOutstanding /\ StageWaiting /\ at = "event" /\ build \in Builds
      /\ sent \in Nat /\ retired \in Nat /\ at \in StageLive /\ events # <<>>
  BY DEF PollEvent, StageInv, StageTyped, StageLive
<1>2. /\ UNCHANGED <<build, next, holding, armed, built, sent, fences, sample, deferred,
                     gpu, gpuFlipped, pending, onScreen, faulty>>
      /\ events' = Tail(events)
  BY DEF PollEvent
<1>3. retired < sent /\ fences[FrameSlot(retired)] = 0 /\ sample = 0 /\ build # "C"
  BY <1>1 DEF StageWaiting, StageOutstanding
<1>4. PICK g \in Nat, p \in Nat, e \in Nat : g = Len(gpu) /\ p = Len(pending) /\ e = Len(events) /\ e >= 1
  BY <1>1, LenProperties, EmptySeq DEF StageTyped
<1>5. Head(events) = retired
  <2>1. 1 \in 1 .. e
    BY <1>4
  <2>2. events[1] = retired + 1 - 1
    BY <1>1, <1>3, <1>4, <2>1 DEF StageOutstanding
  <2>3. Head(events) = events[1]
    BY <1>1 DEF StageTyped
  <2> QED
    BY <1>1, <2>2, <2>3
<1>6. /\ retired' = retired + 1
      /\ at' = IF retired + 1 < Total(build) THEN "turn" ELSE IF build = "I" THEN "check" ELSE "scrub"
  BY <1>3, <1>5 DEF PollEvent, AfterPoll
<1>7. /\ events' \in Seq(Nat) /\ Len(events') = e - 1
      /\ \A i \in 1 .. e - 1 : events'[i] = events[i + 1]
  BY <1>1, <1>2, <1>4, HeadTailProperties DEF StageTyped
<1>8. g <= sent - (retired + 1)
  BY <1>1, <1>3, <1>4, OldestIsGone
<1>9. StageTyped'
  BY <1>1, <1>2, <1>6, <1>7 DEF StageTyped, StageLive
<1>10. StageHeld' /\ holding' = Resources(build)'
  BY <1>1, <1>2, <1>6, HeldKept DEF StageLive
<1>11. StageOutstanding'
  <2>1. InFlight(build) \in Nat /\ Total(build) \in Nat
    BY <1>1, Counts
  <2>2. sent - retired <= InFlight(build) /\ sent <= Total(build) /\ built = sent
    BY <1>1, <1>3 DEF StageOutstanding
  <2>3. (retired <= sent /\ sent - retired <= InFlight(build) /\ sent <= Total(build) /\ Len(gpu) <= sent - retired)'
    BY <1>1, <1>2, <1>3, <1>4, <1>6, <1>8, <2>1, <2>2 DEF InFlight, Total
  <2>4. at' # "submit" /\ built' = sent' /\ build' = build /\ build' # "C"
    BY <1>2, <1>3, <1>6, <2>2
  <2>5. \A i \in 1 .. Len(gpu') : gpu'[i] = sent' - Len(gpu') + i - 1 /\ fences'[FrameSlot(gpu'[i])] = 1
    BY <1>1, <1>2 DEF StageOutstanding
  <2>6. e + p + g - (IF gpuFlipped THEN 1 ELSE 0) = sent - retired
    BY <1>1, <1>3, <1>4 DEF StageOutstanding
  <2>7. Len(events') + Len(pending') + Len(gpu') - (IF gpuFlipped' THEN 1 ELSE 0) = sent' - retired'
    <3>1. (e - 1) + p + g - (IF gpuFlipped THEN 1 ELSE 0) = sent - (retired + 1)
      BY <1>1, <2>6
    <3> QED
      BY <1>2, <1>4, <1>6, <1>7, <3>1
  <2>8. \A i \in 1 .. Len(pending') : pending'[i] = retired' + Len(events') + i - 1
    <3>1. \A i \in 1 .. p : pending[i] = retired + e + i - 1
      BY <1>1, <1>3, <1>4 DEF StageOutstanding
    <3>2. \A i \in 1 .. p : pending[i] = (retired + 1) + (e - 1) + i - 1
      BY <1>1, <3>1
    <3> QED
      BY <1>2, <1>4, <1>6, <1>7, <3>2
  <2>9. \A i \in 1 .. Len(events') : events'[i] = retired' + i - 1
    <3>1. \A i \in 1 .. e : events[i] = retired + i - 1
      BY <1>1, <1>3, <1>4 DEF StageOutstanding
    <3>2. \A i \in 1 .. e - 1 : i + 1 \in 1 .. e
      OBVIOUS
    <3>3. \A i \in 1 .. e - 1 : events'[i] = retired + (i + 1) - 1
      BY <1>7, <3>1, <3>2
    <3>4. \A i \in 1 .. e - 1 : events'[i] = (retired + 1) + i - 1
      BY <1>1, <3>3
    <3> QED
      BY <1>6, <1>7, <3>4
  <2> QED
    BY <2>3, <2>4, <2>5, <2>7, <2>8, <2>9 DEF StageOutstanding
<1>12. ~(retired + 1 < Total(build)) => retired' = sent' /\ sent' = Total(build)'
  <2>1. Total(build) \in Nat /\ sent <= Total(build)
    BY <1>1, Counts DEF StageOutstanding
  <2> QED
    BY <1>1, <1>2, <1>3, <1>6, <2>1 DEF Total
<1>13. StageWaiting'
  BY <1>2, <1>6, <1>12 DEF StageWaiting
<1>14. at' \in {"scrub", "release"} => ~HardwareBusy'
  <2>1. SUFFICES ASSUME at' = "scrub" PROVE ~HardwareBusy'
    BY <1>6
  <2>2. retired + 1 = sent
    BY <1>2, <1>6, <1>12, <2>1
  <2>3. g = 0 /\ gpu = <<>>
    BY <1>1, <1>4, <1>8, <2>2, EmptySeq DEF StageTyped
  <2>4. ~gpuFlipped
    BY <1>1, <2>3 DEF StageTyped
  <2>5. e + p = 1
    BY <1>1, <1>3, <1>4, <2>2, <2>3, <2>4 DEF StageOutstanding
  <2>6. p = 0 /\ pending = <<>>
    BY <1>1, <1>4, <2>5, EmptySeq DEF StageTyped
  <2>7. built = sent
    BY <1>1, <1>3 DEF StageOutstanding
  <2> QED
    BY <1>1, <1>2, <2>3, <2>6, <2>7 DEF HardwareBusy
<1>15. (retired <= sent /\ sent <= Total(build) /\ built \in {0} \cup (sent .. sent + 1))'
  <2>1. built' = sent' /\ sent' \in Nat
    <3>1. built = sent
      BY <1>1, <1>3 DEF StageOutstanding
    <3> QED
      BY <1>1, <1>2, <3>1
  <2>2. built' \in {0} \cup (sent' .. sent' + 1)
    <3>1. PICK n \in Nat : n = sent' /\ n = built'
      BY <2>1
    <3>2. n \in n .. n + 1
      OBVIOUS
    <3> QED
      BY <3>1, <3>2
  <2>3. (retired <= sent /\ sent <= Total(build))'
    BY <1>11 DEF StageOutstanding
  <2> QED
    BY <2>2, <2>3
<1>16. Retained'
  BY <1>10, <1>6 DEF Retained
<1> QED
  BY <1>9, <1>10, <1>11, <1>13, <1>14, <1>15, <1>16 DEF StageInv

\* What a step of the release leaves: the hardware is idle.
LEMMA StageReleaseKeeps ==
  ASSUME StageInv, ReleaseNext \/ UnregisterBusy \/ StageEnds
  PROVE  StageInv'
<1>1. /\ StageTyped /\ StageHeld /\ at = "release" /\ ~HardwareBusy
  BY DEF ReleaseNext, UnregisterBusy, StageEnds, StageInv
<1>2. /\ UNCHANGED <<build, next, built, sent, retired, fences, sample, gpu, gpuFlipped, pending, events, faulty>>
  BY DEF ReleaseNext, UnregisterBusy, StageEnds, hardware
<1>3. ~HardwareBusy' /\ at' \notin StageLive
  BY <1>1, <1>2 DEF HardwareBusy, ReleaseNext, UnregisterBusy, StageEnds, StageLive
<1>4. Retained'
  BY <1>3 DEF Retained
<1>5. (retired <= sent /\ sent <= Total(build) /\ built \in {0} \cup (sent .. sent + 1))'
  BY <1>2 DEF StageInv, Total
<1>6. PICK given \in Seq(AllCalls) : given = ReleaseOrder(build)
  BY CallSets
<1>7. CASE ReleaseNext
  <2>1. /\ at' = "release" /\ deferred' = deferred /\ armed' = armed
        /\ holding' = holding \ ({Due} \cup (IF Due = "video" THEN {"buffers"} ELSE {}))
        /\ onScreen' = IF Due = "video" THEN NoSlot ELSE onScreen
    BY <1>1, <1>7 DEF ReleaseNext
  <2>2. StageTyped'
    BY <1>1, <1>2, <2>1 DEF StageTyped
  <2>3. onScreen' # NoSlot => {"video", "framebuffer_map"} \subseteq holding'
    <3>1. SUFFICES ASSUME onScreen' # NoSlot PROVE {"video", "framebuffer_map"} \subseteq holding'
      OBVIOUS
    <3>2. Due # "video" /\ {"video", "framebuffer_map"} \subseteq holding /\ build # "C"
      BY <1>1, <2>1, <3>1 DEF StageTyped, StageHeld
    <3>3. Due # "framebuffer_map"
      <4>1. SUFFICES ASSUME Due = "framebuffer_map" PROVE FALSE
        OBVIOUS
      <4>2. Owed # 0
        BY <1>7 DEF ReleaseNext
      <4>3. PICK n \in Nat : n = Len(given)
        BY LenProperties
      <4>4. Owed \in 1 .. n /\ \A i \in 1 .. n : i < Owed => ~Owes(given[i])
        BY <1>6, <4>2, <4>3, OwedFirst
      <4>5. n >= 4 /\ given[4] = "video" /\ \A i \in 1 .. 4 : given[i] # "framebuffer_map"
        BY <1>6, <3>2, <4>3, DisplayClosedFirst DEF DisplayFirst
      <4>6. given[Owed] = "framebuffer_map"
        BY <1>6, <4>1 DEF Due
      <4>7. ~(Owed <= 4)
        BY <4>4, <4>5, <4>6
      <4>8. 4 \in 1 .. n /\ 4 < Owed
        BY <4>3, <4>4, <4>5, <4>7
      <4>9. ~Owes("video")
        BY <4>4, <4>5, <4>8
      <4> QED
        BY <3>2, <4>9 DEF Owes
    <3> QED
      BY <2>1, <3>2, <3>3
  <2>4. StageHeld'
    BY <1>1, <1>2, <2>1, <2>3 DEF StageHeld, StageLive, Resources
  <2> QED
    BY <1>3, <1>4, <1>5, <2>2, <2>4 DEF StageInv
<1>8. CASE UnregisterBusy
  <2>1. at' = "release" /\ deferred' = TRUE /\ armed' = armed /\ holding' = holding /\ onScreen' = onScreen /\ onScreen # NoSlot
    BY <1>1, <1>8 DEF UnregisterBusy, hardware
  <2>2. StageTyped'
    BY <1>1, <1>2, <2>1 DEF StageTyped
  <2>3. StageHeld'
    BY <1>1, <1>2, <2>1 DEF StageHeld, StageLive, Resources
  <2> QED
    BY <1>3, <1>4, <1>5, <2>2, <2>3 DEF StageInv
<1>9. CASE StageEnds
  <2>1. at' \in {"complete", "parked_safe"} /\ deferred' = deferred /\ armed' = FALSE /\ holding' = holding /\ onScreen' = onScreen
    BY <1>1, <1>9 DEF StageEnds, hardware
  <2>2. StageTyped'
    BY <1>1, <1>2, <2>1 DEF StageTyped, StageOver
  <2>3. holding = {}
    <3>1. \A r \in ToSet(given) : ~Owes(r)
      BY <1>6, <1>9, OwedFirst DEF StageEnds
    <3>2. \A r \in holding : r \in ToSet(given)
      BY <1>1, <1>6, CallSets DEF StageHeld
    <3>3. \A r \in holding : r = "buffers" /\ deferred
      BY <3>1, <3>2 DEF Owes
    <3>4. SUFFICES ASSUME NEW r \in holding PROVE FALSE
      OBVIOUS
    <3>5. "video" \in holding
      BY <1>1, <3>3 DEF StageHeld
    <3> QED
      BY <3>3, <3>5
  <2>4. StageHeld'
    BY <1>1, <1>2, <2>1, <2>3 DEF StageHeld, StageLive, Resources
  <2> QED
    BY <1>3, <1>4, <1>5, <2>2, <2>4 DEF StageInv
<1> QED
  BY <1>7, <1>8, <1>9

\* The title's part of the invariant, where only the hardware moves.
LEMMA TitleKept ==
  ASSUME StageInv, UNCHANGED <<build, at, next, holding, armed, built, sent, retired, sample, deferred, faulty>>,
         onScreen' # NoSlot => {"video", "framebuffer_map"} \subseteq holding
  PROVE  /\ StageHeld'
         /\ (retired <= sent /\ sent <= Total(build) /\ built \in {0} \cup (sent .. sent + 1))'
<1>1. StageHeld'
  BY DEF StageInv, StageHeld, Resources
<1>2. (retired <= sent /\ sent <= Total(build) /\ built \in {0} \cup (sent .. sent + 1))'
  BY DEF StageInv, Total
<1> QED
  BY <1>1, <1>2

\* The GPU queues the flip of its head.
LEMMA GpuFlipKeeps ==
  ASSUME StageInv, GpuFlip
  PROVE  StageInv'
<1>1. /\ StageTyped /\ build \in Builds /\ sent \in Nat /\ retired \in Nat /\ gpu # <<>> /\ ~gpuFlipped /\ gpuFlipped' = TRUE
      /\ pending' = IF build # "C" THEN Append(pending, Head(gpu)) ELSE pending
      /\ UNCHANGED <<build, at, next, holding, armed, built, sent, retired, fences, sample, deferred,
                     gpu, onScreen, events, faulty>>
  BY DEF GpuFlip, Flips, StageInv, StageTyped, stageCpu
<1>2. PICK g \in Nat, p \in Nat, e \in Nat : g = Len(gpu) /\ p = Len(pending) /\ e = Len(events) /\ g >= 1
  BY <1>1, LenProperties, EmptySeq DEF StageTyped
<1>3. Head(gpu) = gpu[1] /\ Head(gpu) \in Nat
  BY <1>1, HeadTailProperties DEF StageTyped
<1>4. build # "C" =>
        /\ pending' \in Seq(Nat) /\ Len(pending') = p + 1
        /\ \A i \in 1 .. p : pending'[i] = pending[i]
        /\ pending'[p + 1] = Head(gpu)
  BY <1>1, <1>2, <1>3, AppendProperties DEF StageTyped
<1>5. StageTyped'
  <2>1. pending' \in Seq(Nat) /\ (build = "C" => pending' = <<>>)
    BY <1>1, <1>4 DEF StageTyped
  <2> QED
    BY <1>1, <2>1 DEF StageTyped
<1>6. /\ StageHeld'
      /\ (retired <= sent /\ sent <= Total(build) /\ built \in {0} \cup (sent .. sent + 1))'
  BY <1>1, TitleKept DEF StageInv, StageHeld
<1>7. HardwareBusy
  BY <1>1 DEF HardwareBusy
<1>8. Retained'
  BY <1>1, <1>7 DEF StageInv, Retained, Resources
<1>9. at \notin {"scrub", "release"}
  BY <1>7 DEF StageInv
<1>10. ASSUME at \in StageLive PROVE StageOutstanding' /\ StageWaiting'
  <2>1. StageOutstanding /\ StageWaiting
    BY <1>10 DEF StageInv
  <2>2. CASE build = "C"
    BY <1>1, <2>1, <2>2 DEF StageOutstanding, StageWaiting, InFlight, Total
  <2>3. CASE build # "C"
    <3>1. e + p + g - 0 = sent - retired
      BY <1>1, <1>2, <2>1, <2>3 DEF StageOutstanding
    <3>2. 1 \in 1 .. g
      BY <1>2
    <3>3. Head(gpu) = sent - g + 1 - 1
      BY <1>2, <1>3, <2>1, <3>2 DEF StageOutstanding
    <3>4. Head(gpu) = retired + e + (p + 1) - 1
      BY <1>1, <1>2, <3>1, <3>3
    <3>5. \A i \in 1 .. p : pending[i] = retired + e + i - 1
      BY <1>2, <2>1, <2>3 DEF StageOutstanding
    <3>6. \A i \in 1 .. p + 1 : pending'[i] = retired + e + i - 1
      <4>1. \A i \in 1 .. p + 1 : i \in 1 .. p \/ i = p + 1
        BY <1>2
      <4> QED
        BY <1>4, <2>3, <3>4, <3>5, <4>1
    <3>7. e + (p + 1) + g - 1 = sent - retired
      BY <1>1, <1>2, <3>1
    <3>8. Len(pending') = p + 1
      BY <1>4, <2>3
    <3>9. StageOutstanding'
      <4>1. /\ Len(events') + Len(pending') + Len(gpu') - (IF gpuFlipped' THEN 1 ELSE 0) = sent' - retired'
            /\ \A i \in 1 .. Len(pending') : pending'[i] = retired' + Len(events') + i - 1
        BY <1>1, <1>2, <3>6, <3>7, <3>8
      <4> QED
        BY <1>1, <2>1, <4>1 DEF StageOutstanding, InFlight, Total
    <3>10. StageWaiting'
      BY <1>1, <2>1 DEF StageWaiting, Total
    <3> QED
      BY <3>9, <3>10
  <2> QED
    BY <2>2, <2>3
<1> QED
  BY <1>1, <1>5, <1>6, <1>8, <1>9, <1>10 DEF StageInv

\* The GPU lowers the fence of its head, and of no other buffer it has.
LEMMA GpuFenceKeeps ==
  ASSUME StageInv, GpuFence
  PROVE  StageInv'
<1>1. /\ StageTyped /\ build \in Builds /\ sent \in Nat /\ retired \in Nat /\ gpu # <<>> /\ gpuFlipped /\ gpuFlipped' = FALSE
      /\ gpu' = Tail(gpu) /\ fences' = [fences EXCEPT ![FrameSlot(Head(gpu))] = 0]
      /\ UNCHANGED <<build, at, next, holding, armed, built, sent, retired, sample, deferred,
                     pending, onScreen, events, faulty>>
  BY DEF GpuFence, StageInv, StageTyped
<1>2. PICK g \in Nat, p \in Nat, e \in Nat : g = Len(gpu) /\ p = Len(pending) /\ e = Len(events) /\ g >= 1
  BY <1>1, LenProperties, EmptySeq DEF StageTyped
<1>3. PICK h \in Nat : h = Head(gpu) /\ h = gpu[1]
  BY <1>1, HeadTailProperties DEF StageTyped
<1>4. gpu' \in Seq(Nat) /\ Len(gpu') = g - 1 /\ \A i \in 1 .. g - 1 : gpu'[i] = gpu[i + 1]
  BY <1>1, <1>2, HeadTailProperties DEF StageTyped
<1>5. PICK k \in {0, 1} : k = FrameSlot(h)
  BY FrameSlots
<1>6. /\ fences' \in [{0, 1} -> {0, 1}]
      /\ \A s \in {0, 1} : fences'[s] = IF s = k THEN 0 ELSE fences[s]
  BY <1>1, <1>3, <1>5 DEF StageTyped
<1>7. StageTyped'
  BY <1>1, <1>4, <1>6 DEF StageTyped
<1>8. /\ StageHeld'
      /\ (retired <= sent /\ sent <= Total(build) /\ built \in {0} \cup (sent .. sent + 1))'
  BY <1>1, TitleKept DEF StageInv, StageHeld
<1>9. HardwareBusy
  BY <1>1 DEF HardwareBusy
<1>10. Retained'
  BY <1>1, <1>9 DEF StageInv, Retained, Resources
<1>11. at \notin {"scrub", "release"}
  BY <1>9 DEF StageInv
<1>12. ASSUME at \in StageLive PROVE StageOutstanding' /\ StageWaiting'
  <2>1. StageOutstanding /\ StageWaiting
    BY <1>12 DEF StageInv
  <2>2. \A i \in 1 .. g : gpu[i] = sent - g + i - 1 /\ fences[FrameSlot(gpu[i])] = 1
    BY <1>2, <2>1 DEF StageOutstanding
  <2>3. h = sent - g
    <3>1. 1 \in 1 .. g
      BY <1>2
    <3> QED
      BY <1>1, <1>3, <2>2, <3>1
  <2>4. InFlight(build) \in {1, 2} /\ g <= sent - retired /\ sent - retired <= InFlight(build)
    BY <1>1, <1>2, <2>1, Counts DEF StageOutstanding
  <2>5. g <= 2
    BY <1>1, <2>4
  <2>6. FrameSlot(h + 1) \in {0, 1} /\ FrameSlot(h + 1) # k
    BY <1>5, FrameSlots
  <2>7. \A i \in 1 .. g - 1 : gpu'[i] = sent - (g - 1) + i - 1 /\ fences'[FrameSlot(gpu'[i])] = 1
    <3>1. SUFFICES ASSUME NEW i \in 1 .. g - 1
                   PROVE  gpu'[i] = sent - (g - 1) + i - 1 /\ fences'[FrameSlot(gpu'[i])] = 1
      OBVIOUS
    <3>2. i + 1 \in 1 .. g /\ i = 1
      BY <2>5
    <3>3. gpu'[i] = gpu[i + 1] /\ gpu[i + 1] = sent - g + (i + 1) - 1 /\ fences[FrameSlot(gpu[i + 1])] = 1
      BY <1>4, <2>2, <3>2
    <3>4. gpu[i + 1] = sent - g + 2 - 1
      BY <3>2, <3>3
    <3>5. sent - g + 2 - 1 = h + 1 /\ sent - (g - 1) + 1 - 1 = h + 1
      BY <1>1, <2>3
    <3>6. gpu'[i] = h + 1 /\ gpu'[i] = sent - (g - 1) + i - 1
      BY <3>2, <3>3, <3>4, <3>5
    <3> QED
      BY <1>6, <2>6, <3>3, <3>6
  <2>8. at = "submit" => fences'[FrameSlot(sent)] = 1
    <3>1. SUFFICES ASSUME at = "submit" PROVE fences'[FrameSlot(sent)] = 1
      OBVIOUS
    <3>2. sent - retired < InFlight(build) /\ fences[FrameSlot(sent)] = 1
      BY <2>1, <3>1 DEF StageOutstanding
    <3>3. g = 1
      BY <1>1, <1>2, <2>4, <3>2
    <3>4. sent = h + 1
      BY <1>1, <2>3, <3>3
    <3> QED
      BY <1>6, <2>6, <3>2, <3>4
  <2>9. StageOutstanding'
    <3>1. Len(gpu') <= sent' - retired'
      BY <1>1, <1>4, <2>4
    <3>2. \A i \in 1 .. Len(gpu') : gpu'[i] = sent' - Len(gpu') + i - 1 /\ fences'[FrameSlot(gpu'[i])] = 1
      BY <1>1, <1>4, <2>7
    <3>3. build # "C" => e + p + g - 1 = sent - retired
      BY <1>1, <1>2, <2>1 DEF StageOutstanding
    <3>4. build # "C" => e + p + (g - 1) - 0 = sent - retired
      BY <1>1, <1>2, <3>3
    <3>5. build # "C" => Len(events') + Len(pending') + Len(gpu') - (IF gpuFlipped' THEN 1 ELSE 0) = sent' - retired'
      BY <1>1, <1>2, <1>4, <3>4
    <3>6. at' = "submit" => fences'[FrameSlot(sent')] = 1
      BY <1>1, <2>8
    <3> QED
      BY <1>1, <2>1, <3>1, <3>2, <3>5, <3>6 DEF StageOutstanding, InFlight, Total
  <2>10. StageWaiting'
    <3>1. FrameSlot(retired) \in {0, 1}
      BY <1>1, FrameSlots
    <3>2. fences[FrameSlot(retired)] = 0 => fences'[FrameSlot(retired)] = 0
      BY <1>6, <3>1
    <3> QED
      BY <1>1, <2>1, <3>2 DEF StageWaiting, Total
  <2> QED
    BY <2>9, <2>10
<1> QED
  BY <1>1, <1>7, <1>8, <1>10, <1>11, <1>12 DEF StageInv

\* The display shows the first flip on its way.
LEMMA BlankKeeps ==
  ASSUME StageInv, Blank
  PROVE  StageInv'
<1>1. /\ StageTyped /\ build \in Builds /\ sent \in Nat /\ retired \in Nat /\ pending # <<>> /\ build # "C"
      /\ onScreen' = FrameSlot(Head(pending))
      /\ events' = Append(events, Head(pending)) /\ pending' = Tail(pending)
      /\ UNCHANGED <<build, at, next, holding, armed, built, sent, retired, fences, sample, deferred,
                     gpu, gpuFlipped, faulty>>
  BY DEF Blank, StageInv, StageTyped, stageCpu
<1>2. PICK g \in Nat, p \in Nat, e \in Nat : g = Len(gpu) /\ p = Len(pending) /\ e = Len(events) /\ p >= 1
  BY <1>1, LenProperties, EmptySeq DEF StageTyped
<1>3. PICK h \in Nat : h = Head(pending) /\ h = pending[1]
  BY <1>1, HeadTailProperties DEF StageTyped
<1>4. pending' \in Seq(Nat) /\ Len(pending') = p - 1 /\ \A i \in 1 .. p - 1 : pending'[i] = pending[i + 1]
  BY <1>1, <1>2, HeadTailProperties DEF StageTyped
<1>5. /\ events' \in Seq(Nat) /\ Len(events') = e + 1
      /\ \A i \in 1 .. e : events'[i] = events[i]
      /\ events'[e + 1] = h
  BY <1>1, <1>2, <1>3, AppendProperties DEF StageTyped
<1>6. onScreen' \in {0, 1}
  BY <1>1, <1>3, FrameSlots
<1>7. StageTyped'
  BY <1>1, <1>4, <1>5, <1>6 DEF StageTyped
<1>8. HardwareBusy
  BY <1>1 DEF HardwareBusy
<1>9. holding = Resources(build)
  BY <1>8 DEF StageInv, Retained
<1>10. /\ StageHeld'
       /\ (retired <= sent /\ sent <= Total(build) /\ built \in {0} \cup (sent .. sent + 1))'
  BY <1>1, <1>9, CallSets, TitleKept
<1>11. Retained'
  BY <1>1, <1>8 DEF StageInv, Retained, Resources
<1>12. at \notin {"scrub", "release"}
  BY <1>8 DEF StageInv
<1>13. ASSUME at \in StageLive PROVE StageOutstanding' /\ StageWaiting'
  <2>1. StageOutstanding /\ StageWaiting
    BY <1>13 DEF StageInv
  <2>2. /\ e + p + g - (IF gpuFlipped THEN 1 ELSE 0) = sent - retired
        /\ \A i \in 1 .. p : pending[i] = retired + e + i - 1
        /\ \A i \in 1 .. e : events[i] = retired + i - 1
    BY <1>1, <1>2, <2>1 DEF StageOutstanding
  <2>3. h = retired + (e + 1) - 1
    <3>1. 1 \in 1 .. p
      BY <1>2
    <3> QED
      BY <1>1, <1>2, <1>3, <2>2, <3>1
  <2>4. \A i \in 1 .. p - 1 : pending'[i] = retired + (e + 1) + i - 1
    <3>1. \A i \in 1 .. p - 1 : i + 1 \in 1 .. p
      OBVIOUS
    <3>2. \A i \in 1 .. p - 1 : pending'[i] = retired + e + (i + 1) - 1
      BY <1>4, <2>2, <3>1
    <3> QED
      BY <1>1, <1>2, <3>2
  <2>5. \A i \in 1 .. e + 1 : events'[i] = retired + i - 1
    <3>1. \A i \in 1 .. e + 1 : i \in 1 .. e \/ i = e + 1
      BY <1>2
    <3> QED
      BY <1>5, <2>2, <2>3, <3>1
  <2>6. (e + 1) + (p - 1) + g - (IF gpuFlipped THEN 1 ELSE 0) = sent - retired
    <3>1. PICK f \in {0, 1} : f = IF gpuFlipped THEN 1 ELSE 0
      OBVIOUS
    <3>2. e + p + g - f = sent - retired
      BY <2>2, <3>1
    <3>3. (e + 1) + (p - 1) + g - f = sent - retired
      BY <1>1, <1>2, <3>2
    <3> QED
      BY <3>1, <3>3
  <2>7. StageOutstanding'
    <3>1. /\ Len(events') + Len(pending') + Len(gpu') - (IF gpuFlipped' THEN 1 ELSE 0) = sent' - retired'
          /\ \A i \in 1 .. Len(pending') : pending'[i] = retired' + Len(events') + i - 1
          /\ \A i \in 1 .. Len(events') : events'[i] = retired' + i - 1
      BY <1>1, <1>2, <1>4, <1>5, <2>4, <2>5, <2>6
    <3> QED
      BY <1>1, <2>1, <3>1 DEF StageOutstanding, InFlight, Total
  <2>8. StageWaiting'
    BY <1>1, <2>1 DEF StageWaiting, Total
  <2> QED
    BY <2>7, <2>8
<1> QED
  BY <1>1, <1>7, <1>10, <1>11, <1>12, <1>13 DEF StageInv

\* The invariant holds at the launch.
LEMMA StageStart ==
  ASSUME StageInit
  PROVE  StageInv
<1> USE DEF StageInit
<1>1. build \in Builds
  OBVIOUS
<1>2. Len(Acquisitions(build)) \in Nat /\ Len(Acquisitions(build)) # 0
  <2>1. PICK s \in Seq(AllCalls) : s = Acquisitions(build)
    BY CallSets
  <2>2. PICK n \in Nat : n = Len(s) /\ DOMAIN s = 1 .. n
    BY LenProperties
  <2>3. "agc" \in ToSet(s)
    BY <2>1, CallSets
  <2>4. n # 0
    BY <2>2, <2>3 DEF ToSet
  <2> QED
    BY <2>1, <2>2, <2>4
<1>3. StageTyped
  BY <1>1 DEF StageTyped, StageLive, NoSlot
<1>4. StageHeld
  <2>1. {Acquisitions(build)[i] : i \in 1 .. next} = {}
    OBVIOUS
  <2> QED
    BY <1>2, <2>1 DEF StageHeld, StageLive
<1>5. ~HardwareBusy
  BY DEF HardwareBusy
<1>6. Retained
  BY <1>5 DEF Retained
<1>7. StageOutstanding
  <2>1. Total(build) \in Nat /\ InFlight(build) \in Nat
    BY <1>1, Counts
  <2>2. Len(<<>>) = 0 /\ 1 .. 0 = {}
    OBVIOUS
  <2> QED
    BY <2>1, <2>2 DEF StageOutstanding
<1>8. StageWaiting
  BY DEF StageWaiting
<1>9. retired <= sent /\ sent <= Total(build) /\ built \in {0} \cup (sent .. sent + 1)
  BY <1>1, Counts
<1> QED
  BY <1>3, <1>4, <1>5, <1>6, <1>7, <1>8, <1>9 DEF StageInv

\* After every step, where the alarm finds a transaction marked.
LEMMA StageStep ==
  ASSUME EarlyExit = FALSE, StageInv, [StageNext]_stageVars
  PROVE  StageInv'
<1>1. CASE StageAcquire
  BY <1>1, StageAcquireKeeps
<1>2. CASE StageAcquireFails
  <2>1. /\ at = "acquire" /\ at' \in {"parked", "release"} /\ at \in StageLive /\ faulty' = TRUE
        /\ UNCHANGED <<build, stageCpu, hardware>>
    BY <1>2 DEF StageAcquireFails, StageLive
  <2>2. sent = 0 /\ retired = sent
    BY <2>1 DEF StageInv, StageHeld, StageOutstanding, StageTyped
  <2>3. ~HardwareBusy
    BY <2>1, <2>2, NothingInFlight
  <2> QED
    BY <2>1, <2>3, StageStops
<1>3. CASE Compose \/ BuilderFails
  BY <1>3, StageComposeKeeps
<1>4. CASE DrawFails
  <2>1. /\ at = "turn" /\ at \in StageLive /\ at' \in {"parked", "release"} /\ faulty' = TRUE
        /\ at' = "release" => sent = 0
        /\ UNCHANGED <<build, stageCpu, hardware>>
    BY <1>4 DEF DrawFails, StageLive
  <2>2. sent = 0 => retired = sent
    BY <2>1 DEF StageInv, StageOutstanding, StageTyped
  <2>3. at' = "release" => ~HardwareBusy
    BY <2>1, <2>2, NothingInFlight
  <2> QED
    BY <2>1, <2>3, StageStops
<1>5. CASE SubmitDcb \/ SubmitFails
  BY <1>5, StageSubmitKeeps
<1>6. CASE FenceZero
  BY <1>6, StageFenceKeeps
<1>7. CASE \E ok \in BOOLEAN : Check(ok)
  BY <1>7, StageCheckKeeps
<1>8. CASE PollFence \/ PollAgain
  BY <1>8, StagePollKeeps
<1>9. CASE PollEvent
  BY <1>9, StageEventKeeps
<1>10. CASE WaitFails
  <2>1. /\ at \in StageLive /\ at' = "parked" /\ faulty' = TRUE
        /\ UNCHANGED <<build, stageCpu, hardware>>
    BY <1>10 DEF WaitFails, Park, StageLive
  <2> QED
    BY <2>1, StageStops
<1>11. CASE Scrub
  BY <1>11, StageScrubKeeps
<1>12. CASE ReleaseNext \/ UnregisterBusy \/ StageEnds
  BY <1>12, StageReleaseKeeps
<1>13. CASE ReleaseFails
  <2>1. /\ at = "release" /\ at' = "parked" /\ faulty' = TRUE
        /\ UNCHANGED <<build, stageCpu, hardware>>
    BY <1>13 DEF ReleaseFails, Park
  <2> QED
    BY <2>1, StageStops
<1>14. CASE GpuFlip
  BY <1>14, GpuFlipKeeps
<1>15. CASE GpuFence
  BY <1>15, GpuFenceKeeps
<1>16. CASE Blank
  BY <1>16, BlankKeeps
<1>17. CASE Watchdog
  <2>1. /\ at \in StageLive \cup {"release"} /\ at' \in {"parked", "killed"} /\ faulty' = TRUE
        /\ UNCHANGED <<build, stageCpu, hardware>>
        /\ at' = "killed" => ~HardwareBusy
    BY <1>17 DEF Watchdog, Ended, StageInv, StageTyped, StageOver
  <2> QED
    BY <2>1, StageStops
<1>18. CASE UNCHANGED stageVars
  BY <1>18 DEF stageVars, StageInv, StageTyped, StageHeld, Retained, HardwareBusy, StageOutstanding,
     StageWaiting, Resources, Total, InFlight
<1> QED
  BY <1>1, <1>2, <1>3, <1>4, <1>5, <1>6, <1>7, <1>8, <1>9, <1>10, <1>11, <1>12, <1>13, <1>14, <1>15,
     <1>16, <1>17, <1>18 DEF StageNext

\* What the properties say follows from the invariant.
LEMMA StageSoundFromInv ==
  ASSUME StageInv
  PROVE  StageTypeOK /\ StageSound
<1>1. StageTypeOK
  BY DEF StageInv, StageTyped, StageHeld, StageTypeOK
<1>2. ScreenMapped
  BY DEF StageInv, StageHeld, ScreenMapped
<1>3. EndsWell
  BY DEF StageInv, StageHeld, EndsWell
<1> QED
  BY <1>1, <1>2, <1>3 DEF StageInv, StageSound

\* Counters in order and only known resources held, whatever fails.
THEOREM StageTyping == ASSUME EarlyExit = FALSE PROVE StageSpec => []StageTypeOK
<1>1. StageInit => StageInv
  BY StageStart
<1>2. StageInv /\ [StageNext]_stageVars => StageInv'
  BY StageStep
<1>3. StageInv => StageTypeOK
  BY StageSoundFromInv
<1> QED
  BY <1>1, <1>2, <1>3, PTL DEF StageSpec

\* agc: whatever fails and in whatever order fences, blanks and the alarm come,
\* what the hardware may still use is held, the screen scans mapped memory, a
\* run without a failure does not park and a run that ends clean holds nothing.
THEOREM StageAlwaysSound == ASSUME EarlyExit = FALSE PROVE StageSpec => []StageSound
<1>1. StageInit => StageInv
  BY StageStart
<1>2. StageInv /\ [StageNext]_stageVars => StageInv'
  BY StageStep
<1>3. StageInv => StageSound
  BY StageSoundFromInv
<1> QED
  BY <1>1, <1>2, <1>3, PTL DEF StageSpec

-----------------------------------------------------------------------------
(* The guest's x87 unit.                                                   *)

\* What a register holds, and the states of the unit.
FpContents == Values \cup {"empty"}
FpStates ==
    [st : [Registers -> FpContents], tag : [Registers -> 0 .. 3], top : Registers,
     flags : SUBSET (FpFlags \cup {"SF"}), c1 : BOOLEAN, condition : SUBSET Unordered,
     pending : SUBSET FpFlags, summary : BOOLEAN]

\* Registers and tags tell the same.
FpOk(f) == f \in FpStates /\ \A s \in Registers : f.tag[s] = Tag(f.st[s])

\* A unit that has nothing pending, as an instruction finds it.
FpPlain(f) == FpOk(f) /\ f.pending = {} /\ ~f.summary

\* A trap is pending when the status word sums one up, and of an exception
\* that is not masked.
FpTold(f) == f.summary = (f.pending # {}) /\ f.pending \subseteq f.flags \ fpMask

X87Inv ==
    /\ FpOk(fp) /\ FpTold(fp) /\ (fpEnd = "run" => fp.pending = {})
    /\ "DE" \in fpMask /\ fpCount \in 0 .. FpSteps

\* TOP has moved, and registers were filled and emptied.
FpMoved(f, down, up) == (f.top + down) % Slots = (fp.top + up) % Slots
FpFilled(f, down, up) == Occupied(f) + up = Occupied(fp) + down
FpSame(f) == f.st = fp.st /\ f.tag = fp.tag /\ f.top = fp.top

\* What an instruction may come to.
FpSound(r, down, up) ==
    /\ FpOk(r.fp) /\ FpTold(r.fp)
    /\ r.end = "run" => r.fp.pending = {} /\ FpMoved(r.fp, down, up)
    /\ r.end # "run" => FpSame(r.fp) /\ r.memory = fpMemory
FpPrecise(r, down, up) ==
    FpSound(r, down, up) /\ (r.end = "run" /\ ~r.fault => FpFilled(r.fp, down, up))

\* Going round the stack once.
LEMMA FpRound ==
  ASSUME NEW x \in Nat, x < 2 * Slots
  PROVE  x % Slots = IF x < Slots THEN x ELSE x - Slots
<1>1. Slots \in Nat /\ Slots > 1
  BY X87Assumption
<1>2. CASE x < Slots
  BY <1>1, <1>2
<1>3. CASE x >= Slots
  BY <1>1, <1>3
<1> QED
  BY <1>1, <1>2, <1>3

\* The registers are numbered from 0.
LEMMA FpRegisters ==
  /\ Slots \in Nat /\ Slots > 1 /\ 0 \in Registers /\ 1 \in Registers /\ Slots - 1 \in Registers
  /\ \A s \in Registers : s \in Nat /\ s < Slots
  BY X87Assumption DEF Registers

\* Where the i-th register below the top is.
LEMMA FpSlotOk ==
  ASSUME NEW f, FpOk(f), NEW i \in Registers
  PROVE  /\ FpSlot(f, i) \in Registers /\ f.top \in Registers /\ f.top \in Nat
         /\ FpSlot(f, i) = IF f.top + i < Slots THEN f.top + i ELSE (f.top + i) - Slots
         /\ FpSlot(f, 0) = f.top
<1>1. f.top \in Registers
  BY DEF FpOk, FpStates
<1>2. f.top \in Nat /\ f.top < Slots /\ i \in Nat /\ i < Slots
  BY <1>1, FpRegisters
<1>3. FpSlot(f, i) = IF f.top + i < Slots THEN f.top + i ELSE (f.top + i) - Slots
  <2>1. f.top + i \in Nat /\ f.top + i < 2 * Slots
    BY <1>2, FpRegisters
  <2> QED
    BY <2>1, FpRound DEF FpSlot
<1>4. FpSlot(f, 0) = f.top
  <2>1. f.top + 0 \in Nat /\ f.top + 0 < 2 * Slots /\ f.top + 0 = f.top
    BY <1>2, FpRegisters
  <2> QED
    BY <2>1, <1>2, FpRound DEF FpSlot
<1>5. FpSlot(f, i) \in Registers
  BY <1>2, <1>3, FpRegisters DEF Registers
<1> QED
  BY <1>1, <1>2, <1>3, <1>4, <1>5

\* A tag tells whether a register is empty.
LEMMA FpTags ==
  /\ \A v \in Values : Tag(v) \in 0 .. 3 /\ Tag(v) # 3
  /\ Tag("empty") = 3 /\ "empty" \notin Values /\ "empty" \in FpContents /\ Values \subseteq FpContents
  BY DEF Values, Tag, FpContents

\* What there is in a register that is not empty.
LEMMA FpFull ==
  ASSUME NEW f, FpOk(f), NEW i \in Registers
  PROVE  IsEmpty(f, i) \/ ST(f, i) \in Values
<1>1. FpSlot(f, i) \in Registers
  BY FpSlotOk
<1>2. PICK k \in Registers : k = FpSlot(f, i)
  BY <1>1
<1>3. f.st[k] \in FpContents /\ f.tag[k] = Tag(f.st[k])
  BY DEF FpOk, FpStates
<1> QED
  BY <1>2, <1>3, FpTags DEF IsEmpty, ST, FpContents

\* A register written.
LEMMA FpWrite ==
  ASSUME NEW f, FpPlain(f), NEW i \in Registers, NEW v \in FpContents,
         NEW x, x = WriteST(f, i, v)
  PROVE  FpPlain(x) /\ x.top = f.top
<1>1. FpOk(f) /\ f \in FpStates
  BY DEF FpPlain, FpOk
<1>2. PICK k \in Registers : k = FpSlot(f, i)
  BY <1>1, FpSlotOk
<1>3. x = [f EXCEPT !.st[k] = v, !.tag[k] = Tag(v)]
  BY <1>2 DEF WriteST
<1>4. Tag(v) \in 0 .. 3
  BY FpTags DEF FpContents
<1>5. /\ x.st = [f.st EXCEPT ![k] = v] /\ x.tag = [f.tag EXCEPT ![k] = Tag(v)] /\ x.top = f.top
      /\ x.pending = f.pending /\ x.summary = f.summary /\ x \in FpStates
  <2>1. PICK t \in 0 .. 3 : t = Tag(v)
    BY <1>4
  <2>2. PICK S, T : S = [f.st EXCEPT ![k] = v] /\ T = [f.tag EXCEPT ![k] = t]
    OBVIOUS
  <2>3. x = [f EXCEPT !.st = S, !.tag = T]
    BY <1>1, <1>3, <2>1, <2>2 DEF FpStates
  <2>4. S \in [Registers -> FpContents] /\ T \in [Registers -> 0 .. 3]
    BY <1>1, <2>2 DEF FpStates
  <2> QED
    BY <1>1, <2>1, <2>2, <2>3, <2>4 DEF FpStates
<1>6. \A s \in Registers : x.tag[s] = IF s = k THEN Tag(v) ELSE f.tag[s]
  BY <1>1, <1>5 DEF FpStates
<1>7. \A s \in Registers : x.st[s] = IF s = k THEN v ELSE f.st[s]
  BY <1>1, <1>5 DEF FpStates
<1>8. FpPlain(x)
  BY <1>1, <1>5, <1>6, <1>7 DEF FpPlain, FpOk
<1> QED
  BY <1>5, <1>8

\* Its tag is that of the value.
LEMMA FpRetag ==
  ASSUME NEW f, FpPlain(f), NEW i \in Registers, NEW v \in FpContents,
         NEW x, x = WriteST(f, i, v)
  PROVE  x.tag = [f.tag EXCEPT ![FpSlot(f, i)] = Tag(v)]
<1>1. f \in FpStates
  BY DEF FpPlain, FpOk
<1>2. PICK k, t : k = FpSlot(f, i) /\ t = Tag(v)
  OBVIOUS
<1>3. x = [f EXCEPT !.st[k] = v, !.tag[k] = t]
  BY <1>2 DEF WriteST
<1> QED
  BY <1>1, <1>2, <1>3 DEF FpStates

\* The registers it fills or empties.
LEMMA FpCounts ==
  ASSUME NEW f, FpPlain(f), NEW i \in Registers, NEW v \in FpContents,
         NEW x, x = WriteST(f, i, v)
  PROVE  /\ Occupied(f) \in Nat /\ Occupied(x) \in Nat
         /\ v = "empty" /\ ~IsEmpty(f, i) => Occupied(x) = Occupied(f) - 1
         /\ v # "empty" /\ IsEmpty(f, i) => Occupied(x) = Occupied(f) + 1
         /\ v # "empty" /\ ~IsEmpty(f, i) => Occupied(x) = Occupied(f)
<1>1. FpOk(f) /\ f \in FpStates
  BY DEF FpPlain, FpOk
<1>2. PICK k \in Registers : k = FpSlot(f, i)
  BY <1>1, FpSlotOk
<1>3. x.tag = [f.tag EXCEPT ![k] = Tag(v)]
  BY <1>2, FpRetag
<1>6. \A s \in Registers : x.tag[s] = IF s = k THEN Tag(v) ELSE f.tag[s]
  BY <1>1, <1>3 DEF FpStates
<1> DEFINE F == {s \in Registers : f.tag[s] # 3}
           X == {s \in Registers : x.tag[s] # 3}
<1>9. Occupied(f) = Cardinality(F) /\ Occupied(x) = Cardinality(X) /\ (IsEmpty(f, i) <=> k \notin F)
  BY <1>2 DEF Occupied, IsEmpty
<1>10. IsFiniteSet(Registers)
  BY FpRegisters, FS_Interval DEF Registers
<1>11. IsFiniteSet(F) /\ IsFiniteSet(X)
  BY <1>10, FS_Subset
<1>12. X = IF v = "empty" THEN F \ {k} ELSE F \cup {k}
  BY <1>6, FpTags DEF FpContents
<1> HIDE DEF F, X
<1>13. Cardinality(F) \in Nat /\ Cardinality(X) \in Nat
  BY <1>11, FS_CardinalityType
<1>14. k \in F => Cardinality(F \ {k}) = Cardinality(F) - 1
  BY <1>11, FS_RemoveElement
<1>15. k \notin F => Cardinality(F \cup {k}) = Cardinality(F) + 1
  BY <1>11, FS_AddElement
<1>16. k \in F => F \cup {k} = F
  OBVIOUS
<1> QED
  BY <1>9, <1>12, <1>13, <1>14, <1>15, <1>16

\* A value pushed: TOP goes down, and an empty register is filled.
LEMMA FpPush ==
  ASSUME NEW f, FpPlain(f), NEW v \in Values, NEW x, x = PushST(f, v)
  PROVE  /\ FpPlain(x) /\ (x.top + 1) % Slots = f.top /\ x.top \in Registers
         /\ IsEmpty(f, Slots - 1) => Occupied(x) = Occupied(f) + 1
<1>1. FpOk(f) /\ f \in FpStates
  BY DEF FpPlain, FpOk
<1>2. PICK k \in Registers : k = FpSlot(f, Slots - 1)
  BY <1>1, FpRegisters, FpSlotOk
<1>3. PICK g : g = [f EXCEPT !.top = k]
  OBVIOUS
<1>4. g.top = k /\ g.tag = f.tag /\ g.st = f.st /\ g \in FpStates /\ FpPlain(g)
  BY <1>1, <1>3 DEF FpStates, FpPlain, FpOk
<1>5. FpSlot(g, 0) = k /\ 0 \in Registers /\ FpOk(g)
  BY <1>4, FpSlotOk, FpRegisters DEF FpPlain
<1>6. x = WriteST(g, 0, v) /\ v # "empty"
  BY <1>2, <1>3, FpTags DEF PushST
<1>7. FpPlain(x) /\ x.top = k /\ (IsEmpty(g, 0) => Occupied(x) = Occupied(g) + 1)
  <2>1. v \in FpContents /\ v # "empty" /\ FpPlain(g) /\ 0 \in Registers
    BY <1>4, <1>5, <1>6, FpTags
  <2>2. PICK y : y = WriteST(g, 0, v)
    OBVIOUS
  <2>3. FpPlain(y) /\ y.top = g.top
    BY <2>1, <2>2, FpWrite
  <2>4. IsEmpty(g, 0) => Occupied(y) = Occupied(g) + 1
    BY <2>1, <2>2, FpCounts
  <2> QED
    BY <1>4, <1>6, <2>2, <2>3, <2>4
<1>8. Occupied(g) = Occupied(f) /\ (IsEmpty(g, 0) <=> IsEmpty(f, Slots - 1))
  BY <1>2, <1>4, <1>5 DEF Occupied, IsEmpty
<1>9. (k + 1) % Slots = f.top
  <2>1. f.top \in Nat /\ f.top < Slots /\ k \in Nat /\ k < Slots /\ Slots \in Nat /\ Slots > 1
    BY <1>1, <1>2, FpSlotOk, FpRegisters
  <2>2. k = IF f.top + (Slots - 1) < Slots THEN f.top + (Slots - 1) ELSE (f.top + (Slots - 1)) - Slots
    BY <1>1, <1>2, FpSlotOk, FpRegisters
  <2>3. k + 1 = IF f.top = 0 THEN Slots ELSE f.top
    BY <2>1, <2>2
  <2>4. (k + 1) % Slots = IF k + 1 < Slots THEN k + 1 ELSE (k + 1) - Slots
    BY <2>1, FpRound
  <2> QED
    BY <2>1, <2>3, <2>4
<1> QED
  BY <1>7, <1>8, <1>9

\* A register popped: it is emptied and TOP goes up.
LEMMA FpPop ==
  ASSUME NEW f, FpPlain(f), NEW x, x = PopST(f)
  PROVE  /\ FpPlain(x) /\ x.top = (f.top + 1) % Slots /\ x.top \in Registers
         /\ ~IsEmpty(f, 0) => Occupied(x) = Occupied(f) - 1
         /\ ~IsEmpty(f, 1) => ~IsEmpty(x, 0)
<1>1. FpOk(f) /\ f \in FpStates
  BY DEF FpPlain, FpOk
<1>2. PICK k \in Registers : k = FpSlot(f, 1)
  BY <1>1, FpRegisters, FpSlotOk
<1>3. PICK g : g = WriteST(f, 0, "empty")
  OBVIOUS
<1>4. /\ FpPlain(g) /\ g.tag = [f.tag EXCEPT ![f.top] = 3]
      /\ ~IsEmpty(f, 0) => Occupied(g) = Occupied(f) - 1
  BY <1>1, <1>3, FpWrite, FpRetag, FpCounts, FpTags, FpSlotOk, FpRegisters
<1>5. x = [g EXCEPT !.top = k]
  BY <1>2, <1>3 DEF PopST
<1>6. x.top = k /\ x.tag = g.tag /\ x.st = g.st /\ FpPlain(x)
  BY <1>4, <1>5 DEF FpStates, FpPlain, FpOk
<1>7. Occupied(x) = Occupied(g)
  BY <1>6 DEF Occupied
<1>8. k = (f.top + 1) % Slots
  BY <1>2 DEF FpSlot
<1>9. k # f.top
  <2>1. f.top \in Nat /\ f.top < Slots /\ Slots \in Nat /\ Slots > 1
    BY <1>1, FpSlotOk, FpRegisters
  <2>2. k = IF f.top + 1 < Slots THEN f.top + 1 ELSE (f.top + 1) - Slots
    BY <1>1, <1>2, FpSlotOk, FpRegisters
  <2> QED
    BY <2>1, <2>2
<1>10. FpSlot(x, 0) = k
  BY <1>6, FpSlotOk, FpRegisters DEF FpPlain
<1>11. x.tag[k] = f.tag[k]
  BY <1>1, <1>4, <1>6, <1>9 DEF FpStates
<1>12. ~IsEmpty(f, 1) => ~IsEmpty(x, 0)
  BY <1>2, <1>10, <1>11 DEF IsEmpty
<1> QED
  BY <1>4, <1>6, <1>7, <1>8, <1>12

\* As many registers popped as an instruction is to pop.
LEMMA FpPopped ==
  ASSUME NEW f, FpPlain(f), NEW n \in {0, 1, 2}, NEW x, x = Popped(f, n)
  PROVE  /\ FpPlain(x) /\ x.top % Slots = (f.top + n) % Slots /\ x.top \in Registers
         /\ Occupied(f) \in Nat
         /\ (n # 0 => ~IsEmpty(f, 0)) /\ (n = 2 => ~IsEmpty(f, 1)) => Occupied(x) + n = Occupied(f)
<1>1. FpOk(f) /\ f.top \in Nat /\ f.top < Slots /\ f.top \in Registers /\ Slots \in Nat /\ Slots > 1
  BY FpSlotOk, FpRegisters DEF FpPlain
<1>2. Occupied(f) \in Nat
  <2>1. 0 \in Registers /\ "empty" \in FpContents
    BY FpRegisters, FpTags
  <2> QED
    BY <2>1, FpCounts
<1>3. CASE n = 0
  <2>1. x = f
    BY <1>3 DEF Popped
  <2> QED
    BY <1>1, <1>2, <1>3, <2>1
<1>4. CASE n = 1
  <2>1. x = PopST(f)
    BY <1>4 DEF Popped
  <2>2. FpPlain(x) /\ x.top = (f.top + 1) % Slots /\ x.top \in Registers /\ (~IsEmpty(f, 0) => Occupied(x) = Occupied(f) - 1)
    BY <2>1, FpPop
  <2>3. x.top \in Nat /\ x.top < Slots
    BY <2>2, FpRegisters
  <2>4. x.top % Slots = x.top
    BY <1>1, <2>3, FpRound
  <2> QED
    BY <1>2, <1>4, <2>2, <2>4
<1>5. CASE n = 2
  <2>1. PICK g : g = PopST(f)
    OBVIOUS
  <2>2. x = PopST(g)
    BY <1>5, <2>1 DEF Popped
  <2>3. /\ FpPlain(g) /\ g.top = (f.top + 1) % Slots /\ g.top \in Registers
        /\ (~IsEmpty(f, 0) => Occupied(g) = Occupied(f) - 1) /\ (~IsEmpty(f, 1) => ~IsEmpty(g, 0))
    BY <2>1, FpPop
  <2>4. FpPlain(x) /\ x.top = (g.top + 1) % Slots /\ x.top \in Registers /\ (~IsEmpty(g, 0) => Occupied(x) = Occupied(g) - 1)
    BY <2>2, <2>3, FpPop
  <2>5. x.top \in Nat /\ x.top < Slots /\ g.top \in Nat /\ g.top < Slots
    BY <2>3, <2>4, FpRegisters
  <2>6. x.top % Slots = (f.top + 2) % Slots
    <3>1. g.top = IF f.top + 1 < Slots THEN f.top + 1 ELSE (f.top + 1) - Slots
      BY <1>1, <2>3, FpRound
    <3>2. x.top = IF g.top + 1 < Slots THEN g.top + 1 ELSE (g.top + 1) - Slots
      BY <1>1, <2>4, <2>5, FpRound
    <3>3. (f.top + 2) % Slots = IF f.top + 2 < Slots THEN f.top + 2 ELSE (f.top + 2) - Slots
      BY <1>1, FpRound
    <3>4. x.top % Slots = x.top
      BY <1>1, <2>5, FpRound
    <3> QED
      BY <1>1, <3>1, <3>2, <3>3, <3>4
  <2> QED
    BY <1>2, <1>5, <2>3, <2>4, <2>6
<1> QED
  BY <1>3, <1>4, <1>5

\* Exceptions raised: registers and TOP are left alone, and one that is not
\* masked pends.
LEMMA FpRaise ==
  ASSUME NEW f, FpPlain(f), NEW e \in SUBSET FpFlags, NEW x, x = Raise(f, e)
  PROVE  /\ FpOk(x) /\ FpTold(x) /\ x.st = f.st /\ x.tag = f.tag /\ x.top = f.top
         /\ Unmasked(e) = {} => FpPlain(x)
         /\ Occupied(x) = Occupied(f)
<1>1. f \in FpStates /\ f.pending = {} /\ f.summary = FALSE
  BY DEF FpPlain, FpOk, FpStates
<1>2. PICK u \in SUBSET FpFlags : u = Unmasked(e) /\ u \subseteq e /\ u \cap fpMask = {}
  <2>1. Unmasked(e) \in SUBSET FpFlags /\ Unmasked(e) \subseteq e /\ Unmasked(e) \cap fpMask = {}
    BY DEF Unmasked
  <2> QED
    BY <2>1
<1>3. PICK b \in BOOLEAN : b = (f.summary \/ u # {}) /\ (b <=> u # {})
  BY <1>1
<1>4. x = [f EXCEPT !.flags = f.flags \cup e, !.pending = f.pending \cup u, !.summary = b]
  BY <1>2, <1>3 DEF Raise
<1>5. f.flags \cup e \in SUBSET (FpFlags \cup {"SF"}) /\ f.pending \cup u = u
  BY <1>1 DEF FpStates
<1>6. /\ x \in FpStates /\ x.st = f.st /\ x.tag = f.tag /\ x.top = f.top
      /\ x.pending = u /\ x.summary = b /\ x.flags = f.flags \cup e
  BY <1>1, <1>4, <1>5 DEF FpStates
<1>7. FpOk(x) /\ FpTold(x)
  BY <1>2, <1>3, <1>6 DEF FpPlain, FpOk, FpTold
<1>8. Unmasked(e) = {} => FpPlain(x)
  BY <1>2, <1>3, <1>6, <1>7 DEF FpPlain
<1> QED
  BY <1>6, <1>7, <1>8 DEF Occupied

\* How an instruction ends, as a record.
FpEnding(r) == r = [fp |-> r.fp, memory |-> r.memory, end |-> r.end, fault |-> r.fault]

\* The fields of an instruction that completes.
LEMMA FpEndsRun ==
  ASSUME NEW g
  PROVE  /\ FpEnding(Completed(g)) /\ Completed(g).fp = g /\ Completed(g).end = "run"
         /\ Completed(g).fault = FALSE /\ Completed(g).memory = fpMemory
  BY DEF FpEnding, Completed

\* And of one that stops.
LEMMA FpEndsStopped ==
  ASSUME NEW g, NEW why
  PROVE  /\ FpEnding(Stops(g, why)) /\ Stops(g, why).fp = g /\ Stops(g, why).end = why
         /\ Stops(g, why).fault = FALSE /\ Stops(g, why).memory = fpMemory
<1>1. PICK r : r = Stops(g, why)
  OBVIOUS
<1>2. r = [fp |-> g, memory |-> fpMemory, end |-> why, fault |-> FALSE]
  BY <1>1 DEF Stops, Completed
<1>3. FpEnding(r) /\ r.fp = g /\ r.end = why /\ r.fault = FALSE /\ r.memory = fpMemory
  BY <1>2 DEF FpEnding
<1> QED
  BY <1>1, <1>3

\* And of one that does either.
LEMMA FpEndsEither ==
  ASSUME NEW f, NEW e, NEW g
  PROVE  FpEnding(Complete(f, e, g)) /\ Complete(f, e, g).fault = FALSE
<1>1. CASE Unmasked(e) # {}
  <2>1. PICK h : h = Raise(f, e)
    OBVIOUS
  <2>2. PICK r, why : r = Stops(h, why) /\ why = "trap"
    OBVIOUS
  <2>3. Complete(f, e, g) = r
    BY <1>1, <2>1, <2>2 DEF Complete
  <2>4. FpEnding(r) /\ r.fault = FALSE
    BY <2>2, FpEndsStopped
  <2> QED
    BY <2>3, <2>4 DEF FpEnding
<1>2. CASE Unmasked(e) = {}
  <2>1. PICK h : h = Raise(g, e)
    OBVIOUS
  <2>2. Complete(f, e, g) = Completed(h)
    BY <1>2, <2>1 DEF Complete
  <2> QED
    BY <2>2, FpEndsRun
<1> QED
  BY <1>1, <1>2

\* An instruction that completes or stops, with what it makes of the registers.
LEMMA FpCompleted ==
  ASSUME NEW g, FpPlain(g), NEW down, NEW up, FpMoved(g, down, up)
  PROVE  /\ FpSound(Completed(g), down, up)
         /\ FpFilled(g, down, up) => FpPrecise(Completed(g), down, up)
<1>1. PICK r : r = Completed(g)
  OBVIOUS
<1>2. r.fp = g /\ r.end = "run" /\ r.fault = FALSE /\ r.memory = fpMemory
  BY <1>1, FpEndsRun
<1>3. FpOk(g) /\ g.pending = {} /\ g.summary = FALSE
  BY DEF FpPlain, FpOk, FpStates
<1>4. FpSound(r, down, up)
  BY <1>2, <1>3 DEF FpSound, FpTold
<1> QED
  BY <1>1, <1>2, <1>4 DEF FpPrecise

\* One that stops leaves the registers alone.
LEMMA FpStops ==
  ASSUME NEW g, FpOk(g), FpTold(g), FpSame(g), NEW down, NEW up, NEW why \in {"trap", "refused"}
  PROVE  FpPrecise(Stops(g, why), down, up)
<1>1. PICK r : r = Stops(g, why)
  OBVIOUS
<1>2. r.fp = g /\ r.end = why /\ r.end # "run" /\ r.memory = fpMemory
  BY <1>1, FpEndsStopped
<1> QED
  BY <1>1, <1>2 DEF FpPrecise, FpSound

\* Exceptions: an unmasked one leaves the registers of f, otherwise they are
\* those of g.
LEMMA FpComplete ==
  ASSUME NEW f, FpPlain(f), FpSame(f), NEW e \in SUBSET FpFlags, NEW g, FpPlain(g),
         NEW down, NEW up, FpMoved(g, down, up)
  PROVE  /\ FpSound(Complete(f, e, g), down, up)
         /\ FpFilled(g, down, up) => FpPrecise(Complete(f, e, g), down, up)
<1>1. CASE Unmasked(e) # {}
  <2>1. PICK h : h = Raise(f, e)
    OBVIOUS
  <2>2. FpOk(h) /\ FpTold(h) /\ h.st = f.st /\ h.tag = f.tag /\ h.top = f.top
    BY <2>1, FpRaise
  <2>3. FpSame(h)
    BY <2>2 DEF FpSame
  <2>4. PICK why \in {"trap", "refused"} : why = "trap"
    OBVIOUS
  <2>5. FpPrecise(Stops(h, why), down, up)
    BY <2>2, <2>3, FpStops
  <2>6. Complete(f, e, g) = Stops(h, why)
    BY <1>1, <2>1, <2>4 DEF Complete
  <2> QED
    BY <2>5, <2>6 DEF FpPrecise
<1>2. CASE Unmasked(e) = {}
  <2>1. PICK h : h = Raise(g, e)
    OBVIOUS
  <2>2. FpPlain(h) /\ h.top = g.top /\ Occupied(h) = Occupied(g)
    BY <1>2, <2>1, FpRaise
  <2>3. FpMoved(h, down, up) /\ (FpFilled(g, down, up) => FpFilled(h, down, up))
    BY <2>2 DEF FpMoved, FpFilled
  <2>4. FpSound(Completed(h), down, up) /\ (FpFilled(h, down, up) => FpPrecise(Completed(h), down, up))
    BY <2>2, <2>3, FpCompleted
  <2>5. Complete(f, e, g) = Completed(h)
    BY <1>2, <2>1 DEF Complete
  <2> QED
    BY <2>3, <2>4, <2>5
<1> QED
  BY <1>1, <1>2

\* Memory is written when the instruction completes.
LEMMA FpStored ==
  ASSUME NEW r, NEW down, NEW up, FpEnding(r), NEW b \in BOOLEAN, NEW m, r.end = "run" \/ m = r.memory,
         NEW x, x = [r EXCEPT !.fault = b, !.memory = m]
  PROVE  /\ FpSound(r, down, up) => FpSound(x, down, up)
         /\ b = TRUE /\ FpSound(r, down, up) => FpPrecise(x, down, up)
         /\ b = r.fault /\ FpPrecise(r, down, up) => FpPrecise(x, down, up)
<1>1. x.fp = r.fp /\ x.end = r.end /\ x.fault = b /\ x.memory = m
  BY DEF FpEnding
<1>2. FpSound(r, down, up) => FpSound(x, down, up)
  BY <1>1 DEF FpSound
<1> QED
  BY <1>1, <1>2 DEF FpPrecise

FpDown(ins) == IF ins.op = "load" THEN 1 ELSE 0
FpWork == {"add", "mul", "div"}

\* The forms there are.
LEMMA FpForms ==
  ASSUME NEW ins \in Instructions
  PROVE  /\ ins.i \in Registers /\ ins.pops \in {0, 1, 2} /\ FpDown(ins) \in {0, 1}
         /\ ins.op \in {"load", "store", "status", "sign", "sqrt", "trig", "acos", "compare"} \cup FpWork
         /\ ins.op \in {"load", "status", "sign", "sqrt", "trig", "acos"} => ins.pops = 0
         /\ ins.pops = 2 => ins.i = 1 /\ ins.op = "compare"
         /\ ins.op = "load" => ins.arg \in {"memory", "constant", "st"}
         /\ ins.op = "store" => ins.arg \in {"memory", "st"}
         /\ Destination(ins) \in {0, ins.i}
<1>1. 0 \in Registers /\ 1 \in Registers
  BY FpRegisters
<1> USE DEF Ins, Destination, FpDown, FpWork
<1>2. CASE ins \in {Ins("load", arg, 0, 0) : arg \in {"memory", "constant"}}
  BY <1>1, <1>2
<1>3. CASE ins \in {Ins("load", "st", i, 0) : i \in Registers}
  BY <1>1, <1>3
<1>4. CASE ins \in {Ins("store", "memory", 0, n) : n \in {0, 1}}
  BY <1>1, <1>4
<1>5. CASE ins \in {Ins("store", "st", i, n) : i \in Registers, n \in {0, 1}}
  BY <1>1, <1>5
<1>6. CASE ins \in {Ins(op, "none", 0, 0) : op \in {"status", "sign", "sqrt", "trig", "acos"}}
  BY <1>1, <1>6
<1>7. CASE ins \in {Ins(op, "memory", 0, 0) : op \in {"add", "mul", "div"}}
  BY <1>1, <1>7
<1>8. CASE ins \in {Ins(op, "st", i, 0) : op \in {"add", "mul", "div"}, i \in Registers}
  BY <1>1, <1>8
<1>9. CASE ins \in {Ins(op, "to_st", i, n) : op \in {"add", "mul", "div"}, i \in Registers, n \in {0, 1}}
  BY <1>1, <1>9
<1>10. CASE ins \in {Ins("compare", "memory", 0, n) : n \in {0, 1}}
  BY <1>1, <1>10
<1>11. CASE ins \in {Ins("compare", "st", i, n) : i \in Registers, n \in {0, 1}}
  BY <1>1, <1>11
<1>12. CASE ins \in {Ins("compare", "st", 1, 2)}
  BY <1>1, <1>12
<1> QED
  BY <1>2, <1>3, <1>4, <1>5, <1>6, <1>7, <1>8, <1>9, <1>10, <1>11, <1>12 DEF Instructions

\* A unit with the registers of the guest.
LEMMA FpSames ==
  ASSUME NEW f, FpSame(f)
  PROVE  /\ Occupied(f) = Occupied(fp) /\ f.top = fp.top
         /\ \A i : (IsEmpty(f, i) <=> IsEmpty(fp, i)) /\ ST(f, i) = ST(fp, i)
  BY DEF FpSame, Occupied, IsEmpty, ST, FpSlot

\* TOP as a number.
LEMMA FpRest ==
  ASSUME NEW f, FpPlain(f), FpSame(f)
  PROVE  /\ FpOk(f) /\ f.top \in Nat /\ f.top < Slots /\ f.top % Slots = f.top
         /\ fp.top = f.top /\ Slots \in Nat /\ Slots > 1 /\ f.top + 0 = f.top
<1>1. FpOk(f) /\ f.top \in Registers
  BY FpSlotOk, FpRegisters DEF FpPlain
<1>2. f.top \in Nat /\ f.top < Slots /\ Slots \in Nat /\ Slots > 1
  BY <1>1, FpRegisters
<1>3. f.top % Slots = f.top
  BY <1>2, FpRound
<1> QED
  BY <1>1, <1>2, <1>3 DEF FpSame

\* What a push, and what the pops at the end, come to.
LEMMA FpPushMoves ==
  ASSUME NEW f, FpPlain(f), FpSame(f), NEW v \in Values, NEW x, x = PushST(f, v)
  PROVE  FpPlain(x) /\ FpMoved(x, 1, 0) /\ (IsEmpty(f, Slots - 1) => FpFilled(x, 1, 0))
<1>1. FpPlain(x) /\ (x.top + 1) % Slots = f.top /\ (IsEmpty(f, Slots - 1) => Occupied(x) = Occupied(f) + 1)
  BY FpPush
<1>2. f.top % Slots = f.top /\ fp.top = f.top /\ f.top + 0 = f.top
  BY FpRest
<1>3. FpMoved(x, 1, 0)
  BY <1>1, <1>2 DEF FpMoved
<1>4. Occupied(x) \in Nat
  <2>1. 0 \in Registers /\ "empty" \in FpContents
    BY FpRegisters, FpTags
  <2> QED
    BY <1>1, <2>1, FpCounts
<1>5. Occupied(f) = Occupied(fp)
  BY FpSames
<1> QED
  BY <1>1, <1>3, <1>4, <1>5 DEF FpFilled

\* As many registers popped.
LEMMA FpPopsMove ==
  ASSUME NEW f, FpPlain(f), FpSame(f), NEW g, FpPlain(g), g.top = f.top, NEW n \in {0, 1, 2},
         NEW x, x = Popped(g, n)
  PROVE  /\ FpPlain(x) /\ FpMoved(x, 0, n)
         /\ Occupied(g) = Occupied(f) /\ (n # 0 => ~IsEmpty(g, 0)) /\ (n = 2 => ~IsEmpty(g, 1))
              => FpFilled(x, 0, n)
<1>1. /\ FpPlain(x) /\ x.top % Slots = (g.top + n) % Slots /\ x.top \in Registers
      /\ Occupied(g) \in Nat
      /\ (n # 0 => ~IsEmpty(g, 0)) /\ (n = 2 => ~IsEmpty(g, 1)) => Occupied(x) + n = Occupied(g)
  BY FpPopped
<1>2. x.top + 0 = x.top
  BY <1>1, FpRegisters
<1>3. fp.top = f.top /\ Occupied(f) = Occupied(fp)
  BY FpSames
<1>4. FpMoved(x, 0, n)
  BY <1>1, <1>2, <1>3 DEF FpMoved
<1> QED
  BY <1>1, <1>3, <1>4 DEF FpFilled

\* A register that is there written with a value.
LEMMA FpWritten ==
  ASSUME NEW f, FpPlain(f), FpSame(f), NEW i \in Registers, NEW v \in Values, NEW x, x = WriteST(f, i, v)
  PROVE  /\ FpPlain(x) /\ x.top = f.top
         /\ ~IsEmpty(f, i) => Occupied(x) = Occupied(f)
         /\ ~IsEmpty(f, 0) => ~IsEmpty(x, 0)
<1>1. v \in FpContents /\ v # "empty" /\ Tag(v) # 3
  BY FpTags
<1>2. FpPlain(x) /\ x.top = f.top /\ (~IsEmpty(f, i) => Occupied(x) = Occupied(f))
  BY <1>1, FpWrite, FpCounts
<1>3. x.tag = [f.tag EXCEPT ![FpSlot(f, i)] = Tag(v)]
  BY <1>1, FpRetag
<1>4. PICK k, t : k = FpSlot(f, i) /\ t = Tag(v) /\ t # 3
  BY <1>1
<1>5. FpSlot(x, 0) = FpSlot(f, 0)
  BY <1>2 DEF FpSlot
<1>6. FpSlot(f, 0) \in Registers /\ DOMAIN f.tag = Registers
  BY FpSlotOk, FpRegisters DEF FpPlain, FpOk, FpStates
<1>7. x.tag[FpSlot(f, 0)] = IF FpSlot(f, 0) = k THEN t ELSE f.tag[FpSlot(f, 0)]
  BY <1>3, <1>4, <1>6
<1> QED
  BY <1>2, <1>4, <1>5, <1>7 DEF IsEmpty

\* The condition codes are no register.
LEMMA FpConditions ==
  ASSUME NEW f, FpPlain(f), NEW o \in SUBSET Unordered, NEW x, x = [f EXCEPT !.condition = o]
  PROVE  /\ FpPlain(x) /\ x.top = f.top /\ Occupied(x) = Occupied(f)
         /\ \A i : IsEmpty(x, i) <=> IsEmpty(f, i)
<1>1. f \in FpStates
  BY DEF FpPlain, FpOk
<1>2. /\ x.st = f.st /\ x.tag = f.tag /\ x.top = f.top /\ x.pending = f.pending
      /\ x.summary = f.summary /\ x \in FpStates
  BY <1>1 DEF FpStates
<1>3. FpPlain(x)
  BY <1>2 DEF FpPlain, FpOk
<1> QED
  BY <1>2, <1>3 DEF Occupied, IsEmpty, FpSlot

\* The fault bits of the status word are none either.
LEMMA FpFaulted ==
  ASSUME NEW f, FpPlain(f), FpSame(f), NEW b \in BOOLEAN,
         NEW x, x = [f EXCEPT !.flags = @ \cup {"SF"}, !.c1 = b]
  PROVE  FpPlain(x) /\ FpSame(x)
<1>1. f \in FpStates
  BY DEF FpPlain, FpOk
<1>2. PICK e \in SUBSET (FpFlags \cup {"SF"}) : e = f.flags \cup {"SF"}
  <2>1. f.flags \in SUBSET (FpFlags \cup {"SF"})
    BY <1>1 DEF FpStates
  <2>2. f.flags \cup {"SF"} \in SUBSET (FpFlags \cup {"SF"})
    BY <2>1
  <2> QED
    BY <2>2
<1>3. x = [f EXCEPT !.flags = e, !.c1 = b]
  BY <1>2
<1>4. /\ x.st = f.st /\ x.tag = f.tag /\ x.top = f.top /\ x.pending = f.pending
      /\ x.summary = f.summary /\ x \in FpStates
  BY <1>1, <1>2, <1>3 DEF FpStates
<1>5. FpPlain(x)
  BY <1>4 DEF FpPlain, FpOk
<1> QED
  BY <1>4, <1>5 DEF FpSame

\* The masked response: a fault moves TOP as the instruction would have.
LEMMA FpRespond ==
  ASSUME NEW f, FpPlain(f), FpSame(f), NEW ins \in Instructions, NEW x, x = Popped(Indefinite(f, ins), ins.pops)
  PROVE  FpPlain(x) /\ FpMoved(x, FpDown(ins), ins.pops)
<1>1. /\ ins.i \in Registers /\ ins.pops \in {0, 1, 2} /\ Destination(ins) \in {0, ins.i}
      /\ ins.op = "load" => ins.pops = 0
  BY FpForms
<1>2. "special" \in Values /\ Destination(ins) \in Registers /\ Unordered \in SUBSET Unordered
  BY <1>1, FpRegisters DEF Values
<1>3. PICK g : g = Indefinite(f, ins)
  OBVIOUS
<1>4. CASE ins.op = "load"
  <2>1. g = PushST(f, "special")
    BY <1>3, <1>4 DEF Indefinite
  <2>2. x = g
    BY <1>1, <1>3, <1>4 DEF Popped
  <2>3. FpPlain(g) /\ FpMoved(g, 1, 0)
    BY <1>2, <2>1, FpPushMoves
  <2> QED
    BY <1>1, <1>4, <2>2, <2>3 DEF FpDown
<1>5. CASE ins.op # "load"
  <2>1. FpPlain(g) /\ g.top = f.top
    <3>1. CASE ins.op = "compare"
      <4>1. g = [f EXCEPT !.condition = Unordered]
        BY <1>3, <3>1 DEF Indefinite
      <4> QED
        BY <1>2, <4>1, FpConditions
    <3>2. CASE ins.op = "store" /\ ins.arg = "memory"
      BY <1>3, <3>2 DEF Indefinite
    <3>3. CASE ins.op # "compare" /\ ~(ins.op = "store" /\ ins.arg = "memory")
      <4>1. g = WriteST(f, Destination(ins), "special")
        BY <1>3, <1>5, <3>3 DEF Indefinite
      <4> QED
        BY <1>2, <4>1, FpWritten
    <3> QED
      BY <3>1, <3>2, <3>3
  <2>2. x = Popped(g, ins.pops)
    BY <1>3
  <2>3. FpPlain(x) /\ FpMoved(x, 0, ins.pops)
    BY <1>1, <2>1, <2>2, FpPopsMove
  <2> QED
    BY <1>5, <2>3 DEF FpDown
<1> QED
  BY <1>4, <1>5

\* A stack fault comes to what an instruction may come to.
LEMMA FpStackFault ==
  ASSUME NEW f, FpPlain(f), FpSame(f), NEW ins \in Instructions, NEW x, x = StackFault(f, ins)
  PROVE  FpPrecise(x, FpDown(ins), ins.pops)
<1>1. PICK b \in BOOLEAN : b = ~Underflows(f, ins)
  BY DEF Underflows
<1>2. PICK g : g = [f EXCEPT !.flags = @ \cup {"SF"}, !.c1 = b]
  OBVIOUS
<1>3. FpPlain(g) /\ FpSame(g)
  BY <1>2, FpFaulted
<1>4. PICK h : h = Popped(Indefinite(g, ins), ins.pops)
  OBVIOUS
<1>5. FpPlain(h) /\ FpMoved(h, FpDown(ins), ins.pops)
  BY <1>3, <1>4, FpRespond
<1>6. PICK e \in SUBSET FpFlags : e = {"IE"}
  BY DEF FpFlags
<1>7. PICK r : r = Complete(g, e, h)
  OBVIOUS
<1>8. FpSound(r, FpDown(ins), ins.pops)
  BY <1>3, <1>5, <1>7, FpComplete
<1>9. FpEnding(r)
  BY <1>7, FpEndsEither
<1>10. PICK m : /\ m = IF ins.op = "store" /\ ins.arg = "memory" /\ r.end = "run" THEN "special" ELSE r.memory
                /\ r.end = "run" \/ m = r.memory
  OBVIOUS
<1>11. PICK c \in BOOLEAN : c = TRUE
  OBVIOUS
<1>12. x = [r EXCEPT !.fault = c, !.memory = m]
  BY <1>1, <1>2, <1>4, <1>6, <1>7, <1>9, <1>10, <1>11 DEF StackFault, FpEnding
<1> QED
  BY <1>8, <1>9, <1>10, <1>11, <1>12, FpStored

\* What the arithmetic yields, by class.
FpResults == [to : Values, raise : SUBSET FpFlags]

\* The results of an operation are of their class.
LEMMA FpRounds ==
  /\ \A v \in Values : Result(v, {}) \in FpResults
  /\ Result("special", {"IE"}) \in FpResults /\ Result("special", {"ZE"}) \in FpResults
  /\ Result("finite", {"PE"}) \in FpResults /\ Result("finite", {"DE"}) \in FpResults
  /\ Result("special", {"OE", "PE"}) \in FpResults /\ Result("finite", {"OE", "PE"}) \in FpResults
  /\ \A v \in {"zero", "finite"} : Result(v, {"UE", "PE"}) \in FpResults /\ Result(v, {"UE"}) \in FpResults
  /\ {"zero", "finite", "special"} \subseteq Values
  BY DEF Result, FpResults, Values, FpFlags

\* Addition, multiplication and division.
LEMMA FpComputed ==
  ASSUME NEW op \in FpWork, NEW a \in Values, NEW b \in Values, NEW o \in Compute(op, a, b)
  PROVE  o = TooSmall \/ o \in FpResults
<1>1. RoundedFp \subseteq FpResults \cup {TooSmall}
  BY FpRounds DEF RoundedFp
<1>2. MaybeInvalid \subseteq FpResults /\ Invalid \in FpResults
  BY FpRounds DEF MaybeInvalid, Invalid
<1>3. Add(a, b) \subseteq FpResults \cup {TooSmall}
  BY <1>1, <1>2, FpRounds DEF Add
<1>4. Mul(a, b) \subseteq FpResults \cup {TooSmall}
  BY <1>1, <1>2, FpRounds DEF Mul
<1>5. ASSUME NEW x \in Values, NEW y \in Values
      PROVE  Div(x, y) \subseteq FpResults \cup {TooSmall}
  BY <1>1, <1>2, FpRounds DEF Div
<1>6. Div(a, b) \subseteq FpResults \cup {TooSmall} /\ Div(b, a) \subseteq FpResults \cup {TooSmall}
  BY <1>5
<1>7. Compute(op, a, b) \subseteq FpResults \cup {TooSmall}
  BY <1>3, <1>4, <1>6 DEF Compute, FpWork
<1> QED
  BY <1>7

\* Square root and arc cosine.
LEMMA FpRooted ==
  ASSUME NEW v \in Values
  PROVE  Sqrt(v) \subseteq FpResults /\ Acos(v) \subseteq FpResults
<1>1. MaybeInvalid \subseteq FpResults /\ Invalid \in FpResults
  BY FpRounds DEF MaybeInvalid, Invalid
<1>2. Sqrt(v) \subseteq FpResults
  BY <1>1, FpRounds DEF Sqrt
<1>3. Acos(v) \subseteq FpResults
  BY <1>1, FpRounds DEF Acos
<1> QED
  BY <1>2, <1>3

\* Sine, cosine and the like.
LEMMA FpTurned ==
  ASSUME NEW v \in Values, NEW o \in Trig(v)
  PROVE  o.to \in {"keep", "range"} \/ o \in FpResults
<1>1. Invalid \in FpResults
  BY FpRounds DEF Invalid
<1>2. Result("keep", {}).to = "keep" /\ Result("range", {}).to = "range"
  BY DEF Result
<1> QED
  BY <1>1, <1>2, FpRounds DEF Trig

\* Narrowing to memory and widening from it.
LEMMA FpConverted ==
  ASSUME NEW v \in Values
  PROVE  Narrow(v) \subseteq FpResults /\ Widen \subseteq FpResults
<1>1. Narrow(v) \subseteq FpResults
  BY FpRounds DEF Narrow
<1>2. Widen \subseteq FpResults
  BY FpRounds DEF Widen
<1> QED
  BY <1>1, <1>2

\* Comparison.
LEMMA FpOrdered ==
  ASSUME NEW a, NEW b, NEW o \in Orders(a, b)
  PROVE  o \in SUBSET Unordered
  BY DEF Orders, Unordered

\* The value of an operand that is there.
LEMMA FpOperand ==
  ASSUME NEW f, FpPlain(f), NEW ins \in Instructions, ins.arg = "memory" \/ ~IsEmpty(f, ins.i),
         NEW m \in Operand(f, ins)
  PROVE  m \in FpResults
<1>1. ins.i \in Registers /\ FpOk(f)
  BY FpForms DEF FpPlain
<1>2. CASE ins.arg = "memory"
  <2>1. "zero" \in Values
    BY DEF Values
  <2> QED
    BY <1>2, <2>1, FpConverted DEF Operand
<1>3. CASE ins.arg # "memory"
  <2>1. ST(f, ins.i) \in Values
    BY <1>1, <1>3, FpFull
  <2> QED
    BY <1>3, <2>1, FpRounds DEF Operand
<1> QED
  BY <1>2, <1>3

\* The parts of a result.
LEMMA FpField ==
  ASSUME NEW m \in FpResults
  PROVE  m.to \in Values /\ m.raise \in SUBSET FpFlags
  BY DEF FpResults

\* A load.
LEMMA FpLoads ==
  ASSUME NEW f, FpPlain(f), FpSame(f), NEW ins \in Instructions, ins.op = "load",
         ins.arg # "st" \/ ~IsEmpty(f, ins.i), IsEmpty(f, Slots - 1), NEW x \in LoadFp(f, ins)
  PROVE  FpPrecise(x, FpDown(ins), ins.pops)
<1>1. PICK m \in FpResults : x = Complete(f, m.raise, PushST(f, m.to))
  <2>1. CASE ins.arg = "constant"
    <3>1. PICK v \in {"zero", "finite"} : x = Complete(f, Result(v, {}).raise, PushST(f, Result(v, {}).to))
      BY <2>1 DEF LoadFp
    <3>2. Result(v, {}) \in FpResults
      BY <3>1, FpRounds
    <3> QED
      BY <3>1, <3>2
  <2>2. CASE ins.arg # "constant"
    <3>1. PICK m \in Operand(f, ins) : x = Complete(f, m.raise, PushST(f, m.to))
      BY <2>2 DEF LoadFp
    <3>2. ins.arg = "memory" \/ ~IsEmpty(f, ins.i)
      BY <2>2, FpForms
    <3> QED
      BY <3>1, <3>2, FpOperand
  <2> QED
    BY <2>1, <2>2
<1>2. PICK v \in Values, e \in SUBSET FpFlags : v = m.to /\ e = m.raise
  BY <1>1, FpField
<1>3. PICK g : g = PushST(f, v)
  OBVIOUS
<1>4. FpPlain(g) /\ FpMoved(g, 1, 0) /\ FpFilled(g, 1, 0)
  BY <1>3, FpPushMoves
<1>5. FpPrecise(Complete(f, e, g), 1, 0)
  BY <1>4, FpComplete
<1>6. x = Complete(f, e, g)
  BY <1>1, <1>2, <1>3
<1>7. ins.pops = 0
  BY FpForms
<1> QED
  BY <1>5, <1>6, <1>7 DEF FpDown

\* A store to memory.
LEMMA FpStoresMemory ==
  ASSUME NEW f, FpPlain(f), FpSame(f), NEW ins \in Instructions, ins.op = "store",
         ~IsEmpty(f, 0), NEW x \in StoreMemory(f, ins)
  PROVE  FpPrecise(x, FpDown(ins), ins.pops)
<1>1. ins.pops \in {0, 1, 2} /\ ins.pops # 2 /\ 0 \in Registers /\ FpOk(f)
  BY FpForms, FpRegisters DEF FpPlain
<1>2. PICK v \in Values : v = ST(f, 0)
  BY <1>1, FpFull
<1>3. PICK o \in Narrow(v) :
        x = LET r == Complete(f, o.raise, Popped(f, ins.pops))
            IN  [r EXCEPT !.memory = IF r.end = "run" THEN o.to ELSE @]
  BY <1>2 DEF StoreMemory
<1>4. PICK e \in SUBSET FpFlags : e = o.raise
  BY <1>3, FpConverted, FpField
<1>5. PICK g : g = Popped(f, ins.pops)
  OBVIOUS
<1>6. FpPlain(g) /\ FpMoved(g, 0, ins.pops) /\ FpFilled(g, 0, ins.pops)
  BY <1>1, <1>5, FpPopsMove
<1>7. PICK r : r = Complete(f, e, g)
  OBVIOUS
<1>8. FpPrecise(r, 0, ins.pops)
  BY <1>6, <1>7, FpComplete
<1>9. FpEnding(r) /\ r.fault = FALSE
  BY <1>7, FpEndsEither
<1>10. PICK m : m = (IF r.end = "run" THEN o.to ELSE r.memory) /\ (r.end = "run" \/ m = r.memory)
  OBVIOUS
<1>11. PICK b \in BOOLEAN : b = FALSE
  OBVIOUS
<1>12. x = [r EXCEPT !.memory = m]
  BY <1>3, <1>4, <1>5, <1>7, <1>9, <1>10 DEF FpEnding
<1>13. x = [r EXCEPT !.fault = b, !.memory = m]
  BY <1>9, <1>11, <1>12 DEF FpEnding
<1>14. r.end = "run" \/ m = r.memory
  BY <1>10
<1>15. b = r.fault
  BY <1>9, <1>11
<1>16. FpPrecise(x, 0, ins.pops)
  <2>1. x.fp = r.fp /\ x.end = r.end /\ x.fault = r.fault /\ x.memory = m
    BY <1>9, <1>13, <1>15 DEF FpEnding
  <2> QED
    BY <1>8, <1>14, <2>1 DEF FpPrecise, FpSound
<1> QED
  BY <1>16 DEF FpDown

\* A store to a register.
LEMMA FpStoresST ==
  ASSUME NEW f, FpPlain(f), FpSame(f), NEW ins \in Instructions, ins.op = "store",
         ~IsEmpty(f, 0), ~IsEmpty(f, ins.i), NEW x \in StoreST(f, ins)
  PROVE  FpPrecise(x, FpDown(ins), ins.pops)
<1>1. ins.pops \in {0, 1, 2} /\ ins.pops # 2 /\ ins.i \in Registers /\ 0 \in Registers /\ FpOk(f)
  BY FpForms, FpRegisters DEF FpPlain
<1>2. PICK v \in Values : v = ST(f, 0)
  BY <1>1, FpFull
<1>3. PICK h : h = WriteST(f, ins.i, v)
  OBVIOUS
<1>4. FpPlain(h) /\ h.top = f.top /\ Occupied(h) = Occupied(f) /\ ~IsEmpty(h, 0)
  BY <1>1, <1>3, FpWritten
<1>5. PICK g : g = Popped(h, ins.pops)
  OBVIOUS
<1>6. FpPlain(g) /\ FpMoved(g, 0, ins.pops) /\ FpFilled(g, 0, ins.pops)
  BY <1>1, <1>4, <1>5, FpPopsMove
<1>7. x = Completed(g)
  BY <1>2, <1>3, <1>5 DEF StoreST
<1> QED
  BY <1>6, <1>7, FpCompleted DEF FpDown

\* The exceptions of the operand, raised before the operation.
LEMMA FpOperandRaised ==
  ASSUME NEW f, FpPlain(f), FpSame(f), NEW e \in SUBSET FpFlags, NEW g, g = Raise(f, e)
  PROVE  /\ Unmasked(e) # {} => \A down, up : FpPrecise(Stops(g, "trap"), down, up)
         /\ Unmasked(e) = {} => FpPlain(g) /\ FpSame(g)
<1>1. FpOk(g) /\ FpTold(g) /\ g.st = f.st /\ g.tag = f.tag /\ g.top = f.top /\ (Unmasked(e) = {} => FpPlain(g))
  BY FpRaise
<1>2. FpSame(g)
  BY <1>1 DEF FpSame
<1>3. ASSUME NEW down, NEW up
      PROVE  FpPrecise(Stops(g, "trap"), down, up)
  <2>1. PICK why \in {"trap", "refused"} : why = "trap"
    OBVIOUS
  <2>2. FpPrecise(Stops(g, why), down, up)
    BY <1>1, <1>2, FpStops
  <2> QED
    BY <2>1, <2>2
<1> QED
  BY <1>1, <1>2, <1>3

\* An operation of two operands, once its operand is there.
LEMMA FpWorks ==
  ASSUME NEW f, FpPlain(f), FpSame(f), NEW ins \in Instructions, ins.op \in FpWork,
         ~IsEmpty(f, 0), ~IsEmpty(f, ins.i), NEW b \in Values,
         NEW o \in Compute(ins.op, ST(f, 0), b),
         NEW x, x = IF o = TooSmall THEN Stops(f, "refused")
                    ELSE Complete(f, o.raise, Popped(WriteST(f, Destination(ins), o.to), ins.pops))
  PROVE  FpPrecise(x, FpDown(ins), ins.pops)
<1>1. /\ ins.pops \in {0, 1, 2} /\ ins.pops # 2 /\ Destination(ins) \in {0, ins.i} /\ ins.i \in Registers
      /\ 0 \in Registers /\ FpOk(f) /\ FpTold(f) /\ ins.op # "load"
  <2>1. FpOk(f) /\ f.pending = {} /\ f.summary = FALSE
    BY DEF FpPlain, FpOk, FpStates
  <2>2. FpTold(f)
    BY <2>1 DEF FpTold
  <2>3. ins.op # "load" /\ ins.op # "compare"
    BY DEF FpWork
  <2> QED
    BY <2>1, <2>2, <2>3, FpForms, FpRegisters
<1>2. PICK a \in Values : a = ST(f, 0)
  BY <1>1, FpFull
<1>3. CASE o = TooSmall
  <2>1. PICK why \in {"trap", "refused"} : why = "refused"
    OBVIOUS
  <2>2. FpPrecise(Stops(f, why), 0, ins.pops)
    BY <1>1, FpStops
  <2> QED
    BY <1>1, <1>3, <2>1, <2>2 DEF FpDown
<1>4. CASE o # TooSmall
  <2>1. o \in FpResults
    BY <1>2, <1>4, FpComputed
  <2>2. PICK v \in Values, e \in SUBSET FpFlags : v = o.to /\ e = o.raise
    BY <2>1, FpField
  <2>3. PICK d \in Registers : d = Destination(ins) /\ ~IsEmpty(f, d)
    BY <1>1
  <2>4. PICK h : h = WriteST(f, d, v)
    OBVIOUS
  <2>5. FpPlain(h) /\ h.top = f.top /\ Occupied(h) = Occupied(f) /\ ~IsEmpty(h, 0)
    BY <2>3, <2>4, FpWritten
  <2>6. PICK g : g = Popped(h, ins.pops)
    OBVIOUS
  <2>7. FpPlain(g) /\ FpMoved(g, 0, ins.pops) /\ FpFilled(g, 0, ins.pops)
    BY <1>1, <2>5, <2>6, FpPopsMove
  <2>8. x = Complete(f, e, g)
    BY <1>4, <2>2, <2>3, <2>4, <2>6
  <2>9. FpPrecise(Complete(f, e, g), 0, ins.pops)
    BY <2>7, FpComplete
  <2> QED
    BY <1>1, <2>8, <2>9 DEF FpDown
<1> QED
  BY <1>3, <1>4

\* Addition, multiplication and division with their operand.
LEMMA FpBinary ==
  ASSUME NEW f, FpPlain(f), FpSame(f), NEW ins \in Instructions, ins.op \in FpWork,
         ~IsEmpty(f, 0), ~IsEmpty(f, ins.i), NEW x \in Binary(f, ins)
  PROVE  FpPrecise(x, FpDown(ins), ins.pops)
<1>1. PICK m \in Operand(f, ins) :
        x \in IF Unmasked(m.raise) # {} THEN {Stops(Raise(f, m.raise), "trap")}
              ELSE LET g == Raise(f, m.raise)
                   IN  {IF o = TooSmall THEN Stops(g, "refused")
                        ELSE Complete(g, o.raise, Popped(WriteST(g, Destination(ins), o.to), ins.pops)) :
                           o \in Compute(ins.op, ST(g, 0), m.to)}
  BY DEF Binary
<1>2. PICK b \in Values, e \in SUBSET FpFlags : b = m.to /\ e = m.raise
  BY <1>1, FpOperand, FpField
<1>3. PICK g : g = Raise(f, e)
  OBVIOUS
<1>4. CASE Unmasked(e) # {}
  <2>1. x = Stops(g, "trap")
    BY <1>1, <1>2, <1>3, <1>4
  <2> QED
    BY <1>3, <1>4, <2>1, FpOperandRaised
<1>5. CASE Unmasked(e) = {}
  <2>1. FpPlain(g) /\ FpSame(g)
    BY <1>3, <1>5, FpOperandRaised
  <2>2. ~IsEmpty(g, 0) /\ ~IsEmpty(g, ins.i)
    BY <2>1, FpSames
  <2>3. PICK o \in Compute(ins.op, ST(g, 0), b) :
          x = IF o = TooSmall THEN Stops(g, "refused")
              ELSE Complete(g, o.raise, Popped(WriteST(g, Destination(ins), o.to), ins.pops))
    BY <1>1, <1>2, <1>3, <1>5
  <2> QED
    BY <2>1, <2>2, <2>3, FpWorks
<1> QED
  BY <1>4, <1>5

\* A comparison.
LEMMA FpCompares ==
  ASSUME NEW f, FpPlain(f), FpSame(f), NEW ins \in Instructions, ins.op = "compare",
         ~IsEmpty(f, 0), ~IsEmpty(f, ins.i), NEW x \in Compare(f, ins)
  PROVE  FpPrecise(x, FpDown(ins), ins.pops)
<1>1. PICK m \in Operand(f, ins) :
        x \in IF Unmasked(m.raise) # {} THEN {Stops(Raise(f, m.raise), "trap")}
              ELSE LET g == Raise(f, m.raise)
                   IN  {Complete(g, IF o = Unordered THEN {"IE"} ELSE {},
                                 Popped([g EXCEPT !.condition = o], ins.pops)) :
                           o \in Orders(ST(g, 0), m.to)}
  BY DEF Compare
<1>2. PICK b \in Values, e \in SUBSET FpFlags : b = m.to /\ e = m.raise
  BY <1>1, FpOperand, FpField
<1>3. PICK g : g = Raise(f, e)
  OBVIOUS
<1>4. CASE Unmasked(e) # {}
  <2>1. x = Stops(g, "trap")
    BY <1>1, <1>2, <1>3, <1>4
  <2> QED
    BY <1>3, <1>4, <2>1, FpOperandRaised
<1>5. CASE Unmasked(e) = {}
  <2>1. FpPlain(g) /\ FpSame(g)
    BY <1>3, <1>5, FpOperandRaised
  <2>2. /\ ~IsEmpty(g, 0) /\ ~IsEmpty(g, ins.i) /\ ins.pops \in {0, 1, 2}
        /\ ins.pops = 2 => ins.i = 1
    BY <2>1, FpSames, FpForms
  <2>3. PICK o \in Orders(ST(g, 0), b) :
          x = Complete(g, IF o = Unordered THEN {"IE"} ELSE {}, Popped([g EXCEPT !.condition = o], ins.pops))
    BY <1>1, <1>2, <1>3, <1>5
  <2>4. PICK h, c : h = [g EXCEPT !.condition = c] /\ c = o /\ c \in SUBSET Unordered
    BY FpOrdered
  <2>5. FpPlain(h) /\ h.top = g.top /\ Occupied(h) = Occupied(g) /\ ~IsEmpty(h, 0) /\ (ins.pops = 2 => ~IsEmpty(h, 1))
    BY <2>1, <2>2, <2>4, FpConditions
  <2>6. PICK k : k = Popped(h, ins.pops)
    OBVIOUS
  <2>7. FpPlain(k) /\ FpMoved(k, 0, ins.pops) /\ FpFilled(k, 0, ins.pops)
    BY <2>1, <2>2, <2>5, <2>6, FpPopsMove
  <2>8. PICK u \in SUBSET FpFlags : u = IF o = Unordered THEN {"IE"} ELSE {}
    BY DEF FpFlags
  <2>9. x = Complete(g, u, k)
    BY <2>3, <2>4, <2>6, <2>8
  <2>10. FpPrecise(Complete(g, u, k), 0, ins.pops)
    BY <2>1, <2>7, FpComplete
  <2> QED
    BY <2>9, <2>10 DEF FpDown
<1> QED
  BY <1>4, <1>5

\* The top of the stack replaced.
LEMMA FpUnary ==
  ASSUME NEW f, FpPlain(f), FpSame(f), ~IsEmpty(f, 0), NEW results \in SUBSET FpResults, NEW x \in Unary(f, results)
  PROVE  FpPrecise(x, 0, 0)
<1>1. PICK o \in FpResults : x = Complete(f, o.raise, WriteST(f, 0, o.to))
  BY DEF Unary
<1>2. PICK v \in Values, e \in SUBSET FpFlags : v = o.to /\ e = o.raise
  BY <1>1, FpField
<1>3. 0 \in Registers
  BY FpRegisters
<1>4. PICK h : h = WriteST(f, 0, v)
  OBVIOUS
<1>5. FpPlain(h) /\ h.top = f.top /\ Occupied(h) = Occupied(f)
  BY <1>3, <1>4, FpWritten
<1>6. FpPlain(h) /\ FpMoved(h, 0, 0) /\ FpFilled(h, 0, 0)
  <2>1. PICK n \in {0, 1, 2} : n = 0
    OBVIOUS
  <2>2. h = Popped(h, n)
    BY <2>1 DEF Popped
  <2> QED
    BY <1>5, <2>1, <2>2, FpPopsMove
<1>7. x = Complete(f, e, h)
  BY <1>1, <1>2, <1>4
<1> QED
  BY <1>6, <1>7, FpComplete

\* Nothing done to the registers.
LEMMA FpIdle ==
  ASSUME NEW f, FpPlain(f), FpSame(f)
  PROVE  FpPrecise(Completed(f), 0, 0)
<1>1. FpMoved(f, 0, 0) /\ FpFilled(f, 0, 0)
  <2>1. PICK n \in {0, 1, 2} : n = 0
    OBVIOUS
  <2>2. f = Popped(f, n)
    BY <2>1 DEF Popped
  <2> QED
    BY <2>1, <2>2, FpPopsMove
<1> QED
  BY <1>1, FpCompleted

\* The trigonometric instructions.
LEMMA FpTurns ==
  ASSUME NEW f, FpPlain(f), FpSame(f), ~IsEmpty(f, 0), NEW x \in Transcendental(f)
  PROVE  FpPrecise(x, 0, 0)
<1>1. PICK v \in Values : v = ST(f, 0)
  BY FpFull, FpRegisters DEF FpPlain
<1>2. PICK o \in Trig(v) :
        x = CASE o.to = "keep" -> Completed(f)
              [] o.to = "range" -> Completed([f EXCEPT !.condition = @ \cup {"C2"}])
              [] OTHER -> Complete(f, o.raise, [WriteST(f, 0, o.to) EXCEPT !.condition = @ \ {"C2"}])
  BY <1>1 DEF Transcendental
<1>3. f.condition \in SUBSET Unordered
  BY DEF FpPlain, FpOk, FpStates
<1>4. CASE o.to = "keep"
  <2>1. x = Completed(f)
    BY <1>2, <1>4
  <2> QED
    BY <2>1, FpIdle
<1>5. CASE o.to = "range"
  <2>1. PICK c \in SUBSET Unordered : c = f.condition \cup {"C2"}
    <3>1. f.condition \cup {"C2"} \in SUBSET Unordered
      BY <1>3 DEF Unordered
    <3> QED
      BY <3>1
  <2>2. PICK h : h = [f EXCEPT !.condition = c]
    OBVIOUS
  <2>3. FpPlain(h) /\ h.top = f.top /\ Occupied(h) = Occupied(f)
    BY <2>2, FpConditions
  <2>4. FpMoved(h, 0, 0) /\ FpFilled(h, 0, 0)
    <3>1. PICK n \in {0, 1, 2} : n = 0
      OBVIOUS
    <3>2. h = Popped(h, n)
      BY <3>1 DEF Popped
    <3> QED
      BY <2>3, <3>1, <3>2, FpPopsMove
  <2>5. FpPrecise(Completed(h), 0, 0)
    BY <2>3, <2>4, FpCompleted
  <2>6. x = Completed(h)
    BY <1>2, <1>5, <2>1, <2>2
  <2> QED
    BY <2>5, <2>6
<1>6. CASE o.to \notin {"keep", "range"}
  <2>1. o \in FpResults
    BY <1>2, <1>6, FpTurned
  <2>2. PICK w \in Values, e \in SUBSET FpFlags : w = o.to /\ e = o.raise
    BY <2>1, FpField
  <2>3. PICK g : g = WriteST(f, 0, w)
    OBVIOUS
  <2>4. FpPlain(g) /\ g.top = f.top /\ Occupied(g) = Occupied(f)
    BY <2>3, FpWritten, FpRegisters
  <2>5. PICK c \in SUBSET Unordered : c = g.condition \ {"C2"}
    <3>1. g.condition \in SUBSET Unordered
      BY <2>4 DEF FpPlain, FpOk, FpStates
    <3>2. g.condition \ {"C2"} \in SUBSET Unordered
      BY <3>1
    <3> QED
      BY <3>2
  <2>6. PICK h : h = [g EXCEPT !.condition = c]
    OBVIOUS
  <2>7. FpPlain(h) /\ h.top = g.top /\ Occupied(h) = Occupied(g)
    BY <2>4, <2>6, FpConditions
  <2>8. FpMoved(h, 0, 0) /\ FpFilled(h, 0, 0)
    <3>1. PICK n \in {0, 1, 2} : n = 0
      OBVIOUS
    <3>2. h = Popped(h, n)
      BY <3>1 DEF Popped
    <3> QED
      BY <2>4, <2>7, <3>1, <3>2, FpPopsMove
  <2>9. x = Complete(f, e, h)
    BY <1>2, <1>6, <2>2, <2>3, <2>5, <2>6
  <2> QED
    BY <2>7, <2>8, <2>9, FpComplete
<1> QED
  BY <1>4, <1>5, <1>6

\* Every instruction.
LEMMA FpExecutes ==
  ASSUME NEW f, FpPlain(f), FpSame(f), NEW ins \in Instructions, NEW x \in Execute(f, ins)
  PROVE  FpPrecise(x, FpDown(ins), ins.pops)
<1>1. CASE Underflows(f, ins) \/ Overflows(f, ins)
  <2>1. x = StackFault(f, ins)
    BY <1>1 DEF Execute
  <2> QED
    BY <2>1, FpStackFault
<1>2. CASE ~Underflows(f, ins) /\ ~Overflows(f, ins)
  <2>1. CASE ins.op = "load"
    <3>1. x \in LoadFp(f, ins)
      BY <1>2, <2>1 DEF Execute
    <3>2. (ins.arg # "st" \/ ~IsEmpty(f, ins.i)) /\ IsEmpty(f, Slots - 1)
      BY <1>2, <2>1 DEF Underflows, Overflows
    <3> QED
      BY <2>1, <3>1, <3>2, FpLoads
  <2>2. CASE ins.op = "status"
    <3>1. x = Completed(f)
      BY <1>2, <2>2 DEF Execute
    <3>2. ins.pops = 0 /\ FpDown(ins) = 0
      BY <2>2, FpForms DEF FpDown
    <3> QED
      BY <3>1, <3>2, FpIdle
  <2>3. CASE ins.op \notin {"load", "status"}
    <3>1. ~IsEmpty(f, 0) /\ ~IsEmpty(f, ins.i)
      BY <1>2, <2>3 DEF Underflows
    <3>2. CASE ins.op = "store" /\ ins.arg = "st"
      <4>1. x \in StoreST(f, ins)
        BY <1>2, <3>2 DEF Execute
      <4> QED
        BY <3>1, <3>2, <4>1, FpStoresST
    <3>3. CASE ins.op = "store" /\ ins.arg # "st"
      <4>1. x \in StoreMemory(f, ins)
        BY <1>2, <3>3 DEF Execute
      <4> QED
        BY <3>1, <3>3, <4>1, FpStoresMemory
    <3>4. CASE ins.op \in {"sign", "sqrt", "acos", "trig"}
      <4>1. ins.pops = 0 /\ FpDown(ins) = 0
        BY <3>4, FpForms DEF FpDown
      <4>2. ST(f, 0) \in Values
        BY <3>1, FpFull, FpRegisters DEF FpPlain
      <4>3. CASE ins.op = "sign"
        <5>1. x = Completed(f)
          BY <1>2, <4>3 DEF Execute
        <5> QED
          BY <4>1, <5>1, FpIdle
      <4>4. CASE ins.op = "sqrt"
        <5>1. PICK R \in SUBSET FpResults : R = Sqrt(ST(f, 0))
          BY <4>2, FpRooted
        <5>2. x \in Unary(f, R)
          BY <1>2, <4>4, <5>1 DEF Execute
        <5> QED
          BY <3>1, <4>1, <5>2, FpUnary
      <4>5. CASE ins.op = "acos"
        <5>1. PICK R \in SUBSET FpResults : R = Acos(ST(f, 0))
          BY <4>2, FpRooted
        <5>2. x \in Unary(f, R)
          BY <1>2, <4>5, <5>1 DEF Execute
        <5> QED
          BY <3>1, <4>1, <5>2, FpUnary
      <4>6. CASE ins.op = "trig"
        <5>1. x \in Transcendental(f)
          BY <1>2, <4>6 DEF Execute
        <5> QED
          BY <3>1, <4>1, <5>1, FpTurns
      <4> QED
        BY <3>4, <4>3, <4>4, <4>5, <4>6
    <3>5. CASE ins.op = "compare"
      <4>1. x \in Compare(f, ins)
        BY <1>2, <3>5 DEF Execute
      <4> QED
        BY <3>1, <3>5, <4>1, FpCompares
    <3>6. CASE ins.op \in FpWork
      <4>1. x \in Binary(f, ins)
        BY <1>2, <3>6 DEF Execute, FpWork
      <4> QED
        BY <3>1, <3>6, <4>1, FpBinary
    <3> QED
      BY <2>3, <3>2, <3>3, <3>4, <3>5, <3>6, FpForms
  <2> QED
    BY <2>1, <2>2, <2>3
<1> QED
  BY <1>1, <1>2

\* The unit as a step finds it.
LEMMA FpFound ==
  ASSUME X87Inv, fpEnd = "run"
  PROVE  FpPlain(fp) /\ FpSame(fp)
<1>1. fp.pending = {} /\ FpOk(fp) /\ fp.summary = FALSE
  BY DEF X87Inv, FpTold
<1> QED
  BY <1>1 DEF FpPlain, FpSame

\* The bound on the steps.
LEMMA FpTurnKept ==
  ASSUME X87Inv, FpTurn
  PROVE  fpEnd = "run" /\ fpCount' \in 0 .. FpSteps
<1>1. FpSteps \in Nat /\ fpCount \in 0 .. FpSteps
  BY X87Assumption DEF X87Inv
<1> QED
  BY <1>1 DEF FpTurn

\* What an instruction comes to taken over by the guest.
LEMMA FpTaken ==
  ASSUME X87Inv, FpTurn, NEW r, NEW down, NEW up, FpPrecise(r, down, up), fp' = r.fp,
         fpEnd' = r.end, r.end = "run" \/ fpMemory' = r.memory, fpRan' = Moves(down, up, r.fault),
         UNCHANGED fpMask
  PROVE  X87Inv' /\ Precise
<1>1. fpEnd = "run" /\ fpCount' \in 0 .. FpSteps
  BY FpTurnKept
<1>2. fpRan'.down = down /\ fpRan'.up = up /\ fpRan'.fault = r.fault
  BY DEF Moves
<1>3. /\ FpOk(fp') /\ FpTold(fp')
      /\ fpEnd' = "run" => fp'.pending = {} /\ FpMoved(fp', down, up)
      /\ fpEnd' # "run" => FpSame(fp') /\ fpMemory' = fpMemory
  BY DEF FpPrecise, FpSound
<1>4. fpEnd' = "run" /\ ~r.fault => FpFilled(fp', down, up)
  BY DEF FpPrecise
<1>5. X87Inv'
  <2>1. FpTold(fp)'
    BY <1>3 DEF FpTold
  <2>2. FpOk(fp)'
    BY <1>3 DEF FpOk, FpStates
  <2> QED
    BY <1>1, <1>3, <2>1, <2>2 DEF X87Inv
<1>6. Precise
  <2>1. CASE fpEnd' = "run"
    <3>1. (fp'.top + fpRan'.down) % Slots = (fp.top + fpRan'.up) % Slots
      BY <1>2, <1>3, <2>1 DEF FpMoved
    <3>2. ~fpRan'.fault => Occupied(fp') + fpRan'.up = Occupied(fp) + fpRan'.down
      BY <1>2, <1>4, <2>1 DEF FpFilled
    <3> QED
      BY <2>1, <3>1, <3>2 DEF Precise
  <2>2. CASE fpEnd' # "run"
    BY <1>3, <2>2 DEF Precise, FpSame
  <2> QED
    BY <2>1, <2>2
<1> QED
  BY <1>5, <1>6

\* A step that stops leaves the guest as it was.
LEMMA FpLeft ==
  ASSUME X87Inv, FpTurn, fpEnd' # "run", UNCHANGED <<fp, fpMask, fpMemory>>
  PROVE  X87Inv' /\ Precise
<1>1. fpCount' \in 0 .. FpSteps
  BY FpTurnKept
<1>2. X87Inv'
  BY <1>1 DEF X87Inv, FpTold, FpOk, FpStates
<1>3. Precise
  BY DEF Precise
<1> QED
  BY <1>2, <1>3

\* Each step keeps the unit sound and is precise: an instruction.
LEMMA FpInstruction ==
  ASSUME X87Inv, NEW ins \in Instructions, Instruction(ins)
  PROVE  X87Inv' /\ Precise
<1>1. FpTurn /\ fpEnd = "run"
  BY FpTurnKept DEF Instruction
<1>2. PICK r \in Execute(fp, ins) :
        /\ fp' = r.fp /\ fpMemory' = r.memory /\ fpEnd' = r.end
        /\ fpRan' = Moves(FpDown(ins), ins.pops, r.fault)
  BY DEF Instruction, FpDown
<1>3. FpPrecise(r, FpDown(ins), ins.pops)
  <2>1. FpPlain(fp) /\ FpSame(fp)
    BY <1>1, FpFound
  <2> QED
    BY <1>2, <2>1, FpExecutes
<1>4. UNCHANGED fpMask
  BY DEF Instruction
<1> QED
  BY <1>1, <1>2, <1>3, <1>4, FpTaken

\* An import that works on a copy of the guest.
LEMMA FpOnCopy ==
  ASSUME X87Inv, NEW ins, NEW results, OnCopy(ins, results),
         \A r \in results : FpPrecise(r, FpDown(ins), 0)
  PROVE  X87Inv' /\ Precise
<1>1. FpTurn /\ UNCHANGED <<fpMask, fpMemory>>
  BY DEF OnCopy
<1>2. PICK r \in results :
        /\ fp' = (IF r.end = "run" THEN r.fp ELSE fp) /\ fpEnd' = r.end
        /\ fpRan' = Moves(FpDown(ins), 0, r.fault)
  BY DEF OnCopy, FpDown
<1>3. CASE r.end = "run"
  <2>1. fp' = r.fp /\ FpPrecise(r, FpDown(ins), 0)
    BY <1>2, <1>3
  <2>2. PICK down, up : down = FpDown(ins) /\ up = 0
    OBVIOUS
  <2>3. FpPrecise(r, down, up) /\ fpRan' = Moves(down, up, r.fault)
    BY <1>2, <2>1, <2>2
  <2> QED
    BY <1>1, <1>2, <1>3, <2>1, <2>3, FpTaken
<1>4. CASE r.end # "run"
  BY <1>1, <1>2, <1>4, FpLeft
<1> QED
  BY <1>3, <1>4

\* _CIacos.
LEMMA FpCIacos ==
  ASSUME X87Inv, CIacos
  PROVE  X87Inv' /\ Precise
<1>1. PICK ins : ins = Ins("acos", "none", 0, 0)
  OBVIOUS
<1>2. ins \in Instructions
  BY <1>1 DEF Instructions
<1>3. ins.pops = 0
  BY <1>1 DEF Ins
<1>4. OnCopy(ins, Execute(fp, ins))
  BY <1>1 DEF CIacos
<1>5. fpEnd = "run"
  BY <1>4 DEF OnCopy, FpTurn
<1>6. FpPlain(fp) /\ FpSame(fp)
  BY <1>5, FpFound
<1>7. \A r \in Execute(fp, ins) : FpPrecise(r, FpDown(ins), 0)
  BY <1>2, <1>3, <1>6, FpExecutes
<1> QED
  BY <1>4, <1>7, FpOnCopy

\* floor.
LEMMA FpFloor ==
  ASSUME X87Inv, Floor
  PROVE  X87Inv' /\ Precise
<1>1. PICK ins : ins = Ins("load", "constant", 0, 0)
  OBVIOUS
<1>2. ins \in Instructions
  BY <1>1 DEF Instructions
<1>3. ins.pops = 0 /\ ins.op = "load" /\ FpDown(ins) = 1
  BY <1>1 DEF Ins, FpDown
<1>4. PICK R : /\ OnCopy(ins, R)
               /\ R = IF Overflows(fp, ins) THEN {StackFault(fp, ins)}
                      ELSE {Completed(PushST(fp, v)) : v \in Values}
  BY <1>1 DEF Floor
<1>5. fpEnd = "run"
  BY <1>4 DEF OnCopy, FpTurn
<1>6. FpPlain(fp) /\ FpSame(fp)
  BY <1>5, FpFound
<1>7. ASSUME NEW r \in R
      PROVE  FpPrecise(r, FpDown(ins), 0)
  <2>1. CASE Overflows(fp, ins)
    <3>1. r = StackFault(fp, ins)
      BY <1>4, <2>1
    <3>2. FpPrecise(r, FpDown(ins), ins.pops)
      BY <1>2, <1>6, <3>1, FpStackFault
    <3> QED
      BY <1>3, <3>2
  <2>2. CASE ~Overflows(fp, ins)
    <3>1. PICK v \in Values : r = Completed(PushST(fp, v))
      BY <1>4, <2>2
    <3>2. PICK g : g = PushST(fp, v)
      OBVIOUS
    <3>3. IsEmpty(fp, Slots - 1)
      BY <1>3, <2>2 DEF Overflows
    <3>4. FpPlain(g) /\ FpMoved(g, 1, 0) /\ FpFilled(g, 1, 0)
      BY <1>6, <3>2, <3>3, FpPushMoves
    <3>5. FpPrecise(Completed(g), 1, 0)
      BY <3>4, FpCompleted
    <3> QED
      BY <1>3, <3>1, <3>2, <3>5
  <2> QED
    BY <2>1, <2>2
<1> QED
  BY <1>4, <1>7, FpOnCopy

\* _ftol.
LEMMA FpFtol ==
  ASSUME X87Inv, Ftol
  PROVE  X87Inv' /\ Precise
<1>1. FpTurn /\ fpEnd = "run" /\ UNCHANGED <<fpMask, fpMemory>>
  BY FpTurnKept DEF Ftol
<1>2. CASE IsEmpty(fp, 0)
  <2>1. fpEnd' # "run" /\ UNCHANGED fp
    BY <1>2 DEF Ftol
  <2> QED
    BY <1>1, <2>1, FpLeft
<1>3. CASE ~IsEmpty(fp, 0)
  <2>1. fpEnd' = "run" /\ fpRan' = Moves(0, 1, FALSE) /\ fp' = PopST(fp)
    BY <1>3 DEF Ftol
  <2>2. FpPlain(fp) /\ FpSame(fp)
    BY <1>1, FpFound
  <2>3. PICK g : g = PopST(fp)
    OBVIOUS
  <2>4. FpPlain(g) /\ FpMoved(g, 0, 1) /\ FpFilled(g, 0, 1)
    <3>1. PICK n \in {0, 1, 2} : n = 1
      OBVIOUS
    <3>2. g = Popped(fp, n)
      BY <2>3, <3>1 DEF Popped
    <3> QED
      BY <1>3, <2>2, <3>1, <3>2, FpPopsMove
  <2>5. PICK r : r = Completed(g)
    OBVIOUS
  <2>6. r.fp = g /\ r.end = "run" /\ r.fault = FALSE
    BY <2>5, FpEndsRun
  <2>7. PICK down, up : down = 0 /\ up = 1 /\ FpPrecise(r, down, up)
    BY <2>4, <2>5, FpCompleted
  <2> QED
    BY <1>1, <2>1, <2>3, <2>6, <2>7, FpTaken
<1> QED
  BY <1>2, <1>3

\* _controlfp.
LEMMA FpControl ==
  ASSUME X87Inv, NEW value, NEW which, ControlFp(value, which)
  PROVE  X87Inv' /\ Precise
<1>1. fpEnd = "run" /\ fpCount' \in 0 .. FpSteps /\ UNCHANGED <<fp, fpMemory, fpEnd>>
  BY FpTurnKept DEF ControlFp
<1>2. fpMask' = (fpMask \ (which \ {"DE"})) \cup (value \cap (which \ {"DE"}))
  BY DEF ControlFp
<1>3. fpRan'.down = 0 /\ fpRan'.up = 0
  BY DEF ControlFp, Moves
<1>4. X87Inv'
  <2>1. "DE" \in fpMask'
    BY <1>2 DEF X87Inv
  <2>2. fp'.pending = {} /\ fp'.summary = FALSE
    BY <1>1 DEF X87Inv, FpTold
  <2>3. FpTold(fp)'
    BY <2>2 DEF FpTold
  <2>4. FpOk(fp)'
    BY <1>1 DEF X87Inv, FpOk, FpStates
  <2> QED
    BY <1>1, <2>1, <2>2, <2>3, <2>4 DEF X87Inv
<1>5. Precise
  BY <1>1, <1>3 DEF Precise
<1> QED
  BY <1>4, <1>5

\* Any step.
LEMMA FpNext ==
  ASSUME X87Inv, [X87Next]_x87Vars
  PROVE  X87Inv' /\ [Precise]_x87Vars
<1>1. ASSUME NEW ins \in Instructions, Instruction(ins)
      PROVE  X87Inv' /\ Precise
  BY <1>1, FpInstruction
<1>2. CASE CIacos
  BY <1>2, FpCIacos
<1>3. CASE Floor
  BY <1>3, FpFloor
<1>4. CASE Ftol
  BY <1>4, FpFtol
<1>5. ASSUME NEW value, NEW which, ControlFp(value, which)
      PROVE  X87Inv' /\ Precise
  BY <1>5, FpControl
<1>6. CASE UNCHANGED x87Vars
  <2>1. X87Inv'
    BY <1>6 DEF X87Inv, FpTold, FpOk, FpStates, x87Vars
  <2> QED
    BY <1>6, <2>1
<1> QED
  BY <1>1, <1>2, <1>3, <1>4, <1>5, <1>6 DEF X87Next

\* The unit as it starts.
LEMMA FpInit ==
  ASSUME X87Init
  PROVE  X87Inv
<1>1. 0 \in Registers /\ FpSteps \in Nat
  BY FpRegisters, X87Assumption
<1>2. PICK S, T : S = [s \in Registers |-> "empty"] /\ T = [s \in Registers |-> 3]
  OBVIOUS
<1>3. S \in [Registers -> FpContents] /\ T \in [Registers -> 0 .. 3]
  BY <1>2, FpTags
<1>4. fp = [st |-> S, tag |-> T, top |-> 0, flags |-> {}, c1 |-> FALSE, condition |-> {}, pending |-> {},
            summary |-> FALSE]
  BY <1>2 DEF X87Init, Registers
<1>5. fp \in FpStates
  BY <1>1, <1>3, <1>4 DEF FpStates
<1>6. \A s \in Registers : fp.tag[s] = Tag(fp.st[s])
  BY <1>2, <1>4, FpTags
<1>7. FpTold(fp) /\ fp.pending = {}
  BY <1>4 DEF FpTold
<1>8. "DE" \in fpMask /\ fpCount \in 0 .. FpSteps
  BY <1>1 DEF X87Init, FpFlags
<1> QED
  BY <1>5, <1>6, <1>7, <1>8 DEF X87Inv, FpOk

\* The invariant.
LEMMA FpHolds == X87Spec => []X87Inv
<1>1. X87Init => X87Inv
  BY FpInit
<1>2. X87Inv /\ [X87Next]_x87Vars => X87Inv'
  BY FpNext
<1> QED
  BY <1>1, <1>2, PTL DEF X87Spec

\* The types are in it.
LEMMA FpTyped == ASSUME X87Inv PROVE X87TypeOK
BY DEF X87Inv, X87TypeOK, FpOk, FpStates, FpTold, FpContents

\* pw_x87: registers and tags tell the same, and a trap is pending exactly when
\* the status word sums one up, and only while the guest is stopped by it.
THEOREM FpTyping == X87Spec => []X87TypeOK
<1>1. X87Inv => X87TypeOK
  BY FpTyped
<1> QED
  BY <1>1, FpHolds, PTL

\* pw_x87: an instruction that stops leaves registers, TOP and memory alone, and
\* one that completes moves TOP by just what it pushes and pops, stack fault or
\* not, and fills and empties as many registers.
THEOREM FpAlwaysPrecise == X87Spec => X87Precise
<1>1. X87Inv /\ [X87Next]_x87Vars => [Precise]_x87Vars
  BY FpNext
<1> QED
  BY <1>1, FpHolds, PTL DEF X87Spec, X87Precise

-----------------------------------------------------------------------------
(* The guest's heap.  The invariant is that the table's blocks follow each  *)
(* other through the heap in whole granules, hold what was asked for, and  *)
(* that no two free ones touch (HpInv).  A call is then told by the blocks *)
(* in use it adds, takes away or moves, and by the bytes it leaves.        *)

\* Whole granules.
HpWhole(n) == n % Granule = 0

\* A multiple is whole, and a whole number a multiple.
LEMMA HpTimes ==
  ASSUME NEW g \in Nat, g > 0
  PROVE  /\ \A k \in Nat : k * g \in Nat /\ (k * g) % g = 0
         /\ \A a \in Nat : a % g = 0 => a = (a \div g) * g /\ a \div g \in Nat
<1>1. ASSUME NEW k \in Nat
      PROVE  k * g \in Nat /\ (k * g) % g = 0
  OBVIOUS
<1>2. ASSUME NEW a \in Nat, a % g = 0
      PROVE  a = (a \div g) * g /\ a \div g \in Nat
  BY <1>2
<1> QED
  BY <1>1, <1>2

\* Sums and differences are whole.
LEMMA HpSums ==
  ASSUME NEW a \in Nat, NEW b \in Nat, HpWhole(a), HpWhole(b)
  PROVE  HpWhole(a + b) /\ (b <= a => HpWhole(a - b))
<1>1. Granule \in Nat /\ Granule > 0
  BY HeapAssumption
<1>2. PICK x \in Nat, y \in Nat : a = x * Granule /\ b = y * Granule
  <2>1. a = (a \div Granule) * Granule /\ a \div Granule \in Nat
    BY <1>1, HpTimes DEF HpWhole
  <2>2. b = (b \div Granule) * Granule /\ b \div Granule \in Nat
    BY <1>1, HpTimes DEF HpWhole
  <2> QED
    BY <2>1, <2>2
<1>3. a + b = (x + y) * Granule
  BY <1>1, <1>2
<1>4. HpWhole(a + b)
  <2>1. PICK k \in Nat : k = x + y
    OBVIOUS
  <2>2. (k * Granule) % Granule = 0
    BY <1>1, HpTimes
  <2> QED
    BY <1>3, <2>1, <2>2 DEF HpWhole
<1>5. ASSUME b <= a
      PROVE  HpWhole(a - b)
  <2>1. y <= x
    <3>1. SUFFICES ASSUME y > x PROVE FALSE
      OBVIOUS
    <3>2. PICK d \in Nat : d > 0 /\ y = x + d
      BY <3>1
    <3>3. y * Granule = x * Granule + d * Granule
      BY <1>1, <3>2
    <3>4. d * Granule > 0
      BY <1>1, <3>2
    <3> QED
      BY <1>1, <1>2, <1>5, <3>3, <3>4
  <2>2. PICK d \in Nat : d = x - y /\ x = y + d
    BY <2>1
  <2>3. x * Granule = y * Granule + d * Granule
    BY <1>1, <2>2
  <2>4. a - b = d * Granule
    BY <1>1, <1>2, <2>3
  <2>5. (d * Granule) % Granule = 0
    BY <1>1, HpTimes
  <2> QED
    BY <2>4, <2>5 DEF HpWhole
<1> QED
  BY <1>4, <1>5

\* What a size asked for is rounded to.
LEMMA HpRounds ==
  ASSUME NEW n \in Nat
  PROVE  Rounded(n) \in Nat /\ Rounded(n) > 0 /\ Rounded(n) >= n /\ HpWhole(Rounded(n))
<1>1. Granule \in Nat /\ Granule > 0
  BY HeapAssumption
<1>2. CASE n = 0
  <2>1. 1 * Granule = Granule /\ (1 * Granule) % Granule = 0
    BY <1>1, HpTimes
  <2>2. Rounded(n) = Granule
    BY <1>2 DEF Rounded
  <2> QED
    BY <1>1, <1>2, <2>1, <2>2 DEF HpWhole
<1>3. CASE n # 0
  <2>1. PICK m \in Nat : m = n + Granule - 1
    BY <1>1
  <2>2. PICK k \in Nat : k = m \div Granule
    BY <1>1
  <2>3. m = Granule * k + (m % Granule) /\ m % Granule \in Nat /\ m % Granule < Granule
    BY <1>1, <2>2
  <2>4. Rounded(n) = k * Granule
    BY <1>3, <2>1, <2>2 DEF Rounded
  <2>5. k * Granule \in Nat /\ k * Granule = Granule * k /\ (k * Granule) % Granule = 0
    BY <1>1, HpTimes
  <2>6. k * Granule >= n
    BY <1>1, <2>1, <2>3, <2>5
  <2> QED
    BY <1>3, <2>4, <2>5, <2>6 DEF HpWhole
<1> QED
  BY <1>2, <1>3

\* A table: its blocks follow each other through the heap, whole, and each
\* holds what was asked for.
HpBlocks == [offset : Nat, size : Nat, requested : Requests \cup {0}, used : BOOLEAN]
HpBlockOk(b) ==
    b.size > 0 /\ HpWhole(b.size) /\ b.requested <= b.size /\ (~b.used => b.requested = 0)
HpChained(bs) ==
    /\ bs[1].offset = 0
    /\ \A i \in 1 .. Len(bs) :
         bs[i].offset + bs[i].size = IF i = Len(bs) THEN HeapBytes ELSE bs[i + 1].offset
HpOrdered(bs) ==
    \A i, j \in 1 .. Len(bs) : i < j => bs[i].offset + bs[i].size <= bs[j].offset
HpTable(bs) ==
    /\ bs \in Seq(HpBlocks) /\ Len(bs) \in 1 .. HeapSlots
    /\ \A i \in 1 .. Len(bs) : HpBlockOk(bs[i])
    /\ HpChained(bs) /\ HpOrdered(bs)

\* No two free blocks touch, but perhaps those in P and the ones before them.
HpSpacedBut(bs, P) == \A k \in 2 .. Len(bs) : k \notin P => bs[k].used \/ bs[k - 1].used
HpSpaced(bs) == HpSpacedBut(bs, {})

\* Where a block in use is.
HpLive(bs, a, n) == \E k \in 1 .. Len(bs) : bs[k].used /\ bs[k].offset = a /\ bs[k].requested = n

\* What is asked for is a number.
LEMMA HpNumbers ==
  /\ Requests \cup {0} \subseteq Nat /\ HeapBytes \in Nat /\ HeapBytes > 0 /\ HeapSlots \in Nat /\ HeapSlots > 0
  /\ HpWhole(HeapBytes) /\ \A b \in HpBlocks : b.offset \in Nat /\ b.size \in Nat /\ b.requested \in Nat /\ b.used \in BOOLEAN
<1>1. Requests \cup {0} \subseteq Nat
  BY HeapAssumption
<1>2. HeapBytes \in Nat /\ HeapBytes > 0 /\ HeapSlots \in Nat /\ HeapSlots > 0 /\ HpWhole(HeapBytes)
  BY HeapAssumption DEF HpWhole
<1>3. \A b \in HpBlocks : b.offset \in Nat /\ b.size \in Nat /\ b.requested \in Nat /\ b.used \in BOOLEAN
  BY <1>1 DEF HpBlocks
<1> QED
  BY <1>1, <1>2, <1>3

\* A block of a table.
LEMMA HpBlock ==
  ASSUME NEW bs, HpTable(bs), NEW i \in 1 .. Len(bs)
  PROVE  /\ bs[i] \in HpBlocks /\ bs[i].offset \in Nat /\ bs[i].size \in Nat /\ bs[i].requested \in Nat
         /\ bs[i].used \in BOOLEAN /\ HpBlockOk(bs[i])
<1>1. bs[i] \in HpBlocks
  BY ElementOfSeq DEF HpTable
<1> QED
  BY <1>1, HpNumbers DEF HpTable

\* The length of a table is a number.
LEMMA HpLength ==
  ASSUME NEW bs, bs \in Seq(HpBlocks)
  PROVE  Len(bs) \in Nat /\ DOMAIN bs = 1 .. Len(bs)
  BY LenProperties

\* One entry of a sequence taken out, and one put in.
HpWithout(r, s, i) ==
    /\ Len(r) = Len(s) - 1
    /\ \A k \in 1 .. Len(s) - 1 : r[k] = IF k < i THEN s[k] ELSE s[k + 1]
HpWith(r, s, i, e) ==
    /\ Len(r) = Len(s) + 1
    /\ \A k \in 1 .. Len(s) + 1 : r[k] = IF k < i THEN s[k] ELSE IF k = i THEN e ELSE s[k - 1]

\* An entry taken out leaves those before and behind it.
LEMMA HpRemoved ==
  ASSUME NEW S, NEW s \in Seq(S), NEW i \in 1 .. Len(s), NEW r, r = RemoveAt(s, i)
  PROVE  r \in Seq(S) /\ HpWithout(r, s, i)
<1>0. PICK n \in Nat : n = Len(s) /\ i \in 1 .. n
  BY LenProperties
<1> USE <1>0
<1>1. PICK a, b : a = SubSeq(s, 1, i - 1) /\ b = SubSeq(s, i + 1, n) /\ r = a \o b
  BY DEF RemoveAt
<1>2. \A j \in 1 .. n : s[j] \in S
  BY ElementOfSeq
<1>3. a \in Seq(S) /\ Len(a) = i - 1 /\ \A j \in 1 .. i - 1 : a[j] = s[j]
  BY <1>1, <1>2, SubSeqProperties
<1>4. b \in Seq(S) /\ Len(b) = n - i /\ \A j \in 1 .. n - i : b[j] = s[i + j]
  BY <1>1, <1>2, SubSeqProperties
<1>5. r \in Seq(S) /\ Len(r) = n - 1 /\ \A k \in 1 .. n - 1 : r[k] = IF k <= i - 1 THEN a[k] ELSE b[k - (i - 1)]
  <2>1. /\ a \o b \in Seq(S) /\ Len(a \o b) = Len(a) + Len(b)
        /\ \A k \in 1 .. Len(a) + Len(b) : (a \o b)[k] = IF k <= Len(a) THEN a[k] ELSE b[k - Len(a)]
    BY <1>3, <1>4, ConcatProperties
  <2>2. Len(a) + Len(b) = n - 1
    BY <1>3, <1>4
  <2> QED
    BY <1>1, <1>3, <2>1, <2>2
<1>6. ASSUME NEW k \in 1 .. n - 1
      PROVE  r[k] = IF k < i THEN s[k] ELSE s[k + 1]
  <2>1. CASE k < i
    BY <1>3, <1>5, <2>1
  <2>2. CASE k >= i
    <3>1. PICK j \in 1 .. n - i : j = k - (i - 1) /\ i + j = k + 1
      BY <2>2
    <3> QED
      BY <1>4, <1>5, <2>2, <3>1
  <2> QED
    BY <2>1, <2>2
<1> QED
  BY <1>5, <1>6 DEF HpWithout

\* An entry put in pushes those behind it back.
LEMMA HpInserted ==
  ASSUME NEW S, NEW s \in Seq(S), NEW i \in 1 .. Len(s) + 1, NEW e \in S, NEW r, r = InsertAt(s, i, e)
  PROVE  r \in Seq(S) /\ HpWith(r, s, i, e)
<1>0. PICK n \in Nat : n = Len(s) /\ i \in 1 .. n + 1
  BY LenProperties
<1> USE <1>0
<1>1. PICK a, b, c : a = SubSeq(s, 1, i - 1) /\ b = SubSeq(s, i, n) /\ c = a \o <<e>> /\ r = c \o b
  BY DEF InsertAt
<1>2. \A j \in 1 .. n : s[j] \in S
  BY ElementOfSeq
<1>3. a \in Seq(S) /\ Len(a) = i - 1 /\ \A j \in 1 .. i - 1 : a[j] = s[j]
  BY <1>1, <1>2, SubSeqProperties
<1>4. b \in Seq(S) /\ Len(b) = n + 1 - i /\ \A j \in 1 .. n + 1 - i : b[j] = s[i + j - 1]
  BY <1>1, <1>2, SubSeqProperties
<1>5. c = Append(a, e) /\ c \in Seq(S) /\ Len(c) = i /\ c[i] = e /\ \A j \in 1 .. i - 1 : c[j] = a[j]
  <2>1. c = Append(a, e)
    BY <1>1, <1>3, AppendIsConcat
  <2>2. /\ Append(a, e) \in Seq(S) /\ Len(Append(a, e)) = Len(a) + 1 /\ Append(a, e)[Len(a) + 1] = e
        /\ \A j \in 1 .. Len(a) : Append(a, e)[j] = a[j]
    BY <1>3, AppendProperties
  <2>3. Len(a) + 1 = i
    BY <1>3
  <2> QED
    BY <1>3, <2>1, <2>2, <2>3
<1>6. r \in Seq(S) /\ Len(r) = n + 1 /\ \A k \in 1 .. n + 1 : r[k] = IF k <= i THEN c[k] ELSE b[k - i]
  <2>1. /\ c \o b \in Seq(S) /\ Len(c \o b) = Len(c) + Len(b)
        /\ \A k \in 1 .. Len(c) + Len(b) : (c \o b)[k] = IF k <= Len(c) THEN c[k] ELSE b[k - Len(c)]
    <3>1. c \in Seq(S) /\ b \in Seq(S)
      BY <1>4, <1>5
    <3> QED
      BY ONLY <3>1, ConcatProperties
  <2>2. Len(c) + Len(b) = n + 1
    BY <1>4, <1>5
  <2> QED
    BY <1>1, <1>5, <2>1, <2>2
<1>7. ASSUME NEW k \in 1 .. n + 1
      PROVE  r[k] = IF k < i THEN s[k] ELSE IF k = i THEN e ELSE s[k - 1]
  <2>1. CASE k <= i
    BY <1>3, <1>5, <1>6, <2>1
  <2>2. CASE k > i
    <3>1. PICK j \in 1 .. n + 1 - i : j = k - i /\ i + j - 1 = k - 1
      BY <2>2
    <3>2. b[j] = s[i + j - 1]
      BY <1>4
    <3>3. r[k] = b[j]
      BY <1>6, <2>2, <3>1
    <3> QED
      BY <2>2, <3>1, <3>2, <3>3
  <2> QED
    BY <2>1, <2>2
<1> QED
  BY <1>6, <1>7 DEF HpWith

\* A table that differs in one entry.
HpOnly(x, bs, i) ==
    x \in Seq(HpBlocks) /\ Len(x) = Len(bs) /\ \A k \in 1 .. Len(bs) : k # i => x[k] = bs[k]

\* One entry replaced.
HpPut(bs, i, b) == [bs EXCEPT ![i] = b]

\* An entry put in the place of another leaves the rest.
LEMMA HpReplaced ==
  ASSUME NEW bs \in Seq(HpBlocks), NEW i \in 1 .. Len(bs), NEW b \in HpBlocks, NEW x, x = HpPut(bs, i, b)
  PROVE  HpOnly(x, bs, i) /\ x[i] = b
<1>0. x = [bs EXCEPT ![i] = b]
  BY DEF HpPut
<1>1. DOMAIN bs = 1 .. Len(bs) /\ Len(bs) \in Nat
  BY HpLength
<1>2. x \in Seq(HpBlocks) /\ Len(x) = Len(bs)
  BY <1>0, ExceptSeq
<1>3. x[i] = b /\ \A k \in 1 .. Len(bs) : k # i => x[k] = bs[k]
  BY <1>0, <1>1
<1> QED
  BY <1>2, <1>3 DEF HpOnly

\* A table with an entry that is in the same place is a table.
LEMMA HpSamePlace ==
  ASSUME NEW bs, HpTable(bs), NEW i \in 1 .. Len(bs), NEW x, HpOnly(x, bs, i),
         x[i].offset = bs[i].offset, x[i].size = bs[i].size, HpBlockOk(x[i])
  PROVE  HpTable(x)
<1>1. Len(bs) \in Nat /\ Len(bs) \in 1 .. HeapSlots /\ Len(x) = Len(bs) /\ x \in Seq(HpBlocks)
  BY HpNumbers DEF HpTable, HpOnly
<1>2. \A k \in 1 .. Len(bs) : x[k].offset = bs[k].offset /\ x[k].size = bs[k].size
  BY DEF HpOnly
<1>3. \A k \in 1 .. Len(x) : HpBlockOk(x[k])
  BY <1>1 DEF HpTable, HpOnly
<1>4. HpChained(x)
  <2>1. x[1].offset = 0
    BY <1>1, <1>2 DEF HpTable, HpChained
  <2>2. ASSUME NEW k \in 1 .. Len(x)
        PROVE  x[k].offset + x[k].size = IF k = Len(x) THEN HeapBytes ELSE x[k + 1].offset
    <3>1. bs[k].offset + bs[k].size = IF k = Len(bs) THEN HeapBytes ELSE bs[k + 1].offset
      BY <1>1 DEF HpTable, HpChained
    <3>2. k # Len(bs) => k + 1 \in 1 .. Len(bs)
      BY <1>1
    <3> QED
      BY <1>1, <1>2, <3>1, <3>2
  <2> QED
    BY <2>1, <2>2 DEF HpChained
<1>5. HpOrdered(x)
  BY <1>1, <1>2 DEF HpTable, HpOrdered
<1> QED
  BY <1>1, <1>3, <1>4, <1>5 DEF HpTable

\* The free block behind a block taken.
HpJoined(r, bs, i) ==
    /\ r \in Seq(HpBlocks) /\ Len(r) = Len(bs) - 1
    /\ \A k \in 1 .. Len(bs) - 1 : k # i => r[k] = IF k < i THEN bs[k] ELSE bs[k + 1]
    /\ r[i].offset = bs[i].offset /\ r[i].size = bs[i].size + bs[i + 1].size
    /\ r[i].used = bs[i].used /\ r[i].requested = bs[i].requested

\* merge_next joins two blocks.
LEMMA HpMergedEntries ==
  ASSUME NEW bs, HpTable(bs), NEW i \in 1 .. Len(bs), i < Len(bs), ~bs[i + 1].used,
         NEW r, r = MergeNext(bs, i)
  PROVE  HpJoined(r, bs, i)
<1>0. PICK n \in Nat : n = Len(bs) /\ i \in 1 .. n
  BY HpLength DEF HpTable
<1> USE <1>0
<1>1. bs \in Seq(HpBlocks) /\ i + 1 \in 1 .. n /\ i \in 1 .. n
  BY DEF HpTable
<1>2. PICK z \in Nat : z = bs[i].size + bs[i + 1].size
  <2>1. bs[i].size \in Nat /\ bs[i + 1].size \in Nat
    BY <1>1, HpBlock
  <2> QED
    BY <2>1
<1>3. PICK x : x = [bs EXCEPT ![i].size = z]
  OBVIOUS
<1>4. /\ x \in Seq(HpBlocks) /\ Len(x) = n /\ \A k \in 1 .. n : k # i => x[k] = bs[k]
      /\ x[i].offset = bs[i].offset /\ x[i].size = z /\ x[i].used = bs[i].used /\ x[i].requested = bs[i].requested
  <2>1. PICK b : b = [bs[i] EXCEPT !.size = z]
    OBVIOUS
  <2>2. bs[i] \in HpBlocks
    BY <1>1, HpBlock
  <2>3. b \in HpBlocks /\ b.offset = bs[i].offset /\ b.size = z /\ b.used = bs[i].used /\ b.requested = bs[i].requested
    BY <2>1, <2>2 DEF HpBlocks
  <2>4. x = HpPut(bs, i, b)
    BY <1>3, <2>1 DEF HpPut
  <2>5. HpOnly(x, bs, i) /\ x[i] = b
    BY <1>1, <2>3, <2>4, HpReplaced
  <2> QED
    BY <2>3, <2>5 DEF HpOnly
<1>5. r = RemoveAt(x, i + 1)
  BY <1>2, <1>3 DEF MergeNext
<1>6. PICK j \in 1 .. n : j = i + 1
  BY <1>1
<1>7. /\ r \in Seq(HpBlocks) /\ Len(r) = n - 1
      /\ \A k \in 1 .. n - 1 : r[k] = IF k < j THEN x[k] ELSE x[k + 1]
  <2>1. x \in Seq(HpBlocks) /\ n = Len(x) /\ r = RemoveAt(x, j) /\ j \in 1 .. Len(x)
    BY <1>4, <1>5, <1>6
  <2>2. r \in Seq(HpBlocks) /\ HpWithout(r, x, j)
    BY <2>1, HpRemoved
  <2> QED
    BY <2>1, <2>2 DEF HpWithout
<1>8. r[i] = x[i]
  BY <1>6, <1>7
<1>9. \A k \in 1 .. n - 1 : k # i => r[k] = IF k < i THEN bs[k] ELSE bs[k + 1]
  <2>1. ASSUME NEW k \in 1 .. n - 1, k # i
        PROVE  r[k] = IF k < i THEN bs[k] ELSE bs[k + 1]
    <3>1. CASE k < i
      BY <1>4, <1>6, <1>7, <3>1
    <3>2. CASE k > i
      <4>1. k + 1 \in 1 .. n /\ k + 1 # i /\ ~(k < j)
        BY <1>6, <3>2
      <4> QED
        BY <1>4, <1>7, <3>2, <4>1
    <3> QED
      BY <2>1, <3>1, <3>2
  <2> QED
    BY <2>1
<1> QED
  BY <1>2, <1>4, <1>7, <1>8, <1>9 DEF HpJoined

\* A table with two blocks joined is a table.
LEMMA HpMerged ==
  ASSUME NEW bs, HpTable(bs), NEW i \in 1 .. Len(bs), i < Len(bs), NEW r, HpJoined(r, bs, i)
  PROVE  HpTable(r)
<1>0. PICK n \in Nat : n = Len(bs) /\ i \in 1 .. n
  BY HpLength DEF HpTable
<1> USE <1>0
<1>1. /\ r \in Seq(HpBlocks) /\ Len(r) = n - 1
      /\ \A k \in 1 .. n - 1 : k # i => r[k] = IF k < i THEN bs[k] ELSE bs[k + 1]
      /\ r[i].offset = bs[i].offset /\ r[i].size = bs[i].size + bs[i + 1].size
      /\ r[i].used = bs[i].used /\ r[i].requested = bs[i].requested
  BY DEF HpJoined
<1>2. \A k \in 1 .. n : bs[k].offset \in Nat /\ bs[k].size \in Nat /\ bs[k].requested \in Nat /\ HpBlockOk(bs[k])
  BY HpBlock
<1>3. /\ bs[1].offset = 0
      /\ \A k \in 1 .. n : bs[k].offset + bs[k].size = IF k = n THEN HeapBytes ELSE bs[k + 1].offset
  BY DEF HpTable, HpChained
<1>4. \A p, q \in 1 .. n : p < q => bs[p].offset + bs[p].size <= bs[q].offset
  BY DEF HpTable, HpOrdered
<1>5. n - 1 \in 1 .. HeapSlots /\ HeapSlots \in Nat /\ n <= HeapSlots
  BY HpNumbers DEF HpTable
<1>6. \A k \in 1 .. n - 1 : HpBlockOk(r[k])
  <2>1. ASSUME NEW k \in 1 .. n - 1, k # i
        PROVE  HpBlockOk(r[k])
    BY <1>1, <1>2, <2>1
  <2>2. HpBlockOk(r[i])
    <3>1. i + 1 \in 1 .. n /\ i \in 1 .. n
      OBVIOUS
    <3>2. HpBlockOk(bs[i]) /\ HpBlockOk(bs[i + 1]) /\ bs[i].size \in Nat /\ bs[i + 1].size \in Nat /\ bs[i].requested \in Nat
      BY <1>2, <3>1
    <3>3. HpWhole(bs[i].size) /\ HpWhole(bs[i + 1].size)
      BY <3>2 DEF HpBlockOk
    <3>4. HpWhole(bs[i].size + bs[i + 1].size)
      BY <3>2, <3>3, HpSums
    <3> QED
      BY <1>1, <3>2, <3>4 DEF HpBlockOk
  <2> QED
    BY <2>1, <2>2
<1>7. HpChained(r)
  <2>1. r[1].offset = 0
    BY <1>1, <1>3
  <2>2. ASSUME NEW k \in 1 .. n - 1
        PROVE  r[k].offset + r[k].size = IF k = n - 1 THEN HeapBytes ELSE r[k + 1].offset
    <3>1. CASE k < i
      <4>1. k + 1 \in 1 .. n - 1 /\ k # n - 1 /\ k # n /\ k \in 1 .. n
        BY <3>1
      <4>2. r[k + 1].offset = bs[k + 1].offset
        BY <1>1, <3>1, <4>1
      <4>3. r[k] = bs[k]
        BY <1>1, <3>1
      <4> QED
        BY <1>3, <4>1, <4>2, <4>3
    <3>2. CASE k = i
      <4>1. i + 1 \in 1 .. n /\ bs[i].offset + bs[i].size = bs[i + 1].offset
        BY <1>3
      <4>2. r[i].offset + r[i].size = bs[i + 1].offset + bs[i + 1].size
        BY <1>1, <1>2, <4>1
      <4>3. CASE i + 1 = n
        BY <1>3, <3>2, <4>1, <4>2, <4>3
      <4>4. CASE i + 1 # n
        <5>1. i + 1 \in 1 .. n - 1 /\ r[i + 1] = bs[i + 1 + 1]
          BY <1>1, <4>4
        <5>2. bs[i + 1].offset + bs[i + 1].size = bs[i + 1 + 1].offset
          BY <1>3, <4>1, <4>4
        <5> QED
          BY <3>2, <4>2, <4>4, <5>1, <5>2
      <4> QED
        BY <4>3, <4>4
    <3>3. CASE k > i
      <4>1. r[k] = bs[k + 1] /\ k + 1 \in 1 .. n
        BY <1>1, <3>3
      <4>2. bs[k + 1].offset + bs[k + 1].size = IF k + 1 = n THEN HeapBytes ELSE bs[k + 1 + 1].offset
        BY <1>3, <4>1
      <4>3. k # n - 1 => r[k + 1] = bs[k + 1 + 1]
        BY <1>1, <3>3
      <4> QED
        BY <4>1, <4>2, <4>3
    <3> QED
      BY <3>1, <3>2, <3>3
  <2> QED
    BY <1>1, <2>1, <2>2 DEF HpChained
<1>8. HpOrdered(r)
  <2>1. ASSUME NEW p \in 1 .. n - 1, NEW q \in 1 .. n - 1, p < q
        PROVE  r[p].offset + r[p].size <= r[q].offset
    <3>1. PICK v \in 1 .. n : v = (IF q <= i THEN q ELSE q + 1) /\ r[q].offset = bs[v].offset
      <4>1. CASE q < i
        BY <1>1, <4>1
      <4>2. CASE q = i
        BY <1>1, <4>2
      <4>3. CASE q > i
        BY <1>1, <4>3
      <4> QED
        BY <4>1, <4>2, <4>3
    <3>2. CASE p = i
      <4>1. i + 1 \in 1 .. n /\ i + 1 < v /\ bs[i].offset + bs[i].size = bs[i + 1].offset
        BY <1>3, <2>1, <3>1, <3>2
      <4>2. bs[i + 1].offset + bs[i + 1].size <= bs[v].offset
        BY <1>4, <4>1
      <4>3. r[i].offset + r[i].size = bs[i + 1].offset + bs[i + 1].size
        BY <1>1, <1>2, <4>1
      <4> QED
        BY <3>1, <3>2, <4>2, <4>3
    <3>3. CASE p # i
      <4>1. PICK w \in 1 .. n : w = (IF p < i THEN p ELSE p + 1) /\ r[p] = bs[w]
        BY <1>1, <3>3
      <4>2. w < v
        BY <2>1, <3>1, <3>3, <4>1
      <4> QED
        BY <1>4, <3>1, <4>1, <4>2
    <3> QED
      BY <3>2, <3>3
  <2> QED
    BY <1>1, <2>1 DEF HpOrdered
<1> QED
  BY <1>1, <1>5, <1>6, <1>7, <1>8 DEF HpTable

\* A block joined by the free block behind it is as much in use.
LEMMA HpJoinedLive ==
  ASSUME NEW bs, HpTable(bs), NEW i \in 1 .. Len(bs), i < Len(bs), ~bs[i + 1].used, NEW r, HpJoined(r, bs, i),
         NEW a, NEW m
  PROVE  HpLive(r, a, m) <=> HpLive(bs, a, m)
<1>0. PICK n \in Nat : n = Len(bs) /\ i \in 1 .. n
  BY HpLength DEF HpTable
<1>1. /\ Len(r) = n - 1
      /\ \A k \in 1 .. n - 1 : k # i => r[k] = IF k < i THEN bs[k] ELSE bs[k + 1]
      /\ r[i].offset = bs[i].offset /\ r[i].used = bs[i].used /\ r[i].requested = bs[i].requested
  BY <1>0 DEF HpJoined
<1>2. ASSUME HpLive(r, a, m)
      PROVE  HpLive(bs, a, m)
  <2>1. PICK k \in 1 .. n - 1 : r[k].used /\ r[k].offset = a /\ r[k].requested = m
    BY <1>1, <1>2 DEF HpLive
  <2>2. CASE k <= i
    <3>1. k \in 1 .. n /\ bs[k].used /\ bs[k].offset = a /\ bs[k].requested = m
      BY <1>0, <1>1, <2>1, <2>2
    <3> QED
      BY <1>0, <3>1 DEF HpLive
  <2>3. CASE k > i
    <3>1. PICK j \in 1 .. n : j = k + 1
      BY <1>0
    <3>2. bs[j].used /\ bs[j].offset = a /\ bs[j].requested = m
      BY <1>0, <1>1, <2>1, <2>3, <3>1
    <3> QED
      BY <1>0, <3>2 DEF HpLive
  <2> QED
    BY <1>0, <2>2, <2>3
<1>3. ASSUME HpLive(bs, a, m)
      PROVE  HpLive(r, a, m)
  <2>1. PICK k \in 1 .. n : bs[k].used /\ bs[k].offset = a /\ bs[k].requested = m
    BY <1>0, <1>3 DEF HpLive
  <2>2. k # i + 1
    BY <2>1
  <2>3. CASE k <= i
    <3>1. k \in 1 .. n - 1 /\ r[k].used /\ r[k].offset = a /\ r[k].requested = m
      BY <1>0, <1>1, <2>1, <2>3
    <3> QED
      BY <1>1, <3>1 DEF HpLive
  <2>4. CASE k > i + 1
    <3>1. PICK j \in 1 .. n - 1 : j = k - 1 /\ j # i /\ j > i /\ j + 1 = k
      BY <1>0, <2>4
    <3>2. r[j].used /\ r[j].offset = a /\ r[j].requested = m
      BY <1>1, <2>1, <3>1
    <3> QED
      BY <1>1, <3>2 DEF HpLive
  <2> QED
    BY <1>0, <2>2, <2>3, <2>4
<1> QED
  BY <1>2, <1>3

\* The join of two free blocks cannot touch the block behind it.
LEMMA HpJoinedSpaced ==
  ASSUME NEW bs, HpTable(bs), NEW i \in 1 .. Len(bs), i < Len(bs), ~bs[i + 1].used, NEW r, HpJoined(r, bs, i),
         NEW P \in SUBSET {i, i + 1}, HpSpacedBut(bs, P)
  PROVE  HpSpacedBut(r, P \cap {i})
<1>0. PICK n \in Nat : n = Len(bs) /\ i \in 1 .. n
  BY HpLength DEF HpTable
<1>1. /\ Len(r) = n - 1
      /\ \A k \in 1 .. n - 1 : k # i => r[k] = IF k < i THEN bs[k] ELSE bs[k + 1]
      /\ r[i].used = bs[i].used
  BY <1>0 DEF HpJoined
<1>2. \A k \in 2 .. n : k \notin P => bs[k].used \/ bs[k - 1].used
  BY <1>0 DEF HpSpacedBut
<1>3. ASSUME NEW k \in 2 .. n - 1, k \notin P \cap {i}
      PROVE  r[k].used \/ r[k - 1].used
  <2>1. CASE k < i
    <3>1. k - 1 \in 1 .. n - 1 /\ k \in 2 .. n /\ k \notin P
      BY <1>0, <2>1
    <3>2. r[k] = bs[k] /\ r[k - 1] = bs[k - 1]
      BY <1>0, <1>1, <2>1, <3>1
    <3>3. bs[k].used \/ bs[k - 1].used
      BY <1>2, <3>1
    <3> QED
      BY <3>2, <3>3
  <2>2. CASE k = i
    <3>1. k - 1 \in 1 .. n - 1 /\ k \in 2 .. n /\ k \notin P
      BY <1>0, <1>3, <2>2
    <3> QED
      BY <1>1, <1>2, <2>2, <3>1
  <2>3. CASE k = i + 1
    <3>1. r[k] = bs[i + 2] /\ i + 2 \in 2 .. n /\ i + 2 \notin P /\ i + 2 - 1 = i + 1
      BY <1>0, <1>1, <2>3
    <3>2. bs[i + 2].used
      BY <1>0, <1>2, <3>1
    <3> QED
      BY <3>1, <3>2
  <2>4. CASE k > i + 1
    <3>1. k + 1 \in 2 .. n /\ k + 1 \notin P /\ k + 1 - 1 = k
      BY <1>0, <2>4
    <3>2. r[k] = bs[k + 1]
      BY <1>0, <1>1, <2>4
    <3>3. r[k - 1] = bs[k]
      <4>1. PICK j \in 1 .. n - 1 : j = k - 1 /\ j # i /\ ~(j < i) /\ j + 1 = k
        BY <1>0, <2>4
      <4> QED
        BY <1>1, <4>1
    <3>4. bs[k + 1].used \/ bs[k].used
      BY <1>2, <3>1
    <3> QED
      BY <3>2, <3>3, <3>4
  <2> QED
    BY <1>0, <2>1, <2>2, <2>3, <2>4
<1> QED
  BY <1>1, <1>3 DEF HpSpacedBut

\* What is done to a table leaves it one, free blocks apart, with the same
\* blocks in use.
HpKeeps(r, bs) ==
    HpTable(r) /\ HpSpaced(r) /\ \A a, m : HpLive(r, a, m) <=> HpLive(bs, a, m)

\* Block i gives the end of it to the free block behind.
HpGiven(r, bs, i, z) ==
    /\ r \in Seq(HpBlocks) /\ Len(r) = Len(bs)
    /\ \A k \in 1 .. Len(bs) : r[k].used = bs[k].used /\ r[k].requested = bs[k].requested
    /\ \A k \in 1 .. Len(bs) : k # i /\ k # i + 1 => r[k] = bs[k]
    /\ r[i].offset = bs[i].offset /\ r[i].size = z
    /\ r[i + 1].offset = bs[i].offset + z /\ r[i + 1].size = (bs[i].size - z) + bs[i + 1].size

\* That keeps the table.
LEMMA HpGivenKeeps ==
  ASSUME NEW bs, HpTable(bs), HpSpaced(bs), NEW i \in 1 .. Len(bs), i < Len(bs), ~bs[i + 1].used,
         NEW z \in Nat, z > 0, HpWhole(z), bs[i].requested <= z, z < bs[i].size, NEW r, HpGiven(r, bs, i, z)
  PROVE  HpKeeps(r, bs)
<1>0. PICK n \in Nat : n = Len(bs) /\ i \in 1 .. n /\ i + 1 \in 1 .. n /\ n \in 1 .. HeapSlots
  BY HpLength DEF HpTable
<1> USE <1>0
<1>1. /\ r \in Seq(HpBlocks) /\ Len(r) = n
      /\ \A k \in 1 .. n : r[k].used = bs[k].used /\ r[k].requested = bs[k].requested
      /\ \A k \in 1 .. n : k # i /\ k # i + 1 => r[k] = bs[k]
      /\ r[i].offset = bs[i].offset /\ r[i].size = z
      /\ r[i + 1].offset = bs[i].offset + z /\ r[i + 1].size = (bs[i].size - z) + bs[i + 1].size
  BY DEF HpGiven
<1>2. \A k \in 1 .. n : bs[k].offset \in Nat /\ bs[k].size \in Nat /\ bs[k].requested \in Nat /\ HpBlockOk(bs[k])
  BY HpBlock
<1>3. /\ bs[1].offset = 0
      /\ \A k \in 1 .. n : bs[k].offset + bs[k].size = IF k = n THEN HeapBytes ELSE bs[k + 1].offset
  BY DEF HpTable, HpChained
<1>4. \A p, q \in 1 .. n : p < q => bs[p].offset + bs[p].size <= bs[q].offset
  BY DEF HpTable, HpOrdered
<1>5. bs[i].offset + bs[i].size = bs[i + 1].offset
  BY <1>3
<1>6. \A k \in 1 .. n : /\ bs[k].offset <= r[k].offset + (IF k = i + 1 THEN bs[i].size - z ELSE 0)
                        /\ k # i => r[k].offset + r[k].size = bs[k].offset + bs[k].size
                        /\ k # i + 1 => r[k].offset = bs[k].offset
  <2>1. ASSUME NEW k \in 1 .. n
        PROVE  /\ bs[k].offset <= r[k].offset + (IF k = i + 1 THEN bs[i].size - z ELSE 0)
               /\ k # i => r[k].offset + r[k].size = bs[k].offset + bs[k].size
               /\ k # i + 1 => r[k].offset = bs[k].offset
    <3>1. bs[k].offset \in Nat /\ bs[k].size \in Nat /\ bs[i].offset \in Nat /\ bs[i].size \in Nat /\ bs[i + 1].size \in Nat
      BY <1>2
    <3>2. CASE k = i
      BY <1>1, <3>1, <3>2
    <3>3. CASE k = i + 1
      <4>1. PICK o \in Nat, u \in Nat, t \in Nat : o = bs[i].offset /\ u = bs[i].size /\ t = bs[i + 1].size
        BY <3>1
      <4>2. r[k].offset = o + z /\ r[k].size = (u - z) + t /\ bs[k].offset = o + u /\ bs[k].size = t
        BY <1>1, <1>5, <3>3, <4>1
      <4>3. k # i
        BY <3>3
      <4>4. o + u <= (o + z) + (u - z) /\ (o + z) + ((u - z) + t) = (o + u) + t
        BY ONLY o \in Nat, u \in Nat, t \in Nat, z \in Nat
      <4> QED
        BY <3>3, <4>1, <4>2, <4>3, <4>4
    <3>4. CASE k # i /\ k # i + 1
      <4>1. r[k] = bs[k]
        BY <1>1, <3>4
      <4> QED
        BY <3>1, <3>4, <4>1
    <3> QED
      BY <3>2, <3>3, <3>4
  <2> QED
    BY <2>1
<1>7. \A k \in 1 .. n : HpBlockOk(r[k])
  <2>1. HpBlockOk(r[i])
    BY <1>1, <1>2 DEF HpBlockOk
  <2>2. HpBlockOk(r[i + 1])
    <3>1. HpBlockOk(bs[i]) /\ HpBlockOk(bs[i + 1]) /\ bs[i].size \in Nat /\ bs[i + 1].size \in Nat
      BY <1>2
    <3>2. HpWhole(bs[i].size - z) /\ bs[i].size - z \in Nat
      <4>1. PICK u \in Nat : u = bs[i].size /\ HpWhole(u) /\ z <= u
        BY <3>1 DEF HpBlockOk
      <4>2. HpWhole(u - z) /\ u - z \in Nat
        BY <4>1, HpSums
      <4> QED
        BY <4>1, <4>2
    <3>3. PICK d \in Nat : d = bs[i].size - z
      BY <3>2
    <3>4. HpWhole(d + bs[i + 1].size)
      BY <3>1, <3>2, <3>3, HpSums DEF HpBlockOk
    <3>5. r[i + 1].size = d + bs[i + 1].size /\ r[i + 1].size > 0
      BY <1>1, <3>1, <3>3 DEF HpBlockOk
    <3>6. r[i + 1].used = bs[i + 1].used /\ r[i + 1].requested = 0
      BY <1>1, <3>1 DEF HpBlockOk
    <3> QED
      BY <3>1, <3>4, <3>5, <3>6 DEF HpBlockOk
  <2>3. ASSUME NEW k \in 1 .. n, k # i, k # i + 1
        PROVE  HpBlockOk(r[k])
    BY <1>1, <1>2, <2>3
  <2> QED
    BY <2>1, <2>2, <2>3
<1>8. HpChained(r)
  <2>1. r[1].offset = 0
    BY <1>3, <1>6
  <2>2. ASSUME NEW k \in 1 .. n
        PROVE  r[k].offset + r[k].size = IF k = n THEN HeapBytes ELSE r[k + 1].offset
    <3>1. CASE k = i
      BY <1>1, <3>1
    <3>2. CASE k # i
      <4>1. r[k].offset + r[k].size = IF k = n THEN HeapBytes ELSE bs[k + 1].offset
        BY <1>3, <1>6, <3>2
      <4>2. k # n => k + 1 \in 1 .. n /\ k + 1 # i + 1
        BY <3>2
      <4> QED
        BY <1>6, <4>1, <4>2
    <3> QED
      BY <3>1, <3>2
  <2> QED
    BY <1>1, <2>1, <2>2 DEF HpChained
<1>9. HpOrdered(r)
  <2>1. ASSUME NEW p \in 1 .. n, NEW q \in 1 .. n, p < q
        PROVE  r[p].offset + r[p].size <= r[q].offset
    <3>1. bs[p].offset + bs[p].size <= bs[q].offset
      BY <1>4, <2>1
    <3>2. CASE q = i + 1
      <4>1. CASE p = i
        BY <1>1, <1>2, <3>2, <4>1
      <4>2. CASE p # i
        <5>1. p < i
          BY <2>1, <3>2, <4>2
        <5>2. bs[p].offset + bs[p].size <= bs[i].offset
          BY <1>4, <5>1
        <5>3. r[p].offset + r[p].size = bs[p].offset + bs[p].size
          BY <1>6, <4>2
        <5>4. r[q].offset = bs[i].offset + z /\ bs[i].offset \in Nat
          BY <1>1, <1>2, <3>2
        <5>5. PICK o \in Nat : o = bs[i].offset
          BY <5>4
        <5>6. PICK t \in Nat : t = bs[p].offset + bs[p].size
          BY <1>2
        <5>7. t <= o
          BY <5>2, <5>5, <5>6
        <5>8. t <= o + z
          BY ONLY <5>7, t \in Nat, o \in Nat, z \in Nat
        <5> QED
          BY <5>3, <5>4, <5>5, <5>6, <5>8
      <4> QED
        BY <4>1, <4>2
    <3>3. CASE q # i + 1
      <4>1. r[q].offset = bs[q].offset
        BY <1>6, <3>3
      <4>2. CASE p = i
        <5>1. PICK o \in Nat, u \in Nat, t \in Nat : o = bs[i].offset /\ u = bs[i].size /\ t = bs[q].offset
          BY <1>2
        <5>2. r[p].offset = o /\ r[p].size = z /\ r[q].offset = t
          BY <1>1, <4>1, <4>2, <5>1
        <5>3. z < u /\ o + u <= t
          BY <3>1, <4>2, <5>1
        <5>4. o + z <= t
          BY ONLY <5>3, o \in Nat, z \in Nat, u \in Nat, t \in Nat
        <5> QED
          BY <5>2, <5>4
      <4>3. CASE p # i
        BY <1>6, <3>1, <4>1, <4>3
      <4> QED
        BY <4>2, <4>3
    <3> QED
      BY <3>2, <3>3
  <2> QED
    BY <1>1, <2>1 DEF HpOrdered
<1>10. HpTable(r)
  BY <1>1, <1>7, <1>8, <1>9 DEF HpTable
<1>11. HpSpaced(r)
  BY <1>1 DEF HpSpaced, HpSpacedBut
<1>12. ASSUME NEW a, NEW m
       PROVE  HpLive(r, a, m) <=> HpLive(bs, a, m)
  <2>1. \A k \in 1 .. n : bs[k].used => r[k].offset = bs[k].offset
    BY <1>6
  <2> QED
    BY <1>1, <2>1 DEF HpLive
<1> QED
  BY <1>10, <1>11, <1>12 DEF HpKeeps

\* Block i gives the end of it to a block of its own.
HpSplit(r, bs, i, z) ==
    /\ r \in Seq(HpBlocks) /\ Len(r) = Len(bs) + 1
    /\ \A k \in 1 .. Len(bs) + 1 : k # i /\ k # i + 1 => r[k] = IF k < i THEN bs[k] ELSE bs[k - 1]
    /\ r[i].offset = bs[i].offset /\ r[i].size = z
    /\ r[i].used = bs[i].used /\ r[i].requested = bs[i].requested
    /\ r[i + 1].offset = bs[i].offset + z /\ r[i + 1].size = bs[i].size - z
    /\ r[i + 1].used = FALSE /\ r[i + 1].requested = 0

\* That leaves a table with one block more.
LEMMA HpSplitTable ==
  ASSUME NEW bs, HpTable(bs), NEW i \in 1 .. Len(bs), Len(bs) < HeapSlots,
         NEW z \in Nat, z > 0, HpWhole(z), bs[i].requested <= z, z < bs[i].size, NEW r, HpSplit(r, bs, i, z)
  PROVE  HpTable(r)
<1>0. PICK n \in Nat : n = Len(bs) /\ i \in 1 .. n /\ n + 1 \in 1 .. HeapSlots
  <2>1. PICK n \in Nat : n = Len(bs) /\ i \in 1 .. n
    BY HpLength DEF HpTable
  <2>2. HeapSlots \in Nat /\ n < HeapSlots
    BY <2>1, HpNumbers
  <2>3. n + 1 \in 1 .. HeapSlots
    BY ONLY n \in Nat, <2>2
  <2> QED
    BY <2>1, <2>3
<1> USE <1>0
<1>1. /\ r \in Seq(HpBlocks) /\ Len(r) = n + 1
      /\ \A k \in 1 .. n + 1 : k # i /\ k # i + 1 => r[k] = IF k < i THEN bs[k] ELSE bs[k - 1]
      /\ r[i].offset = bs[i].offset /\ r[i].size = z
      /\ r[i].used = bs[i].used /\ r[i].requested = bs[i].requested
      /\ r[i + 1].offset = bs[i].offset + z /\ r[i + 1].size = bs[i].size - z
      /\ r[i + 1].used = FALSE /\ r[i + 1].requested = 0
  BY DEF HpSplit
<1>2. \A k \in 1 .. n : bs[k].offset \in Nat /\ bs[k].size \in Nat /\ bs[k].requested \in Nat /\ HpBlockOk(bs[k])
  BY HpBlock
<1>3. /\ bs[1].offset = 0
      /\ \A k \in 1 .. n : bs[k].offset + bs[k].size = IF k = n THEN HeapBytes ELSE bs[k + 1].offset
  BY DEF HpTable, HpChained
<1>4. \A p, q \in 1 .. n : p < q => bs[p].offset + bs[p].size <= bs[q].offset
  BY DEF HpTable, HpOrdered
<1>5. /\ \A k \in 1 .. n : k < i => r[k] = bs[k]
      /\ \A k \in 1 .. n : k > i => r[k + 1] = bs[k]
  <2>1. ASSUME NEW k \in 1 .. n, k < i
        PROVE  r[k] = bs[k]
    <3>1. k \in 1 .. n + 1 /\ k # i /\ k # i + 1
      BY <2>1
    <3> QED
      BY <1>1, <2>1, <3>1
  <2>2. ASSUME NEW k \in 1 .. n, k > i
        PROVE  r[k + 1] = bs[k]
    <3>1. PICK j \in 1 .. n + 1 : j = k + 1 /\ j # i /\ j # i + 1 /\ ~(j < i) /\ j - 1 = k
      BY <2>2
    <3> QED
      BY <1>1, <3>1
  <2> QED
    BY <2>1, <2>2
<1>6. /\ bs[i].offset \in Nat /\ bs[i].size \in Nat /\ HpBlockOk(bs[i])
      /\ r[i + 1].offset + r[i + 1].size = bs[i].offset + bs[i].size
      /\ r[i].offset + r[i].size = r[i + 1].offset
      /\ r[i].offset = bs[i].offset /\ r[i + 1].offset = bs[i].offset + z /\ r[i + 1].size \in Nat
  <2>1. PICK o \in Nat, u \in Nat : o = bs[i].offset /\ u = bs[i].size /\ z < u
    BY <1>2
  <2>2. r[i].offset = o /\ r[i].size = z /\ r[i + 1].offset = o + z /\ r[i + 1].size = u - z
    BY <1>1, <2>1
  <2>3. u - z \in Nat /\ (o + z) + (u - z) = o + u
    <3>1. z < u
      BY <2>1
    <3> QED
      BY ONLY <3>1, o \in Nat, u \in Nat, z \in Nat
  <2>4. HpBlockOk(bs[i]) /\ r[i + 1].offset + r[i + 1].size = o + u /\ r[i].offset + r[i].size = o + z /\ r[i + 1].size \in Nat
    BY <1>2, <2>2, <2>3
  <2> QED
    BY <2>1, <2>2, <2>4
<1>7. ASSUME NEW k \in 1 .. n + 1
      PROVE  HpBlockOk(r[k])
  <2>1. HpBlockOk(r[i])
    BY <1>1, <1>2 DEF HpBlockOk
  <2>2. HpBlockOk(r[i + 1])
    <3>1. HpWhole(bs[i].size - z) /\ bs[i].size - z > 0
      <4>1. PICK u \in Nat : u = bs[i].size /\ HpWhole(u) /\ z < u
        BY <1>6 DEF HpBlockOk
      <4>2. HpWhole(u - z) /\ u - z > 0
        <5>1. z < u /\ z <= u /\ u - z > 0
          BY ONLY <4>1, u \in Nat, z \in Nat
        <5>2. HpWhole(u - z)
          BY ONLY <4>1, <5>1, u \in Nat, z \in Nat, HpWhole(z), HpSums
        <5> QED
          BY <5>1, <5>2
      <4> QED
        BY <4>1, <4>2
    <3> QED
      BY <1>1, <1>6, <3>1 DEF HpBlockOk
  <2>3. CASE k < i
    BY <1>2, <1>5, <2>3
  <2>4. CASE k > i + 1
    <3>1. PICK j \in 1 .. n : j = k - 1 /\ j > i /\ k = j + 1
      BY <2>4
    <3> QED
      BY <1>2, <1>5, <3>1
  <2> QED
    BY <2>1, <2>2, <2>3, <2>4
<1>8. HpChained(r)
  <2>1. r[1].offset = 0
    BY <1>1, <1>3, <1>5
  <2>2. ASSUME NEW k \in 1 .. n + 1
        PROVE  r[k].offset + r[k].size = IF k = n + 1 THEN HeapBytes ELSE r[k + 1].offset
    <3>1. CASE k < i
      <4>1. k \in 1 .. n /\ k + 1 \in 1 .. n /\ k # n /\ k # n + 1 /\ r[k] = bs[k]
        BY <1>5, <3>1
      <4>2. r[k + 1].offset = bs[k + 1].offset
        BY <1>5, <1>6, <3>1, <4>1
      <4> QED
        BY <1>3, <4>1, <4>2
    <3>2. CASE k = i
      BY <1>6, <3>2
    <3>3. CASE k = i + 1
      <4>1. r[k].offset + r[k].size = IF i = n THEN HeapBytes ELSE bs[i + 1].offset
        BY <1>3, <1>6, <3>3
      <4>2. CASE i = n
        BY <3>3, <4>1, <4>2
      <4>3. CASE i # n
        <5>1. PICK j \in 1 .. n : j = i + 1 /\ j > i /\ r[j + 1] = bs[j] /\ j + 1 = k + 1
          BY <1>5, <3>3, <4>3
        <5> QED
          BY <3>3, <4>1, <4>3, <5>1
      <4> QED
        BY <4>2, <4>3
    <3>4. CASE k > i + 1
      <4>1. PICK j \in 1 .. n : j = k - 1 /\ j > i /\ k = j + 1 /\ r[k] = bs[j]
        BY <1>5, <3>4
      <4>2. bs[j].offset + bs[j].size = IF j = n THEN HeapBytes ELSE bs[j + 1].offset
        BY <1>3
      <4>3. j # n => r[k + 1] = bs[j + 1]
        BY <1>5, <4>1
      <4> QED
        BY <4>1, <4>2, <4>3
    <3> QED
      BY <3>1, <3>2, <3>3, <3>4
  <2> QED
    BY <1>1, <2>1, <2>2 DEF HpChained
<1>9. HpOrdered(r)
  <2>1. ASSUME NEW p \in 1 .. n + 1, NEW q \in 1 .. n + 1, p < q
        PROVE  r[p].offset + r[p].size <= r[q].offset
    <3>1. CASE p = i /\ q = i + 1
      BY <1>6, <3>1
    <3>2. CASE ~(p = i /\ q = i + 1)
      <4>1. PICK v \in 1 .. n : v = (IF p <= i THEN p ELSE p - 1) /\ r[p].offset + r[p].size <= bs[v].offset + bs[v].size
        <5>1. CASE p < i
          BY <1>2, <1>5, <5>1
        <5>2. CASE p = i
          <6>1. PICK o \in Nat, u \in Nat : o = bs[i].offset /\ u = bs[i].size /\ z < u
            BY <1>6
          <6>2. r[p].offset = o /\ r[p].size = z
            BY <1>1, <5>2, <6>1
          <6>3. o + z <= o + u
            BY <6>1
          <6> QED
            BY <5>2, <6>1, <6>2, <6>3
        <5>3. CASE p = i + 1
          <6>1. i = p - 1 /\ ~(p <= i)
            BY <5>3
          <6> QED
            BY <1>6, <5>3, <6>1
        <5>4. CASE p > i + 1
          <6>1. PICK j \in 1 .. n : j = p - 1 /\ j > i /\ p = j + 1
            BY <5>4
          <6>2. r[p] = bs[j] /\ bs[j].offset \in Nat /\ bs[j].size \in Nat
            BY <1>2, <1>5, <6>1
          <6>3. r[p].offset + r[p].size <= bs[j].offset + bs[j].size
            BY <6>2
          <6>4. j = IF p <= i THEN p ELSE p - 1
            BY <5>4, <6>1
          <6> QED
            BY <6>3, <6>4
        <5>5. p < i \/ p = i \/ p = i + 1 \/ p > i + 1
          OBVIOUS
        <5> QED
          BY ONLY <5>1, <5>2, <5>3, <5>4, <5>5
      <4>2. PICK w \in 1 .. n : w = (IF q <= i THEN q ELSE q - 1) /\ bs[w].offset <= r[q].offset
        <5>1. CASE q < i
          BY <1>2, <1>5, <5>1
        <5>2. CASE q = i
          BY <1>6, <5>2
        <5>3. CASE q = i + 1
          <6>1. i = q - 1 /\ ~(q <= i)
            BY <5>3
          <6> QED
            BY <1>6, <5>3, <6>1
        <5>4. CASE q > i + 1
          <6>1. PICK j \in 1 .. n : j = q - 1 /\ j > i /\ q = j + 1
            BY <5>4
          <6>2. r[q] = bs[j] /\ bs[j].offset \in Nat
            BY <1>2, <1>5, <6>1
          <6>3. bs[j].offset <= r[q].offset
            BY <6>2
          <6>4. j = IF q <= i THEN q ELSE q - 1
            BY <5>4, <6>1
          <6> QED
            BY <6>3, <6>4
        <5>5. q < i \/ q = i \/ q = i + 1 \/ q > i + 1
          OBVIOUS
        <5> QED
          BY ONLY <5>1, <5>2, <5>3, <5>4, <5>5
      <4>3. v < w
        BY <2>1, <3>2, <4>1, <4>2
      <4>4. bs[v].offset + bs[v].size <= bs[w].offset
        BY <1>4, <4>3
      <4>5. r[p].offset \in Nat /\ r[p].size \in Nat /\ r[q].offset \in Nat
        <5>1. r[p] \in HpBlocks /\ r[q] \in HpBlocks
          BY <1>1, ElementOfSeq
        <5> QED
          BY <5>1, HpNumbers
      <4>6. bs[v].offset \in Nat /\ bs[v].size \in Nat /\ bs[w].offset \in Nat
        BY <1>2
      <4>7. PICK a \in Nat, b \in Nat, c \in Nat : a = r[p].offset /\ b = r[p].size /\ c = r[q].offset
        BY <4>5
      <4>8. PICK d \in Nat, e \in Nat, f \in Nat : d = bs[v].offset /\ e = bs[v].size /\ f = bs[w].offset
        BY <4>6
      <4>9. a + b <= d + e /\ f <= c /\ d + e <= f
        BY <4>1, <4>2, <4>4, <4>7, <4>8
      <4>10. a + b <= c
        BY <4>9
      <4> QED
        BY <4>7, <4>10
    <3> QED
      BY <3>1, <3>2
  <2> QED
    BY <1>1, <2>1 DEF HpOrdered
<1> QED
  BY <1>1, <1>7, <1>8, <1>9 DEF HpTable

\* And keeps the blocks in use.
LEMMA HpSplitKeeps ==
  ASSUME NEW bs, HpTable(bs), HpSpaced(bs), NEW i \in 1 .. Len(bs), Len(bs) < HeapSlots,
         bs[i].used, i = Len(bs) \/ bs[i + 1].used,
         NEW z \in Nat, z > 0, HpWhole(z), bs[i].requested <= z, z < bs[i].size, NEW r, HpSplit(r, bs, i, z)
  PROVE  HpKeeps(r, bs)
<1>0. PICK n \in Nat : n = Len(bs) /\ i \in 1 .. n
  BY HpLength DEF HpTable
<1> USE <1>0
<1>1. /\ Len(r) = n + 1
      /\ \A k \in 1 .. n + 1 : k # i /\ k # i + 1 => r[k] = IF k < i THEN bs[k] ELSE bs[k - 1]
      /\ r[i].offset = bs[i].offset /\ r[i].used = bs[i].used /\ r[i].requested = bs[i].requested
      /\ r[i + 1].used = FALSE
  BY DEF HpSplit
<1>2. HpTable(r)
  BY HpSplitTable
<1>3. HpSpaced(r)
  <2>1. ASSUME NEW k \in 2 .. n + 1
        PROVE  r[k].used \/ r[k - 1].used
    <3>1. \A j \in 2 .. n : bs[j].used \/ bs[j - 1].used
      BY DEF HpSpaced, HpSpacedBut
    <3>2. CASE k < i
      <4>1. r[k] = bs[k] /\ r[k - 1] = bs[k - 1] /\ k \in 2 .. n
        BY <1>1, <3>2
      <4> QED
        BY <3>1, <4>1
    <3>3. CASE k = i
      BY <1>1, <3>3
    <3>4. CASE k = i + 1
      <4>1. k - 1 = i
        BY <3>4
      <4> QED
        BY <1>1, <4>1
    <3>5. CASE k = i + 2
      <4>1. r[k] = bs[i + 1] /\ i # n
        BY <1>1, <3>5
      <4> QED
        BY <4>1
    <3>6. CASE k > i + 2
      <4>1. PICK j \in 2 .. n : j = k - 1 /\ r[k] = bs[j] /\ r[k - 1] = bs[j - 1]
        <5>1. k - 1 \in 2 .. n /\ k - 1 \in 1 .. n + 1 /\ k - 1 # i /\ k - 1 # i + 1 /\ ~(k - 1 < i)
          BY <3>6
        <5>2. r[k] = bs[k - 1] /\ r[k - 1] = bs[k - 1 - 1]
          BY <1>1, <3>6, <5>1
        <5> QED
          BY <5>1, <5>2
      <4> QED
        BY <3>1, <4>1
    <3> QED
      BY <3>2, <3>3, <3>4, <3>5, <3>6
  <2> QED
    BY <1>1, <2>1 DEF HpSpaced, HpSpacedBut
<1>4. ASSUME NEW a, NEW m, HpLive(r, a, m)
      PROVE  HpLive(bs, a, m)
  <2>1. PICK k \in 1 .. n + 1 : r[k].used /\ r[k].offset = a /\ r[k].requested = m
    BY <1>1, <1>4 DEF HpLive
  <2>2. PICK j \in 1 .. n : bs[j].used = r[k].used /\ bs[j].offset = r[k].offset /\ bs[j].requested = r[k].requested
    <3>1. CASE k < i
      BY <1>1, <3>1
    <3>2. CASE k = i
      BY <1>1, <3>2
    <3>3. CASE k > i + 1
      <4>1. r[k] = bs[k - 1] /\ k - 1 \in 1 .. n
        BY <1>1, <3>3
      <4> QED
        BY <4>1
    <3>4. k # i + 1
      BY <1>1, <2>1
    <3> QED
      BY <3>1, <3>2, <3>3, <3>4
  <2> QED
    BY <2>1, <2>2 DEF HpLive
<1>5. ASSUME NEW a, NEW m, HpLive(bs, a, m)
      PROVE  HpLive(r, a, m)
  <2>1. PICK k \in 1 .. n : bs[k].used /\ bs[k].offset = a /\ bs[k].requested = m
    BY <1>5 DEF HpLive
  <2>2. PICK j \in 1 .. n + 1 : bs[k].used = r[j].used /\ bs[k].offset = r[j].offset /\ bs[k].requested = r[j].requested
    <3>1. CASE k < i
      BY <1>1, <3>1
    <3>2. CASE k = i
      <4>1. i \in 1 .. n + 1
        OBVIOUS
      <4> QED
        BY <1>1, <3>2, <4>1
    <3>3. CASE k > i
      <4>1. PICK j \in 1 .. n + 1 : j = k + 1 /\ j # i /\ j # i + 1 /\ ~(j < i) /\ j - 1 = k
        BY <3>3
      <4>2. r[j] = bs[k]
        BY <1>1, <4>1
      <4> QED
        BY <4>2
    <3> QED
      BY <3>1, <3>2, <3>3
  <2> QED
    BY <1>1, <2>1, <2>2 DEF HpLive
<1> QED
  BY <1>2, <1>3, <1>4, <1>5 DEF HpKeeps

\* A table keeps itself.
LEMMA HpKeepsItself ==
  ASSUME NEW bs, HpTable(bs), HpSpaced(bs)
  PROVE  HpKeeps(bs, bs)
  BY DEF HpKeeps

\* pw_guest_heap's shrink.
LEMMA HpShrunk ==
  ASSUME NEW bs, HpTable(bs), HpSpaced(bs), NEW i \in 1 .. Len(bs), bs[i].used,
         NEW z \in Nat, z > 0, HpWhole(z), bs[i].requested <= z, z <= bs[i].size, NEW r, r = Shrink(bs, i, z)
  PROVE  HpKeeps(r, bs)
<1>0. PICK n \in Nat : n = Len(bs) /\ i \in 1 .. n /\ bs \in Seq(HpBlocks)
  BY HpLength DEF HpTable
<1>1. bs[i] \in HpBlocks /\ bs[i].offset \in Nat /\ bs[i].size \in Nat /\ bs[i].used \in BOOLEAN
  BY HpBlock
<1>2. PICK t \in Nat : t = bs[i].size - z /\ bs[i].size = z + t
  BY <1>1
<1>3. r = IF t = 0 THEN bs
          ELSE IF i < n /\ ~bs[i + 1].used
          THEN [bs EXCEPT ![i].size = z, ![i + 1].offset = @ - t, ![i + 1].size = @ + t]
          ELSE IF n < HeapSlots
          THEN InsertAt([bs EXCEPT ![i].size = z], i + 1, Block(bs[i].offset + z, t, 0, FALSE))
          ELSE bs
  BY <1>0, <1>2 DEF Shrink
<1>4. CASE r = bs
  BY <1>4, HpKeepsItself
<1>5. PICK b : b = [bs[i] EXCEPT !.size = z]
  OBVIOUS
<1>6. b \in HpBlocks /\ b.offset = bs[i].offset /\ b.size = z /\ b.used = bs[i].used /\ b.requested = bs[i].requested
  BY <1>1, <1>5 DEF HpBlocks
<1>7. PICK x : x = HpPut(bs, i, b)
  OBVIOUS
<1>8. HpOnly(x, bs, i) /\ x[i] = b
  BY <1>0, <1>6, <1>7, HpReplaced
<1>9. x \in Seq(HpBlocks) /\ Len(x) = n /\ DOMAIN bs = 1 .. n /\ DOMAIN x = 1 .. n
  BY <1>0, <1>8, HpLength DEF HpOnly
<1>10. CASE t # 0 /\ i < n /\ ~bs[i + 1].used
  <2>1. PICK j \in 1 .. n : j = i + 1 /\ j \in 1 .. Len(x) /\ j # i
    BY <1>0, <1>9, <1>10
  <2>2. bs[j] \in HpBlocks /\ bs[j].offset \in Nat /\ bs[j].size \in Nat /\ x[j] = bs[j]
    BY <1>0, <1>8, <2>1, HpBlock DEF HpOnly
  <2>3. bs[j].offset - t = bs[i].offset + z /\ bs[j].offset - t \in Nat /\ bs[j].size + t \in Nat
    <3>1. bs[i].offset + bs[i].size = bs[j].offset
      BY <1>0, <1>10, <2>1 DEF HpTable, HpChained
    <3>2. PICK o \in Nat, p \in Nat : o = bs[i].offset /\ p = bs[j].offset
      BY <1>1, <2>2
    <3>3. p = o + (z + t)
      BY <1>2, <3>1, <3>2
    <3>4. p - t = o + z /\ p - t \in Nat
      BY ONLY <3>3, o \in Nat, z \in Nat, t \in Nat, p \in Nat
    <3>5. bs[j].size + t \in Nat
      BY <2>2
    <3> QED
      BY ONLY <3>2, <3>4, <3>5
  <2>4. PICK c : c = [bs[j] EXCEPT !.offset = bs[j].offset - t, !.size = bs[j].size + t]
    OBVIOUS
  <2>5. /\ c \in HpBlocks /\ c.offset = bs[j].offset - t /\ c.size = bs[j].size + t
        /\ c.used = bs[j].used /\ c.requested = bs[j].requested
    BY <2>2, <2>3, <2>4 DEF HpBlocks
  <2>6. PICK y : y = HpPut(x, j, c)
    OBVIOUS
  <2>7. HpOnly(y, x, j) /\ y[j] = c
    BY <1>9, <2>1, <2>5, <2>6, HpReplaced
  <2>8. r = y
    <3>1. r = [bs EXCEPT ![i].size = z, ![j].offset = bs[j].offset - t, ![j].size = bs[j].size + t]
      BY <1>3, <1>9, <1>10, <2>1
    <3> QED
      BY <1>5, <1>7, <1>9, <2>1, <2>4, <2>6, <3>1 DEF HpPut
  <2>9. HpGiven(y, bs, i, z)
    <3>1. y \in Seq(HpBlocks) /\ Len(y) = n /\ \A k \in 1 .. n : y[k] = IF k = j THEN c ELSE IF k = i THEN b ELSE bs[k]
      BY <1>0, <1>8, <1>9, <2>7 DEF HpOnly
    <3>2. y[i] = b /\ y[i + 1] = c
      BY <1>0, <2>1, <3>1
    <3>3. c.size = (bs[i].size - z) + bs[i + 1].size /\ c.offset = bs[i].offset + z
      <4>1. PICK u \in Nat : u = bs[j].size
        BY <2>2
      <4>2. c.size = u + t /\ bs[i].size - z = t /\ u + t = t + u
        <5>1. PICK w \in Nat : w = bs[i].size /\ w = z + t
          BY <1>1, <1>2
        <5>2. w - z = t /\ u + t = t + u
          BY ONLY <5>1, z \in Nat, t \in Nat, u \in Nat, w \in Nat
        <5>3. c.size = u + t
          BY <2>5, <4>1
        <5> QED
          BY <5>1, <5>2, <5>3
      <4> QED
        BY <2>1, <2>3, <2>5, <4>1, <4>2
    <3>4. \A k \in 1 .. n : y[k].used = bs[k].used /\ y[k].requested = bs[k].requested
      BY <1>6, <2>5, <3>1
    <3>5. \A k \in 1 .. n : k # i /\ k # i + 1 => y[k] = bs[k]
      BY <2>1, <3>1
    <3> QED
      BY <1>0, <1>6, <3>1, <3>2, <3>3, <3>4, <3>5 DEF HpGiven
  <2>10. z < bs[i].size
    BY <1>1, <1>2, <1>10
  <2> QED
    BY <1>0, <1>10, <2>8, <2>9, <2>10, HpGivenKeeps
<1>11. CASE t # 0 /\ ~(i < n /\ ~bs[i + 1].used) /\ n < HeapSlots
  <2>1. PICK c : c = Block(bs[i].offset + z, t, 0, FALSE)
    OBVIOUS
  <2>2. c \in HpBlocks /\ c.offset = bs[i].offset + z /\ c.size = t /\ c.used = FALSE /\ c.requested = 0
    <3>1. bs[i].offset + z \in Nat
      BY <1>1
    <3> QED
      BY <2>1, <3>1 DEF Block, HpBlocks
  <2>3. r = InsertAt(x, i + 1, c)
    BY <1>3, <1>5, <1>7, <1>9, <1>11, <2>1 DEF HpPut
  <2>4. PICK j \in 1 .. Len(x) + 1 : j = i + 1
    BY <1>0, <1>9
  <2>5. r \in Seq(HpBlocks) /\ HpWith(r, x, j, c)
    <3>1. r = InsertAt(x, j, c)
      BY <2>3, <2>4
    <3> QED
      BY <1>9, <2>2, <3>1, HpInserted
  <2>6. Len(r) = n + 1 /\ \A k \in 1 .. n + 1 : r[k] = IF k < j THEN x[k] ELSE IF k = j THEN c ELSE x[k - 1]
    BY <1>9, <2>5 DEF HpWith
  <2>7. r[i] = b /\ r[i + 1] = c
    BY <1>0, <1>8, <2>4, <2>6
  <2>8. \A k \in 1 .. n + 1 : k # i /\ k # i + 1 => r[k] = IF k < i THEN bs[k] ELSE bs[k - 1]
    <3>1. ASSUME NEW k \in 1 .. n + 1, k # i, k # i + 1
          PROVE  r[k] = IF k < i THEN bs[k] ELSE bs[k - 1]
      <4>1. \A l \in 1 .. n : l # i => x[l] = bs[l]
        BY <1>0, <1>8 DEF HpOnly
      <4>2. CASE k < i
        <5>1. k \in 1 .. n /\ k < j
          BY <1>0, <2>4, <4>2
        <5>2. r[k] = x[k] /\ x[k] = bs[k]
          BY <2>6, <3>1, <4>1, <5>1
        <5> QED
          BY <4>2, <5>2
      <4>3. CASE k > i + 1
        <5>1. PICK l \in 1 .. n : l = k - 1 /\ l # i /\ ~(k < i) /\ ~(k < j) /\ k # j
          BY <1>0, <2>4, <4>3
        <5>2. r[k] = x[l]
          BY <2>6, <5>1
        <5> QED
          BY <4>1, <5>1, <5>2
      <4> QED
        BY <1>0, <3>1, <4>2, <4>3
    <3> QED
      BY <3>1
  <2>9. HpSplit(r, bs, i, z)
    BY <1>0, <1>2, <1>6, <2>2, <2>5, <2>6, <2>7, <2>8 DEF HpSplit
  <2>10. z < bs[i].size /\ Len(bs) < HeapSlots
    BY <1>0, <1>1, <1>2, <1>11
  <2>11. i = Len(bs) \/ bs[i + 1].used
    BY <1>0, <1>11
  <2> QED
    BY <2>9, <2>10, <2>11, HpSplitKeeps
<1> QED
  BY <1>0, <1>3, <1>4, <1>10, <1>11

\* pw_guest_heap's find.
LEMMA HpFound ==
  ASSUME NEW bs \in Seq(HpBlocks), NEW a, NEW i, i = FindBlock(bs, a)
  PROVE  /\ i \in 0 .. Len(bs) /\ (i # 0 => bs[i].used /\ bs[i].offset = a)
         /\ i = 0 => ~\E m : HpLive(bs, a, m)
<1>0. PICK n \in Nat : n = Len(bs)
  BY HpLength
<1> DEFINE I == {k \in 1 .. Len(bs) : bs[k].offset = a /\ bs[k].used}
<1>1. i = IF I # {} THEN Min(I) ELSE 0
  BY DEF FindBlock, SelectInSeq
<1>2. I \subseteq 1 .. n
  BY <1>0
<1>3. i \in 0 .. n /\ (i # 0 => i \in I) /\ (i = 0 => I = {})
  <2> HIDE DEF I
  <2> QED
    BY <1>1, <1>2, FirstOf
<1>4. i = 0 => ~\E m : HpLive(bs, a, m)
  BY <1>3 DEF HpLive
<1> QED
  BY <1>0, <1>3, <1>4

\* The block alloc takes.
LEMMA HpFits ==
  ASSUME NEW bs \in Seq(HpBlocks), NEW z, NEW i, i = FirstFit(bs, z), i # 0
  PROVE  i \in 1 .. Len(bs) /\ ~bs[i].used /\ bs[i].size >= Rounded(z)
<1>0. PICK n \in Nat : n = Len(bs)
  BY HpLength
<1> DEFINE I == {k \in 1 .. Len(bs) : ~bs[k].used /\ bs[k].size >= Rounded(z)}
<1>1. i = IF I # {} THEN Min(I) ELSE 0
  BY DEF FirstFit, SelectInSeq
<1>2. I \subseteq 1 .. n
  BY <1>0
<1>3. i \in 0 .. n /\ (i # 0 => i \in I)
  <2> HIDE DEF I
  <2> QED
    BY <1>1, <1>2, FirstOf
<1> QED
  BY <1>0, <1>3

\* No two blocks start at an address.
LEMMA HpAlone ==
  ASSUME NEW bs, HpTable(bs), NEW i \in 1 .. Len(bs), NEW k \in 1 .. Len(bs), bs[i].offset = bs[k].offset
  PROVE  i = k
<1>1. \A p, q \in 1 .. Len(bs) : p < q => bs[p].offset < bs[q].offset
  <2>1. ASSUME NEW p \in 1 .. Len(bs), NEW q \in 1 .. Len(bs), p < q
        PROVE  bs[p].offset < bs[q].offset
    <3>1. bs[p].offset \in Nat /\ bs[p].size \in Nat /\ bs[p].size > 0 /\ bs[q].offset \in Nat
      BY HpBlock DEF HpBlockOk
    <3>2. bs[p].offset + bs[p].size <= bs[q].offset
      BY <2>1 DEF HpTable, HpOrdered
    <3> QED
      BY <3>1, <3>2
  <2> QED
    BY <2>1
<1>2. Len(bs) \in Nat /\ bs[i].offset \in Nat
  BY HpBlock, HpLength DEF HpTable
<1>3. ~(i < k) /\ ~(k < i)
  BY <1>1, <1>2
<1> QED
  BY <1>2, <1>3

\* Block i marked as in use for n bytes, and as free.
HpTake(bs, i, n) == HpPut(bs, i, Block(bs[i].offset, bs[i].size, n, TRUE))
HpUse(bs, i, n) == [bs EXCEPT ![i].used = TRUE, ![i].requested = n]
HpDrop(bs, i) == HpPut(bs, i, Block(bs[i].offset, bs[i].size, 0, FALSE))

\* How the code's assignments mark a block.
LEMMA HpMarks ==
  ASSUME NEW bs \in Seq(HpBlocks), NEW i \in 1 .. Len(bs), NEW n
  PROVE  /\ HpUse(bs, i, n) = HpTake(bs, i, n)
         /\ [bs EXCEPT ![i].used = FALSE, ![i].requested = 0] = HpDrop(bs, i)
         /\ bs[i].used => [bs EXCEPT ![i].requested = n] = HpTake(bs, i, n)
<1>1. bs[i] \in HpBlocks /\ DOMAIN bs = 1 .. Len(bs)
  BY ElementOfSeq, HpLength
<1>2. PICK b : b = bs[i]
  OBVIOUS
<1>3. PICK o, z, q, v : v \in BOOLEAN /\ b = [offset |-> o, size |-> z, requested |-> q, used |-> v]
  BY <1>1, <1>2 DEF HpBlocks
<1>4. b.offset = o /\ b.size = z /\ b.used = v
  BY <1>3
<1>5. \A w, m : [[offset |-> o, size |-> z, requested |-> q, used |-> w] EXCEPT !.requested = m]
                  = [offset |-> o, size |-> z, requested |-> m, used |-> w]
  OBVIOUS
<1>6. \A w : [b EXCEPT !.used = w] = [offset |-> o, size |-> z, requested |-> q, used |-> w]
  BY <1>3
<1>7. [bs EXCEPT ![i].used = TRUE, ![i].requested = n] = HpTake(bs, i, n)
  <2>1. [bs EXCEPT ![i].used = TRUE, ![i].requested = n] = [bs EXCEPT ![i] = [b EXCEPT !.used = TRUE, !.requested = n]]
    BY <1>1, <1>2
  <2>2. [b EXCEPT !.used = TRUE, !.requested = n] = [[b EXCEPT !.used = TRUE] EXCEPT !.requested = n]
    OBVIOUS
  <2>3. [b EXCEPT !.used = TRUE, !.requested = n] = Block(o, z, n, TRUE)
    BY ONLY <1>5, <1>6, <2>2 DEF Block
  <2> QED
    BY ONLY <1>2, <1>4, <2>1, <2>3 DEF HpTake, HpPut
<1>8. [bs EXCEPT ![i].used = FALSE, ![i].requested = 0] = HpDrop(bs, i)
  <2>1. [bs EXCEPT ![i].used = FALSE, ![i].requested = 0] = [bs EXCEPT ![i] = [b EXCEPT !.used = FALSE, !.requested = 0]]
    BY <1>1, <1>2
  <2>2. [b EXCEPT !.used = FALSE, !.requested = 0] = [[b EXCEPT !.used = FALSE] EXCEPT !.requested = 0]
    OBVIOUS
  <2>3. [b EXCEPT !.used = FALSE, !.requested = 0] = Block(o, z, 0, FALSE)
    BY ONLY <1>5, <1>6, <2>2 DEF Block
  <2> QED
    BY ONLY <1>2, <1>4, <2>1, <2>3 DEF HpDrop, HpPut
<1>10. HpUse(bs, i, n) = HpTake(bs, i, n)
  BY <1>7 DEF HpUse
<1>11. ASSUME bs[i].used
      PROVE  [bs EXCEPT ![i].requested = n] = HpTake(bs, i, n)
  <2>1. [bs EXCEPT ![i].requested = n] = [bs EXCEPT ![i] = [b EXCEPT !.requested = n]]
    BY <1>1, <1>2
  <2>2. v = TRUE
    BY <1>2, <1>3, <1>4, <1>11
  <2>3. [b EXCEPT !.requested = n] = Block(o, z, n, TRUE)
    BY ONLY <1>3, <1>5, <2>2 DEF Block
  <2> QED
    BY ONLY <1>2, <1>4, <2>1, <2>3 DEF HpTake, HpPut
<1> QED
  BY <1>8, <1>10, <1>11

\* A table with a block taken into use is a table.
LEMMA HpTakenTable ==
  ASSUME NEW bs, HpTable(bs), NEW i \in 1 .. Len(bs), NEW n \in Requests \cup {0},
         n <= bs[i].size, NEW x, x = HpTake(bs, i, n)
  PROVE  /\ HpTable(x) /\ HpOnly(x, bs, i)
         /\ x[i].offset = bs[i].offset /\ x[i].size = bs[i].size /\ x[i].used /\ x[i].requested = n
<1>1. bs \in Seq(HpBlocks) /\ bs[i] \in HpBlocks /\ HpBlockOk(bs[i])
  BY HpBlock DEF HpTable
<1>2. PICK b : b = Block(bs[i].offset, bs[i].size, n, TRUE)
  OBVIOUS
<1>3. b \in HpBlocks /\ b.offset = bs[i].offset /\ b.size = bs[i].size /\ b.used /\ b.requested = n
  BY <1>1, <1>2 DEF HpBlocks, Block
<1>4. HpBlockOk(b)
  BY <1>1, <1>3 DEF HpBlockOk
<1>5. x = HpPut(bs, i, b)
  BY <1>2 DEF HpTake
<1>6. HpOnly(x, bs, i) /\ x[i] = b
  BY <1>1, <1>3, <1>5, HpReplaced
<1>7. HpTable(x)
  BY <1>3, <1>4, <1>6, HpSamePlace
<1> QED
  BY <1>3, <1>6, <1>7

\* A table with a block given up is a table.
LEMMA HpDroppedTable ==
  ASSUME NEW bs, HpTable(bs), NEW i \in 1 .. Len(bs), NEW x, x = HpDrop(bs, i)
  PROVE  /\ HpTable(x) /\ HpOnly(x, bs, i)
         /\ x[i].offset = bs[i].offset /\ x[i].size = bs[i].size /\ ~x[i].used
<1>1. bs \in Seq(HpBlocks) /\ bs[i] \in HpBlocks /\ HpBlockOk(bs[i]) /\ bs[i].size \in Nat
  BY HpBlock DEF HpTable
<1>2. PICK b : b = Block(bs[i].offset, bs[i].size, 0, FALSE)
  OBVIOUS
<1>3. b \in HpBlocks /\ b.offset = bs[i].offset /\ b.size = bs[i].size /\ ~b.used /\ b.requested = 0
  BY <1>1, <1>2 DEF HpBlocks, Block
<1>4. HpBlockOk(b)
  BY <1>1, <1>3 DEF HpBlockOk
<1>5. x = HpPut(bs, i, b)
  BY <1>2 DEF HpDrop
<1>6. HpOnly(x, bs, i) /\ x[i] = b
  BY <1>1, <1>3, <1>5, HpReplaced
<1>7. HpTable(x)
  BY <1>3, <1>4, <1>6, HpSamePlace
<1> QED
  BY <1>3, <1>6, <1>7

\* Where a block in use is, once block i has been marked.
LEMMA HpMarkedLive ==
  ASSUME NEW bs, HpTable(bs), NEW i \in 1 .. Len(bs), NEW x, HpOnly(x, bs, i),
         x[i].offset = bs[i].offset, NEW a, NEW m
  PROVE  HpLive(x, a, m) <=> \/ HpLive(bs, a, m) /\ a # bs[i].offset
                             \/ x[i].used /\ a = bs[i].offset /\ m = x[i].requested
<1>1. Len(x) = Len(bs) /\ \A k \in 1 .. Len(bs) : k # i => x[k] = bs[k]
  BY DEF HpOnly
<1>2. ASSUME HpLive(x, a, m)
      PROVE  (HpLive(bs, a, m) /\ a # bs[i].offset) \/ (x[i].used /\ a = bs[i].offset /\ m = x[i].requested)
  <2>1. PICK k \in 1 .. Len(bs) : x[k].used /\ x[k].offset = a /\ x[k].requested = m
    BY <1>1, <1>2 DEF HpLive
  <2>2. CASE k = i
    BY <2>1, <2>2
  <2>3. CASE k # i
    <3>1. bs[k].used /\ bs[k].offset = a /\ bs[k].requested = m
      BY <1>1, <2>1, <2>3
    <3>2. a # bs[i].offset
      BY <2>3, <3>1, HpAlone
    <3> QED
      BY <3>1, <3>2 DEF HpLive
  <2> QED
    BY <2>2, <2>3
<1>3. ASSUME HpLive(bs, a, m), a # bs[i].offset
      PROVE  HpLive(x, a, m)
  <2>1. PICK k \in 1 .. Len(bs) : bs[k].used /\ bs[k].offset = a /\ bs[k].requested = m
    BY <1>3 DEF HpLive
  <2>2. x[k] = bs[k]
    BY <1>1, <1>3, <2>1
  <2> QED
    BY <1>1, <2>1, <2>2 DEF HpLive
<1>4. ASSUME x[i].used, a = bs[i].offset, m = x[i].requested
      PROVE  HpLive(x, a, m)
  BY <1>1, <1>4 DEF HpLive
<1> QED
  BY <1>2, <1>3, <1>4

\* One more block in use; one fewer; one moved, or kept where it was.
HpMore(r, bs, p, n) ==
    /\ \A a, k : HpLive(r, a, k) <=> HpLive(bs, a, k) \/ (a = p /\ k = n)
    /\ \A k : ~HpLive(bs, p, k)
HpFewer(r, bs, p) == \A a, k : HpLive(r, a, k) <=> HpLive(bs, a, k) /\ a # p
HpOther(r, bs, a, b, n) ==
    /\ b = a \/ \A k : ~HpLive(bs, b, k)
    /\ \A c, k : HpLive(r, c, k) <=> (HpLive(bs, c, k) /\ c # a) \/ (c = b /\ k = n)

\* What alloc does to the table: one more block in use, where none was.
LEMMA HpAllocated ==
  ASSUME NEW bs, HpTable(bs), HpSpaced(bs), NEW n \in Requests, NEW i, i = FirstFit(bs, n), i # 0,
         NEW r, r = HeapAllocated(bs, n)
  PROVE  /\ i \in 1 .. Len(bs) /\ n <= bs[i].size
         /\ HpTable(r) /\ HpSpaced(r) /\ HpMore(r, bs, bs[i].offset, n)
<1>1. bs \in Seq(HpBlocks) /\ n \in Nat /\ n \in Requests \cup {0}
  BY HpNumbers DEF HpTable
<1>2. i \in 1 .. Len(bs) /\ ~bs[i].used /\ bs[i].size >= Rounded(n)
  BY <1>1, HpFits
<1>3. Rounded(n) \in Nat /\ Rounded(n) > 0 /\ Rounded(n) >= n /\ HpWhole(Rounded(n))
  BY <1>1, HpRounds
<1>4. bs[i].size \in Nat
  BY <1>2, HpBlock
<1>5. n <= bs[i].size
  BY <1>1, <1>2, <1>3, <1>4
<1>0. HpUse(bs, i, n) = HpTake(bs, i, n)
  <2>1. bs \in Seq(HpBlocks) /\ i \in 1 .. Len(bs)
    BY <1>1, <1>2
  <2> QED
    BY ONLY <2>1, HpMarks
<1>6. PICK x : x = HpTake(bs, i, n)
  OBVIOUS
<1>7. r = Shrink(x, i, Rounded(n))
  <2>1. r = Shrink(HpUse(bs, i, n), i, Rounded(n))
    BY DEF HeapAllocated, HpUse
  <2> QED
    BY ONLY <1>0, <1>6, <2>1
<1>8. /\ HpTable(x) /\ HpOnly(x, bs, i)
      /\ x[i].offset = bs[i].offset /\ x[i].size = bs[i].size /\ x[i].used /\ x[i].requested = n
  BY <1>1, <1>2, <1>5, <1>6, HpTakenTable
<1>9. Len(x) = Len(bs) /\ Len(bs) \in Nat /\ \A k \in 1 .. Len(bs) : k # i => x[k] = bs[k]
  BY <1>1, <1>8, HpLength DEF HpOnly
<1>10. HpSpaced(x)
  <2>1. ASSUME NEW k \in 2 .. Len(x)
        PROVE  x[k].used \/ x[k - 1].used
    <3>1. bs[k].used \/ bs[k - 1].used
      BY <1>9, <2>1 DEF HpSpaced, HpSpacedBut
    <3>2. CASE k = i \/ k - 1 = i
      BY <1>8, <3>2
    <3>3. CASE k # i /\ k - 1 # i
      <4>1. x[k] = bs[k] /\ x[k - 1] = bs[k - 1]
        BY <1>9, <2>1, <3>3
      <4> QED
        BY <3>1, <4>1
    <3> QED
      BY <3>2, <3>3
  <2> QED
    BY <2>1 DEF HpSpaced, HpSpacedBut
<1>11. HpKeeps(r, x)
  <2>1. i \in 1 .. Len(x) /\ x[i].used /\ x[i].requested <= Rounded(n) /\ Rounded(n) <= x[i].size
    BY <1>2, <1>3, <1>4, <1>8, <1>9
  <2> QED
    BY <1>3, <1>7, <1>8, <1>10, <2>1, HpShrunk
<1>12. ASSUME NEW m, HpLive(bs, bs[i].offset, m)
       PROVE  FALSE
  <2>1. PICK k \in 1 .. Len(bs) : bs[k].used /\ bs[k].offset = bs[i].offset
    BY <1>12 DEF HpLive
  <2>2. k = i
    BY <1>2, <2>1, HpAlone
  <2> QED
    BY <1>2, <2>1, <2>2
<1>13. ASSUME NEW a, NEW m
       PROVE  HpLive(r, a, m) <=> HpLive(bs, a, m) \/ (a = bs[i].offset /\ m = n)
  <2>1. HpLive(r, a, m) <=> HpLive(x, a, m)
    BY <1>11 DEF HpKeeps
  <2>2. HpLive(x, a, m) <=> (HpLive(bs, a, m) /\ a # bs[i].offset) \/ (x[i].used /\ a = bs[i].offset /\ m = x[i].requested)
    BY <1>2, <1>8, HpMarkedLive
  <2> QED
    BY <1>8, <1>12, <2>1, <2>2
<1>14. HpMore(r, bs, bs[i].offset, n)
  BY <1>12, <1>13 DEF HpMore
<1> QED
  BY <1>2, <1>5, <1>11, <1>14 DEF HpKeeps

\* merge_next at a free block: the free blocks touch one block fewer.
LEMMA HpMergedFree ==
  ASSUME NEW bs, HpTable(bs), NEW i \in 1 .. Len(bs), ~bs[i].used, NEW P \in SUBSET {i, i + 1}, HpSpacedBut(bs, P),
         NEW r, r = MergeNext(bs, i)
  PROVE  /\ HpTable(r) /\ HpSpacedBut(r, P \cap {i}) /\ i \in 1 .. Len(r) /\ ~r[i].used
         /\ \A k \in 1 .. i - 1 : r[k] = bs[k]
         /\ \A a, m : HpLive(r, a, m) <=> HpLive(bs, a, m)
<1>0. PICK n \in Nat : n = Len(bs) /\ i \in 1 .. n
  BY HpLength DEF HpTable
<1>1. CASE i < n /\ ~bs[i + 1].used
  <2>0. i < Len(bs) /\ ~bs[i + 1].used
    BY <1>0, <1>1
  <2>1. HpJoined(r, bs, i)
    BY <2>0, HpMergedEntries
  <2>2. HpTable(r)
    BY <2>0, <2>1, HpMerged
  <2>3. HpSpacedBut(r, P \cap {i})
    BY <2>0, <2>1, HpJoinedSpaced
  <2>4. \A a, m : HpLive(r, a, m) <=> HpLive(bs, a, m)
    BY <2>0, <2>1, HpJoinedLive
  <2>5. /\ Len(r) = n - 1 /\ r[i].used = bs[i].used
        /\ \A k \in 1 .. n - 1 : k # i => r[k] = IF k < i THEN bs[k] ELSE bs[k + 1]
    BY <1>0, <2>1 DEF HpJoined
  <2>6. i \in 1 .. Len(r) /\ ~r[i].used
    BY <1>0, <1>1, <2>5
  <2>7. \A k \in 1 .. i - 1 : r[k] = bs[k]
    BY <1>0, <2>5
  <2> QED
    BY <2>2, <2>3, <2>4, <2>6, <2>7
<1>2. CASE ~(i < n /\ ~bs[i + 1].used)
  <2>1. r = bs
    BY <1>0, <1>2 DEF MergeNext
  <2>2. ASSUME NEW k \in 2 .. n, k \notin P \cap {i}
        PROVE  bs[k].used \/ bs[k - 1].used
    <3>1. CASE k \in P
      <4>1. k = i + 1 /\ i < n
        BY <1>0, <2>2, <3>1
      <4> QED
        BY <1>2, <4>1
    <3>2. CASE k \notin P
      BY <1>0, <3>2 DEF HpSpacedBut
    <3> QED
      BY <3>1, <3>2
  <2>3. HpSpacedBut(bs, P \cap {i})
    BY <1>0, <2>2 DEF HpSpacedBut
  <2> QED
    BY <2>1, <2>3
<1> QED
  BY <1>1, <1>2

\* A free block joined to those on both sides.
HpCoalesced(x, i) ==
    LET m == MergeNext(x, i)
    IN  IF i > 1 /\ ~m[i - 1].used THEN MergeNext(m, i - 1) ELSE m

\* What free does to the table: one block in use fewer.
LEMMA HpFreed ==
  ASSUME NEW bs, HpTable(bs), HpSpaced(bs), NEW i \in 1 .. Len(bs), NEW r, r = Freed(bs, i)
  PROVE  /\ HpTable(r) /\ HpSpaced(r)
         /\ HpFewer(r, bs, bs[i].offset)
<1>0. PICK n \in Nat : n = Len(bs) /\ i \in 1 .. n
  BY HpLength DEF HpTable
<1>1. bs \in Seq(HpBlocks) /\ bs[i].size \in Nat
  BY HpBlock DEF HpTable
<1>2. PICK x : x = HpDrop(bs, i)
  OBVIOUS
<1>3. PICK m : m = MergeNext(x, i)
  OBVIOUS
<1>4. r = IF i > 1 /\ ~m[i - 1].used THEN MergeNext(m, i - 1) ELSE m
  <2>1. [bs EXCEPT ![i].used = FALSE, ![i].requested = 0] = x
    BY <1>1, <1>2, HpMarks
  <2>2. r = HpCoalesced([bs EXCEPT ![i].used = FALSE, ![i].requested = 0], i)
    BY DEF Freed, HpCoalesced
  <2>3. r = HpCoalesced(x, i)
    BY ONLY <2>1, <2>2
  <2> QED
    BY ONLY <1>3, <2>3 DEF HpCoalesced
<1>5. /\ HpTable(x) /\ HpOnly(x, bs, i)
      /\ x[i].offset = bs[i].offset /\ x[i].size = bs[i].size /\ ~x[i].used
  BY <1>2, HpDroppedTable
<1>6. Len(x) = n /\ \A k \in 1 .. n : k # i => x[k] = bs[k]
  BY <1>0, <1>5 DEF HpOnly
<1>7. HpSpacedBut(x, {i, i + 1})
  <2>1. ASSUME NEW k \in 2 .. n, k \notin {i, i + 1}
        PROVE  x[k].used \/ x[k - 1].used
    <3>1. bs[k].used \/ bs[k - 1].used
      BY <1>0, <2>1 DEF HpSpaced, HpSpacedBut
    <3>2. x[k] = bs[k] /\ x[k - 1] = bs[k - 1]
      BY <1>0, <1>6, <2>1
    <3> QED
      BY <3>1, <3>2
  <2> QED
    BY <1>6, <2>1 DEF HpSpacedBut
<1>8. /\ HpTable(m) /\ HpSpacedBut(m, {i, i + 1} \cap {i}) /\ i \in 1 .. Len(m) /\ ~m[i].used
      /\ \A a, c : HpLive(m, a, c) <=> HpLive(x, a, c)
  <2>1. i \in 1 .. Len(x) /\ ~x[i].used /\ {i, i + 1} \in SUBSET {i, i + 1}
    BY <1>0, <1>5, <1>6
  <2> QED
    BY <1>3, <1>5, <1>7, <2>1, HpMergedFree
<1>9. HpTable(r) /\ HpSpaced(r) /\ \A a, c : HpLive(r, a, c) <=> HpLive(m, a, c)
  <2>1. Len(m) \in Nat /\ \A k \in 2 .. Len(m) : k # i => m[k].used \/ m[k - 1].used
    BY <1>8, HpLength DEF HpSpacedBut, HpTable
  <2>2. CASE i > 1 /\ ~m[i - 1].used
    <3>1. PICK j \in 1 .. Len(m) : j = i - 1 /\ i = j + 1 /\ {i} \in SUBSET {j, j + 1} /\ {i} \cap {j} = {}
      BY <1>8, <2>1, <2>2
    <3>2. r = MergeNext(m, j) /\ ~m[j].used
      BY <1>4, <2>2, <3>1
    <3>3. HpSpacedBut(m, {i})
      BY <2>1 DEF HpSpacedBut
    <3>4. /\ HpTable(r) /\ HpSpacedBut(r, {i} \cap {j})
          /\ \A a, c : HpLive(r, a, c) <=> HpLive(m, a, c)
      BY <1>8, <3>1, <3>2, <3>3, HpMergedFree
    <3> QED
      BY <3>1, <3>4 DEF HpSpaced
  <2>3. CASE ~(i > 1 /\ ~m[i - 1].used)
    <3>1. r = m
      BY <1>4, <2>3
    <3>2. \A k \in 2 .. Len(m) : m[k].used \/ m[k - 1].used
      <4>1. ASSUME NEW k \in 2 .. Len(m)
            PROVE  m[k].used \/ m[k - 1].used
        <5>1. CASE k = i
          <6>1. i > 1
            BY <2>1, <5>1
          <6> QED
            BY <2>3, <5>1, <6>1
        <5>2. CASE k # i
          BY <2>1, <5>2
        <5> QED
          BY <5>1, <5>2
      <4> QED
        BY <4>1
    <3> QED
      BY <1>8, <3>1, <3>2 DEF HpSpaced, HpSpacedBut
  <2> QED
    BY <2>2, <2>3
<1>10. ASSUME NEW a, NEW c
       PROVE  HpLive(r, a, c) <=> HpLive(bs, a, c) /\ a # bs[i].offset
  <2>1. HpLive(x, a, c) <=> (HpLive(bs, a, c) /\ a # bs[i].offset) \/ (x[i].used /\ a = bs[i].offset /\ c = x[i].requested)
    BY <1>5, HpMarkedLive
  <2>2. (HpLive(r, a, c) <=> HpLive(m, a, c)) /\ (HpLive(m, a, c) <=> HpLive(x, a, c))
    BY <1>8, <1>9
  <2> QED
    BY <1>5, <2>1, <2>2
<1> QED
  BY <1>9, <1>10 DEF HpFewer

\* A block in use that takes the free block behind it.
LEMMA HpMergedUsed ==
  ASSUME NEW bs, HpTable(bs), HpSpaced(bs), NEW i \in 1 .. Len(bs), i < Len(bs), ~bs[i + 1].used, bs[i].used,
         NEW r, r = MergeNext(bs, i)
  PROVE  HpKeeps(r, bs) /\ i \in 1 .. Len(r) /\ r[i].used /\ r[i].offset = bs[i].offset
<1>0. PICK n \in Nat : n = Len(bs) /\ i \in 1 .. n
  BY HpLength DEF HpTable
<1>1. HpJoined(r, bs, i)
  BY HpMergedEntries
<1>2. HpTable(r)
  BY <1>1, HpMerged
<1>3. HpSpacedBut(r, {} \cap {i})
  <2>1. {} \in SUBSET {i, i + 1} /\ HpSpacedBut(bs, {})
    BY DEF HpSpaced
  <2> QED
    BY <1>1, <2>1, HpJoinedSpaced
<1>4. HpSpaced(r)
  <2>1. {} \cap {i} = {}
    OBVIOUS
  <2> QED
    BY <1>3, <2>1 DEF HpSpaced
<1>5. \A a, m : HpLive(r, a, m) <=> HpLive(bs, a, m)
  BY <1>1, HpJoinedLive
<1>6. i \in 1 .. Len(r) /\ r[i].used /\ r[i].offset = bs[i].offset
  BY <1>0, <1>1 DEF HpJoined
<1> QED
  BY <1>2, <1>4, <1>5, <1>6 DEF HpKeeps

\* What a realloc in place does to the table: the block holds n.
LEMMA HpResized ==
  ASSUME NEW bs, HpTable(bs), HpSpaced(bs), NEW i \in 1 .. Len(bs), bs[i].used, NEW n \in Requests,
         NEW g, HpKeeps(g, bs), i \in 1 .. Len(g), g[i].used, g[i].offset = bs[i].offset, Rounded(n) <= g[i].size,
         NEW r, r = Shrink([g EXCEPT ![i].requested = n], i, Rounded(n))
  PROVE  /\ HpTable(r) /\ HpSpaced(r)
         /\ HpOther(r, bs, bs[i].offset, bs[i].offset, n)
<1>1. g \in Seq(HpBlocks) /\ HpTable(g) /\ HpSpaced(g) /\ \A a, m : HpLive(g, a, m) <=> HpLive(bs, a, m)
  BY DEF HpKeeps, HpTable
<1>2. Rounded(n) \in Nat /\ Rounded(n) > 0 /\ Rounded(n) >= n /\ HpWhole(Rounded(n)) /\ n \in Nat /\ n \in Requests \cup {0}
  BY HpNumbers, HpRounds
<1>3. g[i].size \in Nat /\ n <= g[i].size
  <2>1. g[i].size \in Nat
    BY <1>1, HpBlock
  <2> QED
    BY <1>2, <2>1
<1>4. [g EXCEPT ![i].requested = n] = HpTake(g, i, n)
  <2>1. i \in 1 .. Len(g) /\ g[i].used
    OBVIOUS
  <2> QED
    BY ONLY <1>1, <2>1, HpMarks
<1>5. PICK x : x = HpTake(g, i, n)
  OBVIOUS
<1>6. r = Shrink(x, i, Rounded(n))
  BY ONLY <1>4, <1>5, r = Shrink([g EXCEPT ![i].requested = n], i, Rounded(n))
<1>7. /\ HpTable(x) /\ HpOnly(x, g, i)
      /\ x[i].offset = g[i].offset /\ x[i].size = g[i].size /\ x[i].used /\ x[i].requested = n
  BY <1>1, <1>2, <1>3, <1>5, HpTakenTable
<1>8. Len(x) = Len(g) /\ Len(g) \in Nat /\ \A k \in 1 .. Len(g) : k # i => x[k] = g[k]
  BY <1>1, <1>7, HpLength DEF HpOnly
<1>9. HpSpaced(x)
  <2>1. ASSUME NEW k \in 2 .. Len(x)
        PROVE  x[k].used \/ x[k - 1].used
    <3>1. g[k].used \/ g[k - 1].used
      BY <1>1, <1>8, <2>1 DEF HpSpaced, HpSpacedBut
    <3>2. CASE k = i \/ k - 1 = i
      BY <1>7, <3>2
    <3>3. CASE k # i /\ k - 1 # i
      <4>1. x[k] = g[k] /\ x[k - 1] = g[k - 1]
        BY <1>8, <2>1, <3>3
      <4> QED
        BY <3>1, <4>1
    <3> QED
      BY <3>2, <3>3
  <2> QED
    BY <2>1 DEF HpSpaced, HpSpacedBut
<1>10. HpKeeps(r, x)
  <2>1. i \in 1 .. Len(x) /\ x[i].used /\ x[i].requested <= Rounded(n) /\ Rounded(n) <= x[i].size
    BY <1>2, <1>3, <1>7, <1>8
  <2> QED
    BY <1>2, <1>6, <1>7, <1>9, <2>1, HpShrunk
<1>11. ASSUME NEW a, NEW m
       PROVE  HpLive(r, a, m) <=> (HpLive(bs, a, m) /\ a # bs[i].offset) \/ (a = bs[i].offset /\ m = n)
  <2>1. (HpLive(r, a, m) <=> HpLive(x, a, m)) /\ (HpLive(g, a, m) <=> HpLive(bs, a, m))
    BY <1>1, <1>10 DEF HpKeeps
  <2>2. HpLive(x, a, m) <=> (HpLive(g, a, m) /\ a # g[i].offset) \/ (x[i].used /\ a = g[i].offset /\ m = x[i].requested)
    BY <1>1, <1>7, HpMarkedLive
  <2> QED
    BY <1>7, <2>1, <2>2
<1> QED
  BY <1>10, <1>11 DEF HpKeeps, HpOther

-----------------------------------------------------------------------------
\* Where an allocation lies: in the heap, and clear of every other block.
LEMMA HpLies ==
  ASSUME NEW bs, HpTable(bs), NEW a, NEW n, HpLive(bs, a, n)
  PROVE  /\ a \in Nat /\ n \in Nat /\ a < HeapBytes /\ a + n <= HeapBytes
         /\ \A m : HpLive(bs, a, m) => m = n
<1>1. PICK k \in 1 .. Len(bs) : bs[k].used /\ bs[k].offset = a /\ bs[k].requested = n
  BY DEF HpLive
<1>2. PICK o \in Nat, z \in Nat, q \in Nat : o = bs[k].offset /\ z = bs[k].size /\ q = bs[k].requested /\ z > 0 /\ q <= z
  BY HpBlock DEF HpBlockOk
<1>3. o + z <= HeapBytes
  <2>1. PICK l \in 1 .. HeapSlots : l = Len(bs)
    BY DEF HpTable
  <2>2. HeapSlots \in Nat /\ HeapBytes \in Nat
    BY HpNumbers
  <2>3. CASE k = l
    <3>1. bs[k].offset + bs[k].size = HeapBytes
      BY <2>1, <2>3 DEF HpTable, HpChained
    <3> QED
      BY <1>2, <2>2, <3>1
  <2>4. CASE k # l
    <3>1. l \in 1 .. Len(bs) /\ k < l
      BY <2>1, <2>2, <2>4
    <3>2. PICK p \in Nat, s \in Nat : p = bs[l].offset /\ s = bs[l].size
      BY <3>1, HpBlock
    <3>3. bs[k].offset + bs[k].size <= bs[l].offset
      BY <3>1 DEF HpTable, HpOrdered
    <3>4. bs[l].offset + bs[l].size = HeapBytes
      BY <2>1, <3>1 DEF HpTable, HpChained
    <3>5. o + z <= p /\ p + s = HeapBytes
      BY <1>2, <3>2, <3>3, <3>4
    <3> QED
      BY ONLY <3>5, o \in Nat, z \in Nat, p \in Nat, s \in Nat, <2>2
  <2> QED
    BY <2>3, <2>4
<1>4. o < HeapBytes /\ o + q <= HeapBytes
  BY <1>2, <1>3, HpNumbers
<1>5. ASSUME NEW m, HpLive(bs, a, m)
      PROVE  m = n
  <2>1. PICK j \in 1 .. Len(bs) : bs[j].used /\ bs[j].offset = a /\ bs[j].requested = m
    BY <1>5 DEF HpLive
  <2>2. j = k
    BY <1>1, <2>1, HpAlone
  <2> QED
    BY <1>1, <2>1, <2>2
<1> QED
  BY <1>1, <1>2, <1>4, <1>5

\* An allocation lies before or behind a block that starts elsewhere.
LEMMA HpClear ==
  ASSUME NEW bs, HpTable(bs), NEW a, NEW n, HpLive(bs, a, n), NEW i \in 1 .. Len(bs), a # bs[i].offset
  PROVE  /\ n = 0 \/ a + n <= bs[i].offset \/ bs[i].offset + bs[i].size <= a
         /\ a < bs[i].offset \/ bs[i].offset + bs[i].size <= a
<1>1. PICK k \in 1 .. Len(bs) : bs[k].used /\ bs[k].offset = a /\ bs[k].requested = n
  BY DEF HpLive
<1>2. PICK o \in Nat, z \in Nat, q \in Nat : o = bs[k].offset /\ z = bs[k].size /\ q = bs[k].requested /\ z > 0 /\ q <= z
  BY HpBlock DEF HpBlockOk
<1>3. PICK p \in Nat, s \in Nat : p = bs[i].offset /\ s = bs[i].size
  BY HpBlock
<1>4. o + z <= p \/ p + s <= o
  <2>1. k < i \/ i < k
    <3>1. Len(bs) \in Nat /\ k # i
      BY <1>1, HpLength DEF HpTable
    <3> QED
      BY <3>1
  <2>2. CASE k < i
    <3>1. bs[k].offset + bs[k].size <= bs[i].offset
      BY <2>2 DEF HpTable, HpOrdered
    <3> QED
      BY <1>2, <1>3, <3>1
  <2>3. CASE i < k
    <3>1. bs[i].offset + bs[i].size <= bs[k].offset
      BY <2>3 DEF HpTable, HpOrdered
    <3> QED
      BY <1>2, <1>3, <3>1
  <2> QED
    BY <2>1, <2>2, <2>3
<1>5. o = a /\ q = n
  BY <1>1, <1>2
<1>6. (o + q <= p \/ p + s <= o) /\ (o < p \/ p + s <= o)
  <2>1. z > 0 /\ q <= z
    BY <1>2
  <2> QED
    BY ONLY <1>4, <2>1, o \in Nat, z \in Nat, q \in Nat, p \in Nat, s \in Nat
<1> QED
  BY <1>3, <1>5, <1>6

\* The bytes of an allocation, and the allocations a guest sees.
HpBytes(m, a, n) == [i \in 1 .. n |-> m[a + i - 1]]
HpContents(bs, m) ==
    LET live == {b \in ToSet(bs) : b.used}
    IN  [a \in {b.offset : b \in live} |->
           LET b == CHOOSE x \in live : x.offset = a
           IN  [i \in 1 .. b.requested |-> m[a + i - 1]]]
HpShown(f, bs, m) ==
    /\ \A a : a \in DOMAIN f <=> \E n : HpLive(bs, a, n)
    /\ \A a, n : HpLive(bs, a, n) => f[a] = HpBytes(m, a, n)

\* The same bytes, the same contents.
LEMMA HpSame ==
  ASSUME NEW n \in Nat, NEW a, NEW m, NEW w, \A i \in 1 .. n : w[a + i - 1] = m[a + i - 1]
  PROVE  HpBytes(w, a, n) = HpBytes(m, a, n)
  BY DEF HpBytes

\* As many bytes as were asked for.
LEMMA HpSized ==
  ASSUME NEW n \in Nat, NEW a, NEW m
  PROVE  Len(HpBytes(m, a, n)) = n /\ \A i \in 1 .. n : HpBytes(m, a, n)[i] = m[a + i - 1]
  BY DEF HpBytes

\* The contents are those of the blocks in use.
LEMMA HpSeen ==
  ASSUME NEW bs, HpTable(bs), NEW m, NEW f, f = HpContents(bs, m)
  PROVE  HpShown(f, bs, m)
<1>1. DOMAIN bs = 1 .. Len(bs)
  BY HpLength DEF HpTable
<1> DEFINE L == {b \in ToSet(bs) : b.used}
           At(a) == CHOOSE x \in L : x.offset = a
<1>2. L = {b \in {bs[k] : k \in 1 .. Len(bs)} : b.used}
  BY <1>1 DEF ToSet
<1>3. f = [a \in {b.offset : b \in L} |-> HpBytes(m, a, At(a).requested)]
  BY DEF HpContents, HpBytes
<1>4. ASSUME NEW a
      PROVE  a \in DOMAIN f <=> \E n : HpLive(bs, a, n)
  <2>1. a \in DOMAIN f <=> \E b \in L : b.offset = a
    <3> HIDE DEF L, At
    <3> QED
      BY <1>3
  <2>2. (\E b \in L : b.offset = a) <=> \E k \in 1 .. Len(bs) : bs[k].used /\ bs[k].offset = a
    BY <1>2
  <2>3. (\E k \in 1 .. Len(bs) : bs[k].used /\ bs[k].offset = a) <=> \E n : HpLive(bs, a, n)
    BY DEF HpLive
  <2> QED
    BY <2>1, <2>2, <2>3
<1>5. ASSUME NEW a, NEW n, HpLive(bs, a, n)
      PROVE  f[a] = HpBytes(m, a, n)
  <2>1. PICK k \in 1 .. Len(bs) : bs[k].used /\ bs[k].offset = a /\ bs[k].requested = n
    BY <1>5 DEF HpLive
  <2>2. bs[k] \in L /\ bs[k].offset = a
    BY <1>2, <2>1
  <2>3. At(a) \in L /\ At(a).offset = a
    BY <2>2
  <2>4. At(a).requested = n
    <3>1. PICK j \in 1 .. Len(bs) : At(a) = bs[j]
      BY <1>2, <2>3
    <3>2. bs[j].offset = bs[k].offset
      BY <2>1, <2>3, <3>1
    <3>3. j = k
      BY <3>2, HpAlone
    <3> QED
      BY <2>1, <3>1, <3>3
  <2>5. a \in {b.offset : b \in L}
    BY <2>2
  <2> HIDE DEF L, At
  <2> QED
    BY <1>3, <2>4, <2>5
<1> QED
  BY <1>4, <1>5 DEF HpShown

\* Allocations do not overlap: what the abstract heap asks of every step.
LEMMA HpDisjoint ==
  ASSUME NEW bs, HpTable(bs), NEW m, NEW f, HpShown(f, bs, m)
  PROVE  Service!Disjoint(f)
<1>1. ASSUME NEW a \in DOMAIN f
      PROVE  \E n \in Nat : HpLive(bs, a, n) /\ Len(f[a]) = n /\ a \in Nat
  <2>1. PICK n : HpLive(bs, a, n)
    BY DEF HpShown
  <2>2. n \in Nat /\ a \in Nat
    BY <2>1, HpLies
  <2>3. f[a] = HpBytes(m, a, n)
    BY <2>1 DEF HpShown
  <2>4. Len(f[a]) = n
    BY <2>2, <2>3, HpSized
  <2> QED
    BY <2>1, <2>2, <2>4
<1>2. ASSUME NEW a \in DOMAIN f, NEW b \in DOMAIN f
      PROVE  /\ Service!Span(a, Len(f[a])) \subseteq 0 .. (HeapBytes - 1)
             /\ a # b => Service!Span(a, Len(f[a])) \cap Service!Span(b, Len(f[b])) = {}
  <2>1. PICK n \in Nat : HpLive(bs, a, n) /\ Len(f[a]) = n /\ a \in Nat
    BY <1>1
  <2>2. PICK k \in Nat : HpLive(bs, b, k) /\ Len(f[b]) = k /\ b \in Nat
    BY <1>1
  <2>3. HeapBytes \in Nat /\ a < HeapBytes /\ a + n <= HeapBytes
    BY <2>1, HpLies, HpNumbers
  <2>4. PICK s \in Nat : s = (IF n = 0 THEN 1 ELSE n) /\ Service!Span(a, Len(f[a])) = a .. (a + s - 1)
    BY <2>1 DEF Service!Span
  <2>5. PICK t \in Nat : t = (IF k = 0 THEN 1 ELSE k) /\ Service!Span(b, Len(f[b])) = b .. (b + t - 1)
    BY <2>2 DEF Service!Span
  <2>6. a .. (a + s - 1) \subseteq 0 .. (HeapBytes - 1)
    BY <2>1, <2>3, <2>4
  <2>7. ASSUME a # b
        PROVE  (a .. (a + s - 1)) \cap (b .. (b + t - 1)) = {}
    <3>1. PICK i \in 1 .. Len(bs) : bs[i].offset = b /\ bs[i].used /\ bs[i].requested = k
      BY <2>2 DEF HpLive
    <3>2. PICK z \in Nat : z = bs[i].size /\ z > 0 /\ k <= z
      BY <3>1, HpBlock DEF HpBlockOk
    <3>3. (n = 0 \/ a + n <= b \/ b + z <= a) /\ (a < b \/ b + z <= a)
      BY <2>1, <2>7, <3>1, <3>2, HpClear
    <3>4. a + s <= b \/ b + t <= a
      <4>1. s = (IF n = 0 THEN 1 ELSE n) /\ t = (IF k = 0 THEN 1 ELSE k)
        BY <2>4, <2>5
      <4>2. z > 0 /\ k <= z /\ a \in Nat /\ b \in Nat
        BY <2>1, <2>2, <3>2
      <4>3. CASE a < b
        <5>1. n = 0 \/ a + n <= b
          BY ONLY <3>3, <4>2, <4>3, z \in Nat
        <5> QED
          BY ONLY <4>1, <4>2, <4>3, <5>1, n \in Nat
      <4>4. CASE b + z <= a
        BY ONLY <4>1, <4>2, <4>4, z \in Nat, k \in Nat
      <4> QED
        BY <3>3, <4>3, <4>4
    <3> QED
      BY ONLY <3>4, <2>1, <2>2, <2>4, <2>5
  <2> QED
    BY <2>4, <2>5, <2>6, <2>7
<1> QED
  BY <1>2 DEF Service!Disjoint

\* What an allocation holds if its bytes stay.
LEMMA HpStays ==
  ASSUME NEW bs, HpTable(bs), NEW m, NEW f, HpShown(f, bs, m),
         NEW r, HpTable(r), NEW w, NEW g, HpShown(g, r, w),
         NEW a, NEW n, HpLive(bs, a, n), HpLive(r, a, n), \A i \in 1 .. n : w[a + i - 1] = m[a + i - 1]
  PROVE  g[a] = f[a]
<1>1. n \in Nat
  BY HpLies
<1>2. f[a] = HpBytes(m, a, n) /\ g[a] = HpBytes(w, a, n)
  BY DEF HpShown
<1> QED
  BY <1>1, <1>2, HpSame

\* The steps of the abstract heap, between the allocations f and g.
HpGains(f, g) ==
    /\ \E a \in DOMAIN g : DOMAIN g = DOMAIN f \cup {a} /\ a \notin DOMAIN f
    /\ \A a \in DOMAIN f \cap DOMAIN g : g[a] = f[a]
HpDrops(f, g) ==
    /\ \E a \in DOMAIN f : DOMAIN g = DOMAIN f \ {a}
    /\ \A a \in DOMAIN f \cap DOMAIN g : g[a] = f[a]
HpWrites(f, g) ==
    \E a \in DOMAIN f : /\ DOMAIN g = DOMAIN f /\ Len(g[a]) = Len(f[a])
                        /\ \A b \in DOMAIN f \ {a} : g[b] = f[b]
HpMoves(f, g) ==
    \E a \in DOMAIN f : \E b \in DOMAIN g :
        /\ b \notin DOMAIN f \ {a} /\ DOMAIN g = (DOMAIN f \ {a}) \cup {b}
        /\ \A c \in DOMAIN f \ {a} : g[c] = f[c]
        /\ \A i \in 1 .. (IF Len(f[a]) < Len(g[b]) THEN Len(f[a]) ELSE Len(g[b])) : g[b][i] = f[a][i]

\* The bytes that stay.
HpStill(bs, p, m, w) ==
    \A a, k : HpLive(bs, a, k) /\ a # p => \A i \in 1 .. k : w[a + i - 1] = m[a + i - 1]
HpCopied(m, a, old, w, b, n) ==
    \A i \in 1 .. (IF old < n THEN old ELSE n) : w[b + i - 1] = m[a + i - 1]

\* One more block in use is a gain.
LEMMA HpGained ==
  ASSUME NEW bs, HpTable(bs), NEW m, NEW f, HpShown(f, bs, m), NEW r, HpTable(r), NEW w, NEW g, HpShown(g, r, w),
         NEW p, NEW n, HpMore(r, bs, p, n), HpStill(bs, p, m, w)
  PROVE  HpGains(f, g)
<1>0. /\ \A a, k : HpLive(r, a, k) <=> HpLive(bs, a, k) \/ (a = p /\ k = n)
      /\ \A k : ~HpLive(bs, p, k)
  BY DEF HpMore
<1>1. p \notin DOMAIN f /\ p \in DOMAIN g
  BY <1>0 DEF HpShown
<1>2. ASSUME NEW a
      PROVE  a \in DOMAIN g <=> a \in DOMAIN f \/ a = p
  <2>1. (a \in DOMAIN g <=> \E k : HpLive(r, a, k)) /\ (a \in DOMAIN f <=> \E k : HpLive(bs, a, k))
    BY DEF HpShown
  <2>2. (\E k : HpLive(r, a, k)) <=> ((\E k : HpLive(bs, a, k)) \/ a = p)
    BY <1>0
  <2> QED
    BY <2>1, <2>2
<1>3. DOMAIN g = DOMAIN f \cup {p}
  BY <1>2
<1>4. ASSUME NEW a \in DOMAIN f
      PROVE  g[a] = f[a]
  <2>1. PICK k : HpLive(bs, a, k)
    BY DEF HpShown
  <2>2. HpLive(r, a, k) /\ a # p
    BY <1>0, <2>1
  <2>3. \A i \in 1 .. k : w[a + i - 1] = m[a + i - 1]
    BY <2>1, <2>2 DEF HpStill
  <2> QED
    BY <2>1, <2>2, <2>3, HpStays
<1> QED
  BY <1>1, <1>3, <1>4 DEF HpGains

\* One block fewer is a drop.
LEMMA HpDropped ==
  ASSUME NEW bs, HpTable(bs), NEW m, NEW f, HpShown(f, bs, m), NEW r, HpTable(r), NEW g, HpShown(g, r, m),
         NEW p, NEW n, HpLive(bs, p, n), HpFewer(r, bs, p)
  PROVE  HpDrops(f, g)
<1>1. p \in DOMAIN f
  BY DEF HpShown
<1>2. ASSUME NEW a
      PROVE  a \in DOMAIN g <=> a \in DOMAIN f /\ a # p
  <2>1. (a \in DOMAIN g <=> \E k : HpLive(r, a, k)) /\ (a \in DOMAIN f <=> \E k : HpLive(bs, a, k))
    BY DEF HpShown
  <2>2. (\E k : HpLive(r, a, k)) <=> ((\E k : HpLive(bs, a, k)) /\ a # p)
    BY DEF HpFewer
  <2> QED
    BY <2>1, <2>2
<1>3. DOMAIN g = DOMAIN f \ {p}
  BY <1>2
<1>4. ASSUME NEW a \in DOMAIN f \cap DOMAIN g
      PROVE  g[a] = f[a]
  <2>1. PICK k : HpLive(bs, a, k)
    BY DEF HpShown
  <2>2. HpLive(r, a, k)
    BY <1>2, <2>1 DEF HpFewer
  <2> QED
    BY <2>1, <2>2, HpStays
<1> QED
  BY <1>1, <1>3, <1>4 DEF HpDrops

\* Bytes changed in one block are a write.
LEMMA HpWritten ==
  ASSUME NEW bs, HpTable(bs), NEW m, NEW f, HpShown(f, bs, m), NEW w, NEW g, HpShown(g, bs, w),
         NEW p, NEW n, HpLive(bs, p, n), HpStill(bs, p, m, w)
  PROVE  HpWrites(f, g)
<1>1. p \in DOMAIN f
  BY DEF HpShown
<1>2. DOMAIN g = DOMAIN f
  BY DEF HpShown
<1>3. Len(g[p]) = Len(f[p])
  <2>1. n \in Nat
    BY HpLies
  <2>2. g[p] = HpBytes(w, p, n) /\ f[p] = HpBytes(m, p, n)
    BY DEF HpShown
  <2> QED
    BY <2>1, <2>2, HpSized
<1>4. ASSUME NEW a \in DOMAIN f \ {p}
      PROVE  g[a] = f[a]
  <2>1. PICK k : HpLive(bs, a, k)
    BY DEF HpShown
  <2>2. \A i \in 1 .. k : w[a + i - 1] = m[a + i - 1]
    BY <2>1 DEF HpStill
  <2> QED
    BY <2>1, <2>2, HpStays
<1> QED
  BY <1>1, <1>2, <1>3, <1>4 DEF HpWrites

\* A block moved with its bytes is a move.
LEMMA HpMoved ==
  ASSUME NEW bs, HpTable(bs), NEW m, NEW f, HpShown(f, bs, m), NEW r, HpTable(r), NEW w, NEW g, HpShown(g, r, w),
         NEW a, NEW old, HpLive(bs, a, old), NEW b, NEW n, HpOther(r, bs, a, b, n),
         HpStill(bs, a, m, w), HpCopied(m, a, old, w, b, n)
  PROVE  HpMoves(f, g)
<1>0. /\ b = a \/ \A k : ~HpLive(bs, b, k)
      /\ \A c, k : HpLive(r, c, k) <=> (HpLive(bs, c, k) /\ c # a) \/ (c = b /\ k = n)
  BY DEF HpOther
<1>1. a \in DOMAIN f /\ b \in DOMAIN g /\ HpLive(r, b, n)
  BY <1>0 DEF HpShown
<1>2. b \notin DOMAIN f \ {a}
  BY <1>0 DEF HpShown
<1>3. ASSUME NEW c
      PROVE  c \in DOMAIN g <=> (c \in DOMAIN f /\ c # a) \/ c = b
  <2>1. (c \in DOMAIN g <=> \E k : HpLive(r, c, k)) /\ (c \in DOMAIN f <=> \E k : HpLive(bs, c, k))
    BY DEF HpShown
  <2>2. (\E k : HpLive(r, c, k)) <=> (((\E k : HpLive(bs, c, k)) /\ c # a) \/ c = b)
    BY <1>0
  <2> QED
    BY <2>1, <2>2
<1>4. DOMAIN g = (DOMAIN f \ {a}) \cup {b}
  BY <1>3
<1>5. ASSUME NEW c \in DOMAIN f \ {a}
      PROVE  g[c] = f[c]
  <2>1. PICK k : HpLive(bs, c, k)
    BY DEF HpShown
  <2>2. HpLive(r, c, k) /\ \A i \in 1 .. k : w[c + i - 1] = m[c + i - 1]
    BY <1>0, <2>1 DEF HpStill
  <2> QED
    BY <2>1, <2>2, HpStays
<1>6. /\ old \in Nat /\ n \in Nat /\ Len(f[a]) = old /\ Len(g[b]) = n
      /\ \A i \in 1 .. old : f[a][i] = m[a + i - 1]
      /\ \A i \in 1 .. n : g[b][i] = w[b + i - 1]
  <2>1. old \in Nat /\ n \in Nat
    BY <1>1, HpLies
  <2>2. f[a] = HpBytes(m, a, old) /\ g[b] = HpBytes(w, b, n)
    BY <1>1 DEF HpShown
  <2> QED
    BY <2>1, <2>2, HpSized
<1>7. ASSUME NEW i \in 1 .. (IF Len(f[a]) < Len(g[b]) THEN Len(f[a]) ELSE Len(g[b]))
      PROVE  g[b][i] = f[a][i]
  <2>1. i \in 1 .. old /\ i \in 1 .. n /\ i \in 1 .. (IF old < n THEN old ELSE n)
    BY <1>6
  <2> QED
    BY <1>6, <2>1 DEF HpCopied
<1> QED
  BY <1>1, <1>2, <1>4, <1>5, <1>7 DEF HpMoves

\* A step of the abstract heap, if it leaves the allocations apart.
LEMMA HpServes ==
  ASSUME Service!Disjoint(Contents'),
         \/ HpGains(Contents, Contents') \/ HpDrops(Contents, Contents')
         \/ HpWrites(Contents, Contents') \/ HpMoves(Contents, Contents')
  PROVE  Service!ServiceNext
<1>1. ASSUME HpGains(Contents, Contents')
      PROVE  Service!Gain
  BY <1>1 DEF HpGains, Service!Gain, Service!Keeps
<1>2. ASSUME HpDrops(Contents, Contents')
      PROVE  Service!Drop
  BY <1>2 DEF HpDrops, Service!Drop, Service!Keeps
<1>3. ASSUME HpWrites(Contents, Contents')
      PROVE  \E a \in DOMAIN Contents : Service!Write(a)
  BY <1>3 DEF HpWrites, Service!Write
<1>4. ASSUME HpMoves(Contents, Contents')
      PROVE  \E a \in DOMAIN Contents : \E b \in DOMAIN Contents' : Service!Move(a, b)
  BY <1>4 DEF HpMoves, Service!Move
<1> QED
  BY <1>1, <1>2, <1>3, <1>4 DEF Service!ServiceNext

\* The inductive invariant.
HpMem(m) == m \in [0 .. HeapBytes - 1 -> HeapTags]
HpInv == HpTable(blocks) /\ HpSpaced(blocks) /\ HpMem(mem)
HpStep ==
    \/ HpGains(Contents, Contents') \/ HpDrops(Contents, Contents')
    \/ HpWrites(Contents, Contents') \/ HpMoves(Contents, Contents')

\* The model's contents, before a step and after it.
LEMMA HpShows ==
  ASSUME HpTable(blocks)
  PROVE  HpShown(Contents, blocks, mem)
<1>1. Contents = HpContents(blocks, mem)
  BY DEF Contents, HpContents
<1> QED
  BY <1>1, HpSeen

\* The same, after it.
LEMMA HpShowsNext ==
  ASSUME HpTable(blocks')
  PROVE  HpShown(Contents', blocks', mem')
<1>1. Contents' = HpContents(blocks', mem')
  BY DEF Contents, HpContents
<1> QED
  BY <1>1, HpSeen

\* Every byte of an allocation is one of the heap's.
LEMMA HpInside ==
  ASSUME NEW bs, HpTable(bs), NEW a, NEW n, HpLive(bs, a, n), NEW i \in 1 .. n
  PROVE  a + i - 1 \in 0 .. HeapBytes - 1
<1>1. a \in Nat /\ n \in Nat /\ a + n <= HeapBytes /\ HeapBytes \in Nat
  BY HpLies, HpNumbers
<1> QED
  BY <1>1

\* The bytes a copy or a fill of a block does not reach.
LEMMA HpOutside ==
  ASSUME NEW bs, HpTable(bs), NEW j \in 1 .. Len(bs), NEW n \in Nat, n <= bs[j].size,
         NEW a, NEW k, HpLive(bs, a, k), a # bs[j].offset, NEW i \in 1 .. k
  PROVE  a + i - 1 \notin bs[j].offset .. (bs[j].offset + n - 1) /\ (a + i - 1) - bs[j].offset \notin 0 .. n - 1
<1>1. PICK p \in Nat, s \in Nat : p = bs[j].offset /\ s = bs[j].size /\ n <= s
  BY HpBlock
<1>2. a \in Nat /\ k \in Nat
  BY HpLies
<1>3. a + k <= p \/ p + s <= a
  BY <1>1, <1>2, HpClear
<1>4. a + i - 1 \notin p .. (p + n - 1) /\ (a + i - 1) - p \notin 0 .. n - 1
  BY ONLY <1>1, <1>2, <1>3, p \in Nat, s \in Nat, n \in Nat, i \in 1 .. k
<1> QED
  BY <1>1, <1>4

\* malloc and its kin.
LEMMA HpAlloc ==
  ASSUME HpInv, NEW n \in Requests, AllocCall(n)
  PROVE  HpInv' /\ HpStep
<1>1. PICK j : j = FirstFit(blocks, n) /\ j # 0
  BY DEF AllocCall, Allocs
<1>2. HpTable(blocks) /\ HpSpaced(blocks) /\ HpMem(mem) /\ blocks' = HeapAllocated(blocks, n) /\ mem' = mem
  BY DEF HpInv, AllocCall
<1>3. HpTable(blocks') /\ HpSpaced(blocks') /\ HpMore(blocks', blocks, blocks[j].offset, n)
  BY ONLY <1>1, <1>2, n \in Requests, HpAllocated
<1>4. HpShown(Contents, blocks, mem) /\ HpShown(Contents', blocks', mem')
  BY <1>2, <1>3, HpShows, HpShowsNext
<1>5. HpGains(Contents, Contents')
  <2>1. PICK p : p = blocks[j].offset
    OBVIOUS
  <2>2. HpMore(blocks', blocks, p, n)
    BY <1>3, <2>1
  <2>3. HpStill(blocks, p, mem, mem')
    BY <1>2 DEF HpStill
  <2> QED
    BY <1>2, <1>3, <1>4, <2>2, <2>3, HpGained
<1> QED
  BY <1>2, <1>3, <1>5 DEF HpInv, HpStep, HpMem

\* calloc clears the new block alone.
LEMMA HpCalloc ==
  ASSUME HpInv, NEW n \in Requests, CallocCall(n)
  PROVE  HpInv' /\ HpStep
<1>1. PICK j : j = FirstFit(blocks, n) /\ j # 0
  BY DEF CallocCall, Allocs
<1>2. HpTable(blocks) /\ HpSpaced(blocks) /\ HpMem(mem) /\ blocks' = HeapAllocated(blocks, n)
  BY DEF HpInv, CallocCall
<1>3. /\ j \in 1 .. Len(blocks) /\ n <= blocks[j].size
      /\ HpTable(blocks') /\ HpSpaced(blocks') /\ HpMore(blocks', blocks, blocks[j].offset, n)
  BY ONLY <1>1, <1>2, n \in Requests, HpAllocated
<1>4. HpShown(Contents, blocks, mem) /\ HpShown(Contents', blocks', mem')
  BY <1>2, <1>3, HpShows, HpShowsNext
<1>5. PICK p : p = blocks[j].offset
  OBVIOUS
<1>6. mem' = [i \in DOMAIN mem |-> IF i \in p .. (p + n - 1) THEN 0 ELSE mem[i]]
  BY <1>1, <1>5 DEF CallocCall
<1>7. HpMem(mem')
  <2>1. 0 \in HeapTags
    BY HeapAssumption
  <2> QED
    BY <1>2, <1>6, <2>1 DEF HpMem
<1>8. ASSUME NEW a, NEW k, HpLive(blocks, a, k), a # p, NEW i \in 1 .. k
      PROVE  mem'[a + i - 1] = mem[a + i - 1]
  <2>1. a + i - 1 \in DOMAIN mem
    BY <1>2, <1>8, HpInside DEF HpMem
  <2>2. n \in Nat
    BY HpNumbers
  <2>4. a + i - 1 \notin p .. (p + n - 1)
    BY <1>2, <1>3, <1>5, <1>8, <2>2, HpOutside
  <2> QED
    BY <1>6, <2>1, <2>4
<1>9. HpGains(Contents, Contents')
  <2>2. HpMore(blocks', blocks, p, n)
    BY <1>3, <1>5
  <2>3. HpStill(blocks, p, mem, mem')
    BY <1>8 DEF HpStill
  <2> QED
    BY <1>2, <1>3, <1>4, <2>2, <2>3, HpGained
<1> QED
  BY <1>3, <1>7, <1>9 DEF HpInv, HpStep, HpMem

\* free, and realloc to nothing.
LEMMA HpFreeing ==
  ASSUME HpInv, NEW a, FindBlock(blocks, a) # 0, blocks' = Freed(blocks, FindBlock(blocks, a)), mem' = mem
  PROVE  HpInv' /\ HpStep
<1>1. HpTable(blocks) /\ HpSpaced(blocks) /\ HpMem(mem) /\ blocks \in Seq(HpBlocks) /\ Len(blocks) \in Nat
  BY HpLength DEF HpInv, HpTable
<1>2. PICK j : j = FindBlock(blocks, a)
  OBVIOUS
<1>3. j \in 1 .. Len(blocks) /\ blocks[j].used /\ blocks[j].offset = a
  <2>1. j \in 0 .. Len(blocks) /\ j # 0 /\ blocks[j].used /\ blocks[j].offset = a
    BY <1>1, <1>2, HpFound
  <2> QED
    BY <1>1, <2>1
<1>4. /\ HpTable(blocks') /\ HpSpaced(blocks')
      /\ HpFewer(blocks', blocks, a)
  BY <1>1, <1>2, <1>3, HpFreed
<1>5. PICK n : HpLive(blocks, a, n)
  BY <1>3 DEF HpLive
<1>6. HpShown(Contents, blocks, mem) /\ HpShown(Contents', blocks', mem)
  BY <1>1, <1>4, HpShows, HpShowsNext
<1>7. HpDrops(Contents, Contents')
  BY ONLY <1>1, <1>4, <1>5, <1>6, HpDropped
<1> QED
  BY <1>1, <1>4, <1>7 DEF HpInv, HpStep, HpMem

\* free.
LEMMA HpFree ==
  ASSUME HpInv, NEW a, FreeCall(a)
  PROVE  HpInv' /\ HpStep
  BY HpFreeing DEF FreeCall

\* The guest writes to an allocation.
LEMMA HpWrite ==
  ASSUME HpInv, NEW a, GuestWrite(a)
  PROVE  HpInv' /\ HpStep
<1>1. HpTable(blocks) /\ HpSpaced(blocks) /\ HpMem(mem) /\ blocks \in Seq(HpBlocks) /\ Len(blocks) \in Nat /\ blocks' = blocks
  BY HpLength DEF HpInv, HpTable, GuestWrite
<1>2. PICK j : j = FindBlock(blocks, a) /\ j # 0
  BY DEF GuestWrite
<1>3. j \in 1 .. Len(blocks) /\ blocks[j].used /\ blocks[j].offset = a
  <2>1. j \in 0 .. Len(blocks) /\ blocks[j].used /\ blocks[j].offset = a
    BY <1>1, <1>2, HpFound
  <2> QED
    BY <1>1, <1>2, <2>1
<1>4. PICK n : n = blocks[j].requested /\ n \in Nat /\ n <= blocks[j].size
  BY <1>1, <1>3, HpBlock DEF HpBlockOk
<1>5. PICK t \in HeapTags : mem' = [i \in DOMAIN mem |-> IF i - a \in 0 .. (n - 1) THEN t ELSE mem[i]]
  BY <1>2, <1>4 DEF GuestWrite
<1>6. HpMem(mem')
  BY <1>1, <1>5 DEF HpMem
<1>7. ASSUME NEW b, NEW k, HpLive(blocks, b, k), b # a, NEW i \in 1 .. k
      PROVE  mem'[b + i - 1] = mem[b + i - 1]
  <2>1. b + i - 1 \in DOMAIN mem
    BY <1>1, <1>7, HpInside DEF HpMem
  <2>2. (b + i - 1) - a \notin 0 .. n - 1
    BY <1>1, <1>3, <1>4, <1>7, HpOutside
  <2> QED
    BY <1>5, <2>1, <2>2
<1>8. HpShown(Contents, blocks, mem) /\ HpShown(Contents', blocks, mem')
  BY <1>1, HpShows, HpShowsNext
<1>9. HpLive(blocks, a, n)
  BY <1>3, <1>4 DEF HpLive
<1>10. HpWrites(Contents, Contents')
  <2>1. HpStill(blocks, a, mem, mem')
    BY <1>7 DEF HpStill
  <2> QED
    BY <1>1, <1>8, <1>9, <2>1, HpWritten
<1> QED
  BY <1>1, <1>6, <1>10 DEF HpInv, HpStep, HpMem

\* realloc in place: the block, or the block and the free one behind it, holds n.
LEMMA HpResizing ==
  ASSUME HpInv, NEW a, NEW n \in Requests, NEW i, i = FindBlock(blocks, a), i # 0,
         NEW g, g = blocks \/ (i < Len(blocks) /\ ~blocks[i + 1].used /\ g = MergeNext(blocks, i)),
         Rounded(n) <= g[i].size, NEW x, x = [g EXCEPT ![i].requested = n],
         blocks' = Shrink(x, i, Rounded(n)), mem' = mem
  PROVE  HpInv' /\ HpStep
<1>1. HpTable(blocks) /\ HpSpaced(blocks) /\ HpMem(mem) /\ blocks \in Seq(HpBlocks) /\ Len(blocks) \in Nat
  BY HpLength DEF HpInv, HpTable
<1>2. i \in 1 .. Len(blocks) /\ blocks[i].used /\ blocks[i].offset = a
  <2>1. i \in 0 .. Len(blocks) /\ blocks[i].used /\ blocks[i].offset = a
    BY <1>1, HpFound
  <2> QED
    BY <1>1, <2>1
<1>3. HpKeeps(g, blocks) /\ i \in 1 .. Len(g) /\ g[i].used /\ g[i].offset = blocks[i].offset
  <2>1. CASE g = blocks
    BY <1>1, <1>2, <2>1, HpKeepsItself
  <2>2. CASE i < Len(blocks) /\ ~blocks[i + 1].used /\ g = MergeNext(blocks, i)
    BY ONLY <1>1, <1>2, <2>2, HpMergedUsed
  <2> QED
    BY <2>1, <2>2
<1>4. HpTable(blocks') /\ HpSpaced(blocks') /\ HpOther(blocks', blocks, a, a, n)
  <2>1. blocks' = Shrink([g EXCEPT ![i].requested = n], i, Rounded(n))
    OBVIOUS
  <2>2. HpTable(blocks') /\ HpSpaced(blocks') /\ HpOther(blocks', blocks, blocks[i].offset, blocks[i].offset, n)
    BY ONLY <1>1, <1>2, <1>3, <2>1, n \in Requests, Rounded(n) <= g[i].size, HpResized
  <2> QED
    BY <1>2, <2>2
<1>5. PICK old : HpLive(blocks, a, old)
  BY <1>2 DEF HpLive
<1>6. HpShown(Contents, blocks, mem) /\ HpShown(Contents', blocks', mem)
  BY <1>1, <1>4, HpShows, HpShowsNext
<1>7. HpStill(blocks, a, mem, mem) /\ HpCopied(mem, a, old, mem, a, n)
  BY DEF HpStill, HpCopied
<1>8. HpMoves(Contents, Contents')
  BY ONLY <1>1, <1>4, <1>5, <1>6, <1>7, HpMoved
<1> QED
  BY <1>1, <1>4, <1>8 DEF HpInv, HpStep, HpMem

\* realloc to another block: a new block, a copy, and the old block freed.
LEMMA HpCopying ==
  ASSUME HpInv, NEW a, NEW n \in Requests, NEW i, i = FindBlock(blocks, a), i # 0,
         NEW j, j = FirstFit(blocks, n), j # 0, NEW p, p = blocks[j].offset, NEW old, old = blocks[i].requested,
         NEW bs, bs = HeapAllocated(blocks, n), blocks' = Freed(bs, FindBlock(bs, a)),
         mem' = [b \in DOMAIN mem |-> IF b - p \in 0 .. ((IF old < n THEN old ELSE n) - 1)
                                      THEN mem[a + b - p] ELSE mem[b]]
  PROVE  HpInv' /\ HpStep
<1>1. HpTable(blocks) /\ HpSpaced(blocks) /\ HpMem(mem) /\ blocks \in Seq(HpBlocks) /\ Len(blocks) \in Nat
  BY HpLength DEF HpInv, HpTable
<1>2. i \in 1 .. Len(blocks) /\ blocks[i].used /\ blocks[i].offset = a
  <2>1. i \in 0 .. Len(blocks) /\ blocks[i].used /\ blocks[i].offset = a
    BY <1>1, HpFound
  <2> QED
    BY <1>1, <2>1
<1>3. HpLive(blocks, a, old)
  BY <1>2 DEF HpLive
<1>4. /\ j \in 1 .. Len(blocks) /\ n <= blocks[j].size
      /\ HpTable(bs) /\ HpSpaced(bs) /\ HpMore(bs, blocks, p, n)
  <2>1. /\ j \in 1 .. Len(blocks) /\ n <= blocks[j].size
        /\ HpTable(bs) /\ HpSpaced(bs) /\ HpMore(bs, blocks, blocks[j].offset, n)
    BY ONLY <1>1, n \in Requests, j = FirstFit(blocks, n), j # 0, bs = HeapAllocated(blocks, n), HpAllocated
  <2> QED
    BY <2>1
<1>5. /\ HpLive(bs, a, old) /\ HpLive(bs, p, n) /\ a # p
      /\ \A k : ~HpLive(blocks, p, k)
  BY <1>3, <1>4 DEF HpMore
<1>6. PICK k : k = FindBlock(bs, a)
  OBVIOUS
<1>7. k \in 1 .. Len(bs) /\ bs[k].offset = a
  <2>1. bs \in Seq(HpBlocks) /\ Len(bs) \in Nat
    BY <1>4, HpLength DEF HpTable
  <2>2. /\ k \in 0 .. Len(bs) /\ (k # 0 => bs[k].used /\ bs[k].offset = a)
        /\ k = 0 => ~\E m : HpLive(bs, a, m)
    BY ONLY <1>6, <2>1, HpFound
  <2>3. k # 0
    BY <1>5, <2>2
  <2> QED
    BY <2>1, <2>2, <2>3
<1>8. HpTable(blocks') /\ HpSpaced(blocks') /\ HpFewer(blocks', bs, a)
  <2>1. blocks' = Freed(bs, k)
    BY <1>6
  <2>2. HpTable(blocks') /\ HpSpaced(blocks') /\ HpFewer(blocks', bs, bs[k].offset)
    BY ONLY <1>4, <1>7, <2>1, HpFreed
  <2> QED
    BY <1>7, <2>2
<1>9. HpOther(blocks', blocks, a, p, n)
  <2>1. ASSUME NEW c, NEW m
        PROVE  HpLive(blocks', c, m) <=> (HpLive(blocks, c, m) /\ c # a) \/ (c = p /\ m = n)
    <3>1. HpLive(blocks', c, m) <=> HpLive(bs, c, m) /\ c # a
      BY <1>8 DEF HpFewer
    <3>2. HpLive(bs, c, m) <=> HpLive(blocks, c, m) \/ (c = p /\ m = n)
      BY <1>4 DEF HpMore
    <3> QED
      BY <1>5, <3>1, <3>2
  <2> QED
    BY <1>5, <2>1 DEF HpOther
<1>10. PICK s \in Nat : s = (IF old < n THEN old ELSE n) /\ s <= old /\ s <= n
  <2>1. old \in Nat /\ n \in Nat
    BY <1>1, <1>3, HpLies, HpNumbers
  <2> QED
    BY <2>1
<1>11. mem' = [b \in DOMAIN mem |-> IF b - p \in 0 .. (s - 1) THEN mem[a + b - p] ELSE mem[b]]
  BY <1>10
<1>12. a \in Nat /\ p \in Nat /\ old \in Nat /\ n \in Nat
  BY <1>1, <1>3, <1>4, <1>5, HpLies
<1>13. \A m \in 1 .. s : a + m - 1 \in DOMAIN mem /\ p + m - 1 \in DOMAIN mem
  <2>1. ASSUME NEW m \in 1 .. s
        PROVE  a + m - 1 \in DOMAIN mem /\ p + m - 1 \in DOMAIN mem
    <3>1. m \in 1 .. old /\ m \in 1 .. n
      BY <1>10, <1>12
    <3>2. a + m - 1 \in 0 .. HeapBytes - 1 /\ p + m - 1 \in 0 .. HeapBytes - 1
      BY <1>1, <1>3, <1>4, <1>5, <3>1, HpInside
    <3> QED
      BY <1>1, <3>2 DEF HpMem
  <2> QED
    BY <2>1
<1>14. HpMem(mem')
  <2>1. ASSUME NEW b \in 0 .. HeapBytes - 1
        PROVE  mem'[b] \in HeapTags
    <3>1. CASE b - p \in 0 .. (s - 1)
      <4>1. PICK m \in 1 .. s : m = b - p + 1 /\ a + m - 1 = a + b - p
        BY <1>12, <3>1
      <4>2. a + b - p \in DOMAIN mem
        BY <1>13, <4>1
      <4> QED
        BY <1>1, <1>11, <3>1, <4>2 DEF HpMem
    <3>2. CASE b - p \notin 0 .. (s - 1)
      BY <1>1, <1>11, <3>2 DEF HpMem
    <3> QED
      BY <3>1, <3>2
  <2> QED
    BY <1>1, <1>11, <2>1 DEF HpMem
<1>15. HpStill(blocks, a, mem, mem')
  <2>1. ASSUME NEW c, NEW m, HpLive(blocks, c, m), NEW l \in 1 .. m
        PROVE  mem'[c + l - 1] = mem[c + l - 1]
    <3>1. c + l - 1 \in DOMAIN mem
      BY <1>1, <2>1, HpInside DEF HpMem
    <3>2. c # p
      BY <1>5, <2>1
    <3>3. (c + l - 1) - p \notin 0 .. n - 1
      BY <1>1, <1>4, <1>12, <2>1, <3>2, HpOutside
    <3>4. (c + l - 1) - p \notin 0 .. s - 1
      BY <1>10, <1>12, <3>3
    <3> QED
      BY <1>11, <3>1, <3>4
  <2> QED
    BY <2>1 DEF HpStill
<1>16. HpCopied(mem, a, old, mem', p, n)
  <2>1. ASSUME NEW m \in 1 .. s
        PROVE  mem'[p + m - 1] = mem[a + m - 1]
    <3>1. PICK b : b = p + m - 1
      OBVIOUS
    <3>2. b - p \in 0 .. (s - 1) /\ a + b - p = a + m - 1 /\ b \in DOMAIN mem
      BY <1>12, <1>13, <3>1
    <3> QED
      BY <1>11, <3>1, <3>2
  <2> QED
    BY <1>10, <2>1 DEF HpCopied
<1>17. HpShown(Contents, blocks, mem) /\ HpShown(Contents', blocks', mem')
  BY <1>1, <1>8, HpShows, HpShowsNext
<1>18. HpMoves(Contents, Contents')
  BY ONLY <1>1, <1>3, <1>8, <1>9, <1>15, <1>16, <1>17, HpMoved
<1> QED
  BY <1>8, <1>14, <1>18 DEF HpInv, HpStep

\* realloc: it frees, grows in place, or copies.
LEMMA HpRealloc ==
  ASSUME HpInv, NEW a, NEW n \in Requests, ReallocCall(a, n)
  PROVE  HpInv' /\ HpStep
<1>1. PICK i : i = FindBlock(blocks, a) /\ i # 0
  BY DEF ReallocCall
<1>2. PICK g : g = IF Rounded(n) > blocks[i].size /\ i < Len(blocks) /\ ~blocks[i + 1].used
                      /\ blocks[i].size + blocks[i + 1].size >= Rounded(n)
                   THEN MergeNext(blocks, i) ELSE blocks
  OBVIOUS
<1>3. \/ n = 0 /\ blocks' = Freed(blocks, i) /\ UNCHANGED mem
      \/ Rounded(n) <= g[i].size /\ blocks' = Shrink([g EXCEPT ![i].requested = n], i, Rounded(n)) /\ UNCHANGED mem
      \/ /\ Allocs(n)
         /\ LET p == blocks[FirstFit(blocks, n)].offset
                old == blocks[i].requested
                bs == HeapAllocated(blocks, n)
            IN  /\ mem' = [b \in DOMAIN mem |->
                             IF b - p \in 0..((IF old < n THEN old ELSE n) - 1)
                             THEN mem[a + b - p] ELSE mem[b]]
                /\ blocks' = Freed(bs, FindBlock(bs, a))
  BY <1>1, <1>2 DEF ReallocCall
<1>4. CASE n = 0 /\ blocks' = Freed(blocks, i) /\ UNCHANGED mem
  BY <1>1, <1>4, HpFreeing
<1>5. CASE Rounded(n) <= g[i].size /\ blocks' = Shrink([g EXCEPT ![i].requested = n], i, Rounded(n)) /\ UNCHANGED mem
  <2>1. g = blocks \/ (i < Len(blocks) /\ ~blocks[i + 1].used /\ g = MergeNext(blocks, i))
    BY ONLY <1>2
  <2>2. PICK x : x = [g EXCEPT ![i].requested = n] /\ blocks' = Shrink(x, i, Rounded(n))
    BY <1>5
  <2> QED
    BY ONLY HpInv, n \in Requests, <1>1, <1>5, <2>1, <2>2, HpResizing
<1>6. CASE /\ Allocs(n)
           /\ LET p == blocks[FirstFit(blocks, n)].offset
                  old == blocks[i].requested
                  bs == HeapAllocated(blocks, n)
              IN  /\ mem' = [b \in DOMAIN mem |->
                               IF b - p \in 0..((IF old < n THEN old ELSE n) - 1)
                               THEN mem[a + b - p] ELSE mem[b]]
                  /\ blocks' = Freed(bs, FindBlock(bs, a))
  <2>1. PICK j, p, old, bs : /\ j = FirstFit(blocks, n) /\ p = blocks[j].offset
                             /\ old = blocks[i].requested /\ bs = HeapAllocated(blocks, n)
    OBVIOUS
  <2>2. j # 0
    BY <1>6, <2>1 DEF Allocs
  <2>3. /\ mem' = [b \in DOMAIN mem |-> IF b - p \in 0 .. ((IF old < n THEN old ELSE n) - 1)
                                        THEN mem[a + b - p] ELSE mem[b]]
        /\ blocks' = Freed(bs, FindBlock(bs, a))
    BY <1>6, <2>1
  <2> QED
    BY ONLY HpInv, n \in Requests, <1>1, <2>1, <2>2, <2>3, HpCopying
<1> QED
  BY <1>3, <1>4, <1>5, <1>6

\* One free block, and no allocation.
LEMMA HpStarts ==
  ASSUME HeapInit
  PROVE  HpInv /\ Contents = <<>>
<1>1. HeapBytes \in Nat /\ HeapBytes > 0 /\ HeapSlots \in Nat /\ HeapSlots > 0 /\ HpWhole(HeapBytes)
  BY HpNumbers
<1>2. PICK b : b = Block(0, HeapBytes, 0, FALSE) /\ blocks = <<b>>
  BY DEF HeapInit
<1>3. b \in HpBlocks /\ b.offset = 0 /\ b.size = HeapBytes /\ b.requested = 0 /\ ~b.used
  BY <1>1, <1>2 DEF Block, HpBlocks
<1>4. blocks \in Seq(HpBlocks) /\ Len(blocks) = 1 /\ blocks[1] = b /\ DOMAIN blocks = {1}
  <2>1. <<b>> \in Seq(HpBlocks) /\ Len(<<b>>) = 1 /\ <<b>>[1] = b
    BY <1>3
  <2>2. DOMAIN <<b>> = {1}
    OBVIOUS
  <2> QED
    BY <1>2, <2>1, <2>2
<1>5. HpTable(blocks)
  <2>1. HpBlockOk(b)
    BY <1>1, <1>3 DEF HpBlockOk
  <2>2. HpChained(blocks)
    BY <1>1, <1>3, <1>4 DEF HpChained
  <2>3. HpOrdered(blocks)
    BY <1>4 DEF HpOrdered
  <2> QED
    BY <1>1, <1>4, <2>1, <2>2, <2>3 DEF HpTable
<1>6. HpSpaced(blocks)
  BY <1>4 DEF HpSpaced, HpSpacedBut
<1>7. HpMem(mem)
  BY HeapAssumption DEF HeapInit, HpMem
<1>8. Contents = <<>>
  <2>1. {c \in ToSet(blocks) : c.used} = {}
    BY <1>3, <1>4 DEF ToSet
  <2>2. PICK L : L = {c \in ToSet(blocks) : c.used}
    OBVIOUS
  <2>3. Contents = [a \in {c.offset : c \in L} |-> HpBytes(mem, a, (CHOOSE x \in L : x.offset = a).requested)]
    BY <2>2 DEF Contents, HpBytes
  <2>4. {c.offset : c \in L} = {}
    BY <2>1, <2>2
  <2>5. Contents = [a \in {} |-> HpBytes(mem, a, (CHOOSE x \in L : x.offset = a).requested)]
    BY ONLY <2>3, <2>4
  <2> QED
    BY ONLY <2>5
<1> QED
  BY <1>5, <1>6, <1>7, <1>8 DEF HpInv

\* Every call keeps the invariant and is a step of the abstract heap.
LEMMA HpSteps ==
  ASSUME HpInv, [HeapNext]_heapVars
  PROVE  HpInv' /\ [Service!ServiceNext]_Contents
<1>1. CASE HeapNext
  <2>1. HpInv' /\ HpStep
    <3>1. ASSUME NEW n \in Requests, AllocCall(n)
          PROVE  HpInv' /\ HpStep
      BY <3>1, HpAlloc
    <3>2. ASSUME NEW n \in Requests, CallocCall(n)
          PROVE  HpInv' /\ HpStep
      BY <3>2, HpCalloc
    <3>3. ASSUME NEW a, FreeCall(a)
          PROVE  HpInv' /\ HpStep
      BY <3>3, HpFree
    <3>4. ASSUME NEW a, GuestWrite(a)
          PROVE  HpInv' /\ HpStep
      BY <3>4, HpWrite
    <3>5. ASSUME NEW a, NEW n \in Requests, ReallocCall(a, n)
          PROVE  HpInv' /\ HpStep
      BY <3>5, HpRealloc
    <3> QED
      BY ONLY HeapNext, <3>1, <3>2, <3>3, <3>4, <3>5 DEF HeapNext
  <2>2. Service!Disjoint(Contents')
    <3>1. HpTable(blocks')
      BY <2>1 DEF HpInv
    <3>2. HpShown(Contents', blocks', mem')
      BY <3>1, HpShowsNext
    <3> QED
      BY <3>1, <3>2, HpDisjoint
  <2>3. Service!ServiceNext
    BY <2>1, <2>2, HpServes DEF HpStep
  <2> QED
    BY <2>1, <2>3
<1>2. CASE UNCHANGED heapVars
  <2>1. blocks' = blocks /\ mem' = mem
    BY <1>2 DEF heapVars
  <2>2. HpInv'
    BY <2>1 DEF HpInv
  <2>3. Contents' = Contents
    BY <2>1 DEF Contents
  <2> QED
    BY <2>2, <2>3
<1> QED
  BY <1>1, <1>2

\* The allocator implements the abstract heap: no call moves, overlaps or
\* writes another allocation, and a realloc keeps what fits (pw_guest_heap.h).
THEOREM HeapServes == HeapSpec => HeapContract
<1>1. HeapInit => HpInv /\ Service!ServiceInit
  BY HpStarts DEF Service!ServiceInit
<1>2. HpInv /\ [HeapNext]_heapVars => HpInv' /\ [Service!ServiceNext]_Contents
  BY HpSteps
<1> QED
  BY <1>1, <1>2, PTL DEF HeapSpec, HeapContract, Service!ServiceSpec

\* What pw_guest_heap_validate looks at.
LEMMA HpValid ==
  ASSUME HpInv
  PROVE  HeapValid
<1>1. HpTable(blocks) /\ HpSpaced(blocks) /\ Len(blocks) \in Nat /\ DOMAIN blocks = 1 .. Len(blocks)
  BY HpLength DEF HpInv, HpTable
<1>2. Len(blocks) \in 1 .. HeapSlots /\ blocks[1].offset = 0
  BY <1>1 DEF HpTable, HpChained
<1>3. ASSUME NEW i \in 1 .. Len(blocks)
      PROVE  /\ blocks[i].offset + blocks[i].size = IF i = Len(blocks) THEN HeapBytes ELSE blocks[i + 1].offset
             /\ blocks[i].size > 0 /\ blocks[i].size % Granule = 0
             /\ blocks[i].requested <= blocks[i].size
             /\ ~blocks[i].used => blocks[i].requested = 0
  BY <1>1 DEF HpTable, HpChained, HpBlockOk, HpWhole
<1>4. ASSUME NEW i \in 1 .. Len(blocks), ~blocks[i].used, i > 1
      PROVE  blocks[i - 1].used
  <2>1. i \in 2 .. Len(blocks)
    BY <1>1, <1>4
  <2> QED
    BY <1>1, <1>4, <2>1 DEF HpSpaced, HpSpacedBut
<1> QED
  BY <1>1, <1>2, <1>3, <1>4 DEF HeapValid

\* pw_guest_heap_validate, the code's own check before every call, never fails:
\* the blocks tile the heap, no two free blocks touch and none is too small.
THEOREM HeapAlwaysValid == HeapSpec => []HeapValid
<1>1. HeapInit => HpInv
  BY HpStarts
<1>2. HpInv /\ [HeapNext]_heapVars => HpInv'
  BY HpSteps
<1>3. HpInv => HeapValid
  BY HpValid
<1> QED
  BY <1>1, <1>2, <1>3, PTL DEF HeapSpec

\* The table's entries lie in the heap.
LEMMA HpTyped ==
  ASSUME HpInv
  PROVE  HeapTypeOK
<1>1. HpTable(blocks) /\ HpMem(mem) /\ Len(blocks) \in Nat /\ blocks \in Seq(HpBlocks)
  BY HpLength DEF HpInv, HpTable
<1>2. HeapBytes \in Nat /\ HeapSlots \in Nat
  BY HpNumbers
<1> DEFINE R == [offset : 0 .. (HeapBytes - 1), size : 1 .. HeapBytes, requested : Requests \cup {0}, used : BOOLEAN]
<1>3. ASSUME NEW k \in 1 .. Len(blocks)
      PROVE  blocks[k] \in R
  <2>1. blocks[k] \in HpBlocks /\ blocks[k].size > 0
    BY <1>1, HpBlock DEF HpBlockOk
  <2>2. PICK o \in Nat, z \in Nat : o = blocks[k].offset /\ z = blocks[k].size /\ z > 0
    BY <2>1, HpNumbers
  <2>3. o + z <= HeapBytes
    <3>1. CASE k = Len(blocks)
      <4>1. blocks[k].offset + blocks[k].size = HeapBytes
        BY <1>1, <3>1 DEF HpTable, HpChained
      <4> QED
        BY <1>2, <2>2, <4>1
    <3>2. CASE k # Len(blocks)
      <4>1. PICK l \in 1 .. Len(blocks) : l = Len(blocks) /\ k < l
        BY <1>1, <3>2
      <4>2. PICK p \in Nat, s \in Nat : p = blocks[l].offset /\ s = blocks[l].size
        BY <1>1, HpBlock
      <4>3. blocks[k].offset + blocks[k].size <= blocks[l].offset
        BY <1>1, <4>1 DEF HpTable, HpOrdered
      <4>4. blocks[l].offset + blocks[l].size = HeapBytes
        BY <1>1, <4>1 DEF HpTable, HpChained
      <4>5. o + z <= p /\ p + s = HeapBytes
        BY <2>2, <4>2, <4>3, <4>4
      <4> QED
        BY ONLY <4>5, o \in Nat, z \in Nat, p \in Nat, s \in Nat, <1>2
    <3> QED
      BY <3>1, <3>2
  <2>4. o \in 0 .. (HeapBytes - 1) /\ z \in 1 .. HeapBytes
    BY ONLY <1>2, <2>2, <2>3, o \in Nat, z \in Nat
  <2> QED
    BY <2>1, <2>2, <2>4 DEF HpBlocks
<1>4. blocks \in Seq(R)
  <2> HIDE DEF R
  <2>1. \A n \in Nat : \A s : Len(s) = n /\ s \in Seq(HpBlocks) /\ (\A k \in 1 .. n : s[k] \in R) => s \in Seq(R)
    OBVIOUS
  <2> QED
    BY <1>1, <1>3, <2>1
<1> QED
  BY <1>1, <1>4 DEF HeapTypeOK, HpMem

\* Every entry of the block table lies in the heap.
THEOREM HeapTyping == HeapSpec => []HeapTypeOK
<1>1. HeapInit => HpInv
  BY HpStarts
<1>2. HpInv /\ [HeapNext]_heapVars => HpInv'
  BY HpSteps
<1>3. HpInv => HeapTypeOK
  BY HpTyped
<1> QED
  BY <1>1, <1>2, <1>3, PTL DEF HeapSpec

-----------------------------------------------------------------------------
(* Side by side with the other parts.                                      *)

\* Every part's invariant, whichever of them the behaviour is about.
PartsInv ==
    /\ subject \in Subjects
    /\ HpInv /\ StateInv /\ DkInv /\ StageInv /\ PeInv /\ X87Inv
    /\ GtInv /\ GtBounds /\ GtAccount
    /\ FramesInv /\ HoldingInv /\ TitleBounds

\* They hold where the parts start.
LEMMA PartsStart == ASSUME EmptyKey = FALSE, EarlyExit = FALSE PROVE ServicesInit => PartsInv /\ Service!ServiceInit
<1> SUFFICES ASSUME ServicesInit PROVE PartsInv /\ Service!ServiceInit
  OBVIOUS
<1>1. HpInv /\ Service!ServiceInit
  BY HpStarts DEF ServicesInit, Service!ServiceInit
<1>2. StateInv /\ DkInv /\ StageInv /\ PeInv /\ X87Inv
  BY StateStart, DkStart, StageStart, PeStarts, FpInit DEF ServicesInit
<1>3. GtInv /\ GtBounds /\ GtAccount
  BY GtStarts, GtBoundsStart, GtAccountStart DEF ServicesInit
<1>4. FramesInv /\ HoldingInv /\ TitleBounds
  BY FramesStart, HoldingStart, TitleBoundsStart DEF ServicesInit, TitleInit
<1> QED
  BY <1>1, <1>2, <1>3, <1>4 DEF PartsInv, ServicesInit

\* A step is one part's, and the others stay; it keeps every invariant, and the
\* heap and the x87 unit do what they promise of a step.
LEMMA PartsStep ==
  ASSUME EmptyKey = FALSE, EarlyExit = FALSE, PartsInv, [ServicesNext]_servicesVars
  PROVE  PartsInv' /\ [Service!ServiceNext]_Contents /\ [Precise]_x87Vars
<1>1. [HeapNext]_heapVars /\ [StateNext]_stateVars /\ [DesktopNext]_desktopVars
  BY DEF ServicesNext, servicesVars
<1>2. [StageNext]_stageVars /\ [PeNext]_peVars /\ [X87Next]_x87Vars
  BY DEF ServicesNext, servicesVars
<1>3. [GateNext]_gateVars /\ [TitleNext]_titleVars
  BY DEF ServicesNext, servicesVars
<1>4. subject' = subject
  BY DEF ServicesNext, servicesVars, Only
<1>5. HpInv' /\ [Service!ServiceNext]_Contents
  BY <1>1, HpSteps DEF PartsInv
<1>6. StateInv' /\ DkInv'
  BY <1>1, StateStep, DkNext DEF PartsInv
<1>7. StageInv' /\ PeInv' /\ X87Inv' /\ [Precise]_x87Vars
  BY <1>2, StageStep, PeSteps, FpNext DEF PartsInv
<1>8. GtInv' /\ GtBounds' /\ GtAccount'
  BY <1>3, GtMoves, GtBoundsStep, GtAccountStep DEF PartsInv
<1>9. FramesInv' /\ HoldingInv' /\ TitleBounds'
  BY <1>3, FramesStep, HoldingStep, TitleBoundsStep DEF PartsInv
<1> QED
  BY <1>4, <1>5, <1>6, <1>7, <1>8, <1>9 DEF PartsInv

\* Each part's types are in its invariant.
LEMMA PartsTyped == ASSUME EarlyExit = FALSE, PartsInv PROVE ServicesTypeOK
<1>1. HeapTypeOK /\ HeapValid /\ StateTypeOK /\ DesktopTypeOK
  BY HpTyped, HpValid, StateTyped, DkSound DEF PartsInv
<1>2. StageTypeOK /\ PeTypeOK /\ X87TypeOK
  BY StageSoundFromInv, PeSoundFromInv, FpTyped DEF PartsInv
<1>3. GateTypeOK /\ TitleTypeOK
  BY GtTyped, TitleTyped DEF PartsInv
<1> QED
  BY <1>1, <1>2, <1>3 DEF PartsInv, ServicesTypeOK

\* Services: side by side, every part keeps its types and its limits; the heap
\* serves its guest, the registry survives, the native titles hold what the
\* hardware may still use, the gate's log is true, images stay inside their
\* mapping, windows and surfaces name what is there, and every instruction of
\* the x87 unit is precise.
THEOREM PartsAlwaysSound ==
  ASSUME EmptyKey = FALSE, EarlyExit = FALSE
  PROVE  ServicesSpec => /\ []ServicesTypeOK
                         /\ [](StateSurvives /\ StageSound /\ GateHonest /\ RuntimeSound /\ ImageSound)
                         /\ [](WindowsSound /\ SurfacesSound)
                         /\ HeapContract /\ X87Precise
<1>1. ServicesInit => PartsInv /\ Service!ServiceInit
  BY PartsStart
<1>2. PartsInv /\ [ServicesNext]_servicesVars => PartsInv' /\ [Service!ServiceNext]_Contents /\ [Precise]_x87Vars
  BY PartsStep
<1>3. PartsInv => ServicesTypeOK
  BY PartsTyped
<1>4. PartsInv => StateSurvives /\ StageSound /\ GateHonest /\ RuntimeSound /\ ImageSound
  BY StateSurvivesFromInv, StageSoundFromInv, GtHonest, FramesAreWhole, HoldingIsSound, PeSoundFromInv
     DEF PartsInv, RuntimeSound
<1>5. PartsInv => WindowsSound /\ SurfacesSound
  BY DkSound, WnSound DEF PartsInv, DkInv
<1> QED
  BY <1>1, <1>2, <1>3, <1>4, <1>5, PTL DEF ServicesSpec, X87Precise, HeapContract, Service!ServiceSpec
=============================================================================
