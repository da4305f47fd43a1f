---------------------------- MODULE StateStore ----------------------------
(***************************************************************************)
(* The guest's registry (src/pw_registry.c), its file image                *)
(* (src/pw_registry_store.c), and the file the runtime keeps it in         *)
(* (native/pw_state_ps5.c, the loop and the teardown of runtime_main.c),   *)
(* with crashes of the process and of the console between any two system   *)
(* calls.  A path is the sequence of its components.                       *)
(***************************************************************************)
EXTENDS Integers, Sequences, FiniteSets, SequencesExt

CONSTANTS
    SubKeys,       \* the subkeys a guest names; <<>> is the empty string
    MaxPath,       \* PW_REG_PATH_MAX, in components
    ValueNames, ValueData,
    KeySlots, ValueSlots,
    EmptyKey,      \* the guest creates the key with the empty path
    MaxOpens,      \* handles open at once on a key, in a behaviour
    MaxChanges,    \* material changes since the start
    MaxStarts      \* starts of the runtime

Components == UNION {ToSet(s) : s \in SubKeys}

ASSUME StateAssumption ==
    /\ SubKeys \subseteq Seq(Components)
    /\ KeySlots \in Nat \ {0} /\ ValueSlots \in Nat \ {0}
    /\ MaxPath \in Nat /\ MaxChanges \in Nat /\ MaxStarts \in Nat
    /\ MaxOpens \in Nat \ {0}
    /\ EmptyKey \in BOOLEAN

VARIABLES
    reg,       \* keys: the used slots in order; vals: the used slots in order
    gen,       \* PwRegistry.generation
    saved,     \* saved_generation of the loop
    run,       \* what the runtime is doing, see RunStates
    closing,   \* "no" while the guest runs, "yes" in the teardown, then its report
    buffer,    \* the encoded image a save works from
    file,      \* the state file: NoFile, or what it holds
    tmp,       \* the temporary file
    before,    \* what a console crash may bring back in place of file
    acked,     \* the images whose save was reported as done, newest last
    starts

stateVars == <<reg, gen, saved, run, closing, buffer, file, tmp, before, acked, starts>>

RunStates == {"off", "up", "opened", "written", "synced", "closed", "failing", "done", "refused"}

Key(path, opens) == [path |-> path, opens |-> opens]
Value(key, name, data) == [key |-> key, name |-> name, data |-> data]
NoReg == [keys |-> <<>>, vals |-> <<>>]

\* An image: key paths and values, each value with the path of its key.
NoImage == [keys |-> <<>>, vals |-> <<>>]
Encoded(r) ==
    [keys |-> [i \in DOMAIN r.keys |-> r.keys[i].path],
     vals |-> [i \in DOMAIN r.vals |-> [path |-> r.keys[r.vals[i].key].path,
                                        name |-> r.vals[i].name, data |-> r.vals[i].data]]]

\* pw_registry_decode: no key may have an empty path, each value needs its
\* key, and both must fit.  Nothing is open afterwards.
Decodes(m) ==
    /\ \A i \in DOMAIN m.keys : m.keys[i] # <<>>
    /\ \A i \in DOMAIN m.vals : m.vals[i].path \in ToSet(m.keys)
    /\ Len(m.keys) <= KeySlots /\ Len(m.vals) <= ValueSlots
Decoded(m) ==
    [keys |-> [i \in DOMAIN m.keys |-> Key(m.keys[i], 0)],
     vals |-> [i \in DOMAIN m.vals |->
                 Value(SelectInSeq(m.keys, LAMBDA p : p = m.vals[i].path), m.vals[i].name, m.vals[i].data)]]

\* A file is whole if it holds one complete image, and safe if a console
\* crash leaves it so.
NoFile == [image |-> NoImage, whole |-> FALSE, safe |-> TRUE, exists |-> FALSE]
File(image, whole, safe) == [image |-> image, whole |-> whole, safe |-> safe, exists |-> TRUE]

StateInit ==
    /\ reg = NoReg /\ gen = 0 /\ saved = 0
    /\ run = "off" /\ closing = "no"
    /\ buffer = NoImage
    /\ file = NoFile /\ tmp = NoFile /\ before = NoFile
    /\ acked = <<NoImage>>
    /\ starts = 0

-----------------------------------------------------------------------------
(* The guest's calls.  A handle is the slot of its key; 0 is               *)
(* HKEY_CURRENT_USER, which needs no slot and is always open.              *)

Guest == run = "up" /\ closing = "no"
KeyHandles == 0..Len(reg.keys)
Prefix(h) == IF h = 0 THEN <<>> ELSE reg.keys[h].path
FindKey(path) == SelectInSeq(reg.keys, LAMBDA k : k.path = path)
KeyLive(h) == h # 0 /\ reg.keys[h].opens > 0

Changed == gen < MaxChanges /\ gen' = gen + 1
FilesSame == UNCHANGED <<saved, run, closing, buffer, file, tmp, before, acked, starts>>

\* RegCreateKeyExA.  A parent that is closed but known is good enough.
CreateKey(h, sub) ==
    /\ Guest
    /\ LET path == Prefix(h) \o sub
           i == FindKey(path)
       IN  /\ Len(path) <= MaxPath
           /\ \/ /\ i # 0 /\ reg.keys[i].opens < MaxOpens
                 /\ reg' = [reg EXCEPT !.keys[i].opens = @ + 1]
                 /\ gen' = gen
              \/ /\ i = 0 /\ Len(reg.keys) < KeySlots
                 /\ path = <<>> => EmptyKey
                 /\ reg' = [reg EXCEPT !.keys = Append(@, Key(path, 1))]
                 /\ Changed
    /\ FilesSame

\* RegOpenKeyA and RegOpenKeyExA.
OpenKey(h, sub) ==
    /\ Guest
    /\ IF sub = <<>>
       THEN KeyLive(h) /\ reg.keys[h].opens < MaxOpens /\ reg' = [reg EXCEPT !.keys[h].opens = @ + 1]
       ELSE LET i == FindKey(Prefix(h) \o sub)
            IN  i # 0 /\ reg.keys[i].opens < MaxOpens /\ reg' = [reg EXCEPT !.keys[i].opens = @ + 1]
    /\ UNCHANGED gen
    /\ FilesSame

CloseKey(h) ==
    /\ Guest
    /\ KeyLive(h)
    /\ reg' = [reg EXCEPT !.keys[h].opens = @ - 1]
    /\ UNCHANGED gen
    /\ FilesSame

\* RegSetValueExA: the value's slot, or a free one; writing what is there
\* already is no change.
SetValue(h, name, data) ==
    /\ Guest
    /\ KeyLive(h)
    /\ LET i == SelectInSeq(reg.vals, LAMBDA v : v.key = h /\ v.name = name)
       IN  \/ i # 0 /\ reg.vals[i].data # data /\ reg' = [reg EXCEPT !.vals[i].data = data]
           \/ /\ i = 0 /\ Len(reg.vals) < ValueSlots
              /\ reg' = [reg EXCEPT !.vals = Append(@, Value(h, name, data))]
    /\ Changed
    /\ FilesSame

-----------------------------------------------------------------------------
(* A save, from the loop at most once a second, or once from the teardown. *)
(* The guest does not run meanwhile.                                       *)

\* A save has come to an end: the loop goes on, and so does the teardown,
\* which keeps the result for its report.
SaveEnds(result) ==
    IF closing = "no" THEN run' = "up" /\ closing' = "no"
    ELSE run' = "done" /\ closing' = result

\* pw_registry_encode, then the temporary file opened and truncated.
SaveOpen ==
    /\ run = "up" /\ gen # saved
    /\ \/ /\ run' = "opened" /\ closing' = closing
          /\ buffer' = Encoded(reg) /\ tmp' = File(NoImage, FALSE, FALSE)
       \/ SaveEnds("failed") /\ UNCHANGED <<buffer, tmp>>
    /\ UNCHANGED <<reg, gen, saved, file, before, acked, starts>>

\* write_all: everything, or an error after a part.
SaveWrite ==
    /\ run = "opened"
    /\ \/ run' = "written" /\ tmp' = File(buffer, TRUE, FALSE)
       \/ run' = "failing" /\ tmp' = tmp
    /\ UNCHANGED <<reg, gen, saved, closing, buffer, file, before, acked, starts>>

\* Mutant: the data is not forced to the disk.
MSaveSync ==
    /\ run = "written"
    /\ run' = "synced"
    /\ UNCHANGED <<reg, gen, saved, closing, buffer, file, tmp, before, acked, starts>>

SaveSync ==
    /\ run = "written"
    /\ \/ run' = "synced" /\ tmp' = [tmp EXCEPT !.safe = TRUE]
       \/ run' = "failing" /\ tmp' = tmp
    /\ UNCHANGED <<reg, gen, saved, closing, buffer, file, before, acked, starts>>

SaveClose ==
    /\ run = "synced"
    /\ run' \in {"closed", "failing"}
    /\ UNCHANGED <<reg, gen, saved, closing, buffer, file, tmp, before, acked, starts>>

\* rename, and the report that the generation is saved.  The directory is not
\* synced, so a crash may still find the old file.
SaveRename ==
    /\ run = "closed"
    /\ \/ /\ SaveEnds("ok")
          /\ file' = tmp /\ tmp' = NoFile
          /\ before' \in {before, file}
          /\ acked' = Append(acked, buffer) /\ buffer' = NoImage
          /\ saved' = IF closing = "no" THEN gen ELSE saved
       \/ run' = "failing" /\ UNCHANGED <<closing, buffer, file, tmp, before, acked, saved>>
    /\ UNCHANGED <<reg, gen, starts>>

\* A failed save unlinks the temporary file, or fails to.
SaveFail ==
    /\ run = "failing"
    /\ SaveEnds("failed")
    /\ tmp' \in {tmp, NoFile} /\ buffer' = NoImage
    /\ UNCHANGED <<reg, gen, saved, file, before, acked, starts>>

-----------------------------------------------------------------------------
(* Starts and ends.                                                        *)

\* pw_state_ps5_load_registry: no file is an empty registry, a bad one aborts.
Start ==
    /\ run \in {"off", "refused"} /\ starts < MaxStarts
    /\ starts' = starts + 1
    /\ gen' = 0 /\ saved' = 0
    /\ IF ~file.exists THEN run' = "up" /\ reg' = NoReg
       ELSE IF file.whole /\ Decodes(file.image) THEN run' = "up" /\ reg' = Decoded(file.image)
       ELSE run' = "refused" /\ reg' = NoReg
    /\ UNCHANGED <<closing, buffer, file, tmp, before, acked>>

\* The guest returns or exits, and the teardown begins.
GuestReturn ==
    /\ Guest
    /\ closing' = "yes"
    /\ UNCHANGED <<reg, gen, saved, run, buffer, file, tmp, before, acked, starts>>

\* A teardown that finds nothing to save.
Finish ==
    /\ run = "up" /\ closing = "yes" /\ gen = saved
    /\ SaveEnds("ok")
    /\ UNCHANGED <<reg, gen, saved, buffer, file, tmp, before, acked, starts>>

\* The process aborts or is killed: the kernel keeps its files.
Kill ==
    /\ run \notin {"off", "refused"}
    /\ run' = "off" /\ closing' = "no"
    /\ reg' = NoReg /\ gen' = 0 /\ saved' = 0 /\ buffer' = NoImage
    /\ UNCHANGED <<file, tmp, before, acked, starts>>

\* The console loses power: the last rename may be undone, and a file that was
\* not synced holds anything.
Lost(f) == IF f.safe THEN {f} ELSE {f, [f EXCEPT !.whole = FALSE]}
Outage ==
    /\ \E f \in {file, before} : file' \in Lost(f) /\ before' = file'
    /\ tmp' \in Lost(tmp) \cup {NoFile}
    /\ run' = "off" /\ closing' = "no"
    /\ reg' = NoReg /\ gen' = 0 /\ saved' = 0 /\ buffer' = NoImage
    /\ UNCHANGED <<acked, starts>>

StateNext ==
    \/ \E h \in KeyHandles, sub \in SubKeys : CreateKey(h, sub) \/ OpenKey(h, sub)
    \/ \E h \in KeyHandles : CloseKey(h) \/ \E n \in ValueNames, d \in ValueData : SetValue(h, n, d)
    \/ SaveOpen \/ SaveWrite \/ SaveSync \/ SaveClose \/ SaveRename \/ SaveFail
    \/ Start \/ GuestReturn \/ Finish \/ Kill \/ Outage

StateSpec == StateInit /\ [][StateNext]_stateVars

-----------------------------------------------------------------------------
StateTypeOK ==
    /\ run \in RunStates /\ closing \in {"no", "yes", "ok", "failed"}
    /\ run = "done" <=> closing \in {"ok", "failed"}
    /\ gen \in 0..MaxChanges /\ saved \in 0..MaxChanges
    /\ Len(reg.keys) <= KeySlots /\ Len(reg.vals) <= ValueSlots
    /\ \A k \in ToSet(reg.keys) : k.opens \in 0..MaxOpens /\ Len(k.path) <= MaxPath
    /\ \A v \in ToSet(reg.vals) : v.key \in DOMAIN reg.keys
    /\ \A i, j \in DOMAIN reg.keys : reg.keys[i].path = reg.keys[j].path => i = j

\* Whenever the console or the process stops, the next start finds a state it
\* accepts, and one that was saved as a whole; a save that was reported is
\* found as it was, or (the rename is not yet on disk) the state before it,
\* also when the one save of the teardown fails; and a title that changed its
\* registry and whose teardown reports the state as kept left the last one.
StateSurvives ==
    /\ run # "refused"
    /\ \A f \in {file, before} :
         f.exists => f.whole /\ f.safe /\ f.image \in ToSet(acked)
    /\ run \notin {"off", "refused"} /\ file.exists =>
         file.image = acked[Len(acked)] \/ file = before
    /\ closing = "ok" /\ gen # 0 => file.image = Encoded(reg)
=============================================================================
