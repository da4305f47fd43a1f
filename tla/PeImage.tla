------------------------------- MODULE PeImage -------------------------------
(***************************************************************************)
(* From the bytes of a guest image to code that can run: pe_image_parse,   *)
(* pe_layout_plan, pw_map_image with pe_reloc_apply, and pw_import_bind32. *)
(* Every number comes from the file, so each check must hold for whatever  *)
(* the file says, in the 32-bit arithmetic it is made in.                  *)
(*                                                                         *)
(* Numbers are scaled down: a word holds 0 .. Word-1, a page is Page units *)
(* of 2 bytes, a relocation block header 2+2 bytes of them, HeaderUnits,   *)
(* and a thunk ThunkUnits.  What the file holds is chosen as it is read.   *)
(***************************************************************************)
EXTENDS Integers, Sequences, FiniteSets, SequencesExt

CONSTANTS
    Word,          \* 2^32
    Page,          \* PE_MIN_SECTION_ALIGNMENT
    Widths,        \* units a relocation patches: LOW, HIGHLOW, DIR64
    Images,        \* the headers a file may have, and the sections
    Spans,         \* sizes and addresses read from the mapped image
    Bases,         \* addresses the platform may reserve at
    MaxBlocks      \* relocation blocks and imports followed (bound)

HeaderUnits == 2
ThunkUnits == 2

(* Whatever numbers a file has in its headers and its section table.       *)
Words == 0 .. Word - 1
FileSections == [rva : Words, virtual : Words, raw : Words, at : Words]
FileHeaders ==
    [file : Nat, headers : Words, size : Words, bytes : {0}, base : Nat, entry : Words,
     count : Nat, wide : BOOLEAN, reloc : Words \X Words, sections : SUBSET FileSections]

ASSUME PeImageAssumption ==
    /\ Page \in Nat \ {0, 1} /\ Word \in Nat \ {0} /\ Word % Page = 0
    /\ Spans \subseteq Words
    /\ Widths \subseteq Nat \ {0}
    /\ \A b \in Bases : b \in Nat /\ b % Page = 0
    /\ Images \subseteq FileHeaders

VARIABLES
    stage,       \* the next thing to be done
    pe,          \* the headers
    planned,     \* PwLayout.sections
    planEnd,     \* previous_end
    region,      \* the address reserved for the image, or NoRegion
    relocAt,     \* cursor of pe_reloc_apply
    block,       \* the relocation block: [rva, left], or NoBlock
    writes,      \* PwImportBindWorkspace.writes: the slots to be bound
    bound,       \* the slots that were bound
    touched,     \* intervals of the mapping written by the last step
    read,        \* intervals of the file read by the last step
    turns        \* blocks and imports followed

peVars == <<stage, pe, planned, planEnd, region, relocAt, block, writes, bound,
            touched, read, turns>>

NoRegion == -1
NoBlock == [rva |-> 0, left |-> 0]
Overflow == Word
NoHeaders == [file |-> 0, headers |-> 0, size |-> 0, bytes |-> 0, base |-> 0,
            entry |-> 0, count |-> 0, wide |-> FALSE, reloc |-> <<0, 0>>,
            sections |-> {}]

(* The sections a file may describe, each with its numbers from these sets.*)
Sections(rvas, virtuals, raws, offsets) ==
    [rva : rvas, virtual : virtuals, raw : raws, at : offsets]

(* align_up_u32.                                                           *)
AlignUp(value) ==
    IF value > Word - 1 - (Page - 1) THEN Overflow
    ELSE ((value + Page - 1) \div Page) * Page

(* span_ok.                                                                *)
SpanOk(size, offset, n) == n <= size /\ offset <= size - n

PeInit ==
    /\ stage = "parse" /\ pe = NoHeaders /\ planned = <<>> /\ planEnd = 0
    /\ region = NoRegion /\ relocAt = 0 /\ block = NoBlock
    /\ writes = {} /\ bound = {} /\ touched = {} /\ read = {} /\ turns = 0

(* A refusal before the binding releases the mapping if there is one; one  *)
(* in the binding ends the runtime, and the mapping with it.               *)
Refuse ==
    /\ stage' = "refused" /\ region' = NoRegion /\ pe' = NoHeaders
    /\ planned' = <<>> /\ planEnd' = 0 /\ relocAt' = 0 /\ block' = NoBlock
    /\ writes' = {} /\ touched' = {} /\ read' = {} /\ turns' = 0
    /\ UNCHANGED bound

(***************************************************************************)
(* Parsing and planning.                                                   *)
(***************************************************************************)
HeadersPass(h) ==
    /\ h.headers # 0 /\ h.size # 0
    /\ h.base % Page = 0
    /\ h.headers <= h.file
    /\ AlignUp(h.size) # Overflow /\ AlignUp(h.headers) # Overflow
    /\ AlignUp(h.headers) <= AlignUp(h.size)

ParseHeaders(h) ==
    /\ stage = "parse"
    /\ IF HeadersPass(h)
       THEN /\ pe' = [h EXCEPT !.bytes = AlignUp(h.size)]
            /\ planEnd' = AlignUp(h.headers)
            /\ stage' = "plan"
            /\ read' = {<<0, h.headers>>}
            /\ UNCHANGED <<planned, region, relocAt, block, writes, bound,
                           touched, turns>>
       ELSE Refuse

VirtualBytes(s) == IF s.virtual # 0 THEN s.virtual ELSE s.raw
Smaller(a, b) == IF a < b THEN a ELSE b

SectionPass(s) ==
    LET bytes == VirtualBytes(s) IN
    /\ s.raw # 0 => SpanOk(pe.file, s.at, s.raw)
    /\ s.rva % Page = 0
    /\ s.rva >= planEnd
    /\ bytes # 0 /\ AlignUp(bytes) # Overflow
    /\ AlignUp(bytes) <= pe.bytes /\ s.rva <= pe.bytes - AlignUp(bytes)

PlanSection(s) ==
    /\ stage = "plan" /\ Len(planned) < pe.count
    /\ IF SectionPass(s)
       THEN /\ planned' = Append(planned,
                   [rva |-> s.rva, mapped |-> AlignUp(VirtualBytes(s)),
                    bytes |-> VirtualBytes(s), at |-> s.at, size |-> s.raw,
                    raw |-> Smaller(s.raw, VirtualBytes(s))])
            /\ planEnd' = (s.rva + AlignUp(VirtualBytes(s))) % Word
            /\ UNCHANGED <<stage, pe, region, relocAt, block, writes, bound,
                           touched, read, turns>>
       ELSE Refuse

PlanEnds ==
    /\ stage = "plan" /\ Len(planned) = pe.count
    /\ IF planEnd <= pe.bytes /\ (pe.entry # 0 => pe.entry < pe.bytes)
       THEN /\ stage' = "map"
            /\ UNCHANGED <<pe, planned, planEnd, region, relocAt, block, writes,
                           bound, touched, read, turns>>
       ELSE Refuse

(***************************************************************************)
(* Mapping and relocating.                                                 *)
(***************************************************************************)
Relocatable == pe.reloc[1] # 0 /\ pe.reloc[2] # 0
Delta == region - pe.base

(* The copies of pw_map_image: the headers, then each section.             *)
Copies == {<<0, 0, pe.headers>>} \cup
          {<<s.rva, s.at, s.raw>> : s \in {t \in ToSet(planned) : t.raw # 0}}

MapImage(actual) ==
    /\ stage = "map"
    /\ IF /\ Relocatable \/ actual = pe.base
          /\ pe.wide \/ (actual < Word /\ pe.bytes <= Word - actual)
       THEN /\ region' = actual
            /\ touched' = {<<c[1], c[3]>> : c \in Copies}
            /\ read' = {<<c[2], c[3]>> : c \in Copies}
            /\ stage' = IF ~Relocatable THEN "bind" ELSE "reloc"
            /\ relocAt' = pe.reloc[1]
            /\ UNCHANGED <<pe, planned, planEnd, block, writes, bound, turns>>
       ELSE Refuse

RelocEnd == pe.reloc[1] + pe.reloc[2]

RelocStarts ==
    /\ stage = "reloc"
    /\ IF SpanOk(pe.bytes, pe.reloc[1], pe.reloc[2])
       THEN /\ stage' = "blocks"
            /\ touched' = {} /\ read' = {}
            /\ UNCHANGED <<pe, planned, planEnd, region, relocAt, block, writes,
                           bound, turns>>
       ELSE Refuse

RelocBlock(rva, size) ==
    /\ stage = "blocks" /\ block.left = 0 /\ turns < MaxBlocks
    /\ (relocAt + HeaderUnits) % Word <= RelocEnd
    /\ size # 0
    /\ IF size >= HeaderUnits /\ size <= RelocEnd - relocAt /\ rva < pe.bytes
       THEN /\ block' = [rva |-> rva, left |-> size - HeaderUnits]
            /\ relocAt' = relocAt + size
            /\ turns' = turns + 1
            /\ touched' = {}
            /\ UNCHANGED <<stage, pe, planned, planEnd, region, writes, bound,
                           read>>
       ELSE Refuse

(* Padding patches nothing, an unknown type is refused.                    *)
RelocEntry(width, offset) ==
    /\ stage = "blocks" /\ block.left > 0
    /\ LET target == (block.rva + offset) % Word IN
       IF \/ target >= pe.bytes
          \/ width = 0
          \/ Delta # 0 /\ (pe.bytes < width \/ target > pe.bytes - width)
       THEN Refuse
       ELSE /\ touched' = IF Delta = 0 THEN {} ELSE {<<target, width>>}
            /\ block' = [block EXCEPT !.left = @ - 1]
            /\ UNCHANGED <<stage, pe, planned, planEnd, region, relocAt, writes,
                           bound, read, turns>>

RelocPadding ==
    /\ stage = "blocks" /\ block.left > 0
    /\ block' = [block EXCEPT !.left = @ - 1]
    /\ touched' = {}
    /\ UNCHANGED <<stage, pe, planned, planEnd, region, relocAt, writes, bound,
                   read, turns>>

(* The end of the directory, or a block of size 0.                         *)
RelocEnds ==
    /\ stage = "blocks" /\ block.left = 0
    /\ stage' = "bind" /\ turns' = 0 /\ touched' = {} /\ block' = NoBlock
    /\ UNCHANGED <<pe, planned, planEnd, region, relocAt, writes, bound, read>>

(***************************************************************************)
(* Binding the imports: thunks are read from the file, slots are in the    *)
(* mapping, and nothing is written before every import is resolved.        *)
(***************************************************************************)
SectionFor(rva) ==
    {s \in ToSet(planned) : rva >= s.rva /\ rva - s.rva < s.bytes}

(* pe_image_file_offset, or -1.                                            *)
FileOffset(rva, n) ==
    IF rva < pe.headers
    THEN IF rva + n <= pe.headers /\ SpanOk(pe.file, rva, n) THEN rva ELSE -1
    ELSE IF \E s \in SectionFor(rva) :
              /\ rva - s.rva < s.size
              /\ rva - s.rva + n <= s.size
              /\ SpanOk(pe.file, s.at + rva - s.rva, n)
         THEN LET s == CHOOSE t \in SectionFor(rva) : TRUE IN s.at + rva - s.rva
         ELSE -1

(* pw_map_writable.                                                        *)
Writable32(rva) == ThunkUnits <= pe.bytes /\ rva <= pe.bytes - ThunkUnits

(* A bug the overlap test must exclude: comparing starts only.             *)
MMeets(a, b) == a = b
Meets(a, b) == a < b + ThunkUnits /\ b < a + ThunkUnits

BindImport(thunk, slot) ==
    /\ stage = "bind" /\ turns < MaxBlocks /\ ~pe.wide
    /\ pe.bytes = pe.size
    /\ IF /\ FileOffset(thunk, ThunkUnits) # -1
          /\ Writable32(slot)
          /\ ~\E w \in writes : Meets(slot, w)
       THEN /\ writes' = writes \cup {slot}
            /\ read' = {<<FileOffset(thunk, ThunkUnits), ThunkUnits>>}
            /\ turns' = turns + 1
            /\ touched' = {}
            /\ UNCHANGED <<stage, pe, planned, planEnd, region, relocAt, block,
                           bound>>
       ELSE Refuse

(* An import the services do not have; or an image that cannot be bound.   *)
BindFails ==
    /\ stage = "bind"
    /\ Refuse

BindWrites ==
    /\ stage = "bind" /\ ~pe.wide /\ pe.bytes = pe.size
    /\ touched' = {<<w, ThunkUnits>> : w \in writes}
    /\ bound' = writes
    /\ writes' = {} /\ read' = {} /\ turns' = 0
    /\ stage' = "ready"
    /\ UNCHANGED <<pe, planned, planEnd, region, relocAt, block>>

PeNext ==
    \/ \E h \in Images : ParseHeaders(h)
    \/ \E s \in pe.sections : PlanSection(s)
    \/ PlanEnds
    \/ \E a \in Bases : MapImage(a)
    \/ RelocStarts
    \/ \E rva, size \in Spans : RelocBlock(rva, size)
    \/ \E w \in Widths \cup {0}, o \in 0 .. Page - 1 : RelocEntry(w, o)
    \/ RelocPadding
    \/ RelocEnds
    \/ \E t, s \in Spans : BindImport(t, s)
    \/ BindFails
    \/ BindWrites

PeSpec == PeInit /\ [][PeNext]_peVars

(***************************************************************************)
(* Properties                                                              *)
(***************************************************************************)
PeTypeOK ==
    /\ stage \in {"parse", "plan", "map", "reloc", "blocks", "bind", "ready",
                  "refused"}
    /\ region = NoRegion \/ region \in Bases
    /\ Len(planned) <= pe.count
    /\ planEnd \in 0 .. Word - 1
    /\ block.left \in Nat

Within(interval, size) ==
    interval[1] >= 0 /\ interval[1] + interval[2] <= size

(* The parts of an accepted plan: the headers and every section.           *)
Parts == <<<<0, AlignUp(pe.headers)>>>> \o
         [i \in DOMAIN planned |-> <<planned[i].rva, planned[i].mapped>>]

(* Whatever the file says, an accepted plan puts the headers and sections  *)
(* apart and inside the image, every copy, patch and bound slot lies in    *)
(* the mapping, every read in the file, and a 32-bit image ends below      *)
(* 4 GiB.                                                                  *)
ImageContained ==
    stage \notin {"parse", "refused"} =>
        /\ \A i \in DOMAIN Parts : Within(Parts[i], pe.bytes)
        /\ \A i, j \in DOMAIN Parts :
              i < j => Parts[i][1] + Parts[i][2] <= Parts[j][1]
        /\ \A t \in touched : Within(t, pe.bytes)
        /\ \A r \in read : Within(r, pe.file)
        /\ region # NoRegion /\ ~pe.wide => region + pe.bytes <= Word

(* Imports are bound all or none, in slots that do not overlap, and a      *)
(* refused image keeps no mapping.                                         *)
BoundWhole ==
    /\ bound # {} => stage = "ready"
    /\ \A a, b \in bound : a # b => a + ThunkUnits <= b \/ b + ThunkUnits <= a
    /\ stage = "refused" => region = NoRegion

ImageSound == ImageContained /\ BoundWhole
=============================================================================
