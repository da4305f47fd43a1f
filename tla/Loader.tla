------------------------------- MODULE Loader -------------------------------
(***************************************************************************)
(* The PE loader: src/pw_loader.c finds the modules a program imports,     *)
(* maps each (src/pw_map.c over the reservations of src/pw_vm_posix.c),    *)
(* orders them, protects their pages and releases everything.  The files   *)
(* come from a provider (native/pw_file_ps5.c).  Anything the platform is  *)
(* asked for may be refused, as often as `faults` allows; a refusal that   *)
(* the code ignores leaves a mapping behind, counted in `ignored`.  The    *)
(* sources never run two of these calls at once; one action is one module, *)
(* one import or one visit, as the loops of the loader take them.          *)
(***************************************************************************)
EXTENDS Integers, Sequences, FiniteSets, SequencesExt

CONSTANTS
    Programs,       \* what may be staged, see Program
    SystemModules,  \* pw_module_is_system
    MaxModules, MaxEdges, MaxDepth,
    MaxSpans,       \* PW_FILE_PS5_MAX_OPEN
    MaxFaults       \* calls the platform refuses in a behaviour

\* A program: its root, what each staged file imports (in the order of the
\* import table, as canonical names), and the sections of every
\* file in half pages: [first, last, access], by address.
Program(root, imports, sections) == [root |-> root, imports |-> imports, sections |-> sections]

\* Every name of a staged file or of an import.
ModuleNames ==
    UNION {DOMAIN p.imports \cup UNION {ToSet(p.imports[n]) : n \in DOMAIN p.imports} : p \in Programs}

ASSUME LoaderAssumption ==
    /\ {MaxModules, MaxSpans} \subseteq Nat \ {0} /\ {MaxEdges, MaxDepth, MaxFaults} \subseteq Nat
    /\ \A p \in Programs :
         /\ p.root \in DOMAIN p.imports
         /\ \A n \in DOMAIN p.imports :
              /\ p.imports[n] \in Seq(ModuleNames)
              /\ p.sections[n] \in Seq([first : Nat, last : Nat, access : SUBSET {"r", "w", "x"}]) \ {<<>>}

VARIABLES
    program,
    modules,     \* PwLoader.modules[0 .. module_count-1]; an index counts from 1 here
    cursor,      \* the module whose imports are being resolved, and the next import
    walk,        \* the visits that are active: <<index, next edge>>, innermost last
    order,
    regions,     \* the reservations the backend holds, by what they were made for
    refusals,    \* the reservations whose release the backend refused
    spans,       \* the files the provider holds in memory
    access,      \* the page protections of each mapped image
    step,        \* what the caller of the loader is about to do, see Gate
    result,      \* PW_OK or an error
    faults,
    ignored      \* the mappings left by a refused munmap whose result is ignored

loaderVars == <<program, modules, cursor, walk, order, regions, refusals, spans, access, step, result, faults,
                ignored>>

Writable == {"r", "w"}       \* the protection of a page before its image is finalized

Module(name, kind, depth) ==
    [name |-> name, kind |-> kind, depth |-> depth, deps |-> <<>>,
     mapped |-> FALSE, owned |-> FALSE, protected |-> FALSE]

LoaderInit ==
    /\ program \in Programs
    /\ modules = <<>> /\ cursor = <<1, 1>> /\ walk = <<>> /\ order = <<>>
    /\ regions = {} /\ refusals = {} /\ spans = {} /\ access = <<>>
    /\ result = "ok" /\ faults = MaxFaults /\ ignored = 0

\* n refused munmaps that are ignored, and `others` calls that are refused.
Ignoring(n, others) ==
    /\ faults >= n + others /\ faults' = faults - n - others
    /\ ignored' = ignored + n

-----------------------------------------------------------------------------
(* pw_map_image and pw_map_verify                                          *)

\* How preparing a module can end, with the refused calls it takes: the file
\* is malformed or there is no room for it, and what was reserved is given
\* back; or the release that gives it back is refused, which pw_map_image
\* ignores; or the mapping does not verify.
Prepares == [ok |-> 0, unmapped |-> 0, lost |-> 1, unverified |-> 0]

\* What posix_reserve maps too much, it trims at both ends.
Trims == 0..2

\* The pages of an image: 0 holds the headers, the sections follow.
Pages(name) == 0..(Last(program.sections[name]).last \div 2)

\* prepare_module of modules[i], of which the caller keeps `ms`.
Prepare(ms, i, how) ==
    LET name == ms[i].name
        held == how \in {"ok", "unverified"}
    IN  /\ \E n \in Trims : Ignoring(n, Prepares[how])
        /\ modules' = [ms EXCEPT ![i].mapped = held]
        /\ regions' = IF how = "unmapped" THEN regions ELSE regions \cup {name}
        /\ refusals' = IF how = "lost" THEN refusals \cup {name} ELSE refusals
        /\ access' = IF held THEN [n \in DOMAIN access \cup {name} |->
                                     IF n = name THEN [p \in Pages(name) |-> Writable] ELSE access[n]]
                     ELSE access

\* page_protection: the union of the protections of what overlaps the page.
PageAccess(name, page) ==
    (IF page = 0 THEN {"r"} ELSE {}) \cup
    UNION {s.access : s \in {t \in ToSet(program.sections[name]) : t.first \div 2 <= page /\ page <= t.last \div 2}}

\* The runs of pages with one protection, in order: where each starts.
RunStarts(name) ==
    {p \in Pages(name) : p = 0 \/ PageAccess(name, p) # PageAccess(name, p - 1)}

\* The protections after the runs that start below `stop` were protected: a
\* run that is refused leaves the ones before it applied.
Protected(name, stop) ==
    [p \in Pages(name) |-> IF p < stop THEN PageAccess(name, p) ELSE access[name][p]]

-----------------------------------------------------------------------------
(* pw_loader_load                                                          *)

Find(ms, name) == SelectInSeq(ms, LAMBDA m : m.name = name)

\* Every failure inside pw_loader_load releases what there is and forgets
\* whether that worked.
Fails == step' = "undo" /\ result' = "error"

LoadRoot ==
    /\ step = "load"
    /\ \E how \in DOMAIN Prepares :
         /\ Prepare(<<Module(program.root, "root", 0)>>, 1, how)
         /\ IF how = "ok" THEN step' = "resolve" /\ UNCHANGED result ELSE Fails
    /\ UNCHANGED <<program, cursor, walk, order, spans>>

Importer == modules[cursor[1]]
Imports(m) == IF m.kind = "host" THEN <<>> ELSE program.imports[m.name]
Import == Imports(Importer)[cursor[2]]

Resolving ==
    /\ step = "resolve"
    /\ cursor[1] <= Len(modules)
    /\ cursor[2] <= Len(Imports(Importer))

TooDeep == cursor[2] = 1 /\ Importer.depth + 1 > MaxDepth

\* add_dependency: an edge is recorded once.
Edge(ms, i, target) ==
    IF target \in ToSet(ms[i].deps) THEN ms ELSE [ms EXCEPT ![i].deps = Append(@, target)]
EdgeFits(m, target) == target \in ToSet(m.deps) \/ Len(m.deps) < MaxEdges

\* An import that is registered already, or that the runtime provides itself.
ResolveKnown ==
    /\ Resolving /\ ~TooDeep
    /\ LET known == Find(modules, Import)
           ms == IF known = 0 THEN Append(modules, Module(Import, "host", Importer.depth + 1)) ELSE modules
           target == Find(ms, Import)
       IN  /\ known # 0 \/ (Import \in SystemModules /\ Len(modules) < MaxModules)
           /\ EdgeFits(Importer, target)
           /\ modules' = Edge(ms, cursor[1], target)
    /\ cursor' = <<cursor[1], cursor[2] + 1>>
    /\ UNCHANGED <<program, walk, order, regions, refusals, spans, access, step, result, faults, ignored>>

\* register_local_module: the file is opened and the module registered, so
\* that the file is closed whatever becomes of its mapping.
ResolveLocal ==
    /\ Resolving /\ ~TooDeep
    /\ Find(modules, Import) = 0 /\ Import \notin SystemModules
    /\ Len(modules) < MaxModules
    /\ Import \in DOMAIN program.imports /\ Cardinality(spans) < MaxSpans
    /\ spans' = spans \cup {Import}
    /\ \E how \in DOMAIN Prepares :
         LET target == Len(modules) + 1
             ms == Append(modules, [Module(Import, "local", Importer.depth + 1) EXCEPT !.owned = TRUE])
         IN  IF how = "ok" /\ EdgeFits(Importer, target)
             THEN /\ Prepare(Edge(ms, cursor[1], target), target, how)
                  /\ cursor' = <<cursor[1], cursor[2] + 1>>
                  /\ UNCHANGED <<step, result>>
             ELSE Prepare(ms, target, how) /\ Fails /\ UNCHANGED cursor
    /\ UNCHANGED <<program, walk, order>>

\* An import that cannot be had: too deep, too many modules or edges, no such
\* file, no entry for it once it is read, or the platform refuses to read it
\* (or the table).  A file that was read is unmapped again.
ResolveFails ==
    /\ Resolving
    /\ LET known == Find(modules, Import)
       IN  \/ /\ \/ TooDeep
                 \/ known = 0 /\ Len(modules) = MaxModules
                 \/ known # 0 /\ ~EdgeFits(Importer, known)
                 \/ known = 0 /\ Import \in SystemModules /\ Len(Importer.deps) = MaxEdges
                 \/ known = 0 /\ Import \notin SystemModules \cup DOMAIN program.imports
              /\ UNCHANGED <<faults, ignored>>
           \/ /\ known = 0 /\ Import \notin SystemModules /\ Cardinality(spans) = MaxSpans
              /\ \E n \in 0..1 : Ignoring(n, 0)
           \/ \E n \in 0..1 : Ignoring(n, 1)
    /\ Fails
    /\ UNCHANGED <<program, modules, cursor, walk, order, regions, refusals, spans, access>>

ResolveNext ==
    /\ step = "resolve"
    /\ cursor[1] <= Len(modules) /\ cursor[2] > Len(Imports(Importer))
    /\ cursor' = <<cursor[1] + 1, 1>>
    /\ UNCHANGED <<program, modules, walk, order, regions, refusals, spans, access, step, result, faults, ignored>>

\* pw_loader_compute_order starts at the root.
OrderStart ==
    /\ step = "resolve" /\ cursor[1] > Len(modules)
    /\ walk' = <<<<1, 1>>>>
    /\ step' = "order"
    /\ UNCHANGED <<program, modules, cursor, order, regions, refusals, spans, access, result, faults, ignored>>

Active == {walk[i][1] : i \in DOMAIN walk}

\* visit, when its loop over the edges ends.
Done(i) == Append(order, i)

\* One edge of the innermost visit: to a module that is done, to one that is
\* active (a cycle), or to a new one, which is visited first.
Visit ==
    /\ step = "order" /\ walk # <<>>
    /\ LET index == Last(walk)[1]
           edge == Last(walk)[2]
           next == Append(Front(walk), <<index, edge + 1>>)
       IN  IF edge > Len(modules[index].deps)
           THEN walk' = Front(walk) /\ order' = Done(index)
           ELSE LET target == modules[index].deps[edge]
                IN  /\ walk' = IF target \in ToSet(order) \cup Active THEN next ELSE Append(next, <<target, 1>>)
                    /\ UNCHANGED order
    /\ UNCHANGED <<program, modules, cursor, regions, refusals, spans, access, step, result, faults, ignored>>

OrderEnd ==
    /\ step = "order" /\ walk = <<>>
    /\ IF Len(order) = Len(modules) THEN step' = "loaded" /\ UNCHANGED result ELSE Fails
    /\ UNCHANGED <<program, modules, cursor, walk, order, regions, refusals, spans, access, faults, ignored>>

-----------------------------------------------------------------------------
(* pw_loader_finalize and pw_loader_release                                *)

Unprotected == {i \in DOMAIN modules : modules[i].mapped /\ ~modules[i].protected}

\* Each mapped module in turn; a refused run of pages ends it, with the pages
\* before that run already protected, and with an error for the caller.
Finalize ==
    /\ step = "finalize" /\ result = "ok" /\ Unprotected # {}
    /\ LET i == CHOOSE j \in Unprotected : \A k \in Unprotected : j <= k
           name == modules[i].name
           size == Cardinality(Pages(name))
       IN  \/ /\ access' = [access EXCEPT ![name] = Protected(name, size)]
              /\ modules' = [modules EXCEPT ![i].protected = TRUE]
              /\ UNCHANGED <<result, faults>>
           \/ /\ faults > 0 /\ faults' = faults - 1
              /\ \E stop \in RunStarts(name) : access' = [access EXCEPT ![name] = Protected(name, stop)]
              /\ result' = "error"
              /\ UNCHANGED modules
    /\ UNCHANGED <<program, cursor, walk, order, regions, refusals, spans, step, ignored>>

\* Mutant: a module that is not mapped keeps its file.
MReleasedSpans == {modules[i].name : i \in {j \in DOMAIN modules : modules[j].mapped}}

ReleasedSpans == {modules[i].name : i \in {j \in DOMAIN modules : modules[j].owned}}
MappedNames == {modules[i].name : i \in {j \in DOMAIN modules : modules[j].mapped}}

\* Every mapping is released, or refused and forgotten; every file is closed,
\* which takes its entry even if the munmap is refused; the registry is empty.
Release(refused) ==
    /\ refused \subseteq MappedNames
    /\ \E n \in 0..Cardinality(ReleasedSpans) : Ignoring(n, Cardinality(refused))
    /\ regions' = regions \ (MappedNames \ refused)
    /\ refusals' = refusals \cup refused
    /\ access' = [n \in DOMAIN access \ MappedNames |-> access[n]]
    /\ spans' = spans \ ReleasedSpans
    /\ modules' = <<>> /\ order' = <<>> /\ walk' = <<>> /\ cursor' = <<1, 1>>

Undo ==
    /\ step = "undo"
    /\ \E refused \in SUBSET MappedNames : Release(refused)
    /\ step' = "failed"
    /\ UNCHANGED <<program, result>>

-----------------------------------------------------------------------------
(* What the loader promises between a load and its release.                *)

Reaches(i, j) ==      \* along the recorded edges
    \A s \in SUBSET DOMAIN modules :
        i \in s /\ (\A k \in s : ToSet(modules[k].deps) \subseteq s) => j \in s

\* A module for each import, mapped if it has a file; nothing else.
Closed ==
    \A i \in DOMAIN modules :
        /\ {modules[k].name : k \in ToSet(modules[i].deps)} = ToSet(Imports(modules[i]))
        /\ modules[i].mapped = (modules[i].kind # "host")
        /\ i # 1 => \E k \in DOMAIN modules : i \in ToSet(modules[k].deps) /\ modules[k].depth = modules[i].depth - 1
        /\ \A k \in ToSet(modules[i].deps) : modules[k].depth <= modules[i].depth + 1

\* Every module once, and after what it imports unless they import each other.
Ordered ==
    /\ Len(order) = Len(modules) /\ ToSet(order) = DOMAIN modules
    /\ \A p, q \in DOMAIN order :
         order[q] \in ToSet(modules[order[p]].deps) /\ p < q => Reaches(order[q], order[p])

\* A finalized page has no right that none of the sections on it asks for,
\* and all those that they ask for.
Sealed ==
    \A i \in DOMAIN modules : modules[i].protected =>
        \A p \in Pages(modules[i].name), right \in {"r", "w", "x"} :
            right \in access[modules[i].name][p] <=>
                \/ p = 0 /\ right = "r"
                \/ \E s \in ToSet(program.sections[modules[i].name]) :
                     right \in s.access /\ s.first < 2 * (p + 1) /\ s.last >= 2 * p
=============================================================================
