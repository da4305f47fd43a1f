-------------------------------- MODULE Gate --------------------------------
(***************************************************************************)
(* The pe-map title (native/main.c): it probes the platform, runs the      *)
(* gate of src/pw_gate.c once and ends.  What it leaves is its log, whose  *)
(* last record, PW_EXIT, the operator trusts.  Each exit closes the log    *)
(* channel, and every one of them is modelled.                             *)
(***************************************************************************)
EXTENDS Loader, FiniteSetsExt

CONSTANT ReportLines       \* PW_GATE_MAX_LINES
ASSUME GateAssumption == ReportLines \in Nat \ {0}

VARIABLES
    low,         \* the pages below 4 GiB the compat32 probe holds
    lines,       \* the records in the report
    owed,        \* the records that tell all of this run, a history variable
    missed,      \* PwGateReport.truncated is not 0
    counted,     \* the mapped modules pw_gate_run counted
    exit         \* the PW_EXIT record, or NoExit

gateVars == <<loaderVars, low, lines, owed, missed, counted, exit>>

NoExit == [status |-> "none", mapped |-> 0, released |-> 0, truncated |-> FALSE]
ProbePages == {"code", "data"}
CandidateBases == 5

GateInit ==
    /\ LoaderInit
    /\ step = "scratch"
    /\ low = {} /\ lines = 0 /\ owed = 0 /\ missed = FALSE /\ counted = 0 /\ exit = NoExit

LoadSame == UNCHANGED <<program, modules, cursor, walk, order, access>>
ReportSame == UNCHANGED <<lines, owed, missed, counted, exit>>

\* The steps before the probes, and the backend: a refusal ends the title.
Prelude ==
    /\ \E next \in {<<"scratch", "smoke">>, <<"smoke", "install">>, <<"backend", "exec">>} :
         step = next[1] /\ step' = next[2]
    /\ UNCHANGED <<regions, refusals, spans, low, result, faults, ignored>> /\ LoadSame /\ ReportSame

\* A file that could not be read to its end is unmapped again.
PreludeFails ==
    /\ step \in {"scratch", "smoke", "root"}
    /\ \E n \in 0..1 : n <= (IF step = "root" THEN 1 ELSE 0) /\ Ignoring(n, 1)
    /\ step' = "closed" /\ result' = "error"
    /\ UNCHANGED <<regions, refusals, spans, low>> /\ LoadSame /\ ReportSame

\* pw_compat32_probe, whose outcome the title only reports: descriptors, two
\* pages at one of the candidate bases (a base that is taken, or whose second
\* page is, gives back what it got), the stub and its protection.
CompatReserve ==
    /\ step = "install"
    /\ \E n \in 0..CandidateBases :
         \/ Ignoring(n, 0) /\ low' = ProbePages /\ step' = "sealing"
         \/ Ignoring(n, 1) /\ low' = {} /\ step' = "backend"       \* no descriptor, or no base
    /\ UNCHANGED <<regions, refusals, spans, result>> /\ LoadSame /\ ReportSame

CompatRelease ==
    /\ step = "sealing"
    /\ \E n \in 0..Cardinality(low), sealing \in {0, 1} : Ignoring(n, sealing)
    /\ low' = {} /\ step' = "backend"
    /\ UNCHANGED <<regions, refusals, spans, result>> /\ LoadSame /\ ReportSame

\* pw_exec_probe: a reservation of its own, released whatever happened on it.
ExecProbe ==
    /\ step = "exec"
    /\ \/ /\ \E n \in Trims : Ignoring(n, 0)
          /\ step' = "root" /\ UNCHANGED <<regions, refusals, result>>
       \/ \* reserving, or a later step of it, is refused
          /\ \E n \in Trims : Ignoring(n, 1)
          /\ step' = "closed" /\ result' = "error" /\ UNCHANGED <<regions, refusals>>
       \/ \* releasing it is refused, after a success or a failure
          /\ \E n \in Trims, others \in 1..2 : Ignoring(n, others)
          /\ regions' = regions \cup {"probe"} /\ refusals' = refusals \cup {"probe"}
          /\ step' = "closed" /\ result' = "error"
    /\ UNCHANGED <<spans, low>> /\ LoadSame /\ ReportSame

\* The root's file, and the boot record.
RootOpen ==
    /\ step = "root"
    /\ spans' = spans \cup {program.root}
    /\ lines' = 1 /\ owed' = 2
    /\ step' = "load"
    /\ UNCHANGED <<regions, refusals, low, result, faults, ignored, missed, counted, exit>> /\ LoadSame

\* The loader's own steps.
Load ==
    /\ \/ LoadRoot \/ ResolveKnown \/ ResolveLocal \/ ResolveFails \/ ResolveNext
       \/ OrderStart \/ Visit \/ OrderEnd \/ Finalize \/ Undo
    /\ UNCHANGED low /\ ReportSame

\* n records, as far as there is room; the others are missed.
Records(n) ==
    /\ lines' = Min({lines + n, ReportLines})
    /\ missed' = (missed \/ lines + n > ReportLines)

\* The edges, each of which has its record.
EdgeRecords == UNION {{i} \X DOMAIN modules[i].deps : i \in DOMAIN modules}

\* The module, dependency, order and graph records of a load that succeeded.
LoadRecords == Len(modules) + Cardinality(EdgeRecords) + Len(order) + 1
RecordLoad ==
    /\ step = "loaded"
    /\ Records(LoadRecords)
    /\ counted' = Cardinality(MappedNames)
    /\ owed' = owed + LoadRecords + counted'
    /\ step' = "finalize"
    /\ UNCHANGED <<regions, refusals, spans, low, result, faults, ignored, exit>> /\ LoadSame

\* The protections of every mapped module, when all have them or one failed.
RecordProtection ==
    /\ step = "finalize" /\ (Unprotected = {} \/ result = "error")
    /\ Records(counted)
    /\ step' = "release"
    /\ UNCHANGED <<regions, refusals, spans, low, result, faults, ignored, owed, counted, exit>> /\ LoadSame

\* The status of the run: the load's or the protections', else the release's.
ExitStatus(refused) == IF result = "ok" /\ refused # {} THEN "error" ELSE result

\* The end of pw_gate_run: what is mapped is released and the exit recorded,
\* if there is still room for it.
GateRelease ==
    /\ step \in {"release", "failed"}
    /\ \E refused \in SUBSET MappedNames :
         /\ Release(refused)
         /\ result' = ExitStatus(refused)
         /\ exit' = IF lines < ReportLines
                    THEN [status |-> result', mapped |-> counted,
                          released |-> IF refused = {} THEN counted ELSE 0, truncated |-> missed]
                    ELSE NoExit
    /\ Records(1)
    /\ step' = "exit"
    /\ UNCHANGED <<program, low, owed, counted>>

\* The root's file is closed, then the channel.
GateExit ==
    /\ step = "exit"
    /\ spans' = spans \ {program.root}
    /\ \E n \in 0..1 : Ignoring(n, 0)
    /\ step' = "closed"
    /\ UNCHANGED <<regions, refusals, low, result>> /\ LoadSame /\ ReportSame

GateNext ==
    \/ Prelude \/ PreludeFails
    \/ CompatReserve \/ CompatRelease \/ ExecProbe \/ RootOpen
    \/ Load
    \/ RecordLoad \/ RecordProtection \/ GateRelease \/ GateExit

GateSpec == GateInit /\ [][GateNext]_gateVars

-----------------------------------------------------------------------------
GateTypeOK ==
    /\ Len(modules) <= MaxModules /\ faults \in 0..MaxFaults
    /\ Cardinality(spans) <= MaxSpans
    /\ lines <= ReportLines /\ ignored \in Nat
    /\ result \in {"ok", "error"}

\* What the log says is so, whatever was refused on the way.  When the
\* channel closes the provider's table and the low pages are given up, no
\* reservation is held but those the backend would not take back, and no more
\* mappings are left than calls were refused: a path that forgets one would
\* leave one for nothing.  An exit record with status ok means that every
\* mapped image was released (it cannot mean that nothing is left: a munmap
\* whose result the code ignores may have been refused).  An exit record at
\* all means that the report is complete, with the protection of every mapped
\* module even when giving them failed; a run that lacks it has missed records.
\* While a program is loaded its registry holds exactly what the imports
\* reach, in an order that puts a module after its imports, and no page has
\* rights that its sections do not ask for.
GateHonest ==
    /\ step = "closed" =>
         /\ spans = {} /\ low = {} /\ regions \subseteq refusals
         /\ Cardinality(regions) + ignored <= MaxFaults - faults
         /\ exit.status = "ok" => regions = {} /\ exit.released = exit.mapped
         /\ exit.status # "none" => lines = owed /\ ~exit.truncated
         /\ exit.status = "none" => owed = 0 \/ missed
    /\ step \in {"loaded", "finalize"} => Closed /\ Ordered
    /\ Sealed
    /\ step = "release" /\ result = "ok" => Unprotected = {} /\ counted = Cardinality(MappedNames)
=============================================================================
