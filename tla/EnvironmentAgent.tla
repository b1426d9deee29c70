--------------------------- MODULE EnvironmentAgent ---------------------------
(***************************************************************************)
(* The environment generation agent: a language model that submits a       *)
(* catalog, compiles and revises a design, validates, writes and simulates *)
(* it by calling tools, and answers with the scenario it wrote.  The tools *)
(* keep their state in a closure that is made once for the agent, not for  *)
(* a request: what a request leaves behind the next one finds, until an    *)
(* exception ends the worker process.  Files outlive the process.          *)
(*                                                                         *)
(* The model may call any tool at any time.  A call that is refused and    *)
(* changes nothing is left out.  A file is written whole or not at all.    *)
(*                                                                         *)
(* The scenario's id, which stands for the file name made of it, and the   *)
(* directory asked for, which may be any, say where a scenario goes (its   *)
(* output): the base and the report into that directory, the graph into    *)
(* its subdirectory graphs, the overlay into the directory's counterpart   *)
(* under split_mode, which for every directory outside the scenario root   *)
(* is split_mode itself.  Any of these may be a directory asked for.       *)
(***************************************************************************)
EXTENDS ScenarioDesign

CONSTANTS
    Catalogs, Designs, Revisions,  \* what the model may submit
    Dirs,                          \* directories it may ask for
    Graphs, SplitMode,             \* a directory's subdirectory and counterpart
    Seeds,                         \* sets of files that may be there from the start
    MaxFailedWrites,               \* bound: writes that fail half-way
    None,                          \* no catalog, design, scenario
    Foreign,                       \* content of a file the agent has not written
    NoFile                         \* no output

Ids     == {c.id : c \in Catalogs}
Outputs == Ids \X Dirs
Places  == Dirs \cup {Graphs[d] : d \in Dirs} \cup {SplitMode[d] : d \in Dirs}
Paths   == Ids \X Places \X {"yaml", "json"}

BasePath(f)    == <<f[1], f[2], "yaml">>
GraphPath(f)   == <<f[1], Graphs[f[2]], "yaml">>
OverlayPath(f) == <<f[1], SplitMode[f[2]], "yaml">>
ReportPath(f)  == <<f[1], f[2], "json">>

ASSUME EnvironmentAssumption ==
    /\ MaxFailedWrites \in Nat
    /\ NoFile \notin Outputs
    /\ \A s \in Seeds : s \subseteq Paths
    /\ \A d \in Dirs : d # Graphs[d] /\ d # SplitMode[d] /\ Graphs[d] # SplitMode[d]

VARIABLES
    epc,        \* control state of the worker
    catalog,    \* submitted_catalog
    design,     \* latest_semantic_design
    compiled,   \* semantic_compile_succeeded
    report,     \* compiled_design_report
    draft,      \* the scenario the draft store assembles
    validated,  \* draft.validation_passed
    writtenTo,  \* output of draft.scenario_path; the overlay's path goes with it
    owned,      \* output of owned_scenario_path; overlay and report path go with it
    disk,       \* what is in the files that are there
    simulated,  \* a simulation of this request has answered ok
    lastWrite,  \* output of the last write of this request, if it wrote one
    answer,     \* the scenario the request was answered with, and its overlay
    failedWrites,
    tested,     \* history: base and overlay the last good simulation ran
    fresh,      \* history: a design has been compiled since
    mine        \* history: files this process has written

closureVars  == <<catalog, design, compiled, report, draft, validated, writtenTo, owned>>
evidenceVars == <<simulated, lastWrite, answer, tested, fresh>>
diskVars     == <<disk, failedWrites, mine>>
envVars      == <<epc, closureVars, evidenceVars, diskVars>>

(* What is in a file.  An overlay refers to the base it was written with.   *)
Base(scenario)       == [kind |-> "base", of |-> scenario]
Graph(scenario)      == [kind |-> "graph", of |-> scenario]
Overlay(scenario, f) == [kind |-> "overlay", of |-> scenario, base |-> f]

EnvInit ==
    /\ epc = "idle"
    /\ catalog = None /\ design = None /\ report = None /\ draft = None
    /\ compiled = FALSE /\ validated = FALSE
    /\ writtenTo = NoFile /\ owned = NoFile
    /\ simulated = FALSE /\ lastWrite = NoFile /\ answer = None
    /\ tested = None /\ fresh = FALSE
    /\ \E s \in Seeds : disk = [p \in s |-> Foreign]
    /\ failedWrites = 0
    /\ mine = {}

NewProcess ==
    /\ catalog' = None /\ design' = None /\ report' = None /\ draft' = None
    /\ compiled' = FALSE /\ validated' = FALSE
    /\ writtenTo' = NoFile /\ owned' = NoFile

NewRequest ==
    /\ simulated' = FALSE /\ lastWrite' = NoFile /\ answer' = None
    /\ tested' = None /\ fresh' = FALSE

StartRequest ==
    /\ epc = "idle"
    /\ epc' = "working"
    /\ NewRequest
    /\ UNCHANGED <<closureVars, diskVars>>

(***************************************************************************)
(* Catalog and design.                                                     *)
(***************************************************************************)

(* A new catalog withdraws the design made for the last one.  Draft, paths  *)
(* and validation of the draft stay as they are.                            *)
SubmitCatalog(c) ==
    /\ epc = "working"
    /\ AcceptedCatalog(c)
    /\ catalog' = c
    /\ design' = None /\ report' = None /\ compiled' = FALSE
    /\ UNCHANGED <<epc, draft, validated, writtenTo, owned, evidenceVars, diskVars>>

(* Mutant: the draft is made anew and keeps the path of the old one.        *)
RebuildDraftInPlace(d) ==
    /\ draft' = Compile(catalog, d)
    /\ compiled' = Valid(draft') /\ validated' = compiled'
    /\ report' = <<catalog, d>>
    /\ UNCHANGED writtenTo

(* A complete design replaces the draft, which loses its path, and is       *)
(* validated at once.                                                       *)
RebuildDraft(d) ==
    /\ draft' = Compile(catalog, d)
    /\ compiled' = Valid(draft') /\ validated' = compiled'
    /\ report' = <<catalog, d>>
    /\ writtenTo' = NoFile

WithdrawDraft ==
    /\ report' = None /\ compiled' = FALSE /\ validated' = FALSE
    /\ UNCHANGED <<draft, writtenTo>>

CompileParsed(d) ==
    /\ design' = d
    /\ IF Complete(catalog, d) THEN RebuildDraft(d) ELSE WithdrawDraft
    /\ fresh' = TRUE
    /\ UNCHANGED <<epc, catalog, owned, simulated, lastWrite, answer, tested, diskVars>>

CompileDesign(d) ==
    /\ epc = "working" /\ catalog # None
    /\ CompileParsed(d)

(* The design does not fit its schema: the last one that did stays to be    *)
(* revised.                                                                 *)
DesignSchemaError ==
    /\ epc = "working" /\ catalog # None
    /\ WithdrawDraft
    /\ UNCHANGED <<epc, catalog, design, owned, evidenceVars, diskVars>>

ReviseDesign(r) ==
    /\ epc = "working" /\ design # None
    /\ Mergeable(design, r)
    /\ CompileParsed(Revised(design, r))

ValidateDraft ==
    /\ epc = "working" /\ compiled
    /\ validated' = Valid(draft)
    /\ UNCHANGED <<epc, catalog, design, compiled, report, draft, writtenTo, owned, evidenceVars, diskVars>>

(***************************************************************************)
(* Files.                                                                  *)
(***************************************************************************)

(* A file that exists is overwritten only where it is the one of its kind   *)
(* this process has written last.                                           *)
Free(p, written) == p \in DOMAIN disk => owned # NoFile /\ p = written

(* Mutant: the base scenario is not looked for.                             *)
MayWriteBaseUnchecked(f) ==
    /\ Free(OverlayPath(f), OverlayPath(owned))
    /\ Free(ReportPath(f), ReportPath(owned))

(* The graph is not looked for: it has its scenario's name, and one that is *)
(* there is refreshed, whoever has written it.                              *)
MayWrite(f) ==
    /\ Free(BasePath(f), BasePath(owned))
    /\ Free(OverlayPath(f), OverlayPath(owned))
    /\ Free(ReportPath(f), ReportPath(owned))

(* The files of an output in the order they are written.                    *)
PathsOf(f) == <<BasePath(f), GraphPath(f), OverlayPath(f), ReportPath(f)>>

Content(f, p) ==
    CASE p = BasePath(f)    -> Base(draft)
      [] p = GraphPath(f)   -> Graph(draft)
      [] p = OverlayPath(f) -> Overlay(draft, f)
      [] p = ReportPath(f)  -> report

(* The first n files of f are written, all of them or up to an error.       *)
Dump(f, n) ==
    LET dumped == {PathsOf(f)[k] : k \in 1 .. n}
    IN  /\ disk' = [p \in DOMAIN disk \cup dumped |->
                       IF p \in dumped THEN Content(f, p) ELSE disk[p]]
        /\ mine' = mine \cup dumped

(* There is a validated scenario, f is where it goes, and f may be written. *)
Writable(f) ==
    /\ compiled /\ validated /\ draft # None
    /\ f[1] = draft.id
    /\ MayWrite(f)

(* Paths are recorded when every file has been written.                     *)
WriteFiles(f) ==
    /\ epc = "working"
    /\ Writable(f)
    /\ Dump(f, Len(PathsOf(f)))
    /\ writtenTo' = f /\ owned' = f /\ lastWrite' = f
    /\ UNCHANGED <<epc, catalog, design, compiled, report, draft, validated, simulated, answer, tested, fresh, failedWrites>>

(* Mutant: the answer to a write that failed does not replace the last one.  *)
WriteFailsSilently(f) ==
    /\ epc = "working"
    /\ Writable(f)
    /\ failedWrites < MaxFailedWrites
    /\ \E n \in 0 .. Len(PathsOf(f)) - 1 : Dump(f, n)
    /\ failedWrites' = failedWrites + 1
    /\ UNCHANGED <<epc, closureVars, evidenceVars>>

WriteFails(f) ==
    /\ epc = "working"
    /\ Writable(f)
    /\ failedWrites < MaxFailedWrites
    /\ \E n \in 0 .. Len(PathsOf(f)) - 1 : Dump(f, n)
    /\ failedWrites' = failedWrites + 1
    /\ lastWrite' = NoFile
    /\ UNCHANGED <<epc, closureVars, simulated, answer, tested, fresh>>

(* Blocked, not validated, or a file that is not the agent's: the answer to *)
(* this call is the last one all the same.                                  *)
WriteRefused(f) ==
    /\ epc = "working"
    /\ compiled /\ validated /\ draft # None => f[1] = draft.id /\ ~ MayWrite(f)
    /\ lastWrite' = NoFile
    /\ UNCHANGED <<epc, closureVars, simulated, answer, tested, fresh, diskVars>>

(***************************************************************************)
(* Simulation, answer, and the life of the process.                        *)
(***************************************************************************)
Simulate ==
    /\ epc = "working" /\ compiled /\ writtenTo # NoFile

(* The launcher has started the simulator on the overlay and the base it    *)
(* refers to, and found it ready, with flows: a topology graph that has     *)
(* been put over either of them has none.                                   *)
SimulationPasses ==
    LET overlay == disk[OverlayPath(writtenTo)]
        base    == disk[BasePath(overlay.base)]
    IN  /\ Simulate
        /\ overlay.kind = "overlay" /\ base.kind = "base"
        /\ simulated' = TRUE
        /\ tested' = [base |-> base.of, overlay |-> overlay.of]
        /\ fresh' = FALSE
        /\ UNCHANGED <<epc, closureVars, lastWrite, answer, diskVars>>

SimulationFails ==
    /\ Simulate
    /\ UNCHANGED envVars

(* The answer of the model says nothing of the scenario: it is read from    *)
(* the files of the last write and validated once more.                     *)
Answer ==
    /\ epc = "working"
    /\ simulated
    /\ lastWrite # NoFile
    /\ disk[BasePath(lastWrite)].kind = "base" /\ Valid(disk[BasePath(lastWrite)].of)
    /\ answer' = [base |-> disk[BasePath(lastWrite)].of, overlay |-> disk[OverlayPath(lastWrite)].of]
    /\ epc' = "idle"
    /\ UNCHANGED <<closureVars, simulated, lastWrite, tested, fresh, diskVars>>

(* The model runs out of turns, answers without evidence or cannot be       *)
(* parsed.  The exception passes through the worker loop and ends the       *)
(* process, and with it the closure.                                        *)
RequestRaises ==
    /\ epc = "working"
    /\ epc' = "down"
    /\ NewProcess
    /\ NewRequest
    /\ mine' = {}
    /\ UNCHANGED <<disk, failedWrites>>

Restart ==
    /\ epc = "down"
    /\ epc' = "idle"
    /\ UNCHANGED <<closureVars, evidenceVars, diskVars>>

EnvNext ==
    \/ StartRequest
    \/ \E c \in Catalogs : SubmitCatalog(c)
    \/ \E d \in Designs : CompileDesign(d)
    \/ DesignSchemaError
    \/ \E r \in Revisions : ReviseDesign(r)
    \/ ValidateDraft
    \/ \E f \in Outputs : WriteFiles(f) \/ WriteFails(f) \/ WriteRefused(f)
    \/ SimulationPasses
    \/ SimulationFails
    \/ Answer
    \/ RequestRaises
    \/ Restart

EnvSpec == EnvInit /\ [][EnvNext]_envVars

(***************************************************************************)
(* Properties.                                                             *)
(***************************************************************************)

GraphPaths == {GraphPath(f) : f \in Outputs}

(* A file holds what was written to it, unless it is in a directory that is *)
(* the graphs directory of another and the design's graph was put there.    *)
Holds(p, content) ==
    /\ p \in DOMAIN disk
    /\ disk[p] = content \/ (p \in GraphPaths /\ disk[p] = Graph(draft))

(* What the simulator is started on, the overlay and the base the overlay   *)
(* refers to, is the design the model submitted last, valid and whole on    *)
(* disk, although the flags, the draft and its path are reset by different  *)
(* calls, survive requests, and a call that fails may leave some of them    *)
(* behind, or an overlay that several directories share.                    *)
SimulationRunsTheDesign ==
    compiled /\ writtenTo # NoFile =>
        /\ catalog # None
        /\ Complete(catalog, design) /\ Valid(draft)
        /\ draft = Compile(catalog, design)
        /\ disk[ReportPath(writtenTo)] = <<catalog, design>>
        /\ \E f \in Outputs :
            /\ OverlayPath(f) = OverlayPath(writtenTo)
            /\ Holds(OverlayPath(f), Overlay(draft, f)) /\ Holds(BasePath(f), Base(draft))

(* A request is answered with a base scenario and the overlay of the same   *)
(* design, and with what was simulated unless another design has been       *)
(* compiled since; writes that fail half-way or are refused, earlier        *)
(* requests and lost processes make no difference.                          *)
AnswerIsOneDesign ==
    answer # None =>
        /\ Valid(answer.base)
        /\ answer.overlay = answer.base
        /\ answer = tested \/ fresh

(* "refusing to overwrite an existing scenario" (tools.py:892): a file that *)
(* is there is never changed unless this process has written it, be it      *)
(* another's, a scenario answered before the process was started again, or  *)
(* what a failed write has left of one.  Only where a topology graph goes   *)
(* is nothing looked for: whatever is there, be it another's base scenario, *)
(* the graph of a valid draft replaces it, and nothing else does.           *)
ForeignFilesKept ==
    [][\A p \in DOMAIN disk : disk'[p] # disk[p] =>
          \/ p \in mine
          \/ p \in GraphPaths /\ validated /\ disk'[p] = Graph(draft)]_envVars

(* A reference derived from a name or an APN the model has padded: a gNB    *)
(* the UE prefers, or an APN padded in front.                               *)
PaddedReference(s) ==
    \E u \in Range(s.ues) :
        \/ \E word \in u.preferred : word # Strip(word)
        \/ \E n \in u.sessions : StripBack(n.apn) # Strip(n.apn)

(* A scenario the compiler has made is refused for its names, metrics or    *)
(* size, which the model can revise.  For an identifier or a reference the  *)
(* compiler itself derived it is refused where, and only where, that was    *)
(* derived from a name or an APN with blanks, which is the model's too.     *)
RejectionIsRepairable ==
    draft # None /\ Distinct(draft) =>
        (Resolves(draft) /\ Consistent(draft) <=> ~ PaddedReference(draft))
=============================================================================
