--------------------------- MODULE GraphEvidence ---------------------------
(***************************************************************************)
(* harness/measure_graphs.py: capture, analyze and summarize on the        *)
(* directories of one case, <output>/<workload>/<language> and its fixed   *)
(* staging directory <output>/.staging/<workload>--<language>.             *)
(*                                                                         *)
(* A capture runs one JVM per budget until two consecutive budgets look    *)
(* alike, retains the BGV dumps it selects, deletes the case's directory   *)
(* and renames the staging directory onto it.  An analysis writes a filter *)
(* file next to each retained BGV; a summary reads the filter files.  Any  *)
(* process may be killed between two calls.                                *)
(*                                                                         *)
(* A file is represented by the capture whose JVM produced its content;    *)
(* file names are budgets, so that the dumps of two captures have the same *)
(* names, as they may.  What one run shows is a signature, "unstable"      *)
(* (units resolved, but some problem) or "unresolved".                     *)
(***************************************************************************)
EXTENDS Naturals, Sequences, FiniteSets

CONSTANTS
    Captures, Analysts, Summaries,  \* processes, by their subcommand
    Remeasure,      \* the captures started with --remeasure
    Reanalyze,      \* the analyses started with --reanalyze
    Killable,       \* the processes that may be killed
    Smoke,          \* the captures of the smoke stage
    Exclusive,      \* the processes of which one at a time is at work
    NBudgets,       \* number of budgets in the policy
    Signatures,     \* trace-side signatures of a stable candidate
    Dirty,          \* product versions with uncommitted changes
    MaxProduct,     \* bound on the edits of the product
    None, Torn      \* no such file; a file cut off in the middle

VARIABLES
    product,        \* version of the product checkout
    stage, dest,    \* the two directories of the case, or None
    meta,           \* what each capture puts into its capture.json
    pc,
    at,             \* what an analysis or a summary is looking at
    matrix,         \* the case in matrix.json
    overlapped      \* history: whether processes ever got in each other's way

vars == <<product, stage, dest, meta, pc, at, matrix, overlapped>>

Procs   == Captures \cup Analysts \cup Summaries
Budgets == 1..NBudgets
Outcomes == Signatures \cup {"unstable", "unresolved"}

ASSUME BoundsAssumption == NBudgets \in Nat \ {0} /\ MaxProduct \in Nat
ASSUME ProcessAssumption ==
    /\ Remeasure \subseteq Captures /\ Smoke \subseteq Captures
    /\ Reanalyze \subseteq Analysts
    /\ Killable \subseteq Procs /\ Exclusive \subseteq Procs
    /\ {None, Torn} \cap Captures = {} /\ None # Torn
ASSUME SignatureAssumption ==
    Signatures \cap {"unstable", "unresolved"} = {}

Dirs == [capture : Captures \cup {None},    \* writer of capture.json
         raw     : [Budgets -> Captures \cup {None}],
         bgv     : [Budgets -> Captures \cup {None}],
         filter  : [Budgets -> Captures \cup {None, Torn}]]

ASSUME MissingAssumption == None \notin Dirs

NoFile == [b \in Budgets |-> None]
Fresh  == [capture |-> None, raw |-> NoFile, bgv |-> NoFile, filter |-> NoFile]

Ends   == {"ok", "usage", "dead"}
Phases == {"idle", "identified", "staged", "running", "captured", "retained",
           "failed", "publishing", "erasing", "erased", "staging",
           "destination", "read", "analyzed", "writing"} \cup Ends

Verdicts == [capture : Captures \cup {None}, valid : BOOLEAN,
             from : SUBSET Captures]
NoVerdict == [capture |-> None, valid |-> FALSE, from |-> {}]
Nowhere   == [seen |-> {}, dir |-> "staging", capture |-> None, todo |-> {},
              now |-> None, content |-> None, found |-> NoVerdict]

TypeOK ==
    /\ product \in 0..MaxProduct
    /\ stage \in Dirs \cup {None} /\ dest \in Dirs \cup {None}
    /\ meta \in [Captures -> [product : 0..MaxProduct, runs : Seq(Outcomes),
                              listed : BOOLEAN, valid : BOOLEAN]]
    /\ pc \in [Procs -> Phases]
    /\ at \in [Analysts \cup Summaries ->
                   [seen : SUBSET {"staging", "destination"},
                    dir : {"staging", "destination"},
                    capture : Captures \cup {None}, todo : SUBSET Budgets,
                    now : Budgets \cup {None},
                    content : Captures \cup {None}, found : Verdicts]]
    /\ matrix \in Verdicts /\ overlapped \in BOOLEAN

Init ==
    /\ product = 0 /\ stage = None /\ dest = None
    /\ meta = [c \in Captures |-> [product |-> 0, runs |-> <<>>,
                                   listed |-> FALSE, valid |-> FALSE]]
    /\ pc = [p \in Procs |-> "idle"]
    /\ at = [p \in Analysts \cup Summaries |-> Nowhere]
    /\ matrix = NoVerdict /\ overlapped = FALSE

----------------------------------------------------------------------------
(* Stabilization *)

Candidate(o) == o \in Signatures

AgreeOnAnything(r, i) == r[i + 1] = r[i]                       \* mutant

(* Two consecutive stable candidates with one signature. *)
Agree(r, i) == Candidate(r[i]) /\ r[i + 1] = r[i]

StableAt(r) == {i \in 1..(Len(r) - 1) : Agree(r, i)}
IsStable(r) == StableAt(r) # {}

Pair(r) ==
    UNION {{i, i + 1} : i \in {j \in StableAt(r) :
                                  \A k \in StableAt(r) : j <= k}}

(* The runs whose BGVs are retained, and those that the summary reads.     *)
Kept(r) == IF IsStable(r) THEN Pair(r) ELSE {b \in 1..Len(r) : b > Len(r) - 2}

Retained(r) == {b \in Kept(r) : r[b] # "unresolved"}

Selected(c, r) == IF c \in Smoke THEN {Len(r)} ELSE Pair(r)

----------------------------------------------------------------------------
(* Two captures past the deletion of the staging directory are in each other's
   way, and a reader is if the directory it is in is no longer the one whose
   capture.json it loaded. *)
Prepared == {"staged", "running", "captured", "retained", "failed",
             "publishing", "erasing", "erased"}

Inside(p) == pc[p] \in {"read", "analyzed", "writing"}

Directory(d) == IF d = "staging" THEN stage ELSE dest
Owner(d)     == IF d = None THEN None ELSE d.capture

Overlap ==
    \/ \E c, d \in Captures : c # d /\ pc[c] \in Prepared /\ pc[d] \in Prepared
    \/ \E p \in Analysts \cup Summaries :
          Inside(p) /\ Owner(Directory(at[p].dir)) # at[p].capture

Watch == overlapped' = (overlapped \/ Overlap)   \* by every step

----------------------------------------------------------------------------
(* capture *)

Goto(p, from, to) == pc[p] = from /\ pc' = [pc EXCEPT ![p] = to] /\ Watch

AtWork(p) == pc[p] \notin Ends \cup {"idle"}
MayStart(p) == p \in Exclusive => \A q \in Exclusive : ~AtWork(q)

Staging  == IF stage = None THEN Fresh ELSE stage   \* mkdir(parents=True)

Identify(c) ==
    /\ MayStart(c)
    /\ product \notin Dirty
    /\ Goto(c, "idle", "identified")
    /\ meta' = [meta EXCEPT ![c].product = product]
    /\ UNCHANGED <<product, stage, dest, at, matrix>>

RefuseDirty(c) ==
    /\ MayStart(c)
    /\ product \in Dirty
    /\ Goto(c, "idle", "usage")
    /\ UNCHANGED <<product, stage, dest, meta, at, matrix>>

Key(c) == <<meta[c].product, c \in Smoke>>       \* graph_capture_key()

Reusable(c) ==
    /\ c \notin Remeasure
    /\ Owner(dest) # None
    /\ meta[Owner(dest)].valid
    /\ Key(Owner(dest)) = Key(c)

Reuse(c) ==
    /\ Goto(c, "identified", "ok")
    /\ Reusable(c)
    /\ UNCHANGED <<product, stage, dest, meta, at, matrix>>

OccupiedByEqual(c) ==                                          \* mutant
    /\ c \notin Remeasure
    /\ Owner(dest) # None
    /\ Key(Owner(dest)) = Key(c)

Occupied(c) == c \notin Remeasure /\ dest # None

RefuseEvidence(c) ==
    /\ Goto(c, "identified", "usage")
    /\ ~Reusable(c) /\ Occupied(c)
    /\ UNCHANGED <<product, stage, dest, meta, at, matrix>>

ClearRawOnly(c) ==                                             \* mutant
    /\ Goto(c, "identified", "staged")
    /\ ~Reusable(c) /\ (~Occupied(c) \/ dest = Fresh)
    /\ stage' = [Staging EXCEPT !.raw = NoFile]
    /\ UNCHANGED <<product, dest, meta, at, matrix>>

(* Whatever an earlier process left in the staging directory is deleted.  A
   case's directory without evidence may be empty, and so not be in the way. *)
ClearStaging(c) ==
    /\ Goto(c, "identified", "staged")
    /\ ~Reusable(c) /\ (~Occupied(c) \/ dest = Fresh)
    /\ stage' = Fresh
    /\ UNCHANGED <<product, dest, meta, at, matrix>>

(* The runtime is prepared and the correctness run passes. *)
Prepare(c) ==
    /\ Goto(c, "staged", "running")
    /\ UNCHANGED <<product, stage, dest, meta, at, matrix>>

(* InvalidMeasurement: preparation, correctness, a changed producer.       *)
Reject(c) ==
    /\ Goto(c, "staged", "failed") \/ Goto(c, "retained", "failed")
    /\ UNCHANGED <<product, stage, dest, meta, at, matrix>>

NextBudget(c) == Len(meta[c].runs) + 1
Workdir(c)    == Staging.raw[NextBudget(c)]

RunBudget(c) ==
    /\ pc[c] = "running"
    /\ Workdir(c) = None
    /\ stage' = [Staging EXCEPT !.raw[NextBudget(c)] = c]
    /\ \E o \in Outcomes :
        LET r == Append(meta[c].runs, o) IN
        /\ meta' = [meta EXCEPT ![c].runs = r]
        /\ Goto(c, "running", IF c \in Smoke \/ IsStable(r) \/ Len(r) = NBudgets
                              THEN "captured" ELSE "running")
    /\ UNCHANGED <<product, dest, at, matrix>>

(* A wrong result of a budget's run. *)
BudgetFails(c) ==
    /\ Goto(c, "running", "failed")
    /\ Workdir(c) = None
    /\ stage' = [Staging EXCEPT !.raw[NextBudget(c)] = c]
    /\ UNCHANGED <<product, dest, meta, at, matrix>>

(* Another capture of this case has made the budget's directory. *)
WorkdirExists(c) ==
    /\ Goto(c, "running", "dead")
    /\ Workdir(c) # None
    /\ UNCHANGED <<product, stage, dest, meta, at, matrix>>

(* retain_runs() packs what it selected and deletes the run directories.   *)
Complete(c) == \A b \in 1..Len(meta[c].runs) : Staging.raw[b] # None

Retain(c) ==
    /\ Goto(c, "captured", "retained")
    /\ Complete(c)
    /\ stage' = [stage EXCEPT
                    !.raw = [b \in Budgets |->
                                IF b <= Len(meta[c].runs) THEN None ELSE @[b]],
                    !.bgv = [b \in Budgets |->
                                IF b \in Retained(meta[c].runs)
                                THEN stage.raw[b] ELSE @[b]]]
    /\ meta' = [meta EXCEPT ![c].listed = TRUE]
    /\ UNCHANGED <<product, dest, at, matrix>>

(* A log or a dump is missing: another capture deleted or replaced it.     *)
RetainFails(c) ==
    /\ Goto(c, "captured", "dead")
    /\ \E b \in 1..Len(meta[c].runs) : Staging.raw[b] # c
    /\ UNCHANGED <<product, stage, dest, meta, at, matrix>>

Admitted(c) ==
    /\ product = meta[c].product
    /\ c \in Smoke => Candidate(meta[c].runs[Len(meta[c].runs)])

VerifyByAdmission(c) ==                                        \* mutant
    /\ Goto(c, "retained", IF Admitted(c) THEN "publishing" ELSE "failed")
    /\ meta' = [meta EXCEPT ![c].valid = IF c \in Smoke THEN Admitted(c) ELSE None]
    /\ UNCHANGED <<product, stage, dest, at, matrix>>

Verify(c) ==
    /\ Goto(c, "retained", IF Admitted(c) THEN "publishing" ELSE "failed")
    /\ meta' = [meta EXCEPT ![c].valid = Admitted(c)]
    /\ UNCHANGED <<product, stage, dest, at, matrix>>

RecordInvalid(c) ==
    /\ Goto(c, "failed", "publishing")
    /\ meta' = [meta EXCEPT ![c].valid = FALSE]
    /\ UNCHANGED <<product, stage, dest, at, matrix>>

WriteCapture(c) ==
    /\ Goto(c, "publishing", "erasing")
    /\ stage' = [Staging EXCEPT !.capture = c]
    /\ UNCHANGED <<product, dest, meta, at, matrix>>

(* rmtree() of the case's directory: first some of its files, in any order *)
Erode(c) ==
    /\ pc[c] = "erasing"
    /\ dest # None
    /\ \E gone \in SUBSET Budgets, w \in {dest.capture, None} :
        dest' = [dest EXCEPT
                    !.capture = w,
                    !.bgv = [b \in Budgets |-> IF b \in gone THEN None ELSE @[b]],
                    !.filter = [b \in Budgets |-> IF b \in gone THEN None ELSE @[b]]]
    /\ dest' # dest
    /\ UNCHANGED <<product, stage, meta, pc, at, matrix>> /\ Watch

(* ... then all of it, and the rename, which a directory that somebody     *)
(* made in between refuses.                                                *)
Erase(c) ==
    /\ Goto(c, "erasing", "erased")
    /\ dest' = None
    /\ UNCHANGED <<product, stage, meta, at, matrix>>

Publish(c) ==
    /\ Goto(c, "erased", "ok")
    /\ dest = None /\ stage # None
    /\ dest' = stage /\ stage' = None
    /\ UNCHANGED <<product, meta, at, matrix>>

PublishFails(c) ==
    /\ Goto(c, "erased", "dead")
    /\ dest # None \/ stage = None
    /\ UNCHANGED <<product, stage, dest, meta, at, matrix>>

----------------------------------------------------------------------------
(* analyze and summarize: both visit .staging/... and then the case's own  *)
(* directory, if capture.json is there.                                    *)

HasCapture(d) == Owner(Directory(d)) # None

Listed(c) == IF meta[c].listed THEN Retained(meta[c].runs) ELSE {}

(* iter_cases(): the directories are listed once ...                       *)
Begin(p) ==
    /\ MayStart(p)
    /\ Goto(p, "idle", "staging")
    /\ at' = [at EXCEPT ![p].seen = {d \in {"staging", "destination"} :
                                        Directory(d) # None}]
    /\ UNCHANGED <<product, stage, dest, meta, matrix>>

(* ... and their capture.json is loaded before the work on each.           *)
IsCase(p, d) == d \in at[p].seen /\ HasCapture(d)

Visit(p) ==
    \E d \in {"staging", "destination"} :
        /\ IsCase(p, d)
        /\ Goto(p, d, "read")
        /\ at' = [at EXCEPT ![p] =
                     [@ EXCEPT !.dir = d, !.capture = Directory(d).capture,
                               !.todo = Listed(Directory(d).capture)]]
        /\ UNCHANGED <<product, stage, dest, meta, matrix>>

(* The staging directory comes first, the case's own one next. *)
Leave(p, from, d) ==
    IF d = "staging" THEN Goto(p, from, "destination") /\ UNCHANGED matrix
    ELSE /\ Goto(p, from, "ok")
         /\ matrix' = IF p \in Summaries THEN at'[p].found ELSE matrix

Pass(p) ==
    \E d \in {"staging", "destination"} :
        /\ ~IsCase(p, d)
        /\ UNCHANGED <<product, stage, dest, meta, at>>
        /\ Leave(p, d, d)

Here(p) == Directory(at[p].dir)
FileAt(p, files, b) == IF Here(p) = None THEN None ELSE Here(p)[files][b]

(* The directory d is h from here on. *)
Become(d, h) ==
    /\ stage' = IF d = "staging" THEN h ELSE stage
    /\ dest' = IF d = "destination" THEN h ELSE dest

(* Without --reanalyze a BGV with a filter file is passed over. *)
Needs(a, b) == FileAt(a, "filter", b) = None \/ a \in Reanalyze

(* A dump is decompressed and analyzed; its capture may be gone by now.    *)
Analyze(a) ==
    \E b \in at[a].todo :
        /\ a \in Analysts
        /\ Goto(a, "read", "analyzed")
        /\ Needs(a, b)
        /\ FileAt(a, "bgv", b) # None
        /\ at' = [at EXCEPT ![a].todo = @ \ {b}, ![a].now = b,
                            ![a].content = FileAt(a, "bgv", b)]
        /\ UNCHANGED <<product, stage, dest, meta, matrix>>

(* There is a filter file, or the analyzer fails. *)
Skip(a) ==
    /\ pc[a] = "read"
    /\ a \in Analysts
    /\ \E b \in at[a].todo :
        /\ Needs(a, b) => FileAt(a, "bgv", b) # None
        /\ at' = [at EXCEPT ![a].todo = @ \ {b}]
    /\ UNCHANGED <<product, stage, dest, meta, pc, matrix>> /\ Watch

BgvMissing(a) ==
    /\ a \in Analysts
    /\ Goto(a, "read", "dead")
    /\ \E b \in at[a].todo : Needs(a, b) /\ FileAt(a, "bgv", b) = None
    /\ UNCHANGED <<product, stage, dest, meta, at, matrix>>

(* gzip.open() cuts the filter file off, and its content follows.          *)
OpenFilter(a) ==
    /\ Goto(a, "analyzed", "writing")
    /\ Here(a) # None
    /\ Become(at[a].dir, [Here(a) EXCEPT !.filter[at[a].now] = Torn])
    /\ UNCHANGED <<product, meta, at, matrix>>

OpenFails(a) ==
    /\ Goto(a, "analyzed", "dead")
    /\ Here(a) = None
    /\ UNCHANGED <<product, stage, dest, meta, at, matrix>>

WriteFilter(a) ==
    /\ Goto(a, "writing", "read")
    /\ IF FileAt(a, "filter", at[a].now) = Torn
       THEN Become(at[a].dir,
                   [Here(a) EXCEPT !.filter[at[a].now] = at[a].content])
       ELSE UNCHANGED <<stage, dest>>      \* written to a deleted file
    /\ UNCHANGED <<product, meta, at, matrix>>

AnalysisDone(a) ==
    /\ a \in Analysts
    /\ at[a].todo = {}
    /\ UNCHANGED <<product, stage, dest, meta, at>>
    /\ Leave(a, "read", at[a].dir)

(* summarize_case(): the filter files of the selected runs, unless the     *)
(* capture is invalid, unstable or not analyzed; the two graphs of the     *)
(* pair may differ.  unit.json is written, if need be in a new directory.  *)
Stable(c) == c \in Smoke \/ IsStable(meta[c].runs)

SelectedOf(c) == Selected(c, meta[c].runs)

CanRead(s, c) ==
    /\ meta[c].valid /\ Stable(c)
    /\ \A b \in SelectedOf(c) :
           FileAt(s, "bgv", b) # None /\ FileAt(s, "filter", b) # None

Cut(s, c) == \E b \in SelectedOf(c) : FileAt(s, "filter", b) = Torn

Summarize(s) ==
    LET c == at[s].capture IN
    /\ s \in Summaries
    /\ pc[s] = "read"
    /\ CanRead(s, c) => ~Cut(s, c)
    /\ \E same \in {(c \in Smoke), TRUE} :
           at' = [at EXCEPT ![s].found =
                     [capture |-> c, valid |-> CanRead(s, c) /\ same,
                      from |-> IF CanRead(s, c)
                               THEN {FileAt(s, "filter", b) : b \in SelectedOf(c)}
                               ELSE {}]]
    /\ Become(at[s].dir, IF Here(s) = None THEN Fresh ELSE Here(s))
    /\ UNCHANGED <<product, meta>>
    /\ Leave(s, "read", at[s].dir)

(* A filter file that was cut off ends the summary with an exception.      *)
SummaryFails(s) ==
    /\ s \in Summaries
    /\ Goto(s, "read", "dead")
    /\ CanRead(s, at[s].capture) /\ Cut(s, at[s].capture)
    /\ UNCHANGED <<product, stage, dest, meta, at, matrix>>

----------------------------------------------------------------------------
Kill(p) ==
    /\ AtWork(p)
    /\ pc' = [pc EXCEPT ![p] = "dead"]
    /\ UNCHANGED <<product, stage, dest, meta, at, matrix>> /\ Watch

Edit ==
    /\ product < MaxProduct
    /\ product' = product + 1
    /\ UNCHANGED <<stage, dest, meta, pc, at, matrix>> /\ Watch

Capture(c) ==
    \/ Identify(c) \/ RefuseDirty(c) \/ Reuse(c) \/ RefuseEvidence(c)
    \/ ClearStaging(c) \/ Prepare(c) \/ Reject(c) \/ RunBudget(c)
    \/ BudgetFails(c) \/ WorkdirExists(c) \/ Retain(c) \/ RetainFails(c)
    \/ Verify(c) \/ RecordInvalid(c) \/ WriteCapture(c) \/ Erode(c)
    \/ Erase(c) \/ Publish(c) \/ PublishFails(c)

Read(p) ==
    \/ Begin(p) \/ Visit(p) \/ Pass(p) \/ Analyze(p) \/ Skip(p)
    \/ BgvMissing(p) \/ OpenFilter(p) \/ OpenFails(p) \/ WriteFilter(p)
    \/ AnalysisDone(p) \/ Summarize(p) \/ SummaryFails(p)

AllEnded == (\A p \in Procs : pc[p] \in Ends) /\ UNCHANGED vars

Next ==
    \/ \E c \in Captures : Capture(c)
    \/ \E p \in Analysts \cup Summaries : Read(p)
    \/ \E p \in Killable : Kill(p)
    \/ Edit \/ AllEnded

Spec == Init /\ [][Next]_vars

----------------------------------------------------------------------------
(* A valid case in matrix.json counts the nodes of graphs that come from    *)
(* the BGVs of the very capture it names, through analyses of those BGVs.  *)
MatrixIsExact == matrix.valid => matrix.from = {matrix.capture}

(* It does so although captures, analyses and summaries of one case work at *)
(* the same time and are killed, unless two captures were past the deletion *)
(* of the staging directory at once, or an analysis or a summary was in a   *)
(* directory that another capture had replaced: nothing else mixes graphs.  *)
MixingNeedsAnOverlap ==
    matrix.valid /\ matrix.from # {matrix.capture} => overlapped

(* The dumps beside a capture.json in the case's directory were written by *)
(* the JVMs of that capture, however often earlier ones were killed.       *)
EvidenceIsOwn ==
    Owner(dest) # None =>
        \A b \in Budgets : dest.bgv[b] \in {Owner(dest), None}

(* A stable capture stopped at the first pair of budgets that agree, and   *)
(* the dumps the summary is going to read are among those it retained.     *)
StopsAtFirstPair ==
    \A c \in Captures :
        LET r == meta[c].runs IN
        /\ IsStable(r) => Pair(r) = {Len(r) - 1, Len(r)}
        /\ meta[c].valid /\ Stable(c) => Selected(c, r) \subseteq Retained(r)

(* Valid evidence in the case's directory stays there as it is, unless     *)
(* somebody measures again on purpose.                                     *)
HoldsValid(d) == IF Owner(d) = None THEN FALSE ELSE meta[Owner(d)].valid

OnlyRemeasureReplaces ==
    [][HoldsValid(dest) /\ (\A c \in Remeasure : ~AtWork(c)) =>
           Owner(dest') = Owner(dest) /\ dest'.bgv = dest.bgv]_vars

(* When an analysis ends, the filter files of the case are complete: it    *)
(* did whatever one that was killed before had left undone.                *)
AnalysisIsComplete ==
    [][\A a \in Analysts :
           pc[a] # "ok" /\ pc'[a] = "ok" /\ Owner(dest) # None =>
               \A b \in Budgets : dest.filter[b] # Torn]_vars
----------------------------------------------------------------------------
(* The inductive invariants behind these properties.  Up to "captured" a   *)
(* capture has not met its pair, and it stops at once when it does.        *)
Early == {"idle", "identified", "staged", "running"}

RunsInv ==
    \A c \in Captures :
        LET r == meta[c].runs IN
        /\ Len(r) <= NBudgets
        /\ IsStable(r) => StableAt(r) = {Len(r) - 1}
        /\ pc[c] \in Early =>
              /\ Len(r) < NBudgets /\ ~IsStable(r) /\ ~meta[c].valid
              /\ c \in Smoke => r = <<>>
        /\ pc[c] \in {"captured", "retained"} => r # <<>>
        /\ c \in Smoke => Len(r) <= 1
        /\ c \in Smoke /\ meta[c].valid => r # <<>> /\ Candidate(r[Len(r)])

(* What a directory or a reader names is a capture that has written its    *)
(* capture.json, after which nothing of it changes.                        *)
Settled(c) == c \in Captures /\ pc[c] \in {"erasing", "erased", "ok", "dead"}

SettledInv ==
    /\ \A d \in {stage, dest} : Owner(d) # None => Settled(Owner(d))
    /\ \A p \in Analysts \cup Summaries :
          /\ at[p].capture # None => Settled(at[p].capture)
          /\ Inside(p) => at[p].capture # None

(* Where captures take turns: once the staging directory is cleared, what  *)
(* is in it is the capture's own, and without --remeasure there is no      *)
(* evidence that the capture could replace.                                *)
Turns == \A p, q \in Exclusive : AtWork(p) /\ AtWork(q) => p = q

Own(d) == Owner(d) # None => \A b \in Budgets : d.bgv[b] \in {d.capture, None}

Mine(d, c) ==
    d # None =>
        /\ d.capture \in {c, None}
        /\ \A b \in Budgets : d.raw[b] \in {c, None} /\ d.bgv[b] \in {c, None}

OwnInv ==
    /\ Turns
    /\ Own(stage) /\ Own(dest)
    /\ \A c \in Captures : pc[c] \in Prepared =>
          (c \notin Remeasure => Owner(dest) = None) /\ Mine(stage, c)

(* As long as nobody is or was in another's way: filter files are of the   *)
(* capture they lie beside, a staging directory without capture.json has   *)
(* none yet, and what an analysis holds is of the capture it entered at.   *)
(* What was counted then stays as it is.                                   *)
Apart == ~overlapped /\ ~Overlap

OwnFilters(d) ==
    Owner(d) # None => \A b \in Budgets : d.filter[b] \in {d.capture, None, Torn}

Bare(d) == d # None /\ Owner(d) = None => d.filter = NoFile

Counted(v) == v.valid => v.from = {v.capture}

MatrixInv ==
    /\ Apart =>
          /\ Own(stage) /\ Own(dest) /\ OwnFilters(stage) /\ OwnFilters(dest)
          /\ \A c \in Captures :
                pc[c] \in Prepared => Mine(stage, c) /\ Bare(stage)
          /\ \A p \in Analysts \cup Summaries :
                pc[p] \in {"analyzed", "writing"} => at[p].content = at[p].capture
    /\ ~overlapped =>
          /\ Counted(matrix)
          /\ \A p \in Analysts \cup Summaries : Counted(at[p].found)
=============================================================================
