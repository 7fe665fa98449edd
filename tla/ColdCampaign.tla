---------------------------- MODULE ColdCampaign ----------------------------
(***************************************************************************)
(* harness/measure_graphs.py: cold, bytecode, analyze, cold-summarize and  *)
(* structural-report on one case of the product's own language.            *)
(*                                                                         *)
(* Two outputs hold the cold captures of Tier 1 and Tier 2, a third the    *)
(* bytecode diagnostic.  A capture works in a staging directory of its own *)
(* and renames it to the case's directory, which must not exist.  Analyses *)
(* put a filter file beside every retained dump, a summary collects them,  *)
(* and a report pairs the roots of the two tiers by their normalized       *)
(* labels.  Filter files, summaries and reports are written in place.      *)
(*                                                                         *)
(* A target is a root of one JVM; two targets may have one label.  A       *)
(* filter file or summary is represented by what its hash tells apart: the *)
(* analysis that compressed it (the header holds the time), and the filter *)
(* files whose hashes a summary gives.                                     *)
(***************************************************************************)
EXTENDS Naturals, FiniteSets

CONSTANTS
    Captures, Analysts, Summaries, Reports,  \* processes, by their subcommand
    Kind,           \* of a capture: what it was told to capture
    Output,         \* of every other process but a report: its output
    Retains,        \* the captures with --retain-recompiled-tiers
    Reanalyze,      \* the analyses started with --reanalyze
    Killable,       \* the processes that may be killed
    Exclusive,      \* sets of processes of which one at a time is at work
    Targets, Labels,
    Shows,          \* what the JVM of each capture may show of its targets
    Dirty,          \* producers with uncommitted changes
    MaxProducer,    \* bound on the edits of product and harness
    None, Torn      \* no such file; a file cut off in the middle

VARIABLES
    producer,       \* version of the product checkout and the harness
    dest,           \* the directory of the case in each output
    meta,           \* the capture.json of each capture
    pc,
    at,             \* what an analysis, a summary or a report has read
    report          \* structural-report.json of the case

vars == <<producer, dest, meta, pc, at, report>>

Tiers  == {"tier1", "tier2"}
Places == Tiers \cup {"bytecode"}
Procs  == Captures \cup Analysts \cup Summaries \cup Reports

(* recompiled: several compilations at the tier, each with its dump;       *)
(* undumped: one, but no single dump of it; unavailable: anything else.    *)
Fates == {"available", "undumped", "recompiled", "unavailable"}
Observations == [Targets -> [label : Labels, fate : Fates] \cup {None}]

ASSUME ProcessAssumption ==
    /\ Kind \in [Captures -> Places]
    /\ Output \in [Procs \ Reports -> Places]
    /\ Retains \subseteq Captures /\ Reanalyze \subseteq Analysts
    /\ Killable \subseteq Procs /\ Exclusive \subseteq SUBSET Procs
    /\ Captures \cap Analysts = {} /\ Summaries \cap Reports = {}
    /\ (Captures \cup Analysts) \cap (Summaries \cup Reports) = {}
ASSUME ValueAssumption ==
    /\ Shows \in [Captures -> SUBSET Observations]
    /\ MaxProducer \in Nat
    /\ None # Torn /\ {None, Torn} \cap (Captures \cup Analysts \cup Targets) = {}

Filters   == [Targets -> Analysts \cup {None, Torn}]
Dirs      == [capture : Captures, filter : Filters,
              summary : Filters \cup {None, Torn}]
ASSUME MissingAssumption == None \notin Dirs

Statuses  == {"MISSING", "UNAVAILABLE", "INVALID", "UNATTRIBUTABLE",
              "INCOMPATIBLE", "AVAILABLE"}
Input     == [capture : Captures \cup {None}, status : Statuses,
              summary : Filters \cup {None}]
Unread    == [capture |-> None, status |-> "MISSING", summary |-> None]
Rows      == {"absent", "mismatch", "ambiguous", "incomplete", "paired"}
Documents == [input : [Places -> Input], rows : [Labels -> Rows],
              attributed : SUBSET Labels, complete : BOOLEAN]

Ends   == {"ok", "usage", "dead"}
Phases == {"idle", "identified", "ran", "failed", "publishing", "read",
           "writing", "hashing", "tier1", "tier2", "bytecode", "comparing",
           "creating"} \cup Ends

NoFilter == [t \in Targets |-> None]
NoInput  == [p \in Places |-> Unread]
Nothing  == [todo |-> {}, now |-> None, got |-> NoFilter, input |-> NoInput]

Metas    == [producer : 0..MaxProducer, shown : Observations,
             kept : SUBSET Targets, valid : BOOLEAN]
Readings == [todo : SUBSET Targets, now : Targets \cup {None}, got : Filters,
             input : [Places -> Input]]

TypeOK ==
    /\ producer \in 0..MaxProducer
    /\ dest \in [Places -> Dirs \cup {None}]
    /\ meta \in [Captures -> Metas]
    /\ pc \in [Procs -> Phases]
    /\ at \in [Procs -> Readings]
    /\ report \in Documents \cup {None, Torn}

Init ==
    /\ producer = 0
    /\ dest = [p \in Places |-> None]
    /\ meta = [c \in Captures |-> [producer |-> 0, shown |-> [t \in Targets |-> None],
                                   kept |-> {}, valid |-> FALSE]]
    /\ pc = [p \in Procs |-> "idle"]
    /\ at = [p \in Procs |-> Nothing]
    /\ report = None

Goto(p, from, to) == pc[p] = from /\ pc' = [pc EXCEPT ![p] = to]

AtWork(p)   == pc[p] \notin Ends \cup {"idle"}
MayStart(p) == \A S \in Exclusive : p \in S => \A q \in S : ~AtWork(q)
Owner(p)    == IF dest[p] = None THEN None ELSE dest[p].capture

----------------------------------------------------------------------------
(* A process that ends forgets what it has read. *)
Forget(p) == at' = [at EXCEPT ![p] = Nothing]

(* What a capture shows of its roots: observed_compilation_roots().        *)

Observed(c, l) ==
    {t \in Targets : IF meta[c].shown[t] = None THEN FALSE
                     ELSE meta[c].shown[t].label = l}

WithFate(shown, f) ==
    {t \in Targets : IF shown[t] = None THEN FALSE ELSE shown[t].fate = f}

Units(c) == WithFate(meta[c].shown, "available")

Diagnostic(c, shown) == IF c \in Retains THEN WithFate(shown, "recompiled") ELSE {}

(* The dumps that retain_runs() keeps; a bytecode diagnostic has none.     *)
Retained(c, shown) ==
    IF Kind[c] = "bytecode" THEN {}
    ELSE WithFate(shown, "available") \cup Diagnostic(c, shown)

----------------------------------------------------------------------------
(* cold and bytecode *)

Refuse(c) ==
    /\ MayStart(c)
    /\ dest[Output[c]] # None \/ producer \in Dirty
    /\ Goto(c, "idle", "usage")
    /\ UNCHANGED <<producer, dest, meta, at, report>>

Identify(c) ==
    /\ MayStart(c)
    /\ dest[Output[c]] = None
    /\ producer \notin Dirty
    /\ Goto(c, "idle", "identified")
    /\ meta' = [meta EXCEPT ![c].producer = producer]
    /\ UNCHANGED <<producer, dest, at, report>>

(* An exception the command does not turn into an invalid record. *)
Unsupported(c) ==
    /\ Goto(c, "identified", "usage")
    /\ UNCHANGED <<producer, dest, meta, at, report>>

(* Preparation, correctness, the instrument, the JVM or its trace fails.   *)
Fail(c) ==
    /\ Goto(c, "identified", "failed")
    /\ UNCHANGED <<producer, dest, meta, at, report>>

(* The fresh JVM: without a single unit the record is invalid, and so it   *)
(* is when a recompiled tier's dumps cannot be told apart.                 *)
Run(c) ==
    \E shown \in Shows[c] :
        LET units == WithFate(shown, "available") IN
        /\ \/ /\ Goto(c, "identified", "ran")
              /\ Kind[c] \in Tiers => units # {}
              /\ meta' = [meta EXCEPT ![c].shown = shown,
                                      ![c].kept = Retained(c, shown)]
           \/ /\ Goto(c, "identified", "failed")
              /\ Kind[c] \in Tiers
              /\ units = {} \/ Diagnostic(c, shown) # {}
              /\ meta' = [meta EXCEPT ![c].shown = shown]
        /\ UNCHANGED <<producer, dest, at, report>>

Verify(c) ==
    /\ Goto(c, "ran", "publishing")
    /\ meta' = [meta EXCEPT ![c].valid = producer = meta[c].producer]
    /\ UNCHANGED <<producer, dest, at, report>>

RecordInvalid(c) ==
    /\ Goto(c, "failed", "publishing")
    /\ UNCHANGED <<producer, dest, meta, at, report>>

Captured(c) == [capture |-> c, filter |-> NoFilter, summary |-> None]

PublishOver(c) ==                                              \* mutant
    /\ Goto(c, "publishing", "ok")
    /\ dest' = [dest EXCEPT ![Output[c]] = Captured(c)]
    /\ UNCHANGED <<producer, meta, at, report>>

(* rename() refuses a directory that is not empty. *)
Publish(c) ==
    /\ dest[Output[c]] = None
    /\ Goto(c, "publishing", "ok")
    /\ dest' = [dest EXCEPT ![Output[c]] = Captured(c)]
    /\ UNCHANGED <<producer, meta, at, report>>

PublishFails(c) ==
    /\ dest[Output[c]] # None
    /\ Goto(c, "publishing", "dead")
    /\ UNCHANGED <<producer, dest, meta, at, report>>

----------------------------------------------------------------------------
(* analyze *)

Place(p)     == Output[p]
FilterOf(p, t) == dest[Place(p)].filter[t]

BeginAnalysis(a) ==
    /\ MayStart(a)
    /\ IF dest[Place(a)] = None
       THEN Goto(a, "idle", "ok") /\ UNCHANGED at
       ELSE /\ Goto(a, "idle", "read")
            /\ at' = [at EXCEPT ![a].todo = meta[Owner(Place(a))].kept]
    /\ UNCHANGED <<producer, dest, meta, report>>

Needs(a, t) == FilterOf(a, t) = None \/ a \in Reanalyze

(* The filter file exists, or the analyzer fails. *)
Skip(a) ==
    /\ pc[a] = "read"
    /\ \E t \in at[a].todo : at' = [at EXCEPT ![a].todo = @ \ {t}]
    /\ UNCHANGED <<producer, dest, meta, pc, report>>

OpenFilter(a) ==
    \E t \in at[a].todo :
        /\ Needs(a, t)
        /\ Goto(a, "read", "writing")
        /\ at' = [at EXCEPT ![a].todo = @ \ {t}, ![a].now = t]
        /\ dest' = [dest EXCEPT ![Place(a)].filter[t] = Torn]
        /\ UNCHANGED <<producer, meta, report>>

WriteFilter(a) ==
    /\ a \in Analysts
    /\ Goto(a, "writing", "read")
    /\ dest' = [dest EXCEPT ![Place(a)].filter[at[a].now] = a]
    /\ UNCHANGED <<producer, meta, at, report>>

AnalysisDone(a) ==
    /\ at[a].todo = {}
    /\ Goto(a, "read", "ok")
    /\ Forget(a)
    /\ UNCHANGED <<producer, dest, meta, report>>

----------------------------------------------------------------------------
(* cold-summarize *)

BeginSummary(s) ==
    LET c == Owner(Place(s)) IN
    /\ MayStart(s)
    /\ IF c # None /\ Kind[c] \in Tiers /\ meta[c].valid
       THEN /\ Goto(s, "idle", "read")
            /\ at' = [at EXCEPT ![s].todo = meta[c].kept]
       ELSE Goto(s, "idle", "ok") /\ UNCHANGED at
    /\ UNCHANGED <<producer, dest, meta, report>>

(* The graph is read from the filter file, and the file is hashed next.    *)
ReadGraph(s) ==
    \E t \in at[s].todo :
        /\ FilterOf(s, t) \in Analysts
        /\ Goto(s, "read", "hashing")
        /\ at' = [at EXCEPT ![s].todo = @ \ {t}, ![s].now = t]
        /\ UNCHANGED <<producer, dest, meta, report>>

(* BGV_NOT_ANALYZED ends the case; a file cut off ends the command.        *)
NoGraph(s) ==
    \E t \in at[s].todo :
        /\ \/ FilterOf(s, t) = None /\ Goto(s, "read", "ok")
           \/ FilterOf(s, t) = Torn /\ Goto(s, "read", "dead")
        /\ Forget(s)
        /\ UNCHANGED <<producer, dest, meta, report>>

HashGraph(s) ==
    /\ Goto(s, "hashing", "read")
    /\ at' = [at EXCEPT ![s].got[at[s].now] = FilterOf(s, at[s].now)]
    /\ UNCHANGED <<producer, dest, meta, report>>

OpenSummary(s) ==
    /\ at[s].todo = {}
    /\ Goto(s, "read", "writing")
    /\ dest' = [dest EXCEPT ![Place(s)].summary = Torn]
    /\ UNCHANGED <<producer, meta, at, report>>

WriteSummary(s) ==
    /\ s \in Summaries
    /\ Goto(s, "writing", "ok")
    /\ dest' = [dest EXCEPT ![Place(s)].summary = at[s].got]
    /\ Forget(s)
    /\ UNCHANGED <<producer, meta, report>>

----------------------------------------------------------------------------
(* structural-report *)

Untorn(d)  == \A t \in Units(d.capture) : d.filter[t] \in Analysts
Matches(d) == \A t \in Units(d.capture) : d.summary[t] = d.filter[t]

Requested(p) == Kind[Owner(p)] = p

PassUnreadable(p) ==                                           \* mutant
    IF dest[p] = None THEN Unread
    ELSE [capture |-> dest[p].capture, status |-> "INVALID",
          summary |-> dest[p].summary]

(* read_structural_input(), of Tier 1 or Tier 2. *)
StructuralInput(p) ==
    LET d == dest[p]
        Verdict(s) == [capture |-> d.capture, status |-> s,
                       summary |-> IF s = "AVAILABLE" THEN d.summary ELSE None]
    IN
    IF d = None THEN Unread
    ELSE IF ~Requested(p) \/ ~meta[d.capture].valid THEN Verdict("INVALID")
    ELSE IF d.summary = None THEN Verdict("UNAVAILABLE")
    ELSE IF d.summary = Torn THEN Verdict("INVALID")
    ELSE Verdict(IF Untorn(d) /\ Matches(d) THEN "AVAILABLE" ELSE "INVALID")

SameProducer(c, d) == meta[c].producer = meta[d].producer

(* read_structural_bytecode(): the diagnostic must come from the producer  *)
(* of every valid graph capture.                                           *)
BytecodeInput(graphs) ==
    LET b == Owner("bytecode")
        valid == {c \in graphs : meta[c].valid}
    IN
    IF b = None THEN Unread
    ELSE [capture |-> b, summary |-> None,
          status |->
             IF ~Requested("bytecode") \/ ~meta[b].valid THEN "INVALID"
             ELSE IF valid = {} THEN "UNATTRIBUTABLE"
             ELSE IF \A c \in valid : SameProducer(b, c)
             THEN "AVAILABLE" ELSE "INCOMPATIBLE"]

(* pair_compiled_root_tiers() *)
AnyProducer(i) == \A p \in Tiers : i[p].capture # None         \* mutant

Compatible(i) ==
    /\ \A p \in Tiers : i[p].capture # None
    /\ SameProducer(i["tier1"].capture, i["tier2"].capture)

Usable(i, p) ==
    IF i[p].capture = None THEN FALSE
    ELSE meta[i[p].capture].valid /\ Kind[i[p].capture] = p

Ambiguous(i, p, l) ==
    Usable(i, p) /\ Cardinality(Observed(i[p].capture, l)) > 1

Available(i, p, l) ==
    /\ Usable(i, p)
    /\ i[p].summary # None
    /\ \E t \in Targets : Observed(i[p].capture, l) = {t} /\ t \in Units(i[p].capture)

(* Only captures of all roots hold an inventory. *)
Seen(i, l) ==
    \E p \in Tiers : IF i[p].capture = None THEN FALSE
                     ELSE /\ Kind[i[p].capture] \in Tiers
                          /\ Observed(i[p].capture, l) # {}

Row(i, l) ==
    IF ~Seen(i, l) THEN "absent"
    ELSE IF ~Compatible(i) THEN "mismatch"
    ELSE IF \E p \in Tiers : Ambiguous(i, p, l) THEN "ambiguous"
    ELSE IF \A p \in Tiers : Available(i, p, l) THEN "paired"
    ELSE "incomplete"

(* attribute_bytecode_groups(): labels that one group has. *)
Attributed(i) ==
    IF Compatible(i) /\ i["bytecode"].status = "AVAILABLE"
    THEN {l \in Labels : /\ Seen(i, l)
                         /\ Cardinality(Observed(i["bytecode"].capture, l)) = 1}
    ELSE {}

Complete(i) ==
    /\ \A p \in Tiers : i[p].status = "AVAILABLE"
    /\ \E l \in Labels : Seen(i, l)
    /\ \A l \in Labels : Seen(i, l) => Row(i, l) = "paired"

Document(i) ==
    [input |-> i, rows |-> [l \in Labels |-> Row(i, l)],
     attributed |-> Attributed(i), complete |-> Complete(i)]

BeginReport(r) ==
    /\ MayStart(r)
    /\ Goto(r, "idle", IF \A p \in Places : dest[p] = None THEN "ok" ELSE "tier1")
    /\ UNCHANGED <<producer, dest, meta, at, report>>

ReadTier(r) ==
    /\ \/ Goto(r, "tier1", "tier2")
       \/ Goto(r, "tier2", "bytecode")
    /\ at' = [at EXCEPT ![r].input[pc[r]] = StructuralInput(pc[r])]
    /\ UNCHANGED <<producer, dest, meta, report>>

ReadBytecode(r) ==
    /\ Goto(r, "bytecode", "comparing")
    /\ at' = [at EXCEPT ![r].input["bytecode"] =
                 BytecodeInput({at[r].input[p].capture : p \in Tiers} \ {None})]
    /\ UNCHANGED <<producer, dest, meta, report>>

(* A report that is there, the same or another, stays. *)
Keep(r) ==
    /\ report # None
    /\ Goto(r, "comparing", "ok")
    /\ Forget(r)
    /\ UNCHANGED <<producer, dest, meta, report>>

OpenReport(r) ==
    /\ report = None
    /\ Goto(r, "comparing", "creating")
    /\ report' = Torn
    /\ UNCHANGED <<producer, dest, meta, at>>

WriteReport(r) ==
    /\ Goto(r, "creating", "ok")
    /\ report' = Document(at[r].input)
    /\ Forget(r)
    /\ UNCHANGED <<producer, dest, meta>>

----------------------------------------------------------------------------
Kill(p) ==
    /\ AtWork(p)
    /\ pc' = [pc EXCEPT ![p] = "dead"]
    /\ Forget(p)
    /\ UNCHANGED <<producer, dest, meta, report>>

Edit ==
    /\ producer < MaxProducer
    /\ producer' = producer + 1
    /\ UNCHANGED <<dest, meta, pc, at, report>>

Capture(c) ==
    \/ Refuse(c) \/ Identify(c) \/ Unsupported(c) \/ Fail(c) \/ Run(c)
    \/ Verify(c) \/ RecordInvalid(c) \/ Publish(c) \/ PublishFails(c)

Analysis(a) ==
    BeginAnalysis(a) \/ Skip(a) \/ OpenFilter(a) \/ WriteFilter(a) \/ AnalysisDone(a)

Summary(s) ==
    \/ BeginSummary(s) \/ ReadGraph(s) \/ NoGraph(s) \/ HashGraph(s)
    \/ OpenSummary(s) \/ WriteSummary(s)

Report(r) ==
    \/ BeginReport(r) \/ ReadTier(r) \/ ReadBytecode(r) \/ Keep(r)
    \/ OpenReport(r) \/ WriteReport(r)

AllEnded == (\A p \in Procs : pc[p] \in Ends) /\ UNCHANGED vars

Next ==
    \/ \E c \in Captures : Capture(c)
    \/ \E a \in Analysts : Analysis(a)
    \/ \E s \in Summaries : Summary(s)
    \/ \E r \in Reports : Report(r)
    \/ \E p \in Killable : Kill(p)
    \/ Edit \/ AllEnded

Spec == Init /\ [][Next]_vars

----------------------------------------------------------------------------
(* Evidence is preserved: whoever else captures, the record in a case's    *)
(* directory is never replaced and never changes, and neither does a       *)
(* report that was written.                                                *)
EvidenceIsPreserved ==
    [][/\ \A p \in Places : dest[p] # None =>
             /\ Owner(p)' = Owner(p)
             /\ meta'[Owner(p)] = meta[Owner(p)]
       /\ report \notin {None, Torn} => report' = report]_vars

(* A report speaks of the evidence that is there: its captures are those   *)
(* in the directories.  Roots are paired only between valid captures of    *)
(* the two tiers that one producer made, when the label was that of one    *)
(* compiled root with a dump in each; bytecode is attributed only if the   *)
(* diagnostic is valid and of that producer and one group has the label;   *)
(* and a complete report pairs every root either tier has seen.            *)
OneRoot(c, l) == \E t \in Targets :
                     Observed(c, l) = {t} /\ meta[c].shown[t].fate = "available"

OneProducer(S) == \A c, d \in S : meta[c].producer = meta[d].producer

ReportIsSound ==
    report \notin {None, Torn} =>
        LET i == report.input
            graphs == {i[p].capture : p \in Tiers}
            bytecode == i["bytecode"].capture
        IN
        /\ \A p \in Places : i[p].capture \in {None, Owner(p)}
        /\ \A l \in Labels :
            /\ report.rows[l] = "paired" =>
                   /\ OneProducer(graphs)
                   /\ \A p \in Tiers : /\ meta[Owner(p)].valid
                                       /\ Kind[Owner(p)] = p
                                       /\ OneRoot(Owner(p), l)
            /\ l \in report.attributed =>
                   /\ meta[bytecode].valid
                   /\ OneProducer(graphs \cup {bytecode})
                   /\ Cardinality(Observed(bytecode, l)) = 1
            /\ report.complete =>
                   \A p \in Tiers : Observed(Owner(p), l) # {} =>
                                        report.rows[l] = "paired"

----------------------------------------------------------------------------
(* The inductive invariants behind these properties.  Who published has    *)
(* ended, and a directory that an analysis or a summary works in stays.    *)
PlaceInv ==
    /\ \A p \in Places : dest[p] # None => pc[Owner(p)] \in Ends
    /\ \A p \in Analysts \cup Summaries :
          /\ pc[p] \in {"read", "writing", "hashing"} => dest[Place(p)] # None
          /\ pc[p] = "hashing" => at[p].now \in Targets

(* What a report has read speaks of published captures, which do not change *)
(* any more; so a report is what it would be if it were computed now.       *)
InputSound(i) ==
    /\ \A p \in Places : i[p].capture \in {None, Owner(p)}
    /\ \A p \in Places : i[p].status = "AVAILABLE" =>
          i[p].capture # None /\ Kind[i[p].capture] = p /\ meta[i[p].capture].valid
    /\ i["bytecode"].status = "AVAILABLE" =>
          \E p \in Tiers : /\ i[p].capture # None /\ meta[i[p].capture].valid
                           /\ SameProducer(i["bytecode"].capture, i[p].capture)

ReportInv ==
    /\ \A r \in Reports :
          /\ InputSound(at[r].input)
          /\ pc[r] \in {"idle", "tier1", "tier2", "bytecode"} =>
                at[r].input["bytecode"].status # "AVAILABLE"
    /\ report \notin {None, Torn} =>
          InputSound(report.input) /\ report = Document(report.input)

(* Where reports take turns, the one that created the file writes it.      *)
TurnInv ==
    /\ \A q, r \in Reports : AtWork(q) /\ AtWork(r) => q = r
    /\ \A r \in Reports : pc[r] = "creating" => report = Torn
=============================================================================
