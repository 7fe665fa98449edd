------------------------ MODULE GraphEvidenceProofs ------------------------
(***************************************************************************)
(* Proofs about GraphEvidence, for any captures, analyses, summaries,      *)
(* budgets and signatures: which budgets a capture stops at and retains,   *)
(* what may be named by matrix.json, and, where processes take turns,      *)
(* whose evidence the case's directory and matrix.json hold.               *)
(***************************************************************************)
EXTENDS GraphEvidence, SequenceTheorems, TLAPS

Readers == Analysts \cup Summaries

Metas == [product : 0..MaxProduct, runs : Seq(Outcomes),
          listed : BOOLEAN, valid : BOOLEAN]

Readings == [seen : SUBSET {"staging", "destination"},
             dir : {"staging", "destination"},
             capture : Captures \cup {None}, todo : SUBSET Budgets,
             now : Budgets \cup {None},
             content : Captures \cup {None}, found : Verdicts]

----------------------------------------------------------------------------
(* Stabilization *)

(* What is selected are budgets that ran. *)
LEMMA KeptRan ==
    ASSUME NEW r \in Seq(Outcomes)
    PROVE  /\ StableAt(r) \subseteq 1..(Len(r) - 1)
           /\ Pair(r) \subseteq 1..Len(r)
           /\ Kept(r) \subseteq 1..Len(r)
           /\ Retained(r) \subseteq 1..Len(r)
<1>1. Len(r) \in Nat
  OBVIOUS
<1>2. StableAt(r) \subseteq 1..(Len(r) - 1)
  BY DEF StableAt
<1>3. Pair(r) \subseteq 1..Len(r)
  BY <1>1, <1>2 DEF Pair
<1>4. Kept(r) \subseteq 1..Len(r)
  BY <1>3 DEF Kept
<1>5. QED
  BY <1>2, <1>3, <1>4 DEF Retained

(* Where no two budgets agreed so far, only the last two can. *)
LEMMA AppendAgrees ==
    ASSUME NEW r \in Seq(Outcomes), NEW o \in Outcomes, ~IsStable(r)
    PROVE  IsStable(Append(r, o)) =>
               StableAt(Append(r, o)) = {Len(Append(r, o)) - 1}
<1> DEFINE q == Append(r, o)
<1>1. /\ q \in Seq(Outcomes) /\ Len(q) = Len(r) + 1 /\ Len(r) \in Nat
      /\ \A i \in 1..Len(r) : q[i] = r[i]
  OBVIOUS
<1> HIDE DEF q
<1>2. ASSUME NEW i \in StableAt(q)
      PROVE  i = Len(r)
  <2>1. i \in 1..Len(r) /\ Agree(q, i)
    BY <1>1, <1>2 DEF StableAt
  <2>2. i \in 1..(Len(r) - 1) => i \in StableAt(r)
    <3> SUFFICES ASSUME i \in 1..(Len(r) - 1) PROVE Agree(r, i)
      BY DEF StableAt
    <3>1. q[i] = r[i] /\ q[i + 1] = r[i + 1]
      BY <1>1
    <3>2. QED
      BY <2>1, <3>1 DEF Agree
  <2>3. StableAt(r) = {}
    BY DEF IsStable
  <2>4. QED
    BY <1>1, <2>1, <2>2, <2>3
<1>3. IsStable(q) => StableAt(q) = {Len(q) - 1}
  BY <1>1, <1>2 DEF IsStable
<1>4. QED
  BY <1>3 DEF q

LEMMA PairIsLast ==
    ASSUME NEW r \in Seq(Outcomes), StableAt(r) = {Len(r) - 1}
    PROVE  Pair(r) = {Len(r) - 1, Len(r)}
<1>1. {j \in StableAt(r) : \A k \in StableAt(r) : j <= k} = {Len(r) - 1}
  OBVIOUS
<1>2. Pair(r) = UNION {{i, i + 1} : i \in {Len(r) - 1}}
  BY <1>1 DEF Pair
<1>3. Len(r) \in Nat
  OBVIOUS
<1>4. QED
  BY <1>2, <1>3

(* The summary's budgets are the retained ones: a candidate's dump is.     *)
LEMMA SelectedRetained ==
    ASSUME NEW c \in Captures, NEW r \in Seq(Outcomes),
           IsStable(r) => StableAt(r) = {Len(r) - 1},
           c \in Smoke => Len(r) = 1 /\ Candidate(r[1]),
           c \in Smoke \/ IsStable(r)
    PROVE  Selected(c, r) \subseteq Retained(r)
<1>1. \A o : Candidate(o) => o # "unresolved"
  BY SignatureAssumption DEF Candidate
<1>2. CASE c \in Smoke
  <2>1. Len(r) = 1 /\ Candidate(r[1])
    BY <1>2
  <2>2. StableAt(r) = {}
    BY <2>1 DEF StableAt
  <2>3. Kept(r) = {1} /\ Selected(c, r) = {1}
    BY <1>2, <2>1, <2>2 DEF Kept, IsStable, Selected
  <2>4. QED
    BY <1>1, <1>2, <2>1, <2>3 DEF Retained
<1>3. CASE c \notin Smoke
  <2>1. StableAt(r) = {Len(r) - 1} /\ Kept(r) = Pair(r) /\ Selected(c, r) = Pair(r)
    BY <1>3 DEF Kept, Selected
  <2>2. Pair(r) = {Len(r) - 1, Len(r)}
    BY <2>1, PairIsLast
  <2>3. Agree(r, Len(r) - 1)
    BY <2>1 DEF StableAt
  <2>4. Candidate(r[Len(r) - 1]) /\ Candidate(r[Len(r)])
    <3>1. Len(r) \in Nat /\ (Len(r) - 1) + 1 = Len(r)
      OBVIOUS
    <3>2. QED
      BY <2>3, <3>1 DEF Agree
  <2>5. QED
    BY <1>1, <2>1, <2>2, <2>4 DEF Retained
<1>4. QED
  BY <1>2, <1>3

----------------------------------------------------------------------------
(* Types *)

LEMMA FreshType == Fresh \in Dirs /\ Owner(Fresh) = None
<1>1. Fresh \in Dirs
  BY DEF Fresh, NoFile, Dirs
<1>2. Fresh.capture = None
  BY DEF Fresh
<1>3. QED
  BY <1>1, <1>2 DEF Owner

LEMMA StagingType == TypeOK => Staging \in Dirs
BY FreshType DEF TypeOK, Staging

(* A budget that a summary reads or an analysis visits ran.                *)
LEMMA BudgetsRan ==
    ASSUME TypeOK, RunsInv, NEW c \in Captures
    PROVE  /\ meta[c].runs \in Seq(Outcomes)
           /\ Len(meta[c].runs) \in 0..NBudgets
           /\ Retained(meta[c].runs) \subseteq Budgets
           /\ Listed(c) \subseteq Budgets
           /\ meta[c].valid /\ Stable(c) => SelectedOf(c) \subseteq Budgets
<1>1. meta[c].runs \in Seq(Outcomes)
  BY DEF TypeOK
<1>2. Len(meta[c].runs) \in 0..NBudgets
  BY <1>1, BoundsAssumption DEF RunsInv
<1>3. Retained(meta[c].runs) \subseteq Budgets
  BY <1>1, <1>2, KeptRan, BoundsAssumption DEF Budgets
<1>4. ASSUME meta[c].valid, Stable(c)
      PROVE  SelectedOf(c) \subseteq Budgets
  <2>1. CASE c \in Smoke
    <3>1. meta[c].runs # <<>>
      BY <1>4, <2>1 DEF RunsInv
    <3>2. Len(meta[c].runs) >= 1
      BY <1>1, <1>2, <3>1
    <3>3. QED
      BY <1>2, <2>1, <3>2, BoundsAssumption DEF SelectedOf, Selected, Budgets
  <2>2. CASE c \notin Smoke
    <3>1. SelectedOf(c) \subseteq 1..Len(meta[c].runs)
      BY <1>1, <2>2, KeptRan DEF SelectedOf, Selected
    <3>2. QED
      BY <1>2, <3>1, BoundsAssumption DEF Budgets
  <2>3. QED
    BY <2>1, <2>2
<1>5. QED
  BY <1>1, <1>2, <1>3, <1>4 DEF Listed

(* What is retained is there: a capture cannot pack a directory it misses. *)
LEMMA RetainStage ==
    ASSUME TypeOK, RunsInv, NEW c \in Captures, Retain(c)
    PROVE  stage # None /\ stage \in Dirs
<1>1. meta[c].runs # <<>>
  BY DEF Retain, Goto, RunsInv
<1>2. 1 \in 1..Len(meta[c].runs) /\ 1 \in Budgets
  <2>1. meta[c].runs \in Seq(Outcomes) /\ Len(meta[c].runs) \in 0..NBudgets
    BY BudgetsRan
  <2>2. Len(meta[c].runs) >= 1
    BY <1>1, <2>1
  <2>3. QED
    BY <2>1, <2>2, BoundsAssumption DEF Budgets
<1>3. Staging.raw[1] # None
  BY <1>2 DEF Retain, Complete
<1>4. QED
  BY <1>2, <1>3 DEF Staging, Fresh, NoFile, TypeOK

LEMMA PhaseType == TypeOK /\ [Next]_vars => pc' \in [Procs -> Phases]
<1> SUFFICES ASSUME TypeOK, [Next]_vars PROVE pc' \in [Procs -> Phases]
  OBVIOUS
<1>1. ASSUME NEW c \in Captures, Capture(c) PROVE pc' \in [Procs -> Phases]
  BY <1>1 DEF TypeOK, Capture, Identify, RefuseDirty, Reuse, RefuseEvidence,
    ClearStaging, Prepare, Reject, RunBudget, BudgetFails, WorkdirExists,
    Retain, RetainFails, Verify, RecordInvalid, WriteCapture, Erode, Erase,
    Publish, PublishFails, Goto, Phases, Ends
<1>2. ASSUME NEW p \in Readers, Read(p) PROVE pc' \in [Procs -> Phases]
  BY <1>2 DEF TypeOK, Read, Begin, Visit, Pass, Analyze, Skip, BgvMissing,
    OpenFilter, OpenFails, WriteFilter, AnalysisDone, Summarize, SummaryFails,
    Leave, Goto, Phases, Ends
<1>3. ASSUME NEW p \in Killable, Kill(p) PROVE pc' \in [Procs -> Phases]
  BY <1>3, ProcessAssumption DEF TypeOK, Kill, Phases, Ends
<1>4. QED
  BY <1>1, <1>2, <1>3 DEF TypeOK, Next, Edit, AllEnded, vars, Readers

LEMMA MetaType ==
    TypeOK /\ [Next]_vars =>
        meta' \in [Captures -> Metas] /\ product' \in 0..MaxProduct
<1> SUFFICES ASSUME TypeOK, [Next]_vars
             PROVE  meta' \in [Captures -> Metas] /\ product' \in 0..MaxProduct
  OBVIOUS
<1>1. meta \in [Captures -> Metas] /\ product \in 0..MaxProduct
  BY DEF TypeOK, Metas
<1>2. ASSUME NEW c \in Captures, Capture(c) PROVE meta' \in [Captures -> Metas]
  <2>1. CASE Identify(c)
    BY <1>1, <2>1 DEF Identify, Metas
  <2>2. CASE RunBudget(c)
    <3>1. PICK o \in Outcomes : meta' = [meta EXCEPT ![c].runs = Append(meta[c].runs, o)]
      BY <2>2 DEF RunBudget
    <3>2. Append(meta[c].runs, o) \in Seq(Outcomes)
      BY <1>1 DEF Metas
    <3>3. QED
      BY <1>1, <3>1, <3>2 DEF Metas
  <2>3. CASE Retain(c)
    BY <1>1, <2>3 DEF Retain, Metas
  <2>4. CASE Verify(c)
    <3>1. Admitted(c) \in BOOLEAN
      BY DEF Admitted
    <3>2. PICK v \in BOOLEAN : meta' = [meta EXCEPT ![c].valid = v]
      BY <2>4, <3>1 DEF Verify
    <3>3. QED
      BY <1>1, <3>2 DEF Metas
  <2>5. CASE RecordInvalid(c)
    BY <1>1, <2>5 DEF RecordInvalid, Metas
  <2>6. CASE meta' = meta
    BY <1>1, <2>6
  <2>7. QED
    BY <1>2, <2>1, <2>2, <2>3, <2>4, <2>5, <2>6 DEF Capture, RefuseDirty,
      Reuse, RefuseEvidence, ClearStaging, Prepare, Reject, BudgetFails,
      WorkdirExists, RetainFails, WriteCapture, Erode, Erase, Publish,
      PublishFails
<1>3. ASSUME NEW p \in Readers, Read(p) PROVE meta' = meta
  BY <1>3 DEF Read, Begin, Visit, Pass, Analyze, Skip, BgvMissing, OpenFilter,
    OpenFails, WriteFilter, AnalysisDone, Summarize, SummaryFails
<1>4. product' \in 0..MaxProduct
  <2>1. CASE Edit
    BY <1>1, <2>1, BoundsAssumption DEF Edit
  <2>2. CASE product' = product
    BY <1>1, <2>2
  <2>3. QED
    BY <2>1, <2>2 DEF Next, Capture, Identify, RefuseDirty, Reuse,
      RefuseEvidence, ClearStaging, Prepare, Reject, RunBudget, BudgetFails,
      WorkdirExists, Retain, RetainFails, Verify, RecordInvalid, WriteCapture,
      Erode, Erase, Publish, PublishFails, Read, Begin, Visit, Pass, Analyze,
      Skip, BgvMissing, OpenFilter, OpenFails, WriteFilter, AnalysisDone,
      Summarize, SummaryFails, Kill, AllEnded, vars
<1>5. QED
  BY <1>1, <1>2, <1>3, <1>4 DEF Next, Kill, Edit, AllEnded, vars, Readers

LEMMA HereType ==
    ASSUME TypeOK, NEW p \in Readers, Here(p) # None
    PROVE  Here(p) \in Dirs
BY DEF TypeOK, Here, Directory

(* A reader makes a directory that is missing, or adds to the filter files *)
(* of the one it is in.                                                    *)
Keeps(p, x, y) ==
    \/ y = x
    \/ x = None /\ y = Fresh
    \/ /\ x # None /\ x = Here(p) /\ pc[p] \in {"analyzed", "writing"}
       /\ y \in Dirs /\ y.capture = x.capture /\ y.raw = x.raw /\ y.bgv = x.bgv
       /\ \A b \in Budgets : y.filter[b] \in {x.filter[b], Torn, at[p].content}

LEMMA BecomeKeeps ==
    ASSUME TypeOK, NEW p \in Readers, NEW h, Become(at[p].dir, h),
           Keeps(p, Here(p), h)
    PROVE  Keeps(p, stage, stage') /\ Keeps(p, dest, dest')
<1>1. at[p].dir \in {"staging", "destination"}
  BY DEF TypeOK, Readers
<1>2. /\ at[p].dir = "staging" => Here(p) = stage /\ stage' = h /\ dest' = dest
      /\ at[p].dir = "destination" => Here(p) = dest /\ dest' = h /\ stage' = stage
  BY DEF Become, Here, Directory
<1>3. Keeps(p, stage, stage) /\ Keeps(p, dest, dest)
  BY DEF Keeps
<1>4. QED
  BY <1>1, <1>2, <1>3

LEMMA ReaderDirs ==
    ASSUME TypeOK, NEW p \in Readers, Read(p)
    PROVE  Keeps(p, stage, stage') /\ Keeps(p, dest, dest')
<1>1. ASSUME UNCHANGED <<stage, dest>>
      PROVE  Keeps(p, stage, stage') /\ Keeps(p, dest, dest')
  BY <1>1 DEF Keeps
<1>2. at[p].content \in Captures \cup {None}
  BY DEF TypeOK, Readers
<1>3. CASE OpenFilter(p)
  <2> DEFINE h == [Here(p) EXCEPT !.filter[at[p].now] = Torn]
  <2>1. Here(p) # None /\ Here(p) \in Dirs /\ pc[p] = "analyzed"
    BY <1>3, HereType DEF OpenFilter, Goto
  <2>2. /\ h \in Dirs /\ h.capture = Here(p).capture
        /\ h.raw = Here(p).raw /\ h.bgv = Here(p).bgv
        /\ \A b \in Budgets : h.filter[b] \in {Here(p).filter[b], Torn}
    BY <2>1 DEF Dirs
  <2>3. Become(at[p].dir, h)
    BY <1>3 DEF OpenFilter
  <2> HIDE DEF h
  <2>4. Keeps(p, Here(p), h)
    BY <2>1, <2>2 DEF Keeps
  <2>5. QED
    BY <2>3, <2>4, BecomeKeeps
<1>4. CASE WriteFilter(p) /\ FileAt(p, "filter", at[p].now) = Torn
  <2> DEFINE h == [Here(p) EXCEPT !.filter[at[p].now] = at[p].content]
  <2>1. Here(p) # None /\ Here(p) \in Dirs /\ pc[p] = "writing"
    BY <1>4, ProcessAssumption, HereType DEF FileAt, WriteFilter, Goto
  <2>2. /\ h \in Dirs /\ h.capture = Here(p).capture
        /\ h.raw = Here(p).raw /\ h.bgv = Here(p).bgv
        /\ \A b \in Budgets : h.filter[b] \in {Here(p).filter[b], at[p].content}
    BY <1>2, <2>1 DEF Dirs
  <2>3. Become(at[p].dir, h)
    BY <1>4 DEF WriteFilter
  <2> HIDE DEF h
  <2>4. Keeps(p, Here(p), h)
    BY <2>1, <2>2 DEF Keeps
  <2>5. QED
    BY <2>3, <2>4, BecomeKeeps
<1>5. CASE Summarize(p)
  <2> DEFINE h == IF Here(p) = None THEN Fresh ELSE Here(p)
  <2>1. Keeps(p, Here(p), h)
    BY DEF Keeps
  <2>2. Become(at[p].dir, h)
    BY <1>5 DEF Summarize
  <2> HIDE DEF h
  <2>3. QED
    BY <2>1, <2>2, BecomeKeeps
<1>6. CASE UNCHANGED <<stage, dest>>
  BY <1>1, <1>6
<1>7. QED
  BY <1>3, <1>4, <1>5, <1>6 DEF Read, Begin, Visit, Pass, Analyze, Skip,
    BgvMissing, OpenFails, WriteFilter, AnalysisDone, SummaryFails

LEMMA DirsType ==
    TypeOK /\ RunsInv /\ [Next]_vars =>
        stage' \in Dirs \cup {None} /\ dest' \in Dirs \cup {None}
<1> SUFFICES ASSUME TypeOK, RunsInv, [Next]_vars
             PROVE  stage' \in Dirs \cup {None} /\ dest' \in Dirs \cup {None}
  OBVIOUS
<1>1. stage \in Dirs \cup {None} /\ dest \in Dirs \cup {None} /\ Staging \in Dirs
  BY StagingType DEF TypeOK
<1>2. ASSUME NEW c \in Captures, Capture(c)
      PROVE  stage' \in Dirs \cup {None} /\ dest' \in Dirs \cup {None}
  <2>1. CASE ClearStaging(c)
    BY <1>1, <2>1, FreshType DEF ClearStaging
  <2>2. CASE RunBudget(c) \/ BudgetFails(c)
    <3>1. stage' = [Staging EXCEPT !.raw[NextBudget(c)] = c] /\ dest' = dest
      BY <2>2 DEF RunBudget, BudgetFails
    <3>2. QED
      BY <1>1, <3>1 DEF Dirs
  <2>3. CASE Retain(c)
    <3>1. stage # None /\ stage \in Dirs
      BY <2>3, RetainStage
    <3>2. stage' = [stage EXCEPT
            !.raw = [b \in Budgets |->
                       IF b <= Len(meta[c].runs) THEN None ELSE stage.raw[b]],
            !.bgv = [b \in Budgets |->
                       IF b \in Retained(meta[c].runs)
                       THEN stage.raw[b] ELSE stage.bgv[b]]]
          /\ dest' = dest
      BY <2>3, <3>1 DEF Retain, Dirs
    <3>3. QED
      BY <1>1, <3>1, <3>2 DEF Dirs
  <2>4. CASE WriteCapture(c)
    BY <1>1, <2>4 DEF WriteCapture, Dirs
  <2>5. CASE Erode(c)
    <3>1. PICK gone \in SUBSET Budgets, w \in {dest.capture, None} :
            dest' = [dest EXCEPT
              !.capture = w,
              !.bgv = [b \in Budgets |-> IF b \in gone THEN None ELSE dest.bgv[b]],
              !.filter = [b \in Budgets |-> IF b \in gone THEN None ELSE dest.filter[b]]]
      BY <1>1, <2>5 DEF Erode, Dirs
    <3>2. dest \in Dirs /\ stage' = stage
      BY <1>1, <2>5 DEF Erode
    <3>3. QED
      BY <1>1, <3>1, <3>2 DEF Dirs
  <2>6. CASE Erase(c) \/ Publish(c)
    BY <1>1, <2>6 DEF Erase, Publish
  <2>7. CASE UNCHANGED <<stage, dest>>
    BY <1>1, <2>7
  <2>8. QED
    BY <1>2, <2>1, <2>2, <2>3, <2>4, <2>5, <2>6, <2>7 DEF Capture, Identify,
      RefuseDirty, Reuse, RefuseEvidence, Prepare, Reject, WorkdirExists,
      RetainFails, Verify, RecordInvalid, PublishFails
<1>3. ASSUME NEW p \in Readers, Read(p)
      PROVE  stage' \in Dirs \cup {None} /\ dest' \in Dirs \cup {None}
  BY <1>1, <1>3, FreshType, ReaderDirs DEF Keeps
<1>4. QED
  BY <1>1, <1>2, <1>3 DEF Next, Kill, Edit, AllEnded, vars, Readers

(* What a summary finds comes from filter files that are whole.            *)
LEMMA FoundType ==
    ASSUME TypeOK, RunsInv, NEW s \in Readers, Summarize(s),
           at[s].capture \in Captures, NEW same \in BOOLEAN
    PROVE  [capture |-> at[s].capture,
            valid |-> CanRead(s, at[s].capture) /\ same,
            from |-> IF CanRead(s, at[s].capture)
                     THEN {FileAt(s, "filter", b) : b \in SelectedOf(at[s].capture)}
                     ELSE {}] \in Verdicts
<1> DEFINE c == at[s].capture
           F == {FileAt(s, "filter", b) : b \in SelectedOf(c)}
<1>1. ASSUME CanRead(s, c) PROVE F \subseteq Captures
  <2>1. SelectedOf(c) \subseteq Budgets
    BY <1>1, BudgetsRan DEF CanRead
  <2>2. ASSUME NEW b \in SelectedOf(c) PROVE FileAt(s, "filter", b) \in Captures
    <3>1. FileAt(s, "filter", b) \notin {None, Torn}
      BY <1>1 DEF Summarize, CanRead, Cut
    <3>2. Here(s) \in Dirs /\ FileAt(s, "filter", b) = Here(s).filter[b]
      BY <3>1, HereType DEF FileAt
    <3>3. QED
      BY <2>1, <3>1, <3>2 DEF Dirs
  <2>3. QED
    BY <2>2
<1>2. (CanRead(s, c) /\ same) \in BOOLEAN
  OBVIOUS
<1>3. (IF CanRead(s, c) THEN F ELSE {}) \in SUBSET Captures
  BY <1>1
<1>4. c \in Captures \cup {None}
  OBVIOUS
<1> HIDE DEF c, F
<1>5. [capture |-> c, valid |-> CanRead(s, c) /\ same,
       from |-> IF CanRead(s, c) THEN F ELSE {}] \in Verdicts
  BY <1>2, <1>3, <1>4 DEF Verdicts
<1>6. QED
  BY <1>5 DEF c, F

(* What a reader's step changes of what it knows, and of the matrix.       *)
LEMMA ReaderStep ==
    ASSUME TypeOK, NEW p \in Readers, Read(p)
    PROVE  /\ \A q \in Readers \ {p} : at'[q] = at[q]
           /\ matrix' = matrix \/ (p \in Summaries /\ matrix' = at'[p].found)
BY DEF TypeOK, Readers, Read, Begin, Visit, Pass, Analyze, Skip,
  BgvMissing, OpenFilter, OpenFails, WriteFilter, AnalysisDone, Summarize,
  SummaryFails, Leave, Goto

(* A summary that reads names the capture it entered at.                   *)
LEMMA ReadingCapture ==
    ASSUME TypeOK, SettledInv, NEW p \in Readers,
           Inside(p)
    PROVE  at[p].capture \in Captures
BY DEF TypeOK, SettledInv, Settled, Readers

LEMMA VisitedCapture ==
    ASSUME TypeOK, NEW d \in {"staging", "destination"}, HasCapture(d)
    PROVE  Directory(d).capture \in Captures
<1>1. Directory(d) \in Dirs \cup {None}
  BY DEF TypeOK, Directory
<1>2. QED
  BY <1>1 DEF HasCapture, Owner, Dirs

LEMMA SummaryFound ==
    ASSUME TypeOK, NEW s \in Readers, Summarize(s)
    PROVE  /\ pc[s] = "read"
           /\ \E same \in BOOLEAN : at' = [at EXCEPT ![s].found =
                  [capture |-> at[s].capture,
                   valid |-> CanRead(s, at[s].capture) /\ same,
                   from |-> IF CanRead(s, at[s].capture)
                            THEN {FileAt(s, "filter", b) :
                                      b \in SelectedOf(at[s].capture)}
                            ELSE {}]]
<1>1. \A c : {(c \in Smoke), TRUE} \subseteq BOOLEAN
  OBVIOUS
<1>2. QED
  BY <1>1 DEF Summarize

LEMMA ReadingType ==
    TypeOK /\ RunsInv /\ SettledInv /\ [Next]_vars =>
        at' \in [Readers -> Readings] /\ matrix' \in Verdicts
<1> SUFFICES ASSUME TypeOK, RunsInv, SettledInv, [Next]_vars
             PROVE  at' \in [Readers -> Readings] /\ matrix' \in Verdicts
  OBVIOUS
<1>1. at \in [Readers -> Readings] /\ matrix \in Verdicts
  BY DEF TypeOK, Readers, Readings
<1>2. ASSUME NEW p \in Readers, Read(p) PROVE at' \in [Readers -> Readings]
  <2>1. CASE Begin(p)
    BY <1>1, <2>1 DEF Begin, Readings
  <2>2. CASE Visit(p)
    <3>1. PICK d \in {"staging", "destination"} :
            /\ HasCapture(d)
            /\ at' = [at EXCEPT ![p] =
                        [@ EXCEPT !.dir = d, !.capture = Directory(d).capture,
                                  !.todo = Listed(Directory(d).capture)]]
      BY <2>2 DEF Visit, IsCase
    <3>2. Directory(d).capture \in Captures
      BY <3>1, VisitedCapture
    <3>3. Listed(Directory(d).capture) \subseteq Budgets
      BY <3>2, BudgetsRan
    <3> DEFINE n == [at[p] EXCEPT !.dir = d, !.capture = Directory(d).capture,
                                  !.todo = Listed(Directory(d).capture)]
    <3>4. n \in Readings
      BY <1>1, <3>2, <3>3 DEF Readings
    <3>5. at' = [at EXCEPT ![p] = n]
      BY <1>1, <3>1
    <3> HIDE DEF n
    <3>6. QED
      BY <1>1, <3>4, <3>5
  <2>3. CASE Analyze(p)
    <3>1. PICK b \in at[p].todo :
            /\ FileAt(p, "bgv", b) # None
            /\ at' = [at EXCEPT ![p].todo = @ \ {b}, ![p].now = b,
                                ![p].content = FileAt(p, "bgv", b)]
      BY <2>3 DEF Analyze
    <3>2. b \in Budgets
      BY <1>1 DEF Readings
    <3>3. Here(p) \in Dirs /\ FileAt(p, "bgv", b) = Here(p).bgv[b]
      BY <3>1, HereType DEF FileAt
    <3>4. FileAt(p, "bgv", b) \in Captures \cup {None}
      BY <3>2, <3>3 DEF Dirs
    <3> DEFINE n == [at[p] EXCEPT !.todo = @ \ {b}, !.now = b,
                                  !.content = FileAt(p, "bgv", b)]
    <3>5. n \in Readings
      BY <1>1, <3>2, <3>4 DEF Readings
    <3>6. at' = [at EXCEPT ![p] = n]
      BY <1>1, <3>1 DEF Readings
    <3> HIDE DEF n
    <3>7. QED
      BY <1>1, <3>5, <3>6
  <2>4. CASE Skip(p)
    BY <1>1, <2>4 DEF Skip, Readings
  <2>5. CASE Summarize(p)
    <3>1. at[p].capture \in Captures
      BY <2>5, ReadingCapture, SummaryFound DEF Inside
    <3>2. PICK v \in Verdicts : at' = [at EXCEPT ![p].found = v]
      BY <2>5, <3>1, SummaryFound, FoundType
    <3>3. QED
      BY <1>1, <3>2 DEF Readings
  <2>6. CASE at' = at
    BY <1>1, <2>6
  <2>7. QED
    BY <1>2, <2>1, <2>2, <2>3, <2>4, <2>5, <2>6 DEF Read, Pass, BgvMissing,
      OpenFilter, OpenFails, WriteFilter, AnalysisDone, SummaryFails
<1>3. ASSUME NEW p \in Readers, Read(p) PROVE matrix' \in Verdicts
  BY <1>1, <1>2, <1>3, ReaderStep DEF Readings
<1>4. ASSUME NEW c \in Captures, Capture(c) PROVE at' = at /\ matrix' = matrix
  BY <1>4 DEF Capture, Identify, RefuseDirty, Reuse, RefuseEvidence,
    ClearStaging, Prepare, Reject, RunBudget, BudgetFails, WorkdirExists,
    Retain, RetainFails, Verify, RecordInvalid, WriteCapture, Erode, Erase,
    Publish, PublishFails
<1>5. QED
  BY <1>1, <1>2, <1>3, <1>4 DEF Next, Kill, Edit, AllEnded, vars, Readers

(* Every step that is one watches whether processes are in each other's    *)
(* way before it.                                                          *)
LEMMA Watched == [Next]_vars => Watch \/ UNCHANGED vars
<1>1. ASSUME NEW c \in Captures, Capture(c) PROVE Watch
  BY <1>1 DEF Goto, Capture, Identify, RefuseDirty, Reuse,
    RefuseEvidence, ClearStaging, Prepare, Reject, RunBudget, BudgetFails,
    WorkdirExists, Retain, RetainFails, Verify, RecordInvalid, WriteCapture,
    Erode, Erase, Publish, PublishFails
<1>2. ASSUME NEW p \in Readers, Read(p) PROVE Watch
  BY <1>2 DEF Goto, Leave, Read, Begin, Visit, Pass, Analyze, Skip,
    BgvMissing, OpenFilter, OpenFails, WriteFilter, AnalysisDone, Summarize,
    SummaryFails
<1>3. QED
  BY <1>1, <1>2 DEF Next, Kill, Edit, AllEnded, Readers

LEMMA TypeStep ==
    TypeOK /\ RunsInv /\ SettledInv /\ [Next]_vars => TypeOK'
<1> SUFFICES ASSUME TypeOK, RunsInv, SettledInv, [Next]_vars PROVE TypeOK'
  OBVIOUS
<1>1. /\ product' \in 0..MaxProduct
      /\ stage' \in Dirs \cup {None} /\ dest' \in Dirs \cup {None}
      /\ meta' \in [Captures -> Metas] /\ pc' \in [Procs -> Phases]
      /\ at' \in [Readers -> Readings] /\ matrix' \in Verdicts
  BY MetaType, DirsType, PhaseType, ReadingType
<1>2. overlapped' \in BOOLEAN
  <2>1. overlapped \in BOOLEAN /\ (overlapped \/ Overlap) \in BOOLEAN
    BY DEF TypeOK
  <2>2. QED
    BY <2>1, Watched DEF Watch, vars
<1>3. QED
  BY <1>1, <1>2 DEF TypeOK, Metas, Readings, Readers

----------------------------------------------------------------------------
(* What a capture has run *)

(* A step that runs no budget of c neither takes it back before its runs   *)
(* nor makes it valid without its admission.                               *)
NoRun(c) ==
    /\ meta'[c].runs = meta[c].runs
    /\ pc'[c] \in Early => pc[c] \in Early /\ meta'[c].valid = meta[c].valid
    /\ pc'[c] \in {"captured", "retained"} => pc[c] \in {"captured", "retained"}
    /\ meta'[c].valid /\ ~meta[c].valid => pc[c] = "retained" /\ Admitted(c)

LEMMA NoRunSteps ==
    ASSUME TypeOK, [Next]_vars, NEW c \in Captures
    PROVE  NoRun(c) \/ RunBudget(c)
<1>1. meta \in [Captures -> Metas] /\ pc \in [Procs -> Phases] /\ c \in Procs
  BY DEF TypeOK, Metas, Procs
<1>2. ASSUME NEW e \in Captures, Capture(e) PROVE NoRun(c) \/ RunBudget(c)
  <2>1. CASE Identify(e) \/ Retain(e)
    <3>1. \/ meta' = [meta EXCEPT ![e].product = product]
          \/ meta' = [meta EXCEPT ![e].listed = TRUE]
      BY <2>1 DEF Identify, Retain
    <3>2. meta'[c].runs = meta[c].runs /\ meta'[c].valid = meta[c].valid
      <4>1. CASE meta' = [meta EXCEPT ![e].product = product]
        BY <1>1, <4>1 DEF Metas
      <4>2. CASE meta' = [meta EXCEPT ![e].listed = TRUE]
        BY <1>1, <4>2 DEF Metas
      <4>3. QED
        BY <3>1, <4>1, <4>2
    <3>3. \/ pc[e] = "idle" /\ pc' = [pc EXCEPT ![e] = "identified"]
          \/ pc[e] = "captured" /\ pc' = [pc EXCEPT ![e] = "retained"]
      BY <2>1 DEF Goto, Identify, Retain
    <3>4. e \in Procs
      BY DEF Procs
    <3>5. QED
      BY <1>1, <3>2, <3>3, <3>4 DEF NoRun, Early
  <2>2. CASE Verify(e)
    <3>1. /\ meta'[c].runs = meta[c].runs
          /\ e # c => meta'[c] = meta[c]
          /\ e = c => meta'[c].valid = Admitted(c)
      BY <1>1, <2>2 DEF Verify, Metas
    <3>2. pc[e] = "retained" /\ pc'[e] \in {"publishing", "failed"}
          /\ (e # c => pc'[c] = pc[c])
      BY <1>1, <2>2 DEF Verify, Goto, Procs
    <3>3. QED
      BY <1>1, <3>1, <3>2 DEF NoRun, Early
  <2>3. CASE RecordInvalid(e)
    <3>1. /\ meta'[c].runs = meta[c].runs
          /\ e # c => meta'[c] = meta[c]
          /\ e = c => meta'[c].valid = FALSE
      BY <1>1, <2>3 DEF RecordInvalid, Metas
    <3>2. pc[e] = "failed" /\ pc' = [pc EXCEPT ![e] = "publishing"] /\ e \in Procs
      BY <2>3 DEF Goto, RecordInvalid, Procs
    <3>3. QED
      BY <1>1, <3>1, <3>2 DEF NoRun, Early
  <2>4. CASE RunBudget(e)
    <3>1. e # c => meta'[c] = meta[c] /\ pc'[c] = pc[c]
      BY <1>1, <2>4 DEF RunBudget, Goto
    <3>2. QED
      BY <2>4, <3>1 DEF NoRun
  <2>5. CASE meta' = meta
    BY <1>1, <1>2, <2>5 DEF NoRun, Early, Goto, Capture, Identify, RefuseDirty,
      Reuse, RefuseEvidence, ClearStaging, Prepare, Reject, RunBudget,
      BudgetFails, WorkdirExists, Retain, RetainFails, Verify, RecordInvalid,
      WriteCapture, Erode, Erase, Publish, PublishFails
  <2>6. QED
    BY <1>2, <2>1, <2>2, <2>3, <2>4, <2>5 DEF Capture, RefuseDirty, Reuse,
      RefuseEvidence, ClearStaging, Prepare, Reject, BudgetFails,
      WorkdirExists, RetainFails, WriteCapture, Erode, Erase, Publish,
      PublishFails
<1>3. ASSUME NEW p \in Readers, Read(p) PROVE NoRun(c)
  BY <1>1, <1>3 DEF NoRun, Early, Goto, Leave, Read, Begin, Visit, Pass,
    Analyze, Skip, BgvMissing, OpenFilter, OpenFails, WriteFilter,
    AnalysisDone, Summarize, SummaryFails
<1>4. ASSUME NEW p \in Killable, Kill(p) PROVE NoRun(c)
  BY <1>1, <1>4 DEF NoRun, Early, Kill
<1>5. CASE Edit \/ AllEnded \/ UNCHANGED vars
  BY <1>1, <1>5 DEF NoRun, Edit, AllEnded, vars
<1>6. QED
  BY <1>2, <1>3, <1>4, <1>5 DEF Next, Readers

LEMMA RunsStep == TypeOK /\ RunsInv /\ [Next]_vars => RunsInv'
<1> SUFFICES ASSUME TypeOK, RunsInv, [Next]_vars, NEW c \in Captures
             PROVE  LET q == meta'[c].runs IN
               /\ Len(q) <= NBudgets
               /\ IsStable(q) => StableAt(q) = {Len(q) - 1}
               /\ pc'[c] \in Early =>
                     /\ Len(q) < NBudgets /\ ~IsStable(q) /\ ~meta'[c].valid
                     /\ c \in Smoke => q = <<>>
               /\ pc'[c] \in {"captured", "retained"} => q # <<>>
               /\ c \in Smoke => Len(q) <= 1
               /\ c \in Smoke /\ meta'[c].valid => q # <<>> /\ Candidate(q[Len(q)])
  BY DEF RunsInv
<1> DEFINE r == meta[c].runs
<1>1. /\ meta \in [Captures -> Metas] /\ pc \in [Procs -> Phases] /\ c \in Procs
      /\ r \in Seq(Outcomes) /\ Len(r) \in 0..NBudgets
  BY BudgetsRan DEF TypeOK, Metas, Procs
<1>2. CASE NoRun(c)
  BY <1>2 DEF NoRun, RunsInv, Admitted
<1>3. CASE RunBudget(c)
  <2>1. PICK o \in Outcomes :
          LET q == Append(r, o) IN
          /\ meta' = [meta EXCEPT ![c].runs = q]
          /\ pc[c] = "running"
          /\ pc' = [pc EXCEPT ![c] =
                IF c \in Smoke \/ IsStable(q) \/ Len(q) = NBudgets
                THEN "captured" ELSE "running"]
    BY <1>3 DEF RunBudget, Goto
  <2> DEFINE q == Append(r, o)
  <2>2. /\ Len(r) < NBudgets /\ ~IsStable(r) /\ ~meta[c].valid
        /\ c \in Smoke => r = <<>>
    BY <2>1 DEF RunsInv, Early
  <2>3. /\ q # <<>> /\ Len(q) = Len(r) + 1 /\ (r = <<>> => Len(q) = 1)
        /\ IsStable(q) => StableAt(q) = {Len(q) - 1}
    BY <1>1, <2>2, AppendAgrees
  <2>4. /\ meta'[c].runs = q /\ meta'[c].valid = meta[c].valid
        /\ pc'[c] = IF c \in Smoke \/ IsStable(q) \/ Len(q) = NBudgets
                    THEN "captured" ELSE "running"
    BY <1>1, <2>1 DEF Metas
  <2> HIDE DEF q
  <2>5. QED
    BY <1>1, <2>2, <2>3, <2>4, BoundsAssumption DEF Early
<1>4. QED
  BY <1>2, <1>3, NoRunSteps

----------------------------------------------------------------------------
(* What the directories, the readers and the matrix name *)

(* Nothing of a capture changes once its capture.json is written.          *)
LEMMA SettledStays ==
    ASSUME TypeOK, [Next]_vars, NEW c, Settled(c)
    PROVE  Settled(c)' /\ meta'[c] = meta[c]
<1>1. /\ c \in Captures /\ c \in Procs
      /\ pc[c] \in {"erasing", "erased", "ok", "dead"}
      /\ pc \in [Procs -> Phases] /\ meta \in [Captures -> Metas]
  BY DEF Settled, TypeOK, Metas, Procs
<1>2. ASSUME NEW e \in Captures, Capture(e)
      PROVE  pc'[c] \in {"erasing", "erased", "ok", "dead"} /\ meta'[c] = meta[c]
  <2>1. CASE e = c
    BY <1>1, <1>2, <2>1 DEF Goto, Capture, Identify, RefuseDirty, Reuse,
      RefuseEvidence, ClearStaging, Prepare, Reject, RunBudget, BudgetFails,
      WorkdirExists, Retain, RetainFails, Verify, RecordInvalid, WriteCapture,
      Erode, Erase, Publish, PublishFails
  <2>2. CASE e # c
    BY <1>1, <1>2, <2>2 DEF Goto, Capture, Identify, RefuseDirty, Reuse,
      RefuseEvidence, ClearStaging, Prepare, Reject, RunBudget, BudgetFails,
      WorkdirExists, Retain, RetainFails, Verify, RecordInvalid, WriteCapture,
      Erode, Erase, Publish, PublishFails
  <2>3. QED
    BY <2>1, <2>2
<1>3. ASSUME NEW p \in Readers, Read(p)
      PROVE  pc'[c] \in {"erasing", "erased", "ok", "dead"} /\ meta'[c] = meta[c]
  BY <1>1, <1>3 DEF Goto, Leave, Read, Begin, Visit, Pass, Analyze, Skip,
    BgvMissing, OpenFilter, OpenFails, WriteFilter, AnalysisDone, Summarize,
    SummaryFails
<1>4. ASSUME NEW p \in Killable, Kill(p)
      PROVE  pc'[c] \in {"erasing", "erased", "ok", "dead"} /\ meta'[c] = meta[c]
  BY <1>1, <1>4 DEF Kill
<1>5. QED
  BY <1>1, <1>2, <1>3, <1>4 DEF Settled, Next, Edit, AllEnded, vars, Readers

LEMMA KeepsOwner ==
    ASSUME NEW p, NEW x, NEW y, Keeps(p, x, y)
    PROVE  Owner(y) \in {None, Owner(x)}
BY FreshType DEF Keeps, Owner

(* The owner of a directory changes by a capture that writes it, by the    *)
(* rename, or is lost.                                                     *)
LEMMA OwnersStep ==
    ASSUME TypeOK, RunsInv, [Next]_vars
    PROVE  \/ /\ Owner(stage') \in {None, Owner(stage)}
              /\ Owner(dest') \in {None, Owner(dest)}
           \/ \E c \in Captures :
                 WriteCapture(c) /\ Owner(stage') = c /\ dest' = dest
           \/ Owner(stage') = None /\ dest' = stage
<1> DEFINE Same == /\ Owner(stage') \in {None, Owner(stage)}
                   /\ Owner(dest') \in {None, Owner(dest)}
<1>1. stage \in Dirs \cup {None} /\ dest \in Dirs \cup {None} /\ Staging \in Dirs
  BY StagingType DEF TypeOK
<1>2. Staging.capture \in {None, Owner(stage)}
  BY DEF Staging, Fresh, Owner
<1>3. stage' \in Dirs \cup {None} /\ dest' \in Dirs \cup {None}
  BY DirsType
<1>4. ASSUME UNCHANGED <<stage, dest>> PROVE Same
  BY <1>4
<1>5. ASSUME NEW d \in Dirs PROVE Owner(d) \in {None, d.capture}
  BY DEF Owner
<1>6. ASSUME NEW c \in Captures, Capture(c)
      PROVE  \/ Same
             \/ WriteCapture(c) /\ Owner(stage') = c /\ dest' = dest
             \/ Owner(stage') = None /\ dest' = stage
  <2>1. CASE ClearStaging(c)
    BY <2>1, FreshType DEF ClearStaging
  <2>2. CASE RunBudget(c) \/ BudgetFails(c)
    <3>1. stage' = [Staging EXCEPT !.raw[NextBudget(c)] = c] /\ dest' = dest
      BY <2>2 DEF RunBudget, BudgetFails
    <3>2. stage' \in Dirs /\ stage'.capture = Staging.capture
      BY <1>1, <3>1 DEF Dirs
    <3>3. QED
      BY <1>1, <1>2, <3>1, <3>2 DEF Owner
  <2>3. CASE Retain(c)
    <3>1. stage # None /\ stage \in Dirs
      BY <2>3, RetainStage
    <3>2. stage'.capture = stage.capture /\ dest' = dest
      BY <2>3, <3>1 DEF Retain, Dirs
    <3>3. QED
      BY <3>1, <3>2 DEF Owner
  <2>4. CASE WriteCapture(c)
    <3>1. stage' = [Staging EXCEPT !.capture = c] /\ dest' = dest
      BY <2>4 DEF WriteCapture
    <3>2. stage'.capture = c
      BY <1>1, <3>1 DEF Dirs
    <3>3. CASE stage' = None
      BY <3>1, <3>3 DEF Owner
    <3>4. CASE stage' # None
      BY <2>4, <3>1, <3>2, <3>4 DEF Owner
    <3>5. QED
      BY <3>3, <3>4
  <2>5. CASE Erode(c)
    <3>1. dest # None /\ dest \in Dirs /\ stage' = stage
      BY <1>1, <2>5 DEF Erode
    <3>2. dest'.capture \in {dest.capture, None}
      BY <2>5, <3>1 DEF Erode, Dirs
    <3>3. QED
      BY <3>1, <3>2 DEF Owner
  <2>6. CASE Erase(c)
    BY <2>6 DEF Erase, Owner
  <2>7. CASE Publish(c)
    BY <2>7 DEF Publish, Owner
  <2>8. CASE UNCHANGED <<stage, dest>>
    BY <1>4, <2>8
  <2>9. QED
    BY <1>6, <2>1, <2>2, <2>3, <2>4, <2>5, <2>6, <2>7, <2>8 DEF Capture,
      Identify, RefuseDirty, Reuse, RefuseEvidence, Prepare, Reject,
      WorkdirExists, RetainFails, Verify, RecordInvalid, PublishFails
<1>7. ASSUME NEW p \in Readers, Read(p) PROVE Same
  BY <1>7, ReaderDirs, KeepsOwner
<1>8. QED
  BY <1>4, <1>6, <1>7 DEF Next, Kill, Edit, AllEnded, vars, Readers

(* What a reader enters at is one of the directories' owners.              *)
LEMMA ReadingStep ==
    ASSUME TypeOK, SettledInv, [Next]_vars, NEW p \in Readers
    PROVE  /\ at'[p].capture \in {at[p].capture, Owner(stage), Owner(dest)}
           /\ pc'[p] \in {"read", "analyzed", "writing"} => at'[p].capture # None
           /\ at'[p].found = at[p].found \/ Summarize(p)
<1> DEFINE R == {"read", "analyzed", "writing"}
           Goal == /\ at'[p].capture \in {at[p].capture, Owner(stage), Owner(dest)}
                   /\ pc'[p] \in R => at'[p].capture # None
                   /\ at'[p].found = at[p].found \/ Summarize(p)
<1>1. /\ at \in [Readers -> Readings] /\ pc \in [Procs -> Phases] /\ p \in Procs
      /\ pc[p] \in R => at[p].capture # None
  BY DEF TypeOK, Readers, Readings, Procs, SettledInv, Inside
<1>2. ASSUME at'[p] = at[p], pc'[p] \in R => pc[p] \in R
      PROVE  Goal
  BY <1>1, <1>2
<1>3. ASSUME NEW c \in Captures, Capture(c) PROVE Goal
  <2>1. at' = at /\ (pc'[p] \in R => pc[p] \in R)
    BY <1>1, <1>3 DEF Goto, Capture, Identify, RefuseDirty, Reuse,
      RefuseEvidence, ClearStaging, Prepare, Reject, RunBudget, BudgetFails,
      WorkdirExists, Retain, RetainFails, Verify, RecordInvalid, WriteCapture,
      Erode, Erase, Publish, PublishFails
  <2>2. QED
    BY <1>2, <2>1
<1>4. ASSUME NEW q \in Readers, Read(q), q # p PROVE Goal
  <2>1. at'[p] = at[p]
    BY <1>4, ReaderStep
  <2>2. pc'[p] = pc[p]
    BY <1>1, <1>4 DEF Goto, Leave, Read, Begin, Visit, Pass, Analyze, Skip,
      BgvMissing, OpenFilter, OpenFails, WriteFilter, AnalysisDone, Summarize,
      SummaryFails
  <2>3. QED
    BY <1>2, <2>1, <2>2
<1>5. ASSUME Read(p) PROVE Goal
  <2>1. CASE Visit(p)
    <3>1. PICK d \in {"staging", "destination"} :
            /\ HasCapture(d)
            /\ at' = [at EXCEPT ![p] =
                        [@ EXCEPT !.dir = d, !.capture = Directory(d).capture,
                                  !.todo = Listed(Directory(d).capture)]]
      BY <2>1 DEF Visit, IsCase
    <3>2. Directory(d).capture \in {Owner(stage), Owner(dest)} \ {None}
      BY <3>1 DEF HasCapture, Directory, Owner
    <3>3. at'[p].capture = Directory(d).capture /\ at'[p].found = at[p].found
      BY <1>1, <3>1 DEF Readings
    <3>4. QED
      BY <3>2, <3>3
  <2>2. CASE Begin(p) \/ Analyze(p) \/ Skip(p)
    <3>1. at'[p].capture = at[p].capture /\ at'[p].found = at[p].found
      <4>1. CASE Begin(p)
        BY <1>1, <4>1 DEF Begin, Readings
      <4>2. CASE Analyze(p)
        <5>1. PICK b, x : at' = [at EXCEPT ![p].todo = @ \ {b}, ![p].now = b,
                                          ![p].content = x]
          BY <4>2 DEF Analyze
        <5>2. QED
          BY <1>1, <5>1 DEF Readings
      <4>3. CASE Skip(p)
        BY <1>1, <4>3 DEF Skip, Readings
      <4>4. QED
        BY <2>2, <4>1, <4>2, <4>3
    <3>2. pc'[p] \in R => pc[p] \in R
      BY <1>1, <2>2 DEF Begin, Analyze, Skip, Goto
    <3>3. QED
      BY <1>1, <3>1, <3>2
  <2>3. CASE Summarize(p)
    <3>1. at'[p].capture = at[p].capture
      BY <1>1, <2>3, SummaryFound DEF Readings
    <3>2. pc'[p] \notin R
      BY <1>1, <2>3 DEF Summarize, Leave, Goto
    <3>3. QED
      BY <2>3, <3>1, <3>2
  <2>4. CASE Pass(p) \/ BgvMissing(p) \/ OpenFilter(p) \/ OpenFails(p)
                \/ WriteFilter(p) \/ AnalysisDone(p) \/ SummaryFails(p)
    BY <1>1, <1>2, <2>4 DEF Goto, Leave, Pass, BgvMissing, OpenFilter,
      OpenFails, WriteFilter, AnalysisDone, SummaryFails
  <2>5. QED
    BY <1>5, <2>1, <2>2, <2>3, <2>4 DEF Read
<1>6. ASSUME NEW q \in Killable, Kill(q) PROVE Goal
  <2>1. at' = at /\ (pc'[p] \in R => pc[p] \in R)
    BY <1>1, <1>6 DEF Kill
  <2>2. QED
    BY <1>2, <2>1
<1>7. ASSUME Edit \/ AllEnded \/ UNCHANGED vars PROVE Goal
  <2>1. at' = at /\ pc' = pc
    BY <1>7 DEF Edit, AllEnded, vars
  <2>2. QED
    BY <1>2, <2>1
<1>8. Goal
  BY <1>3, <1>4, <1>5, <1>6, <1>7 DEF Next, Readers
<1>9. QED
  BY <1>8

LEMMA SettledStep == TypeOK /\ RunsInv /\ SettledInv /\ [Next]_vars => SettledInv'
<1> SUFFICES ASSUME TypeOK, RunsInv, SettledInv, [Next]_vars PROVE SettledInv'
  OBVIOUS
<1>1. \A c : Settled(c) => Settled(c)'
  BY SettledStays
<1>2. \A d \in {stage', dest'} : Owner(d) # None => Settled(Owner(d))'
  <2>1. (Owner(stage) # None => Settled(Owner(stage))) /\
        (Owner(dest) # None => Settled(Owner(dest)))
    BY DEF SettledInv
  <2>2. ASSUME NEW c \in Captures, WriteCapture(c) PROVE Settled(c)'
    BY <2>2 DEF WriteCapture, Goto, Settled, TypeOK, Procs
  <2>3. QED
    BY <1>1, <2>1, <2>2, OwnersStep
<1>5. ASSUME NEW p \in Readers
      PROVE  /\ \A c : c = at'[p].capture /\ c # None => Settled(c)'
             /\ Inside(p)' => at'[p].capture # None
  <2>1. /\ at[p].capture # None => Settled(at[p].capture)
        /\ Owner(stage) # None => Settled(Owner(stage))
        /\ Owner(dest) # None => Settled(Owner(dest))
    BY DEF SettledInv, Readers
  <2>2. QED
    BY <1>1, <2>1, ReadingStep DEF Inside
<1>7. \A d \in {stage, dest}' : Owner(d) # None => Settled(Owner(d))'
  BY <1>2
<1>8. ASSUME NEW p \in Readers PROVE (at[p].capture # None => Settled(at[p].capture))'
  <2>1. PICK c : c = at'[p].capture
    OBVIOUS
  <2>2. c # None => Settled(c)'
    BY <1>5, <2>1
  <2>3. QED
    BY <2>1, <2>2 DEF Settled
<1>9. QED
  BY <1>5, <1>7, <1>8 DEF SettledInv, Readers

----------------------------------------------------------------------------
(* Theorems without discipline: any number of processes at once            *)

BaseInv == TypeOK /\ RunsInv /\ SettledInv

LEMMA BaseInit == Init => BaseInv
<1> SUFFICES ASSUME Init PROVE BaseInv
  OBVIOUS
<1>1. NoVerdict \in Verdicts /\ ~NoVerdict.valid
  BY DEF NoVerdict, Verdicts
<1>2. Nowhere \in Readings /\ Nowhere.capture = None /\ Nowhere.found = NoVerdict
  BY <1>1 DEF Nowhere, Readings
<1>3. <<>> \in Seq(Outcomes) /\ Len(<<>>) = 0
  OBVIOUS
<1>4. 0 \in 0..MaxProduct
  BY BoundsAssumption
<1>5. TypeOK
  <2>1. meta \in [Captures -> Metas]
    BY <1>3, <1>4 DEF Init, Metas
  <2>2. at \in [Readers -> Readings] /\ matrix \in Verdicts
    BY <1>1, <1>2 DEF Init, Readers
  <2>3. pc \in [Procs -> Phases]
    BY DEF Init, Phases
  <2>4. QED
    BY <1>4, <2>1, <2>2, <2>3 DEF Init, TypeOK, Metas, Readings, Readers
<1>6. RunsInv
  <2>1. ~IsStable(<<>>)
    BY <1>3 DEF IsStable, StableAt
  <2>2. QED
    BY <1>3, <2>1, BoundsAssumption DEF Init, RunsInv, Early, Procs
<1>7. SettledInv
  <2>1. Owner(stage) = None /\ Owner(dest) = None
    BY DEF Init, Owner
  <2>2. QED
    BY <1>1, <1>2, <2>1 DEF Init, SettledInv, Inside, Readers, Procs
<1>8. QED
  BY <1>5, <1>6, <1>7 DEF BaseInv

LEMMA BaseStep == BaseInv /\ [Next]_vars => BaseInv'
BY TypeStep, RunsStep, SettledStep DEF BaseInv

LEMMA BaseCorrect == Spec => []BaseInv
BY BaseInit, BaseStep, PTL DEF Spec

(* Every state the processes of a case can reach is well typed; with it, a *)
(* capture never runs past its budgets nor packs a directory it misses.    *)
THEOREM TypeCorrect == Spec => []TypeOK
<1>1. BaseInv => TypeOK
  BY DEF BaseInv
<1>2. QED
  BY <1>1, BaseCorrect, PTL

(* stabilize() and retain_runs(): a capture stops at the first two budgets *)
(* that agree, and what a summary will read of it is retained.             *)
THEOREM FirstPair == Spec => []StopsAtFirstPair
<1>1. ASSUME BaseInv, NEW c \in Captures
      PROVE  LET r == meta[c].runs IN
             /\ IsStable(r) => Pair(r) = {Len(r) - 1, Len(r)}
             /\ meta[c].valid /\ Stable(c) => Selected(c, r) \subseteq Retained(r)
  <2> DEFINE r == meta[c].runs
  <2>1. r \in Seq(Outcomes) /\ (IsStable(r) => StableAt(r) = {Len(r) - 1})
    BY <1>1, BudgetsRan DEF BaseInv, RunsInv
  <2>2. IsStable(r) => Pair(r) = {Len(r) - 1, Len(r)}
    BY <2>1, PairIsLast
  <2>3. ASSUME meta[c].valid, Stable(c)
        PROVE  Selected(c, r) \subseteq Retained(r)
    <3>1. c \in Smoke => Len(r) <= 1 /\ r # <<>> /\ Candidate(r[Len(r)])
      BY <1>1, <2>3 DEF BaseInv, RunsInv
    <3>2. c \in Smoke => Len(r) = 1 /\ Candidate(r[1])
      <4>1. Len(r) \in Nat /\ (r # <<>> => Len(r) >= 1)
        BY <2>1
      <4> DEFINE n == Len(r)
      <4>2. n \in Nat /\ (r # <<>> => n >= 1)
            /\ (c \in Smoke => n <= 1 /\ r # <<>> /\ Candidate(r[n]))
        BY <3>1, <4>1
      <4> HIDE DEF n, r
      <4>3. c \in Smoke => n = 1 /\ Candidate(r[1])
        <5> SUFFICES ASSUME c \in Smoke PROVE n = 1 /\ Candidate(r[1])
          OBVIOUS
        <5>1. n = 1
          BY <4>2
        <5>2. QED
          BY <4>2, <5>1
      <4>4. QED
        BY <4>3 DEF n
    <3>3. QED
      BY <2>1, <2>3, <3>2, SelectedRetained DEF Stable
  <2>4. QED
    BY <2>2, <2>3
<1>2. BaseInv => StopsAtFirstPair
  BY <1>1 DEF StopsAtFirstPair
<1>3. QED
  BY <1>2, BaseCorrect, PTL

----------------------------------------------------------------------------
(* Turns *)

(* A step is of one process, which is at work or may start.                *)
LEMMA PhaseStep ==
    ASSUME TypeOK, [Next]_vars
    PROVE  \/ pc' = pc
           \/ \E p \in Procs, x \in Phases :
                 /\ pc' = [pc EXCEPT ![p] = x]
                 /\ AtWork(p) \/ (pc[p] = "idle" /\ MayStart(p))
<1>1. pc \in [Procs -> Phases]
  BY DEF TypeOK
<1>2. ASSUME NEW c \in Captures, Capture(c)
      PROVE  \/ pc' = pc
             \/ \E x \in Phases :
                   /\ pc' = [pc EXCEPT ![c] = x]
                   /\ AtWork(c) \/ (pc[c] = "idle" /\ MayStart(c))
  BY <1>2 DEF AtWork, Ends, Phases, Goto, Capture, Identify, RefuseDirty,
    Reuse, RefuseEvidence, ClearStaging, Prepare, Reject, RunBudget,
    BudgetFails, WorkdirExists, Retain, RetainFails, Verify, RecordInvalid,
    WriteCapture, Erode, Erase, Publish, PublishFails
<1>3. ASSUME NEW p \in Readers, Read(p)
      PROVE  \/ pc' = pc
             \/ \E x \in Phases :
                   /\ pc' = [pc EXCEPT ![p] = x]
                   /\ AtWork(p) \/ (pc[p] = "idle" /\ MayStart(p))
  BY <1>3 DEF AtWork, Ends, Phases, Goto, Leave, Read, Begin, Visit, Pass,
    Analyze, Skip, BgvMissing, OpenFilter, OpenFails, WriteFilter,
    AnalysisDone, Summarize, SummaryFails
<1>4. ASSUME NEW p \in Killable, Kill(p)
      PROVE  \E x \in Phases : pc' = [pc EXCEPT ![p] = x] /\ AtWork(p)
  BY <1>4 DEF Kill, Phases, Ends
<1>5. Captures \subseteq Procs /\ Readers \subseteq Procs /\ Killable \subseteq Procs
  BY ProcessAssumption DEF Procs, Readers
<1>6. QED
  BY <1>2, <1>3, <1>4, <1>5 DEF Next, Edit, AllEnded, vars, Readers

LEMMA TurnsStep == TypeOK /\ Turns /\ [Next]_vars => Turns'
<1> SUFFICES ASSUME TypeOK, Turns, [Next]_vars, NEW p \in Exclusive,
                    NEW q \in Exclusive, AtWork(p)', AtWork(q)'
             PROVE  p = q
  BY DEF Turns
<1>1. p \in Procs /\ q \in Procs /\ pc \in [Procs -> Phases]
  BY ProcessAssumption DEF TypeOK
<1>2. CASE pc' = pc
  BY <1>2 DEF Turns, AtWork
<1>3. ASSUME NEW m \in Procs, NEW x, pc' = [pc EXCEPT ![m] = x],
             AtWork(m) \/ MayStart(m), p # q
      PROVE  FALSE
  <2>1. /\ p # m => AtWork(p)
        /\ q # m => AtWork(q)
    BY <1>1, <1>3 DEF AtWork
  <2>2. AtWork(m) \/ m \notin Exclusive \/ \A e \in Exclusive : ~AtWork(e)
    BY <1>3 DEF MayStart
  <2>3. QED
    BY <1>3, <2>1, <2>2 DEF Turns
<1>4. QED
  BY <1>2, <1>3, PhaseStep

(* A capture that has begun keeps the others out.                          *)
LEMMA OthersWait ==
    ASSUME TypeOK, Turns, Captures \subseteq Exclusive,
           NEW e \in Captures, Capture(e), NEW q \in Exclusive, q # e
    PROVE  ~AtWork(q) /\ pc'[q] = pc[q]
<1>1. AtWork(e) \/ MayStart(e)
  BY DEF AtWork, Ends, Goto, Capture, Identify, RefuseDirty,
    Reuse, RefuseEvidence, ClearStaging, Prepare, Reject, RunBudget,
    BudgetFails, WorkdirExists, Retain, RetainFails, Verify, RecordInvalid,
    WriteCapture, Erode, Erase, Publish, PublishFails
<1>2. ~AtWork(q)
  BY <1>1 DEF MayStart, Turns
<1>3. pc' = pc \/ \E x : pc' = [pc EXCEPT ![e] = x]
  BY DEF Goto, Capture, Identify, RefuseDirty,
    Reuse, RefuseEvidence, ClearStaging, Prepare, Reject, RunBudget,
    BudgetFails, WorkdirExists, Retain, RetainFails, Verify, RecordInvalid,
    WriteCapture, Erode, Erase, Publish, PublishFails
<1>4. pc \in [Procs -> Phases] /\ q \in Procs
  BY ProcessAssumption DEF TypeOK
<1>5. QED
  BY <1>2, <1>3, <1>4

----------------------------------------------------------------------------
(* Captures that take turns *)

Reserved(c) ==
    pc[c] \in Prepared => (c \notin Remeasure => Owner(dest) = None) /\ Mine(stage, c)

LEMMA MineIsOwn ==
    ASSUME NEW c \in Captures, NEW d, Mine(d, c)
    PROVE  Own(d)
BY DEF Mine, Own, Owner

LEMMA FreshIsMine == \A c : Mine(Fresh, c)
BY DEF Mine, Fresh, NoFile

LEMMA StagingIsMine ==
    ASSUME NEW c, Mine(stage, c)
    PROVE  Mine(Staging, c) /\ Staging.capture \in {c, None}
           /\ \A b \in Budgets : Staging.raw[b] \in {c, None}
                               /\ Staging.bgv[b] \in {c, None}
BY FreshIsMine DEF Staging, Mine, Fresh, NoFile

(* A capture's own step, from the directories that it may find.            *)
LEMMA MineCapture ==
    ASSUME BaseInv, Own(stage), Own(dest), NEW c \in Captures, Capture(c),
           pc[c] \in Prepared => Mine(stage, c)
    PROVE  /\ Own(stage') /\ Own(dest')
           /\ pc'[c] \in Prepared => Mine(stage', c)
<1> USE DEF BaseInv
<1>1. /\ stage \in Dirs \cup {None} /\ dest \in Dirs \cup {None} /\ Staging \in Dirs
      /\ pc \in [Procs -> Phases] /\ c \in Procs
  BY StagingType DEF TypeOK, Procs
<1>2. CASE ClearStaging(c)
  <2>1. stage' = Fresh /\ dest' = dest
    BY <1>2 DEF ClearStaging
  <2>2. Mine(Fresh, c) /\ Own(Fresh)
    BY FreshIsMine, MineIsOwn
  <2>3. QED
    BY <2>1, <2>2
<1>3. CASE RunBudget(c) \/ BudgetFails(c)
  <2>1. /\ stage' = [Staging EXCEPT !.raw[NextBudget(c)] = c] /\ dest' = dest
        /\ pc[c] = "running"
    BY <1>3 DEF RunBudget, BudgetFails, Goto
  <2>2. Mine(stage, c)
    BY <1>1, <2>1 DEF Prepared
  <2>3. Mine(stage', c)
    BY <1>1, <2>1, <2>2, StagingIsMine DEF Mine, Dirs
  <2>4. QED
    BY <2>1, <2>3, MineIsOwn
<1>4. CASE Retain(c)
  <2>1. stage # None /\ stage \in Dirs /\ pc[c] = "captured" /\ dest' = dest
    BY <1>4, RetainStage DEF Retain, Goto
  <2>2. Mine(stage, c)
    BY <1>1, <2>1 DEF Prepared
  <2>3. stage' = [stage EXCEPT
            !.raw = [b \in Budgets |->
                       IF b <= Len(meta[c].runs) THEN None ELSE stage.raw[b]],
            !.bgv = [b \in Budgets |->
                       IF b \in Retained(meta[c].runs)
                       THEN stage.raw[b] ELSE stage.bgv[b]]]
    BY <1>4, <2>1 DEF Retain, Dirs
  <2>4. Mine(stage', c)
    BY <2>1, <2>2, <2>3 DEF Mine, Dirs
  <2>5. QED
    BY <2>1, <2>4, MineIsOwn
<1>5. CASE WriteCapture(c)
  <2>1. /\ stage' = [Staging EXCEPT !.capture = c] /\ dest' = dest
        /\ pc[c] = "publishing"
    BY <1>5 DEF WriteCapture, Goto
  <2>2. Mine(stage, c)
    BY <1>1, <2>1 DEF Prepared
  <2>3. Mine(stage', c)
    BY <1>1, <2>1, <2>2, StagingIsMine DEF Mine, Dirs
  <2>4. QED
    BY <2>1, <2>3, MineIsOwn
<1>6. CASE Erode(c)
  <2>1. dest # None /\ dest \in Dirs /\ stage' = stage /\ pc' = pc /\ pc[c] = "erasing"
    BY <1>1, <1>6 DEF Erode
  <2>2. PICK gone \in SUBSET Budgets, w \in {dest.capture, None} :
          dest' = [dest EXCEPT
            !.capture = w,
            !.bgv = [b \in Budgets |-> IF b \in gone THEN None ELSE dest.bgv[b]],
            !.filter = [b \in Budgets |-> IF b \in gone THEN None ELSE dest.filter[b]]]
    BY <1>6, <2>1 DEF Erode, Dirs
  <2>3. /\ dest'.capture \in {dest.capture, None}
        /\ \A b \in Budgets : dest'.bgv[b] \in {dest.bgv[b], None}
    BY <2>1, <2>2 DEF Dirs
  <2>4. Own(dest')
    BY <1>1, <2>1, <2>3 DEF Own, Owner
  <2>5. QED
    BY <2>1, <2>4
<1>7. CASE Erase(c)
  <2>1. stage' = stage /\ dest' = None /\ pc[c] = "erasing"
    BY <1>7 DEF Erase, Goto
  <2>2. QED
    BY <1>1, <2>1 DEF Own, Owner, Prepared
<1>8. CASE Publish(c)
  <2>1. stage' = None /\ dest' = stage
    BY <1>8 DEF Publish
  <2>2. QED
    BY <2>1 DEF Own, Owner, Mine
<1>9. ASSUME Identify(c) \/ RefuseDirty(c) \/ Reuse(c) \/ RefuseEvidence(c)
             \/ Prepare(c) \/ Reject(c) \/ WorkdirExists(c) \/ RetainFails(c)
             \/ Verify(c) \/ RecordInvalid(c) \/ PublishFails(c)
      PROVE UNCHANGED <<stage, dest>> /\ (pc'[c] \in Prepared => pc[c] \in Prepared)
  BY <1>1, <1>9 DEF Identify, RefuseDirty, Reuse, RefuseEvidence, Prepare, Reject,
    WorkdirExists, RetainFails, Verify, RecordInvalid, PublishFails, Goto, Prepared
<1>10. QED
  BY <1>2, <1>3, <1>4, <1>5, <1>6, <1>7, <1>8, <1>9 DEF Capture

(* A capture without --remeasure finds no evidence in its destination.     *)
LEMMA OwnCapture ==
    ASSUME BaseInv, OwnInv, NEW c \in Captures, Capture(c)
    PROVE  Own(stage)' /\ Own(dest)' /\ Reserved(c)'
<1>1. /\ dest \in Dirs \cup {None} /\ pc \in [Procs -> Phases] /\ c \in Procs
      /\ Own(stage) /\ Own(dest) /\ Reserved(c)
  BY DEF BaseInv, TypeOK, OwnInv, Reserved, Procs
<1>2. Own(stage') /\ Own(dest') /\ (pc'[c] \in Prepared => Mine(stage', c))
  BY <1>1, MineCapture DEF Reserved
<1>3. ASSUME c \notin Remeasure, pc'[c] \in Prepared PROVE Owner(dest') = None
  <2>1. CASE ClearStaging(c)
    <3>1. dest' = dest /\ dest \in {None, Fresh}
      BY <1>3, <2>1 DEF ClearStaging, Occupied
    <3>2. QED
      BY <3>1, FreshType DEF Owner
  <2>2. CASE Erode(c)
    <3>1. dest # None /\ dest \in Dirs /\ Owner(dest) = None
      BY <1>1, <1>3, <2>2 DEF Erode, Reserved, Prepared
    <3>2. dest'.capture \in {dest.capture, None}
      BY <2>2, <3>1 DEF Erode, Dirs
    <3>3. QED
      BY <3>1, <3>2 DEF Owner
  <2>3. CASE Erase(c)
    BY <2>3 DEF Erase, Owner
  <2>4. CASE Publish(c)
    BY <1>1, <1>3, <2>4 DEF Publish, Goto, Prepared
  <2>5. CASE dest' = dest /\ pc[c] \in Prepared
    BY <1>1, <1>3, <2>5 DEF Reserved
  <2>6. QED
    BY <1>1, <1>3, <2>1, <2>2, <2>3, <2>4, <2>5 DEF Capture, Identify,
      RefuseDirty, Reuse, RefuseEvidence, Prepare, Reject, RunBudget,
      BudgetFails, WorkdirExists, Retain, RetainFails, Verify, RecordInvalid,
      WriteCapture, PublishFails, Goto, Prepared
<1>4. QED
  BY <1>2, <1>3 DEF Own, Owner, Reserved, Mine

(* A reader's step leaves every directory to the capture it belongs to.    *)
LEMMA OwnReader ==
    ASSUME BaseInv, OwnInv, NEW p \in Readers, Read(p)
    PROVE  Own(stage)' /\ Own(dest)' /\ \A c \in Captures : Reserved(c)'
<1>1. Keeps(p, stage, stage') /\ Keeps(p, dest, dest')
  BY ReaderDirs DEF BaseInv
<1>2. Own(stage) /\ Own(dest) /\ \A c \in Captures : Reserved(c)
  BY DEF OwnInv, Reserved, Mine
<1>3. ASSUME NEW x, NEW y, Keeps(p, x, y), Own(x)
      PROVE  Own(y)
  BY <1>3, FreshType DEF Keeps, Own, Owner
<1>4. ASSUME NEW c, NEW x, NEW y, Keeps(p, x, y), Mine(x, c)
      PROVE  Mine(y, c)
  BY <1>4, FreshIsMine DEF Keeps, Mine
<1>5. \A c \in Captures : pc'[c] \in Prepared => pc[c] \in Prepared
  BY DEF BaseInv, TypeOK, Procs, Prepared, Goto, Leave, Read, Begin, Visit,
    Pass, Analyze, Skip, BgvMissing, OpenFilter, OpenFails, WriteFilter,
    AnalysisDone, Summarize, SummaryFails
<1>6. Owner(dest) = None => Owner(dest') = None
  BY <1>1, KeepsOwner
<1>7. Own(stage') /\ Own(dest') /\ \A c : Mine(stage, c) => Mine(stage', c)
  BY <1>1, <1>2, <1>3, <1>4
<1>8. QED
  BY <1>2, <1>5, <1>6, <1>7 DEF Own, Owner, Reserved, Mine

LEMMA OwnStep ==
    ASSUME Captures \subseteq Exclusive
    PROVE  BaseInv /\ OwnInv /\ [Next]_vars => OwnInv'
<1> SUFFICES ASSUME BaseInv, OwnInv, [Next]_vars PROVE OwnInv'
  OBVIOUS
<1>1. TypeOK /\ Turns /\ Own(stage) /\ Own(dest) /\ \A c \in Captures : Reserved(c)
  BY DEF BaseInv, OwnInv, Reserved, Mine
<1>2. Turns'
  BY <1>1, TurnsStep
<1>3. ASSUME UNCHANGED <<stage, dest>>,
             \A c \in Captures : pc'[c] \in Prepared => pc[c] \in Prepared
      PROVE  (Own(stage) /\ Own(dest) /\ \A c \in Captures : Reserved(c))'
  BY <1>1, <1>3 DEF Own, Owner, Reserved, Mine
<1>4. ASSUME NEW e \in Captures, Capture(e)
      PROVE  (Own(stage) /\ Own(dest) /\ \A c \in Captures : Reserved(c))'
  <2>1. Own(stage)' /\ Own(dest)' /\ Reserved(e)'
    BY <1>4, OwnCapture
  <2>2. ASSUME NEW c \in Captures, c # e PROVE Reserved(c)'
    <3>1. ~AtWork(c) /\ pc'[c] = pc[c]
      BY <1>1, <1>4, <2>2, OthersWait
    <3>2. pc'[c] \notin Prepared
      BY <3>1 DEF AtWork, Ends, Prepared, BaseInv, TypeOK, Procs, Phases
    <3>3. QED
      BY <3>2 DEF Reserved
  <2>3. QED
    BY <2>1, <2>2
<1>5. ASSUME NEW p \in Readers, Read(p)
      PROVE  (Own(stage) /\ Own(dest) /\ \A c \in Captures : Reserved(c))'
  BY <1>5, OwnReader
<1>6. ASSUME NEW p \in Killable, Kill(p)
      PROVE  (Own(stage) /\ Own(dest) /\ \A c \in Captures : Reserved(c))'
  <2>1. UNCHANGED <<stage, dest>>
    BY <1>6 DEF Kill
  <2>2. \A c \in Captures : pc'[c] \in Prepared => pc[c] \in Prepared
    BY <1>1, <1>6 DEF Kill, TypeOK, Prepared, Procs
  <2>3. QED
    BY <1>3, <2>1, <2>2
<1>7. ASSUME Edit \/ AllEnded \/ UNCHANGED vars
      PROVE  (Own(stage) /\ Own(dest) /\ \A c \in Captures : Reserved(c))'
  <2>1. UNCHANGED <<stage, dest, pc>>
    BY <1>7 DEF Edit, AllEnded, vars
  <2>2. QED
    BY <1>3, <2>1
<1>8. (Own(stage) /\ Own(dest) /\ \A c \in Captures : Reserved(c))'
  BY <1>4, <1>5, <1>6, <1>7 DEF Next, Readers
<1>9. QED
  BY <1>2, <1>8 DEF OwnInv, Reserved, Mine

LEMMA OwnInit == Init => OwnInv
BY ProcessAssumption
   DEF Init, OwnInv, Turns, AtWork, Ends, Own, Owner, Prepared, Procs

LEMMA OwnCorrect ==
    ASSUME Captures \subseteq Exclusive
    PROVE  Spec => [](BaseInv /\ OwnInv)
<1>1. Init => BaseInv /\ OwnInv
  BY BaseInit, OwnInit
<1>2. (BaseInv /\ OwnInv) /\ [Next]_vars => (BaseInv /\ OwnInv)'
  BY BaseStep, OwnStep
<1>3. QED
  BY <1>1, <1>2, PTL DEF Spec

(* The dumps in the case's directory were written by the JVMs of the       *)
(* capture whose capture.json lies there, if captures take turns, however  *)
(* often they were killed and whatever analyses and summaries do meanwhile.*)
THEOREM OwnEvidence ==
    ASSUME Captures \subseteq Exclusive
    PROVE  Spec => []EvidenceIsOwn
<1>1. BaseInv /\ OwnInv => EvidenceIsOwn
  BY DEF OwnInv, Own, EvidenceIsOwn, Owner
<1>2. QED
  BY <1>1, OwnCorrect, PTL

(* No step but those of a capture changes whose dumps are in dest.         *)
LEMMA ReaderKeepsDest ==
    ASSUME BaseInv, [Next]_vars, Owner(dest) # None
    PROVE  \/ Owner(dest') = Owner(dest) /\ dest'.bgv = dest.bgv
           \/ \E c \in Captures : Erode(c) \/ Erase(c) \/ Publish(c)
<1>1. ASSUME NEW p \in Readers, Read(p)
      PROVE  Owner(dest') = Owner(dest) /\ dest'.bgv = dest.bgv
  <2>1. Keeps(p, dest, dest') /\ dest # None /\ dest' \in Dirs \cup {None}
    BY <1>1, ReaderDirs, DirsType DEF BaseInv, Owner
  <2>2. QED
    BY <2>1, MissingAssumption DEF Keeps, Owner
<1>2. ASSUME NEW c \in Captures, Capture(c)
      PROVE  dest' = dest \/ Erode(c) \/ Erase(c) \/ Publish(c)
  BY <1>2 DEF Capture, Identify, RefuseDirty, Reuse, RefuseEvidence,
    ClearStaging, Prepare, Reject, RunBudget, BudgetFails, WorkdirExists,
    Retain, RetainFails, Verify, RecordInvalid, WriteCapture, PublishFails
<1>3. QED
  BY <1>1, <1>2 DEF Next, Kill, Edit, AllEnded, vars, Readers

(* Valid evidence stays in the case's directory as it is while nobody      *)
(* measures it again on purpose, if captures take turns.                   *)
THEOREM OnlyRemeasure ==
    ASSUME Captures \subseteq Exclusive
    PROVE  Spec => OnlyRemeasureReplaces
<1>1. ASSUME BaseInv, OwnInv, [Next]_vars, HoldsValid(dest),
             \A c \in Remeasure : ~AtWork(c)
      PROVE  Owner(dest') = Owner(dest) /\ dest'.bgv = dest.bgv
  <2>1. Owner(dest) # None
    BY <1>1 DEF HoldsValid
  <2>2. ASSUME NEW c \in Captures, Erode(c) \/ Erase(c) \/ Publish(c)
        PROVE  FALSE
    <3>1. pc[c] \in {"erasing", "erased"}
      BY <2>2 DEF Erode, Erase, Publish, Goto
    <3>2. c \notin Remeasure
      BY <1>1, <3>1 DEF AtWork, Ends
    <3>3. QED
      BY <1>1, <2>1, <3>1, <3>2 DEF OwnInv, Prepared
  <2>3. QED
    BY <1>1, <2>1, <2>2, ReaderKeepsDest
<1>2. (BaseInv /\ OwnInv) /\ [Next]_vars =>
          [HoldsValid(dest) /\ (\A c \in Remeasure : ~AtWork(c)) =>
               Owner(dest') = Owner(dest) /\ dest'.bgv = dest.bgv]_vars
  BY <1>1
<1>3. QED
  BY <1>2, OwnCorrect, PTL DEF Spec, OnlyRemeasureReplaces

----------------------------------------------------------------------------
(* Processes that stay apart *)

Content(p) == pc[p] \in {"analyzed", "writing"} => at[p].content = at[p].capture

(* What is true of the directories while nobody is in another's way.       *)
Tidy ==
    /\ Own(stage) /\ Own(dest) /\ OwnFilters(stage) /\ OwnFilters(dest)
    /\ \A c \in Captures : pc[c] \in Prepared => Mine(stage, c) /\ Bare(stage)
    /\ \A p \in Readers : Content(p)

LEMMA MatrixParts ==
    MatrixInv <=> /\ Apart => Tidy
                  /\ ~overlapped =>
                        Counted(matrix) /\ \A p \in Readers : Counted(at[p].found)
BY DEF MatrixInv, Tidy, Content, Readers

(* Nothing was mixed after a step only if nothing was before it.           *)
LEMMA ApartBefore ==
    ASSUME TypeOK, [Next]_vars, ~overlapped', vars' # vars
    PROVE  Apart
BY Watched DEF Watch, Apart, TypeOK

LEMMA PhaseOfCapture ==
    ASSUME TypeOK, NEW c \in Captures, Capture(c)
    PROVE  /\ \A q \in Procs \ {c} : pc'[q] = pc[q]
           /\ pc'[c] \notin {"read", "analyzed", "writing"}
           /\ at' = at /\ matrix' = matrix
BY DEF TypeOK, Procs, Goto, Capture, Identify, RefuseDirty, Reuse,
  RefuseEvidence, ClearStaging, Prepare, Reject, RunBudget, BudgetFails,
  WorkdirExists, Retain, RetainFails, Verify, RecordInvalid, WriteCapture,
  Erode, Erase, Publish, PublishFails

(* A capture's own step: nothing of an analysis is in the way.             *)
LEMMA FilterCapture ==
    ASSUME BaseInv, OwnFilters(stage), OwnFilters(dest), NEW c \in Captures,
           Capture(c), pc[c] \in Prepared => Mine(stage, c) /\ Bare(stage)
    PROVE  /\ OwnFilters(stage') /\ OwnFilters(dest')
           /\ pc'[c] \in Prepared => Bare(stage')
<1> USE DEF BaseInv
<1>1. /\ stage \in Dirs \cup {None} /\ dest \in Dirs \cup {None} /\ Staging \in Dirs
      /\ pc \in [Procs -> Phases] /\ c \in Procs
  BY StagingType DEF TypeOK, Procs
<1>2. CASE ClearStaging(c)
  <2>1. stage' = Fresh /\ dest' = dest
    BY <1>2 DEF ClearStaging
  <2>2. OwnFilters(Fresh) /\ Bare(Fresh)
    BY FreshType DEF OwnFilters, Bare, Fresh
  <2>3. QED
    BY <2>1, <2>2
<1>3. CASE RunBudget(c) \/ BudgetFails(c) \/ Retain(c) \/ WriteCapture(c)
  <2>1. /\ pc[c] \in Prepared /\ dest' = dest
        /\ Mine(stage, c) /\ Bare(stage)
    BY <1>3 DEF RunBudget, BudgetFails, Retain, WriteCapture, Goto, Prepared
  <2>2. stage' \in Dirs /\ stage'.filter = Staging.filter
        /\ stage'.capture \in {c, Staging.capture}
    <3>1. CASE RunBudget(c) \/ BudgetFails(c)
      <4>1. stage' = [Staging EXCEPT !.raw[NextBudget(c)] = c]
        BY <3>1 DEF RunBudget, BudgetFails
      <4>2. QED
        BY <1>1, <4>1 DEF Dirs
    <3>2. CASE WriteCapture(c)
      BY <1>1, <3>2 DEF WriteCapture, Dirs
    <3>3. CASE Retain(c)
      <4>1. stage # None /\ stage \in Dirs
        BY <3>3, RetainStage
      <4>2. /\ stage'.filter = stage.filter /\ Staging = stage
            /\ stage'.capture = stage.capture
        BY <3>3, <4>1 DEF Retain, Dirs, Staging
      <4>3. stage' \in Dirs
        <5>1. stage' = [stage EXCEPT
            !.raw = [b \in Budgets |->
                       IF b <= Len(meta[c].runs) THEN None ELSE stage.raw[b]],
            !.bgv = [b \in Budgets |->
                       IF b \in Retained(meta[c].runs)
                       THEN stage.raw[b] ELSE stage.bgv[b]]]
          BY <3>3, <4>1 DEF Retain, Dirs
        <5>2. QED
          BY <4>1, <5>1 DEF Dirs
      <4>4. QED
        BY <4>2, <4>3
    <3>4. QED
      BY <1>3, <3>1, <3>2, <3>3
  <2>3. Staging.capture \in {c, None} /\ OwnFilters(Staging) /\ Bare(Staging)
    <3>1. OwnFilters(Fresh) /\ Bare(Fresh)
      BY FreshType DEF OwnFilters, Bare, Fresh
    <3>2. QED
      BY <2>1, <3>1, StagingIsMine DEF Staging
  <2>4. Staging # None /\ stage' # None
    BY <1>1, <2>2, MissingAssumption
  <2>5. \A b \in Budgets : Staging.filter[b] \in {c, None, Torn}
    <3>1. CASE Staging.capture = None
      BY <2>3, <2>4, <3>1 DEF Bare, Owner, NoFile
    <3>2. CASE Staging.capture = c
      BY <2>3, <2>4, <3>1, <3>2 DEF OwnFilters, Owner, Bare, NoFile
    <3>3. QED
      BY <2>3, <3>1, <3>2
  <2>6. OwnFilters(stage')
    BY <2>2, <2>3, <2>4, <2>5 DEF OwnFilters, Owner
  <2>7. Bare(stage')
    <3>1. c # None
      BY ProcessAssumption
    <3>2. stage'.capture = None => Staging.capture = None
      BY <2>2, <2>3, <3>1
    <3>3. QED
      BY <2>2, <2>3, <2>4, <3>2 DEF Bare, Owner
  <2>8. QED
    BY <2>1, <2>6, <2>7
<1>4. CASE Erode(c)
  <2>1. dest # None /\ dest \in Dirs /\ stage' = stage /\ pc' = pc
    BY <1>1, <1>4 DEF Erode
  <2>2. PICK gone \in SUBSET Budgets, w \in {dest.capture, None} :
          dest' = [dest EXCEPT
            !.capture = w,
            !.bgv = [b \in Budgets |-> IF b \in gone THEN None ELSE dest.bgv[b]],
            !.filter = [b \in Budgets |-> IF b \in gone THEN None ELSE dest.filter[b]]]
    BY <1>4, <2>1 DEF Erode, Dirs
  <2>3. /\ dest'.capture \in {dest.capture, None}
        /\ \A b \in Budgets : dest'.filter[b] \in {dest.filter[b], None}
    BY <2>1, <2>2 DEF Dirs
  <2>4. OwnFilters(dest')
    BY <1>1, <2>1, <2>3 DEF OwnFilters, Owner
  <2>5. QED
    BY <2>1, <2>4
<1>5. CASE Erase(c)
  BY <1>1, <1>5 DEF Erase, Goto, OwnFilters, Owner, Prepared
<1>6. CASE Publish(c)
  BY <1>1, <1>6 DEF Publish, Goto, OwnFilters, Owner, Bare
<1>7. ASSUME Identify(c) \/ RefuseDirty(c) \/ Reuse(c) \/ RefuseEvidence(c)
             \/ Prepare(c) \/ Reject(c) \/ WorkdirExists(c) \/ RetainFails(c)
             \/ Verify(c) \/ RecordInvalid(c) \/ PublishFails(c)
      PROVE UNCHANGED <<stage, dest>> /\ (pc'[c] \in Prepared => pc[c] \in Prepared)
  BY <1>1, <1>7 DEF Identify, RefuseDirty, Reuse, RefuseEvidence, Prepare,
    Reject, WorkdirExists, RetainFails, Verify, RecordInvalid, PublishFails,
    Goto, Prepared
<1>8. QED
  BY <1>2, <1>3, <1>4, <1>5, <1>6, <1>7 DEF Capture

(* A capture past the deletion of the staging directory has it to itself.  *)
LEMMA ApartCapture ==
    ASSUME BaseInv, Tidy, ~Overlap, NEW c \in Captures, Capture(c), ~Overlap'
    PROVE  Tidy'
<1>1. /\ Own(stage) /\ Own(dest) /\ OwnFilters(stage) /\ OwnFilters(dest)
      /\ \A d \in Captures : pc[d] \in Prepared => Mine(stage, d) /\ Bare(stage)
      /\ \A p \in Readers : Content(p)
  BY DEF Tidy
<1>2. /\ Own(stage') /\ Own(dest') /\ OwnFilters(stage') /\ OwnFilters(dest')
      /\ pc'[c] \in Prepared => Mine(stage', c) /\ Bare(stage')
  BY <1>1, MineCapture, FilterCapture
<1>3. /\ pc \in [Procs -> Phases] /\ Captures \subseteq Procs /\ Readers \subseteq Procs
      /\ \A q \in Procs \ {c} : pc'[q] = pc[q]
      /\ pc'[c] \notin {"read", "analyzed", "writing"} /\ at' = at
  BY PhaseOfCapture DEF BaseInv, TypeOK, Procs, Readers
<1>4. ASSUME NEW d \in Captures \ {c}, pc'[d] \in Prepared
      PROVE  Mine(stage', d) /\ Bare(stage')
  <2>1. pc[d] \in Prepared
    BY <1>3, <1>4
  <2>2. pc[c] \notin Prepared /\ pc'[c] \notin Prepared
    BY <1>4, <2>1 DEF Overlap
  <2>3. stage' = stage
    BY <1>3, <2>2 DEF Capture, Identify, RefuseDirty, Reuse, RefuseEvidence,
      ClearStaging, Prepare, Reject, RunBudget, BudgetFails, WorkdirExists,
      Retain, RetainFails, Verify, RecordInvalid, WriteCapture, Erode, Erase,
      Publish, PublishFails, Goto, Prepared
  <2>4. QED
    BY <1>1, <2>1, <2>3
<1>5. \A d \in Captures : pc'[d] \in Prepared => Mine(stage', d) /\ Bare(stage')
  BY <1>2, <1>4
<1>6. ASSUME NEW p \in Readers PROVE Content(p)'
  BY <1>1, <1>3, <1>6 DEF Content
<1>7. QED
  BY <1>2, <1>5, <1>6 DEF Tidy, Own, OwnFilters, Owner, Mine, Bare

(* A reader is in the directory that it entered, and writes a filter file  *)
(* beside the dump it was made of.                                         *)
LEMMA InItsDirectory ==
    ASSUME BaseInv, ~Overlap, NEW p \in Readers, Inside(p)
    PROVE  /\ at[p].capture \in Captures /\ at[p].capture # None
           /\ Owner(Here(p)) = at[p].capture
BY ReadingCapture DEF BaseInv, SettledInv, Overlap, Readers, Here

LEMMA AnalyzedContent ==
    ASSUME BaseInv, Own(stage), Own(dest), ~Overlap, NEW p \in Readers,
           Analyze(p)
    PROVE  at'[p].content = at'[p].capture
<1>1. PICK b \in at[p].todo :
        /\ FileAt(p, "bgv", b) # None
        /\ at' = [at EXCEPT ![p].todo = @ \ {b}, ![p].now = b,
                            ![p].content = FileAt(p, "bgv", b)]
  BY DEF Analyze
<1>2. at \in [Readers -> Readings]
  BY DEF BaseInv, TypeOK, Readers, Readings
<1>3. /\ at'[p].capture = at[p].capture
      /\ at'[p].content = FileAt(p, "bgv", b)
  BY <1>1, <1>2 DEF Readings
<1>4. Owner(Here(p)) = at[p].capture /\ at[p].capture # None
  BY InItsDirectory DEF Analyze, Goto, Inside
<1>5. Own(Here(p)) /\ b \in Budgets
  BY <1>2 DEF Here, Directory, Readings
<1>6. FileAt(p, "bgv", b) = at[p].capture
  BY <1>1, <1>4, <1>5 DEF Own, Owner, FileAt
<1>7. QED
  BY <1>3, <1>6

LEMMA ContentReader ==
    ASSUME BaseInv, Own(stage), Own(dest), ~Overlap, NEW p \in Readers,
           Content(p), Read(p)
    PROVE  pc'[p] \in {"analyzed", "writing"} => at'[p].content = at'[p].capture
<1>1. /\ at \in [Readers -> Readings] /\ pc \in [Procs -> Phases] /\ p \in Procs
  BY DEF BaseInv, TypeOK, Readers, Readings, Procs
<1>2. CASE Analyze(p)
  BY <1>2, AnalyzedContent
<1>3. CASE OpenFilter(p)
  BY <1>1, <1>3 DEF OpenFilter, Goto, Content
<1>4. CASE Begin(p) \/ Visit(p) \/ Pass(p) \/ Skip(p) \/ BgvMissing(p)
           \/ OpenFails(p) \/ WriteFilter(p) \/ AnalysisDone(p) \/ Summarize(p)
           \/ SummaryFails(p)
  BY <1>1, <1>4 DEF Begin, Visit, Pass, Skip, BgvMissing, OpenFails,
    WriteFilter, AnalysisDone, Summarize, SummaryFails, Leave, Goto
<1>5. QED
  BY <1>2, <1>3, <1>4 DEF Read

LEMMA ApartReader ==
    ASSUME BaseInv, Tidy, ~Overlap, NEW p \in Readers, Read(p)
    PROVE  Tidy'
<1>1. /\ Own(stage) /\ Own(dest) /\ OwnFilters(stage) /\ OwnFilters(dest)
      /\ \A c \in Captures : pc[c] \in Prepared => Mine(stage, c) /\ Bare(stage)
      /\ \A q \in Readers : Content(q)
  BY DEF Tidy
<1>2. Keeps(p, stage, stage') /\ Keeps(p, dest, dest')
  BY ReaderDirs DEF BaseInv
<1>3. ASSUME pc[p] \in {"analyzed", "writing"}
      PROVE  Owner(Here(p)) # None /\ at[p].content = Owner(Here(p))
  BY <1>1, <1>3, InItsDirectory DEF Inside, Content
<1>4. ASSUME NEW x, NEW y, Keeps(p, x, y), OwnFilters(x)
      PROVE  OwnFilters(y)
  <2>1. CASE x = None /\ y = Fresh
    BY <2>1, FreshType DEF OwnFilters
  <2>2. CASE /\ x # None /\ x = Here(p) /\ pc[p] \in {"analyzed", "writing"}
             /\ y.capture = x.capture
             /\ \A b \in Budgets : y.filter[b] \in {x.filter[b], Torn, at[p].content}
    BY <1>3, <1>4, <2>2 DEF OwnFilters, Owner
  <2>3. QED
    BY <1>4, <2>1, <2>2 DEF Keeps
<1>5. ASSUME NEW x, NEW y, Keeps(p, x, y), Bare(x)
      PROVE  Bare(y)
  BY <1>3, <1>5 DEF Keeps, Bare, Owner, Fresh
<1>6. ASSUME NEW x, NEW y, Keeps(p, x, y), Own(x)
      PROVE  Own(y)
  BY <1>6, FreshType DEF Keeps, Own, Owner
<1>7. ASSUME NEW c, NEW x, NEW y, Keeps(p, x, y), Mine(x, c)
      PROVE  Mine(y, c)
  BY <1>7, FreshIsMine DEF Keeps, Mine
<1>8. /\ pc \in [Procs -> Phases] /\ p \in Procs /\ Readers \subseteq Procs
      /\ \A q \in Procs \ {p} : pc'[q] = pc[q]
      /\ pc'[p] \notin Prepared
      /\ \A q \in Readers \ {p} : at'[q] = at[q]
  <2>1. pc \in [Procs -> Phases] /\ p \in Procs /\ Readers \subseteq Procs
    BY DEF BaseInv, TypeOK, Procs, Readers
  <2>2. /\ pc' = pc \/ \E x : pc' = [pc EXCEPT ![p] = x]
        /\ pc[p] \notin Prepared /\ pc'[p] \notin Prepared
    BY <2>1 DEF Goto, Leave, Read, Begin, Visit, Pass, Analyze, Skip,
      BgvMissing, OpenFilter, OpenFails, WriteFilter, AnalysisDone, Summarize,
      SummaryFails, Prepared
  <2>3. QED
    BY <2>1, <2>2, ReaderStep DEF BaseInv
<1>9. \A c \in Captures : pc'[c] \in Prepared => Mine(stage', c) /\ Bare(stage')
  <2>1. \A c \in Captures : pc'[c] \in Prepared => pc[c] \in Prepared
    BY <1>8 DEF Procs
  <2>2. QED
    BY <1>1, <1>2, <1>5, <1>7, <2>1
<1>10. ASSUME NEW q \in Readers PROVE Content(q)'
  <2>1. CASE q = p
    BY <1>1, <2>1, ContentReader DEF Content
  <2>2. CASE q # p
    BY <1>1, <1>8, <2>2 DEF Content
  <2>3. QED
    BY <2>1, <2>2
<1>11. Own(stage') /\ Own(dest') /\ OwnFilters(stage') /\ OwnFilters(dest')
  BY <1>1, <1>2, <1>4, <1>6
<1>12. QED
  BY <1>9, <1>10, <1>11 DEF Tidy, Own, OwnFilters, Owner, Mine, Bare

(* What a summary counts is of one capture: the one it entered at.         *)
LEMMA SummaryCounts ==
    ASSUME BaseInv, OwnFilters(stage), OwnFilters(dest), ~Overlap,
           NEW s \in Readers, Summarize(s)
    PROVE  Counted(at'[s].found)
<1> DEFINE c == at[s].capture
           F == {FileAt(s, "filter", b) : b \in SelectedOf(c)}
<1>1. pc[s] = "read" /\ c \in Captures /\ c # None /\ Owner(Here(s)) = c
  BY SummaryFound, InItsDirectory DEF BaseInv, Inside
<1>2. PICK same \in BOOLEAN : at' = [at EXCEPT ![s].found =
        [capture |-> c, valid |-> CanRead(s, c) /\ same,
         from |-> IF CanRead(s, c) THEN F ELSE {}]]
  BY SummaryFound DEF BaseInv
<1>3. /\ at'[s].found.capture = c /\ at'[s].found.valid = (CanRead(s, c) /\ same)
      /\ at'[s].found.from = IF CanRead(s, c) THEN F ELSE {}
  BY <1>2 DEF BaseInv, TypeOK, Readers
<1>4. ASSUME CanRead(s, c) PROVE F = {c}
  <2>1. SelectedOf(c) \subseteq Budgets
    BY <1>1, <1>4, BudgetsRan DEF BaseInv, CanRead
  <2>2. OwnFilters(Here(s)) /\ Here(s) # None
    BY <1>1 DEF Here, Directory, Owner
  <2>3. ASSUME NEW b \in SelectedOf(c) PROVE FileAt(s, "filter", b) = c
    <3>1. FileAt(s, "filter", b) \notin {None, Torn}
      BY <1>4 DEF Summarize, CanRead, Cut
    <3>2. QED
      BY <1>1, <2>1, <2>2, <3>1 DEF OwnFilters, Owner, FileAt
  <2>4. SelectedOf(c) # {}
    <3>1. CASE c \in Smoke
      BY <3>1 DEF SelectedOf, Selected
    <3>2. CASE c \notin Smoke
      <4>1. IsStable(meta[c].runs) /\ meta[c].runs \in Seq(Outcomes)
        BY <1>1, <1>4, <3>2, BudgetsRan DEF BaseInv, CanRead, Stable
      <4>2. Pair(meta[c].runs) = {Len(meta[c].runs) - 1, Len(meta[c].runs)}
        BY <1>1, <4>1, PairIsLast DEF BaseInv, RunsInv
      <4>3. QED
        BY <3>2, <4>2 DEF SelectedOf, Selected
    <3>3. QED
      BY <3>1, <3>2
  <2>5. QED
    BY <2>3, <2>4
<1> HIDE DEF F
<1>5. QED
  BY <1>3, <1>4 DEF Counted

LEMMA KeptStep ==
    ASSUME BaseInv, MatrixInv, [Next]_vars
    PROVE  Apart' => Tidy'
<1> SUFFICES ASSUME Apart' PROVE Tidy'
  OBVIOUS
<1>1. CASE UNCHANGED vars
  <2>1. Apart /\ Tidy
    BY <1>1, MatrixParts DEF vars, Apart, Overlap, Inside, Directory, Owner
  <2>2. QED
    BY <1>1, <2>1 DEF vars, Tidy, Own, OwnFilters, Owner, Mine, Bare, Content
<1>2. CASE vars' # vars
  <2>1. Apart /\ Tidy /\ ~Overlap /\ ~Overlap'
    BY <1>2, ApartBefore, MatrixParts DEF BaseInv, Apart
  <2>2. ASSUME UNCHANGED <<stage, dest, at>>,
               \A q \in Procs : pc'[q] \in {pc[q], "dead"}
        PROVE  Tidy'
    <3>1. /\ Own(stage') /\ Own(dest') /\ OwnFilters(stage') /\ OwnFilters(dest')
          /\ \A c \in Captures : pc'[c] \in Prepared => Mine(stage', c) /\ Bare(stage')
      BY <2>1, <2>2 DEF Tidy, Prepared, Procs
    <3>2. ASSUME NEW p \in Readers PROVE Content(p)'
      BY <2>1, <2>2 DEF Tidy, Content, Procs, Readers
    <3>3. QED
      BY <3>1, <3>2 DEF Tidy, Own, OwnFilters, Owner, Mine, Bare
  <2>3. ASSUME NEW q \in Killable, Kill(q) PROVE Tidy'
    BY <2>2, <2>3 DEF Kill, BaseInv, TypeOK
  <2>4. CASE Edit
    BY <2>2, <2>4 DEF Edit
  <2>5. QED
    BY <1>2, <2>1, <2>3, <2>4, ApartCapture, ApartReader DEF Next, AllEnded, Readers
<1>3. QED
  BY <1>1, <1>2

LEMMA CountedStep ==
    ASSUME BaseInv, MatrixInv, [Next]_vars, ~overlapped'
    PROVE  Counted(matrix') /\ \A p \in Readers : Counted(at'[p].found)
<1>1. CASE UNCHANGED vars
  BY <1>1, MatrixParts DEF vars
<1>2. CASE vars' # vars
  <2>1. /\ ~Overlap /\ OwnFilters(stage) /\ OwnFilters(dest) /\ Counted(matrix)
        /\ \A p \in Readers : Counted(at[p].found)
    BY <1>2, ApartBefore, MatrixParts DEF BaseInv, Apart, Tidy
  <2>2. ASSUME NEW p \in Readers PROVE Counted(at'[p].found)
    <3>1. CASE Summarize(p)
      BY <2>1, <3>1, SummaryCounts
    <3>2. CASE at'[p].found = at[p].found
      BY <2>1, <3>2
    <3>3. QED
      BY <3>1, <3>2, ReadingStep DEF BaseInv
  <2>3. matrix' = matrix \/ \E p \in Readers : matrix' = at'[p].found
    BY ReaderStep, PhaseOfCapture DEF BaseInv, Next, Readers, Kill, Edit,
      AllEnded, vars
  <2>4. QED
    BY <2>1, <2>2, <2>3
<1>3. QED
  BY <1>1, <1>2

LEMMA MatrixStep == BaseInv /\ MatrixInv /\ [Next]_vars => MatrixInv'
<1> SUFFICES ASSUME BaseInv, MatrixInv, [Next]_vars PROVE MatrixInv'
  OBVIOUS
<1>1. Apart' => Tidy'
  BY KeptStep
<1>2. ~overlapped' =>
          Counted(matrix') /\ \A p \in Readers : Counted(at'[p].found)
  BY CountedStep
<1>3. QED
  BY <1>1, <1>2 DEF Counted, MatrixInv, Tidy, Content, Readers

LEMMA MatrixInit == Init => MatrixInv
BY DEF Init, MatrixInv, Own, OwnFilters, Owner, Prepared, Counted, Nowhere,
  NoVerdict, Procs

LEMMA MatrixCorrect == Spec => [](BaseInv /\ MatrixInv)
<1>1. Init => BaseInv /\ MatrixInv
  BY BaseInit, MatrixInit
<1>2. (BaseInv /\ MatrixInv) /\ [Next]_vars => (BaseInv /\ MatrixInv)'
  BY BaseStep, MatrixStep
<1>3. QED
  BY <1>1, <1>2, PTL DEF Spec

(* Whatever captures, analyses and summaries of a case do at the same time *)
(* and wherever they are killed: a valid case of matrix.json counts graphs *)
(* of the capture it names alone, unless two captures were past the        *)
(* deletion of the staging directory at once, or a reader was in a         *)
(* directory whose capture had been replaced or was being deleted.         *)
THEOREM MixingOverlaps == Spec => []MixingNeedsAnOverlap
<1>1. BaseInv /\ MatrixInv => MixingNeedsAnOverlap
  BY DEF MatrixInv, Counted, MixingNeedsAnOverlap
<1>2. QED
  BY <1>1, MatrixCorrect, PTL

----------------------------------------------------------------------------
(* Everybody takes turns *)

(* Nobody reads while a capture is at work, nor works while a reader is.   *)
LEMMA ReaderAlone ==
    ASSUME TypeOK, Turns, Procs \subseteq Exclusive, NEW p \in Readers, Read(p)
    PROVE  \A q \in Procs \ {p} : ~AtWork(q) /\ pc'[q] = pc[q]
<1>1. AtWork(p) \/ MayStart(p)
  BY DEF AtWork, Ends, Goto, Leave, Read, Begin, Visit, Pass, Analyze, Skip,
    BgvMissing, OpenFilter, OpenFails, WriteFilter, AnalysisDone, Summarize,
    SummaryFails
<1>2. pc' = pc \/ \E x : pc' = [pc EXCEPT ![p] = x]
  BY DEF Goto, Leave, Read, Begin, Visit, Pass, Analyze, Skip,
    BgvMissing, OpenFilter, OpenFails, WriteFilter, AnalysisDone, Summarize,
    SummaryFails
<1>3. pc \in [Procs -> Phases] /\ p \in Procs
  BY DEF TypeOK, Procs, Readers
<1>4. QED
  BY <1>1, <1>2, <1>3 DEF MayStart, Turns

(* A reader stays in the directory that it entered. *)
Entered(p) == Inside(p) => Owner(Directory(at[p].dir)) = at[p].capture

LEMMA EnteredReader ==
    ASSUME BaseInv, NEW p \in Readers, Entered(p), Read(p)
    PROVE  Entered(p)'
<1> USE DEF BaseInv
<1>1. /\ at \in [Readers -> Readings] /\ pc \in [Procs -> Phases] /\ p \in Procs
  BY DEF TypeOK, Readers, Readings, Procs
<1>2. CASE Visit(p)
  <2>1. PICK d \in {"staging", "destination"} :
          /\ HasCapture(d)
          /\ at' = [at EXCEPT ![p] =
                      [@ EXCEPT !.dir = d, !.capture = Directory(d).capture,
                                !.todo = Listed(Directory(d).capture)]]
    BY <1>2 DEF Visit, IsCase
  <2>2. Owner(Directory(d)) = Directory(d).capture
    BY <2>1 DEF HasCapture, Owner
  <2>3. at'[p].dir = d /\ at'[p].capture = Directory(d).capture
    BY <1>1, <2>1 DEF Readings
  <2>4. UNCHANGED <<stage, dest>>
    BY <1>2 DEF Visit
  <2>5. QED
    BY <2>2, <2>3, <2>4 DEF Entered, Directory, Owner
<1>3. CASE OpenFilter(p) \/ WriteFilter(p)
  <2>1. at' = at /\ Inside(p)
    BY <1>3 DEF OpenFilter, WriteFilter, Goto, Inside
  <2>2. Keeps(p, stage, stage') /\ Keeps(p, dest, dest')
    BY ReaderDirs
  <2>3. Owner(Directory(at[p].dir)) = at[p].capture /\ at[p].capture # None
    BY <2>1 DEF Entered, SettledInv, Readers
  <2>4. ASSUME NEW x, NEW y, Keeps(p, x, y), Owner(x) = at[p].capture
        PROVE  Owner(y) = at[p].capture
    BY <2>3, <2>4, MissingAssumption DEF Keeps, Owner
  <2>5. Owner(IF at[p].dir = "staging" THEN stage' ELSE dest') = at[p].capture
    BY <2>2, <2>3, <2>4 DEF Directory
  <2>6. QED
    BY <2>1, <2>5 DEF Entered, Directory, Owner
<1>4. CASE Analyze(p) \/ Skip(p)
  <2>1. UNCHANGED <<stage, dest>> /\ Inside(p)
    BY <1>4 DEF Analyze, Skip, Goto, Inside
  <2>2. at'[p].dir = at[p].dir /\ at'[p].capture = at[p].capture
    <3>1. CASE Analyze(p)
      <4>1. PICK b, x : at' = [at EXCEPT ![p].todo = @ \ {b}, ![p].now = b,
                                        ![p].content = x]
        BY <3>1 DEF Analyze
      <4>2. QED
        BY <1>1, <4>1 DEF Readings
    <3>2. CASE Skip(p)
      BY <1>1, <3>2 DEF Skip, Readings
    <3>3. QED
      BY <1>4, <3>1, <3>2
  <2>3. QED
    BY <2>1, <2>2 DEF Entered, Directory, Owner
<1>5. CASE Begin(p) \/ Pass(p) \/ BgvMissing(p) \/ OpenFails(p)
           \/ AnalysisDone(p) \/ Summarize(p) \/ SummaryFails(p)
  <2>1. pc'[p] \notin {"read", "analyzed", "writing"}
    BY <1>1, <1>5 DEF Begin, Pass, BgvMissing, OpenFails, AnalysisDone,
      Summarize, SummaryFails, Leave, Goto
  <2>2. QED
    BY <2>1 DEF Entered, Inside
<1>6. QED
  BY <1>2, <1>3, <1>4, <1>5 DEF Read

(* Nobody is in another's way.                                             *)
Alone ==
    /\ Turns /\ ~overlapped
    /\ \A p \in Readers : Entered(p)

LEMMA AloneIsApart ==
    ASSUME Procs \subseteq Exclusive, TypeOK, Alone
    PROVE  ~Overlap
<1>1. ASSUME NEW c \in Captures, NEW d \in Captures,
             pc[c] \in Prepared, pc[d] \in Prepared
      PROVE  c = d
  BY <1>1 DEF Alone, Turns, AtWork, Ends, Prepared, Procs
<1>2. QED
  BY <1>1 DEF Overlap, Alone, Entered, Readers

LEMMA AloneStep ==
    ASSUME Procs \subseteq Exclusive
    PROVE  BaseInv /\ Alone /\ [Next]_vars => Alone'
<1> SUFFICES ASSUME BaseInv, Alone, [Next]_vars PROVE Alone'
  OBVIOUS
<1>1. /\ TypeOK /\ Turns /\ ~overlapped /\ ~Overlap
      /\ pc \in [Procs -> Phases] /\ at \in [Readers -> Readings]
      /\ Captures \subseteq Procs /\ Readers \subseteq Procs
      /\ Captures \subseteq Exclusive
      /\ \A p \in Readers : Entered(p)
  BY AloneIsApart DEF BaseInv, Alone, TypeOK, Procs, Readers, Readings
<1>2. Turns' /\ ~overlapped'
  <2>1. CASE Watch
    BY <1>1, <2>1, TurnsStep DEF Watch
  <2>2. CASE UNCHANGED vars
    BY <1>1, <2>2, TurnsStep DEF vars
  <2>3. QED
    BY <2>1, <2>2, Watched
<1>3. ASSUME NEW e \in Captures, Capture(e), NEW p \in Readers PROVE Entered(p)'
  <2>1. ASSUME p # e PROVE pc'[p] \in Ends \cup {"idle"}
    BY <1>1, <1>3, <2>1, OthersWait DEF AtWork
  <2>2. pc'[e] \notin {"read", "analyzed", "writing"}
    BY <1>1, <1>3, PhaseOfCapture
  <2>3. QED
    BY <2>1, <2>2 DEF Entered, Inside, Ends
<1>4. ASSUME NEW p \in Readers, Read(p), NEW q \in Readers PROVE Entered(q)'
  <2>1. CASE q = p
    BY <1>1, <1>4, <2>1, EnteredReader
  <2>2. CASE q # p
    <3>1. pc'[q] \in Ends \cup {"idle"}
      BY <1>1, <1>4, <2>2, ReaderAlone DEF AtWork
    <3>2. QED
      BY <3>1 DEF Entered, Inside, Ends
  <2>3. QED
    BY <2>1, <2>2
<1>5. ASSUME UNCHANGED <<stage, dest, at>>,
             \A q \in Procs : pc'[q] \in {pc[q], "dead"}, NEW p \in Readers
      PROVE  Entered(p)'
  BY <1>1, <1>5 DEF Entered, Inside, Directory, Owner
<1>6. ASSUME NEW q \in Killable, Kill(q), NEW p \in Readers PROVE Entered(p)'
  BY <1>1, <1>5, <1>6 DEF Kill
<1>7. ASSUME Edit \/ AllEnded \/ UNCHANGED vars, NEW p \in Readers
      PROVE  Entered(p)'
  BY <1>5, <1>7 DEF Edit, AllEnded, vars
<1>8. ASSUME NEW p \in Readers PROVE Entered(p)'
  BY <1>3, <1>4, <1>6, <1>7 DEF Next, Readers
<1>9. QED
  BY <1>2, <1>8 DEF Alone

LEMMA AloneInit == Init => Alone
BY ProcessAssumption
   DEF Init, Alone, Turns, AtWork, Ends, Entered, Inside, Procs, Readers

(* If everybody takes turns, the graphs that a valid case of matrix.json   *)
(* counts all come from the dumps of the very capture it names, through    *)
(* analyses of those dumps, whatever was killed in between.                *)
THEOREM ExactMatrix ==
    ASSUME Procs \subseteq Exclusive
    PROVE  Spec => []MatrixIsExact
<1> DEFINE Inv == BaseInv /\ MatrixInv /\ Alone
<1>1. Init => Inv
  BY BaseInit, MatrixInit, AloneInit
<1>2. Inv /\ [Next]_vars => Inv'
  BY BaseStep, MatrixStep, AloneStep
<1>3. Inv => MatrixIsExact
  BY DEF MatrixInv, Alone, Counted, MatrixIsExact
<1>4. QED
  BY <1>1, <1>2, <1>3, PTL DEF Spec
=============================================================================
