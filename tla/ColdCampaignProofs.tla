------------------------ MODULE ColdCampaignProofs ------------------------
(***************************************************************************)
(* Proofs about ColdCampaign, for any captures, analyses, summaries and    *)
(* reports, any roots and any edits: published evidence does not change,   *)
(* and what a report says of it is so.                                     *)
(***************************************************************************)
EXTENDS ColdCampaign, TLAPS

Writers == Analysts \cup Summaries

(* What a step may do to the evidence that it finds. *)
Kept == \A p \in Places : dest[p] # None =>
            /\ dest'[p] # None
            /\ Owner(p)' = Owner(p)
            /\ meta'[Owner(p)] = meta[Owner(p)]

----------------------------------------------------------------------------
(* Types *)

LEMMA PlaceFacts ==
    /\ Tiers = {"tier1", "tier2"} /\ Tiers \subseteq Places
    /\ "bytecode" \in Places /\ "bytecode" \notin Tiers
    /\ None \notin Captures /\ Torn \notin Captures
    /\ \A p \in Captures \cup Writers : Output[p] \in Places
    /\ \A p \in Writers : Place(p) \in Places
    /\ Captures \subseteq Procs /\ Writers \subseteq Procs /\ Reports \subseteq Procs
BY ProcessAssumption, ValueAssumption
   DEF Places, Tiers, Procs, Writers, Place

LEMMA OwnerFacts ==
    ASSUME TypeOK, NEW p \in Places
    PROVE  /\ dest[p] # None => /\ dest[p] \in Dirs
                                /\ Owner(p) = dest[p].capture
                                /\ Owner(p) \in Captures
           /\ dest[p] = None => Owner(p) = None
           /\ Owner(p) \in Captures \cup {None}
BY DEF TypeOK, Owner, Dirs

LEMMA GotoFacts ==
    ASSUME TypeOK, NEW p \in Procs, NEW from, NEW to \in Phases, Goto(p, from, to)
    PROVE  /\ pc[p] = from /\ pc'[p] = to
           /\ pc' \in [Procs -> Phases]
           /\ \A q \in Procs \ {p} : pc'[q] = pc[q]
BY DEF TypeOK, Goto

LEMMA NothingType == Nothing \in Readings /\ NoInput \in [Places -> Input]
                         /\ NoFilter \in Filters
BY DEF Nothing, Readings, NoFilter, Filters, NoInput, Unread, Input, Statuses

LEMMA ForgetFacts ==
    ASSUME TypeOK, NEW p \in Procs, Forget(p)
    PROVE  /\ at' \in [Procs -> Readings]
           /\ at'[p] = Nothing
           /\ \A q \in Procs \ {p} : at'[q] = at[q]
BY NothingType DEF TypeOK, Forget

LEMMA MetaType ==
    ASSUME TypeOK, NEW c \in Captures
    PROVE  /\ meta[c] \in Metas
           /\ meta[c].shown \in Observations /\ meta[c].kept \in SUBSET Targets
           /\ meta[c].valid \in BOOLEAN /\ meta[c].producer \in 0..MaxProducer
BY DEF TypeOK, Metas

LEMMA ReadingType ==
    ASSUME TypeOK, NEW p \in Procs
    PROVE  /\ at[p] \in Readings /\ at[p].todo \in SUBSET Targets
           /\ at[p].now \in Targets \cup {None} /\ at[p].got \in Filters
           /\ at[p].input \in [Places -> Input]
BY DEF TypeOK, Readings

(* A directory keeps its type when a file in it is written. *)
LEMMA DirFacts ==
    ASSUME TypeOK, NEW p \in Places, dest[p] # None
    PROVE  /\ \A t \in Targets : dest[p].filter[t] \in Analysts \cup {None, Torn}
           /\ dest[p].filter \in Filters /\ dest[p].summary \in Filters \cup {None, Torn}
           /\ \A t \in Targets, f \in Analysts \cup {None, Torn} :
                  [dest[p] EXCEPT !.filter[t] = f] \in Dirs
           /\ \A s \in Filters \cup {None, Torn} :
                  [dest[p] EXCEPT !.summary = s] \in Dirs
BY OwnerFacts DEF Dirs, Filters

----------------------------------------------------------------------------
(* The steps of each kind of process *)

LEMMA CaptureStep ==
    ASSUME TypeOK, NEW c \in Captures, Capture(c)
    PROVE  /\ TypeOK'
           /\ at' = at /\ report' = report
           /\ pc[c] \notin Ends
           /\ \A q \in Procs \ {c} : pc'[q] = pc[q]
           /\ \A q \in Captures \ {c} : meta'[q] = meta[q]
           /\ \A p \in Places : dest[p] # None => dest'[p] = dest[p]
           /\ \A p \in Places : dest[p] = None /\ dest'[p] # None =>
                  Owner(p)' = c /\ pc'[c] \in Ends
<1>1. c \in Procs /\ Output[c] \in Places
  BY PlaceFacts
<1>2. /\ {"ok", "usage", "dead", "identified", "ran", "failed", "publishing"} \subseteq Phases
      /\ "ok" \in Ends /\ {"idle", "identified", "ran", "failed", "publishing"} \cap Ends = {}
  BY DEF Phases, Ends
<1>3. CASE Refuse(c) \/ Unsupported(c) \/ Fail(c) \/ RecordInvalid(c) \/ PublishFails(c)
  <2>1. PICK from \in {"idle", "identified", "failed", "publishing"},
             to \in {"usage", "failed", "publishing", "dead"} : Goto(c, from, to)
    BY <1>3 DEF Refuse, Unsupported, Fail, RecordInvalid, PublishFails
  <2>2. UNCHANGED <<producer, dest, meta, at, report>>
    BY <1>3 DEF Refuse, Unsupported, Fail, RecordInvalid, PublishFails
  <2>3. QED
    BY <1>1, <1>2, <2>1, <2>2, GotoFacts DEF TypeOK
<1>4. CASE Identify(c) \/ Run(c) \/ Verify(c)
  <2>1. PICK from \in {"idle", "identified", "ran"},
             to \in {"identified", "ran", "failed", "publishing"} : Goto(c, from, to)
    BY <1>4 DEF Identify, Run, Verify
  <2>2. UNCHANGED <<producer, dest, at, report>>
    BY <1>4 DEF Identify, Run, Verify
  <2>3. /\ meta' \in [Captures -> Metas]
        /\ \A q \in Captures \ {c} : meta'[q] = meta[q]
    <3>1. CASE Identify(c)
      BY <3>1 DEF Identify, TypeOK, Metas
    <3>2. CASE Verify(c)
      BY <3>2 DEF Verify, TypeOK, Metas
    <3>3. CASE Run(c)
      <4>1. PICK shown \in Shows[c] :
               \/ meta' = [meta EXCEPT ![c].shown = shown, ![c].kept = Retained(c, shown)]
               \/ meta' = [meta EXCEPT ![c].shown = shown]
        BY <3>3 DEF Run
      <4>2. shown \in Observations
        BY ValueAssumption
      <4>3. Retained(c, shown) \subseteq Targets
        BY DEF Retained, Diagnostic, WithFate
      <4>4. QED
        BY <4>1, <4>2, <4>3 DEF TypeOK, Metas
    <3>4. QED
      BY <1>4, <3>1, <3>2, <3>3
  <2>4. QED
    BY <1>1, <1>2, <2>1, <2>2, <2>3, GotoFacts DEF TypeOK
<1>5. CASE Publish(c)
  <2>1. /\ Goto(c, "publishing", "ok") /\ UNCHANGED <<producer, meta, at, report>>
        /\ dest[Output[c]] = None
        /\ dest' = [dest EXCEPT ![Output[c]] = Captured(c)]
    BY <1>5 DEF Publish
  <2>2. Captured(c) \in Dirs /\ Captured(c).capture = c
    BY NothingType DEF Captured, Dirs
  <2>3. /\ dest' \in [Places -> Dirs \cup {None}]
        /\ dest'[Output[c]] = Captured(c)
        /\ \A p \in Places \ {Output[c]} : dest'[p] = dest[p]
    BY <1>1, <2>1, <2>2 DEF TypeOK
  <2>4. Owner(Output[c])' = c
    BY <2>2, <2>3, MissingAssumption DEF Owner
  <2>5. QED
    BY <1>1, <1>2, <2>1, <2>3, <2>4, GotoFacts DEF TypeOK
<1>6. QED
  BY <1>3, <1>4, <1>5 DEF Capture

(* An analysis or a summary changes files in the directory of its case,    *)
(* and never whose capture the directory is.                               *)
LEMMA WriterStep ==
    ASSUME TypeOK, PlaceInv, NEW p \in Writers,
           (p \in Analysts /\ Analysis(p)) \/ (p \in Summaries /\ Summary(p))
    PROVE  /\ TypeOK'
           /\ meta' = meta /\ report' = report
           /\ pc[p] \notin Ends
           /\ \A q \in Procs \ {p} : pc'[q] = pc[q] /\ at'[q] = at[q]
           /\ \A q \in Places : /\ dest[q] # None => dest'[q] # None
                                /\ Owner(q)' = Owner(q)
           /\ pc'[p] \in {"read", "writing", "hashing"} => dest'[Place(p)] # None
           /\ pc'[p] = "hashing" => at'[p].now \in Targets
<1> DEFINE P == Place(p)
<1>1. p \in Procs /\ P \in Places /\ Output[p] = P
  BY PlaceFacts DEF Place
<1>2. /\ {"ok", "dead", "read", "writing", "hashing"} \subseteq Phases
      /\ {"idle", "read", "writing", "hashing"} \cap Ends = {}
      /\ {"ok", "dead"} \subseteq Ends
  BY DEF Phases, Ends
<1>3. pc[p] \in {"read", "writing", "hashing"} => dest[P] # None
  BY DEF PlaceInv, Writers
<1>4. ASSUME UNCHANGED <<producer, dest, meta, report>>, pc' \in [Procs -> Phases],
             at' \in [Procs -> Readings]
      PROVE  TypeOK' /\ \A q \in Places : /\ dest[q] # None => dest'[q] # None
                                          /\ Owner(q)' = Owner(q)
  BY <1>4 DEF TypeOK, Owner
<1>5. CASE p \in Analysts /\ BeginAnalysis(p)
  <2>1. UNCHANGED <<producer, dest, meta, report>>
    BY <1>5 DEF BeginAnalysis
  <2>2. CASE dest[P] = None
    <3>1. Goto(p, "idle", "ok") /\ at' = at
      BY <1>5, <2>2 DEF BeginAnalysis
    <3>2. QED
      BY <1>1, <1>2, <1>4, <2>1, <3>1, GotoFacts DEF TypeOK
  <2>3. CASE dest[P] # None
    <3>1. /\ Goto(p, "idle", "read")
          /\ at' = [at EXCEPT ![p].todo = meta[Owner(P)].kept]
      BY <1>5, <2>3 DEF BeginAnalysis
    <3>2. meta[Owner(P)].kept \in SUBSET Targets
      BY <1>1, <2>3, OwnerFacts, MetaType
    <3>3. at' \in [Procs -> Readings] /\ \A q \in Procs \ {p} : at'[q] = at[q]
      BY <1>1, <3>1, <3>2 DEF TypeOK, Readings
    <3>4. QED
      BY <1>1, <1>2, <1>4, <2>1, <2>3, <3>1, <3>3, GotoFacts
  <2>4. QED
    BY <2>2, <2>3
<1>6. CASE p \in Analysts /\ Skip(p)
  <2>1. PICK t \in Targets : at' = [at EXCEPT ![p].todo = @ \ {t}]
    BY <1>1, <1>6, ReadingType DEF Skip
  <2>2. at' \in [Procs -> Readings] /\ \A q \in Procs \ {p} : at'[q] = at[q]
    BY <1>1, <2>1 DEF TypeOK, Readings
  <2>3. pc[p] = "read" /\ UNCHANGED <<producer, dest, meta, pc, report>>
    BY <1>6 DEF Skip
  <2>4. QED
    BY <1>1, <1>2, <1>3, <1>4, <2>2, <2>3 DEF TypeOK
<1>7. CASE p \in Analysts /\ OpenFilter(p)
  <2>1. PICK t \in Targets :
           /\ Goto(p, "read", "writing")
           /\ at' = [at EXCEPT ![p].todo = @ \ {t}, ![p].now = t]
           /\ dest' = [dest EXCEPT ![P].filter[t] = Torn]
           /\ UNCHANGED <<producer, meta, report>>
    BY <1>1, <1>7, ReadingType DEF OpenFilter
  <2>2. at' \in [Procs -> Readings] /\ \A q \in Procs \ {p} : at'[q] = at[q]
    BY <1>1, <2>1 DEF TypeOK, Readings
  <2>3. dest[P] # None
    BY <1>1, <1>2, <1>3, <2>1, GotoFacts
  <2>4. /\ dest'[P] = [dest[P] EXCEPT !.filter[t] = Torn]
        /\ \A q \in Places \ {P} : dest'[q] = dest[q]
    BY <1>1, <2>1 DEF TypeOK
  <2>5. dest'[P] \in Dirs /\ dest'[P].capture = dest[P].capture
    BY <1>1, <2>3, <2>4, DirFacts, OwnerFacts DEF Dirs
  <2>6. dest' \in [Places -> Dirs \cup {None}]
    BY <1>1, <2>1, <2>4, <2>5 DEF TypeOK
  <2>7. dest'[P] # None /\ \A q \in Places : Owner(q)' = Owner(q)
    BY <2>3, <2>4, <2>5, MissingAssumption DEF Owner
  <2>8. QED
    BY <1>1, <1>2, <2>1, <2>2, <2>4, <2>6, <2>7, GotoFacts DEF TypeOK
<1>8. CASE p \in Analysts /\ WriteFilter(p)
  <2>1. /\ Goto(p, "writing", "read")
        /\ dest' = [dest EXCEPT ![P].filter[at[p].now] = p]
        /\ UNCHANGED <<producer, meta, at, report>>
    BY <1>8 DEF WriteFilter
  <2>2. dest[P] # None
    BY <1>1, <1>2, <1>3, <2>1, GotoFacts
  <2>3. /\ dest'[P] = [dest[P] EXCEPT !.filter[at[p].now] = p]
        /\ \A q \in Places \ {P} : dest'[q] = dest[q]
    BY <1>1, <2>1 DEF TypeOK
  <2>4. dest'[P] \in Dirs /\ dest'[P].capture = dest[P].capture
    BY <1>1, <1>8, <2>2, <2>3, OwnerFacts DEF Dirs, Filters
  <2>5. dest' \in [Places -> Dirs \cup {None}]
    BY <1>1, <2>1, <2>3, <2>4 DEF TypeOK
  <2>6. dest'[P] # None /\ \A q \in Places : Owner(q)' = Owner(q)
    BY <2>2, <2>3, <2>4, MissingAssumption DEF Owner
  <2>7. QED
    BY <1>1, <1>2, <2>1, <2>3, <2>5, <2>6, GotoFacts DEF TypeOK
<1>9. CASE p \in Analysts /\ AnalysisDone(p)
  <2>1. /\ Goto(p, "read", "ok") /\ Forget(p)
        /\ UNCHANGED <<producer, dest, meta, report>>
    BY <1>9 DEF AnalysisDone
  <2>2. QED
    BY <1>1, <1>2, <1>4, <2>1, GotoFacts, ForgetFacts
<1>10. CASE p \in Summaries /\ BeginSummary(p)
  <2>1. UNCHANGED <<producer, dest, meta, report>>
    BY <1>10 DEF BeginSummary
  <2>2. CASE Goto(p, "idle", "ok") /\ UNCHANGED at
    BY <1>1, <1>2, <1>4, <2>1, <2>2, GotoFacts DEF TypeOK
  <2>3. CASE /\ Owner(P) # None /\ Goto(p, "idle", "read")
             /\ at' = [at EXCEPT ![p].todo = meta[Owner(P)].kept]
    <3>1. dest[P] # None /\ meta[Owner(P)].kept \in SUBSET Targets
      BY <1>1, <2>3, OwnerFacts, MetaType
    <3>2. at' \in [Procs -> Readings] /\ \A q \in Procs \ {p} : at'[q] = at[q]
      BY <1>1, <2>3, <3>1 DEF TypeOK, Readings
    <3>3. QED
      BY <1>1, <1>2, <1>4, <2>1, <2>3, <3>1, <3>2, GotoFacts
  <2>4. QED
    BY <1>10, <2>2, <2>3 DEF BeginSummary
<1>11. CASE p \in Summaries /\ ReadGraph(p)
  <2>1. PICK t \in Targets :
           /\ Goto(p, "read", "hashing")
           /\ at' = [at EXCEPT ![p].todo = @ \ {t}, ![p].now = t]
           /\ UNCHANGED <<producer, dest, meta, report>>
    BY <1>1, <1>11, ReadingType DEF ReadGraph
  <2>2. /\ at' \in [Procs -> Readings] /\ \A q \in Procs \ {p} : at'[q] = at[q]
        /\ at'[p].now = t
    BY <1>1, <2>1 DEF TypeOK, Readings
  <2>3. QED
    BY <1>1, <1>2, <1>3, <1>4, <2>1, <2>2, GotoFacts
<1>12. CASE p \in Summaries /\ NoGraph(p)
  <2>1. PICK to \in {"ok", "dead"} : Goto(p, "read", to)
    BY <1>12 DEF NoGraph
  <2>2. Forget(p) /\ UNCHANGED <<producer, dest, meta, report>>
    BY <1>12 DEF NoGraph
  <2>3. QED
    BY <1>1, <1>2, <1>4, <2>1, <2>2, GotoFacts, ForgetFacts
<1>13. CASE p \in Summaries /\ HashGraph(p)
  <2>1. /\ Goto(p, "hashing", "read")
        /\ at' = [at EXCEPT ![p].got[at[p].now] = FilterOf(p, at[p].now)]
        /\ UNCHANGED <<producer, dest, meta, report>>
    BY <1>13 DEF HashGraph
  <2>2. pc[p] = "hashing" /\ dest[P] # None
    BY <1>1, <1>2, <1>3, <2>1, GotoFacts
  <2>3. at[p].now \in Targets
    BY <2>2 DEF PlaceInv, Writers
  <2>4. FilterOf(p, at[p].now) \in Analysts \cup {None, Torn}
    BY <1>1, <2>2, <2>3, DirFacts DEF FilterOf
  <2>5. at' \in [Procs -> Readings] /\ \A q \in Procs \ {p} : at'[q] = at[q]
    BY <1>1, <2>1, <2>3, <2>4 DEF TypeOK, Readings, Filters
  <2>6. QED
    BY <1>1, <1>2, <1>4, <2>1, <2>2, <2>5, GotoFacts
<1>14. CASE p \in Summaries /\ (OpenSummary(p) \/ WriteSummary(p))
  <2>1. PICK s \in Filters \cup {Torn} :
           dest' = [dest EXCEPT ![P].summary = s]
    BY <1>1, <1>14, ReadingType DEF OpenSummary, WriteSummary
  <2>2. PICK from \in {"read", "writing"}, to \in {"writing", "ok"} : Goto(p, from, to)
    BY <1>14 DEF OpenSummary, WriteSummary
  <2>3. UNCHANGED <<producer, meta, report>> /\ (at' = at \/ Forget(p))
    BY <1>14 DEF OpenSummary, WriteSummary
  <2>4. at' \in [Procs -> Readings] /\ \A q \in Procs \ {p} : at'[q] = at[q]
    BY <1>1, <2>3, ForgetFacts DEF TypeOK
  <2>5. dest[P] # None
    BY <1>1, <1>2, <1>3, <2>2, GotoFacts
  <2>6. /\ dest'[P] = [dest[P] EXCEPT !.summary = s]
        /\ \A q \in Places \ {P} : dest'[q] = dest[q]
    BY <1>1, <2>1 DEF TypeOK
  <2>7. dest'[P] \in Dirs /\ dest'[P].capture = dest[P].capture
    BY <1>1, <2>5, <2>6, DirFacts, OwnerFacts DEF Dirs
  <2>8. dest' \in [Places -> Dirs \cup {None}]
    BY <1>1, <2>1, <2>6, <2>7 DEF TypeOK
  <2>9. dest'[P] # None /\ \A q \in Places : Owner(q)' = Owner(q)
    BY <2>5, <2>6, <2>7, MissingAssumption DEF Owner
  <2>10. QED
    BY <1>1, <1>2, <2>2, <2>3, <2>4, <2>6, <2>8, <2>9, GotoFacts DEF TypeOK
<1>15. QED
  BY <1>5, <1>6, <1>7, <1>8, <1>9, <1>10, <1>11, <1>12, <1>13, <1>14
     DEF Analysis, Summary

----------------------------------------------------------------------------
(* What a report reads *)

LEMMA StructuralFacts ==
    ASSUME TypeOK, NEW p \in Tiers
    PROVE  LET i == StructuralInput(p) IN
           /\ i \in Input
           /\ i.capture = Owner(p)
           /\ i.status = "AVAILABLE" =>
                 i.capture # None /\ Kind[i.capture] = p /\ meta[i.capture].valid
<1> DEFINE i == StructuralInput(p)
           d == dest[p]
           statuses == {"UNAVAILABLE", "INVALID", "AVAILABLE"}
<1>1. p \in Places
  BY PlaceFacts
<1>2. CASE d = None
  BY <1>1, <1>2, OwnerFacts DEF StructuralInput, Unread, Input, Statuses, Owner
<1>3. CASE d # None
  <2>1. d \in Dirs /\ Owner(p) = d.capture /\ d.capture \in Captures /\ Owner(p) # None
    BY <1>1, <1>3, OwnerFacts, PlaceFacts
  <2>2. PICK s \in statuses :
           /\ i = [capture |-> d.capture, status |-> s,
                   summary |-> IF s = "AVAILABLE" THEN d.summary ELSE None]
           /\ s = "AVAILABLE" => /\ Requested(p) /\ meta[d.capture].valid
                                 /\ d.summary \notin {None, Torn}
    BY <1>3 DEF StructuralInput
  <2>3. s = "AVAILABLE" => d.summary \in Filters
    BY <1>1, <1>3, <2>2, DirFacts
  <2>4. QED
    BY <2>1, <2>2, <2>3 DEF Input, Statuses, Requested
<1>4. QED
  BY <1>2, <1>3

LEMMA BytecodeFacts ==
    ASSUME TypeOK, NEW graphs
    PROVE  LET i == BytecodeInput(graphs) IN
           /\ i \in Input
           /\ i.capture = Owner("bytecode")
           /\ i.status = "AVAILABLE" =>
                 /\ i.capture # None /\ Kind[i.capture] = "bytecode"
                 /\ meta[i.capture].valid
                 /\ \E c \in graphs : meta[c].valid /\ SameProducer(i.capture, c)
<1> DEFINE i == BytecodeInput(graphs)
           b == Owner("bytecode")
           valid == {c \in graphs : meta[c].valid}
<1>1. b \in Captures \cup {None}
  BY PlaceFacts, OwnerFacts
<1>2. CASE b = None
  BY <1>2 DEF BytecodeInput, Unread, Input, Statuses
<1>3. CASE b # None
  <2>1. PICK s \in {"INVALID", "UNATTRIBUTABLE", "AVAILABLE", "INCOMPATIBLE"} :
           /\ i = [capture |-> b, summary |-> None, status |-> s]
           /\ s = "AVAILABLE" => /\ Requested("bytecode") /\ meta[b].valid
                                 /\ valid # {} /\ \A c \in valid : SameProducer(b, c)
    BY <1>3 DEF BytecodeInput
  <2>2. i \in Input
    BY <1>1, <2>1 DEF Input, Statuses
  <2>3. QED
    BY <1>3, <2>1, <2>2 DEF Requested
<1>4. QED
  BY <1>2, <1>3

LEMMA DocumentType ==
    ASSUME NEW i \in [Places -> Input]
    PROVE  Document(i) \in Documents
<1>1. \A l \in Labels : Row(i, l) \in Rows
  BY DEF Row, Rows
<1>2. Attributed(i) \subseteq Labels
  BY DEF Attributed
<1>3. Complete(i) \in BOOLEAN
  BY DEF Complete
<1>4. QED
  BY <1>1, <1>2, <1>3 DEF Document, Documents

----------------------------------------------------------------------------
(* The steps of a report, and of everybody *)

LEMMA ReportStep ==
    ASSUME TypeOK, NEW r \in Reports, Report(r)
    PROVE  /\ TypeOK'
           /\ UNCHANGED <<dest, meta>>
           /\ pc[r] \notin Ends
           /\ \A q \in Procs \ {r} : pc'[q] = pc[q] /\ at'[q] = at[q]
<1>1. r \in Procs
  BY PlaceFacts
<1>2. /\ {"ok", "tier1", "tier2", "bytecode", "comparing", "creating"} \subseteq Phases
      /\ {"idle", "tier1", "tier2", "bytecode", "comparing", "creating"} \cap Ends = {}
  BY DEF Phases, Ends
<1>3. CASE BeginReport(r)
  <2>1. \E to \in {"ok", "tier1"} : Goto(r, "idle", to)
    BY <1>3 DEF BeginReport
  <2>2. UNCHANGED <<producer, dest, meta, at, report>>
    BY <1>3 DEF BeginReport
  <2>3. QED
    BY <1>1, <1>2, <2>1, <2>2, GotoFacts DEF TypeOK
<1>4. CASE ReadTier(r)
  <2>1. PICK p \in Tiers, to \in {"tier2", "bytecode"} :
           /\ Goto(r, p, to) /\ UNCHANGED <<producer, dest, meta, report>>
           /\ at' = [at EXCEPT ![r].input[p] = StructuralInput(p)]
    BY <1>4, PlaceFacts DEF ReadTier, Goto
  <2>2. StructuralInput(p) \in Input /\ p \in Places
    BY StructuralFacts, PlaceFacts
  <2>3. at' \in [Procs -> Readings] /\ \A q \in Procs \ {r} : at'[q] = at[q]
    BY <1>1, <2>1, <2>2 DEF TypeOK, Readings
  <2>4. QED
    BY <1>1, <1>2, <2>1, <2>3, GotoFacts, PlaceFacts DEF TypeOK
<1>5. CASE ReadBytecode(r)
  <2>1. PICK i \in Input :
           /\ Goto(r, "bytecode", "comparing") /\ UNCHANGED <<producer, dest, meta, report>>
           /\ at' = [at EXCEPT ![r].input["bytecode"] = i]
    BY <1>5, BytecodeFacts DEF ReadBytecode
  <2>2. at' \in [Procs -> Readings] /\ \A q \in Procs \ {r} : at'[q] = at[q]
    BY <1>1, <2>1, PlaceFacts DEF TypeOK, Readings
  <2>3. QED
    BY <1>1, <1>2, <2>1, <2>2, GotoFacts DEF TypeOK
<1>6. CASE Keep(r) \/ WriteReport(r)
  <2>1. PICK from \in {"comparing", "creating"} : Goto(r, from, "ok")
    BY <1>6 DEF Keep, WriteReport
  <2>2. Forget(r) /\ UNCHANGED <<producer, dest, meta>>
    BY <1>6 DEF Keep, WriteReport
  <2>3. report' \in {report, Document(at[r].input)}
    BY <1>6 DEF Keep, WriteReport
  <2>4. report' \in Documents \cup {None, Torn}
    BY <1>1, <2>3, DocumentType, ReadingType DEF TypeOK
  <2>5. QED
    BY <1>1, <1>2, <2>1, <2>2, <2>4, GotoFacts, ForgetFacts DEF TypeOK
<1>7. CASE OpenReport(r)
  BY <1>1, <1>2, <1>7, GotoFacts DEF OpenReport, TypeOK
<1>8. QED
  BY <1>3, <1>4, <1>5, <1>6, <1>7 DEF Report

LEMMA KillStep ==
    ASSUME TypeOK, NEW p \in Procs, Kill(p)
    PROVE  /\ TypeOK'
           /\ UNCHANGED <<dest, meta, report>>
           /\ pc[p] \notin Ends /\ pc'[p] = "dead" /\ at'[p] = Nothing
           /\ \A q \in Procs \ {p} : pc'[q] = pc[q] /\ at'[q] = at[q]
<1>1. pc' \in [Procs -> Phases] /\ pc'[p] = "dead" /\ \A q \in Procs \ {p} : pc'[q] = pc[q]
  BY DEF Kill, TypeOK, Phases, Ends
<1>2. pc[p] \notin Ends /\ Forget(p) /\ UNCHANGED <<producer, dest, meta, report>>
  BY DEF Kill, AtWork
<1>3. QED
  BY <1>1, <1>2, ForgetFacts DEF TypeOK

(* Nobody changes what was published. *)
LEMMA PlaceStep ==
    ASSUME TypeOK, PlaceInv, [Next]_vars
    PROVE  TypeOK' /\ PlaceInv' /\ Kept
<1> DEFINE Holds(p) == /\ pc[p] \in {"read", "writing", "hashing"} => dest[Place(p)] # None
                       /\ pc[p] = "hashing" => at[p].now \in Targets
<1>1. \A p \in Writers : Holds(p)
  BY DEF PlaceInv, Writers
<1>2. \A p \in Writers : p \in Procs /\ Place(p) \in Places
  BY PlaceFacts
<1>3. \A p \in Places : dest[p] # None => Owner(p) \in Captures /\ Owner(p) \in Procs
  BY OwnerFacts, PlaceFacts
<1>4. \A p \in Places : dest[p] # None => pc[Owner(p)] \in Ends
  BY DEF PlaceInv
<1>5. SUFFICES /\ TypeOK' /\ Kept
               /\ \A p \in Places : dest'[p] # None => pc'[Owner(p)'] \in Ends
               /\ \A p \in Writers : Holds(p)'
  BY DEF PlaceInv, Writers
<1>6. CASE \E c \in Captures : Capture(c)
  <2>1. PICK c \in Captures : Capture(c)
    BY <1>6
  <2>2. /\ TypeOK' /\ at' = at /\ pc[c] \notin Ends
        /\ \A q \in Procs \ {c} : pc'[q] = pc[q]
        /\ \A q \in Captures \ {c} : meta'[q] = meta[q]
        /\ \A p \in Places : dest[p] # None => dest'[p] = dest[p]
        /\ \A p \in Places : dest[p] = None /\ dest'[p] # None =>
               Owner(p)' = c /\ pc'[c] \in Ends
    BY <2>1, CaptureStep
  <2>3. \A p \in Places : dest[p] # None =>
            Owner(p) # c /\ Owner(p)' = Owner(p) /\ dest'[p] # None
    BY <1>4, <2>2 DEF Owner
  <2>4. Kept
    BY <1>3, <2>2, <2>3 DEF Kept
  <2>5. \A p \in Places : dest'[p] # None => pc'[Owner(p)'] \in Ends
    BY <1>3, <1>4, <2>2, <2>3
  <2>6. ASSUME NEW p \in Writers PROVE Holds(p)'
    <3>1. p # c
      BY ProcessAssumption DEF Writers
    <3>2. pc'[p] = pc[p] /\ at'[p] = at[p]
      BY <1>2, <2>2, <3>1
    <3>3. dest[Place(p)] # None => dest'[Place(p)] # None
      BY <1>2, <2>2
    <3>4. QED
      BY <1>1, <3>2, <3>3 DEF Place
  <2>7. QED
    BY <1>5, <2>2, <2>4, <2>5, <2>6
<1>7. CASE \E p \in Writers : (p \in Analysts /\ Analysis(p)) \/ (p \in Summaries /\ Summary(p))
  <2>1. PICK w \in Writers : (w \in Analysts /\ Analysis(w)) \/ (w \in Summaries /\ Summary(w))
    BY <1>7
  <2>2. /\ TypeOK' /\ meta' = meta
        /\ pc[w] \notin Ends
        /\ \A q \in Procs \ {w} : pc'[q] = pc[q] /\ at'[q] = at[q]
        /\ \A q \in Places : /\ dest[q] # None => dest'[q] # None
                             /\ Owner(q)' = Owner(q)
        /\ pc'[w] \in {"read", "writing", "hashing"} => dest'[Place(w)] # None
        /\ pc'[w] = "hashing" => at'[w].now \in Targets
    BY <2>1, WriterStep
  <2>3. Kept
    BY <2>2 DEF Kept
  <2>4. \A p \in Places : dest'[p] # None => dest[p] # None
    BY <2>2, OwnerFacts, PlaceFacts, MissingAssumption DEF Owner, TypeOK, Dirs
  <2>5. \A p \in Places : dest'[p] # None => pc'[Owner(p)'] \in Ends
    BY <1>3, <1>4, <2>2, <2>4
  <2>6. ASSUME NEW p \in Writers, p # w PROVE Holds(p)'
    BY <1>1, <1>2, <2>2, <2>6 DEF Place
  <2>7. Holds(w)'
    BY <2>2 DEF Place
  <2>8. QED
    BY <1>5, <2>2, <2>3, <2>5, <2>6, <2>7
<1>8. CASE \E r \in Reports : Report(r)
  <2>1. PICK r \in Reports : Report(r)
    BY <1>8
  <2>2. /\ TypeOK' /\ UNCHANGED <<dest, meta>>
        /\ \A q \in Procs \ {r} : pc'[q] = pc[q] /\ at'[q] = at[q]
    BY <2>1, ReportStep
  <2>3. r \notin Captures /\ r \notin Writers
    BY ProcessAssumption DEF Writers
  <2>4. Kept /\ \A p \in Places : Owner(p)' = Owner(p)
    BY <2>2 DEF Kept, Owner
  <2>5. \A p \in Places : dest'[p] # None => pc'[Owner(p)'] \in Ends
    BY <1>3, <1>4, <2>2, <2>3, <2>4
  <2>6. ASSUME NEW p \in Writers PROVE Holds(p)'
    BY <1>1, <1>2, <2>2, <2>3 DEF Place
  <2>7. QED
    BY <1>5, <2>2, <2>4, <2>5, <2>6
<1>9. CASE \E p \in Killable : Kill(p)
  <2>1. PICK k \in Procs : Kill(k)
    BY <1>9, ProcessAssumption
  <2>2. /\ TypeOK' /\ UNCHANGED <<dest, meta>>
        /\ pc[k] \notin Ends /\ pc'[k] = "dead"
        /\ \A q \in Procs \ {k} : pc'[q] = pc[q] /\ at'[q] = at[q]
    BY <2>1, KillStep
  <2>3. Kept /\ \A p \in Places : Owner(p)' = Owner(p)
    BY <2>2 DEF Kept, Owner
  <2>4. \A p \in Places : dest'[p] # None => pc'[Owner(p)'] \in Ends
    BY <1>3, <1>4, <2>2, <2>3
  <2>5. ASSUME NEW p \in Writers PROVE Holds(p)'
    BY <1>1, <1>2, <2>2 DEF Place
  <2>6. QED
    BY <1>5, <2>2, <2>3, <2>4, <2>5
<1>10. CASE Edit \/ UNCHANGED vars
  <2>1. TypeOK' /\ UNCHANGED <<dest, meta, pc, at>>
    BY <1>10, ValueAssumption DEF Edit, vars, TypeOK
  <2>2. Kept /\ \A p \in Places : Owner(p)' = Owner(p)
    BY <2>1 DEF Kept, Owner
  <2>3. QED
    BY <1>1, <1>4, <1>5, <2>1, <2>2 DEF Place
<1>11. QED
  BY <1>6, <1>7, <1>8, <1>9, <1>10 DEF Next, AllEnded, Writers

----------------------------------------------------------------------------
(* What was read stays true, and the document that follows from it the same. *)

LEMMA DocumentStays ==
    ASSUME TypeOK, NEW i \in [Places -> Input], InputSound(i), Kept
    PROVE  InputSound(i)' /\ Document(i)' = Document(i)
<1>1. ASSUME NEW p \in Places
      PROVE  /\ i[p].capture \in {None, Owner(p)'}
             /\ i[p].capture # None => meta'[i[p].capture] = meta[i[p].capture]
  BY OwnerFacts DEF InputSound, Kept
<1>2. Tiers \subseteq Places /\ "bytecode" \in Places
  BY PlaceFacts
<1>3. InputSound(i)'
  BY <1>1, <1>2 DEF InputSound, SameProducer
<1>4. ASSUME NEW c, meta'[c] = meta[c], NEW l
      PROVE  Observed(c, l)' = Observed(c, l) /\ Units(c)' = Units(c)
  BY <1>4 DEF Observed, Units
<1>5. Compatible(i)' <=> Compatible(i)
  <2>1. CASE \A p \in Tiers : i[p].capture # None
    BY <1>1, <1>2, <2>1, PlaceFacts DEF Compatible, SameProducer
  <2>2. CASE ~ \A p \in Tiers : i[p].capture # None
    BY <2>2 DEF Compatible
  <2>3. QED
    BY <2>1, <2>2
<1>6. ASSUME NEW p \in Tiers, NEW l
      PROVE  /\ Usable(i, p)' <=> Usable(i, p)
             /\ Ambiguous(i, p, l)' <=> Ambiguous(i, p, l)
             /\ Available(i, p, l)' <=> Available(i, p, l)
  <2>1. CASE i[p].capture = None
    BY <2>1 DEF Usable, Ambiguous, Available
  <2>2. CASE i[p].capture # None
    <3>1. meta'[i[p].capture] = meta[i[p].capture]
      BY <1>1, <1>2, <2>2
    <3>2. /\ Observed(i[p].capture, l)' = Observed(i[p].capture, l)
          /\ Units(i[p].capture)' = Units(i[p].capture)
      BY <1>4, <3>1
    <3>3. Usable(i, p)' <=> Usable(i, p)
      BY <3>1 DEF Usable
    <3>4. QED
      BY <3>2, <3>3 DEF Ambiguous, Available
  <2>3. QED
    BY <2>1, <2>2
<1>7. ASSUME NEW l PROVE Seen(i, l)' <=> Seen(i, l)
  <2>1. ASSUME NEW p \in Tiers, i[p].capture # None
        PROVE  Observed(i[p].capture, l)' = Observed(i[p].capture, l)
    BY <1>1, <1>2, <1>4, <2>1
  <2>2. QED
    BY <2>1 DEF Seen
<1>8. ASSUME NEW l PROVE Row(i, l)' = Row(i, l)
  BY <1>5, <1>6, <1>7 DEF Row
<1>9. Attributed(i)' = Attributed(i)
  <2>1. CASE i["bytecode"].status = "AVAILABLE"
    <3>1. i["bytecode"].capture # None
      BY <1>2, <2>1 DEF InputSound
    <3>2. \A l : Observed(i["bytecode"].capture, l)' = Observed(i["bytecode"].capture, l)
      BY <1>1, <1>2, <1>4, <3>1
    <3>3. QED
      BY <1>5, <1>7, <3>2 DEF Attributed
  <2>2. CASE i["bytecode"].status # "AVAILABLE"
    BY <2>2 DEF Attributed
  <2>3. QED
    BY <2>1, <2>2
<1>10. Complete(i)' = Complete(i)
  BY <1>7, <1>8 DEF Complete
<1>11. QED
  BY <1>3, <1>8, <1>9, <1>10 DEF Document

LEMMA NothingRead == InputSound(NoInput)
BY PlaceFacts DEF InputSound, NoInput, Unread

(* A report's reading of one input adds a sound one to sound ones. *)
LEMMA ReadingSound ==
    ASSUME TypeOK, ReportInv, NEW r \in Reports, Report(r), dest' = dest, meta' = meta
    PROVE  /\ InputSound(at'[r].input)
           /\ pc'[r] \in {"idle", "tier1", "tier2", "bytecode"} =>
                 at'[r].input["bytecode"].status # "AVAILABLE"
<1> DEFINE i == at[r].input
<1>1. r \in Procs /\ i \in [Places -> Input] /\ at \in [Procs -> Readings]
  BY PlaceFacts, ReadingType DEF TypeOK
<1>2. /\ InputSound(i)
      /\ pc[r] \in {"idle", "tier1", "tier2", "bytecode"} =>
            i["bytecode"].status # "AVAILABLE"
  BY DEF ReportInv
<1>3. CASE BeginReport(r) \/ OpenReport(r)
  <2>1. at' = at
    BY <1>3 DEF BeginReport, OpenReport
  <2>2. OpenReport(r) => pc'[r] = "creating"
    BY <1>1, GotoFacts DEF OpenReport, Phases
  <2>3. BeginReport(r) => pc[r] = "idle"
    BY DEF BeginReport, Goto
  <2>4. QED
    BY <1>2, <1>3, <2>1, <2>2, <2>3
<1>4. CASE ReadTier(r)
  <2>1. PICK p \in Tiers : /\ pc[r] = p
                           /\ at' = [at EXCEPT ![r].input[p] = StructuralInput(p)]
    BY <1>4, PlaceFacts DEF ReadTier, Goto
  <2> DEFINE n == StructuralInput(p)
             j == at'[r].input
  <2>2. j[p] = n /\ \A q \in Places \ {p} : j[q] = i[q]
    BY <1>1, <2>1, PlaceFacts DEF Readings
  <2>3. /\ n.capture = Owner(p)
        /\ n.status = "AVAILABLE" =>
              n.capture # None /\ Kind[n.capture] = p /\ meta[n.capture].valid
    BY StructuralFacts
  <2>4. pc[r] \in {"tier1", "tier2"} /\ p # "bytecode"
    BY <2>1, PlaceFacts
  <2>5. i["bytecode"].status # "AVAILABLE"
    BY <1>2, <2>4
  <2>6. j["bytecode"] = i["bytecode"]
    BY <2>2, <2>4, PlaceFacts
  <2> HIDE DEF n, j, i
  <2>7. InputSound(j)
    BY <1>2, <2>2, <2>3, <2>5, <2>6 DEF InputSound
  <2>8. QED
    BY <2>5, <2>6, <2>7 DEF j
<1>5. CASE ReadBytecode(r)
  <2> DEFINE graphs == {i[p].capture : p \in Tiers} \ {None}
             n == BytecodeInput(graphs)
             j == at'[r].input
  <2>1. /\ at' = [at EXCEPT ![r].input["bytecode"] = n]
        /\ Goto(r, "bytecode", "comparing")
    BY <1>5 DEF ReadBytecode
  <2>2. j["bytecode"] = n /\ \A q \in Places \ {"bytecode"} : j[q] = i[q]
    BY <1>1, <2>1, PlaceFacts DEF Readings
  <2>3. /\ n.capture = Owner("bytecode")
        /\ n.status = "AVAILABLE" =>
              /\ n.capture # None /\ Kind[n.capture] = "bytecode"
              /\ meta[n.capture].valid
              /\ \E c \in graphs : meta[c].valid /\ SameProducer(n.capture, c)
    BY BytecodeFacts
  <2>4. \A p \in Tiers : j[p] = i[p]
    BY <2>2, PlaceFacts
  <2>5. pc'[r] = "comparing"
    BY <1>1, <2>1, GotoFacts DEF Phases
  <2>6. n.status = "AVAILABLE" =>
           \E p \in Tiers : /\ i[p].capture # None /\ meta[i[p].capture].valid
                            /\ SameProducer(n.capture, i[p].capture)
    BY <2>3
  <2> HIDE DEF n, j, i, graphs
  <2>7. InputSound(j)
    BY <1>2, <2>2, <2>3, <2>4, <2>6 DEF InputSound
  <2>8. QED
    BY <2>5, <2>7 DEF j
<1>6. CASE Keep(r) \/ WriteReport(r)
  <2>1. Forget(r)
    BY <1>6 DEF Keep, WriteReport
  <2>2. at'[r].input = NoInput
    BY <1>1, <2>1, ForgetFacts DEF Nothing
  <2>3. NoInput["bytecode"].status # "AVAILABLE"
    BY PlaceFacts DEF NoInput, Unread
  <2>4. QED
    BY <2>2, <2>3, NothingRead
<1>7. QED
  BY <1>3, <1>4, <1>5, <1>6 DEF Report

(* Only a report that created the file writes it. *)
LEMMA ReportFile ==
    ASSUME TypeOK, NEW r \in Reports, Report(r)
    PROVE  \/ report' = report
           \/ report = None /\ report' = Torn /\ pc'[r] = "creating"
           \/ pc[r] = "creating" /\ report' = Document(at[r].input)
<1>1. r \in Procs
  BY PlaceFacts
<1>2. CASE OpenReport(r)
  BY <1>1, <1>2, GotoFacts DEF OpenReport, Phases
<1>3. CASE WriteReport(r)
  BY <1>3 DEF WriteReport, Goto
<1>4. QED
  BY <1>2, <1>3 DEF Report, BeginReport, ReadTier, ReadBytecode, Keep

LEMMA ReportInvStep ==
    ASSUME TypeOK, PlaceInv, ReportInv, [Next]_vars
    PROVE  ReportInv'
<1> DEFINE Sound(r) == /\ InputSound(at[r].input)
                       /\ pc[r] \in {"idle", "tier1", "tier2", "bytecode"} =>
                             at[r].input["bytecode"].status # "AVAILABLE"
           Written == report \notin {None, Torn} =>
                          InputSound(report.input) /\ report = Document(report.input)
<1>1. TypeOK' /\ Kept
  BY PlaceStep
<1>2. ASSUME NEW i \in [Places -> Input], InputSound(i)
      PROVE  InputSound(i)' /\ Document(i)' = Document(i)
  BY <1>1, <1>2, DocumentStays
<1>3. /\ \A r \in Reports : Sound(r)
      /\ Written
      /\ \A r \in Reports : r \in Procs /\ at[r].input \in [Places -> Input]
  BY PlaceFacts, ReadingType DEF ReportInv
<1>4. ASSUME NEW r \in Reports, pc'[r] = pc[r] \/ pc'[r] \in Ends, at'[r] = at[r]
      PROVE  Sound(r)'
  <2>1. PICK i \in [Places -> Input] : i = at[r].input
    BY <1>3
  <2>2. InputSound(i)'
    BY <1>2, <1>3, <2>1
  <2>3. at'[r].input = i
    BY <1>4, <2>1
  <2>4. InputSound(at[r].input)'
    BY <2>2, <2>3 DEF InputSound
  <2>5. QED
    BY <1>3, <1>4, <2>4 DEF Ends
<1>5. ASSUME report' = report
      PROVE  Written'
  <2>1. SUFFICES ASSUME report \notin {None, Torn}
                 PROVE  InputSound(report.input)' /\ report' = Document(report.input)'
    BY <1>5
  <2>2. PICK i \in [Places -> Input] : i = report.input
    BY <2>1 DEF TypeOK, Documents
  <2>3. InputSound(i)' /\ Document(i)' = Document(i) /\ report = Document(i)
    BY <1>2, <1>3, <2>1, <2>2
  <2>4. report'.input = i
    BY <1>5, <2>2
  <2>5. InputSound(report.input)'
    BY <2>3, <2>4 DEF InputSound
  <2>6. Document(report.input)' = Document(i)'
    BY <2>4 DEF Document, Row, Seen, Compatible, Ambiguous, Available, Usable,
                Attributed, Complete, SameProducer, Observed, Units
  <2>7. QED
    BY <1>5, <2>3, <2>5, <2>6
<1>6. SUFFICES (\A r \in Reports : Sound(r)') /\ Written'
  BY DEF ReportInv
<1>7. CASE \E c \in Captures : Capture(c)
  <2>1. PICK c \in Captures : Capture(c)
    BY <1>7
  <2>2. c \notin Reports
    BY ProcessAssumption
  <2>3. QED
    BY <1>3, <1>4, <1>5, <1>6, <2>1, <2>2, CaptureStep
<1>8. CASE \E p \in Writers : (p \in Analysts /\ Analysis(p)) \/ (p \in Summaries /\ Summary(p))
  <2>1. PICK w \in Writers : (w \in Analysts /\ Analysis(w)) \/ (w \in Summaries /\ Summary(w))
    BY <1>8
  <2>2. w \notin Reports
    BY ProcessAssumption DEF Writers
  <2>3. QED
    BY <1>3, <1>4, <1>5, <1>6, <2>1, <2>2, WriterStep
<1>9. CASE \E r \in Reports : Report(r)
  <2>1. PICK r \in Reports : Report(r)
    BY <1>9
  <2>2. /\ UNCHANGED <<dest, meta>>
        /\ \A q \in Procs \ {r} : pc'[q] = pc[q] /\ at'[q] = at[q]
    BY <2>1, ReportStep
  <2>3. \A q \in Reports \ {r} : Sound(q)'
    BY <1>3, <1>4, <2>2
  <2>4. Sound(r)'
    <3>1. /\ InputSound(at'[r].input)
          /\ pc'[r] \in {"idle", "tier1", "tier2", "bytecode"} =>
                at'[r].input["bytecode"].status # "AVAILABLE"
      BY <2>1, <2>2, ReadingSound
    <3>2. InputSound(at[r].input)'
      BY <2>2, <3>1 DEF InputSound, Owner, SameProducer
    <3>3. QED
      BY <3>1, <3>2
  <2>5. Written'
    <3>1. CASE report' = report
      BY <1>5, <3>1
    <3>2. CASE report' = Document(at[r].input)
      <4>1. PICK i \in [Places -> Input] : i = at[r].input
        BY <1>3
      <4>2. InputSound(i)' /\ Document(i)' = Document(i) /\ report' = Document(i)
        BY <1>2, <1>3, <3>2, <4>1
      <4>3. report'.input = i
        BY <4>2 DEF Document
      <4>4. InputSound(report.input)'
        BY <4>2, <4>3 DEF InputSound
      <4>5. Document(report.input)' = Document(i)'
        BY <4>3 DEF Document, Row, Seen, Compatible, Ambiguous, Available, Usable,
                    Attributed, Complete, SameProducer, Observed, Units
      <4>6. QED
        BY <4>2, <4>4, <4>5
    <3>3. CASE report' = Torn
      BY <3>3
    <3>4. QED
      BY <2>1, <3>1, <3>2, <3>3, ReportFile
  <2>6. QED
    BY <1>6, <2>3, <2>4, <2>5
<1>10. CASE \E p \in Killable : Kill(p)
  <2>1. PICK k \in Procs : Kill(k)
    BY <1>10, ProcessAssumption
  <2>2. /\ UNCHANGED <<dest, meta, report>>
        /\ pc'[k] = "dead" /\ at'[k] = Nothing
        /\ \A q \in Procs \ {k} : pc'[q] = pc[q] /\ at'[q] = at[q]
    BY <2>1, KillStep
  <2>3. \A q \in Reports \ {k} : Sound(q)'
    BY <1>3, <1>4, <2>2
  <2>4. ASSUME k \in Reports PROVE Sound(k)'
    <3>1. at'[k].input = NoInput
      BY <2>2 DEF Nothing
    <3>2. InputSound(at[k].input)'
      BY <3>1, PlaceFacts DEF InputSound, NoInput, Unread
    <3>3. QED
      BY <2>2, <3>2
  <2>5. QED
    BY <1>5, <1>6, <2>2, <2>3, <2>4
<1>11. CASE Edit \/ UNCHANGED vars
  BY <1>4, <1>5, <1>6, <1>11 DEF Edit, vars
<1>12. QED
  BY <1>7, <1>8, <1>9, <1>10, <1>11 DEF Next, AllEnded, Writers

LEMMA TurnStep ==
    ASSUME \E S \in Exclusive : Reports \subseteq S,
           TypeOK, PlaceInv, TurnInv, [Next]_vars
    PROVE  /\ TurnInv'
           /\ report \notin {None, Torn} => report' = report
<1>1. PICK S \in Exclusive : Reports \subseteq S
  OBVIOUS
<1>2. /\ \A q, r \in Reports : AtWork(q) /\ AtWork(r) => q = r
      /\ \A r \in Reports : pc[r] = "creating" => report = Torn
  BY DEF TurnInv
<1>3. ASSUME \A r \in Reports : pc'[r] = pc[r] \/ pc'[r] = "dead", report' = report
      PROVE  TurnInv'
  BY <1>2, <1>3 DEF TurnInv, AtWork, Ends
<1>4. CASE \E c \in Captures : Capture(c)
  <2>1. PICK c \in Captures : Capture(c)
    BY <1>4
  <2>2. c \notin Reports
    BY ProcessAssumption
  <2>3. QED
    BY <1>3, <2>1, <2>2, CaptureStep, PlaceFacts
<1>5. CASE \E p \in Writers : (p \in Analysts /\ Analysis(p)) \/ (p \in Summaries /\ Summary(p))
  <2>1. PICK w \in Writers : (w \in Analysts /\ Analysis(w)) \/ (w \in Summaries /\ Summary(w))
    BY <1>5
  <2>2. w \notin Reports
    BY ProcessAssumption DEF Writers
  <2>3. QED
    BY <1>3, <2>1, <2>2, WriterStep, PlaceFacts
<1>6. CASE \E r \in Reports : Report(r)
  <2>1. PICK r \in Reports : Report(r)
    BY <1>6
  <2>2. pc[r] \notin Ends /\ \A q \in Reports \ {r} : pc'[q] = pc[q]
    BY <2>1, ReportStep, PlaceFacts
  <2>3. pc[r] = "idle" => MayStart(r)
    BY <2>1 DEF Report, BeginReport, ReadTier, ReadBytecode, Keep, OpenReport,
                WriteReport, Goto
  <2>4. \A q \in Reports \ {r} : ~AtWork(q)
    <3>1. CASE pc[r] = "idle"
      BY <1>1, <2>3, <3>1 DEF MayStart
    <3>2. CASE pc[r] # "idle"
      BY <1>2, <2>2, <3>2 DEF AtWork
    <3>3. QED
      BY <3>1, <3>2
  <2>5. \A q \in Reports \ {r} : ~AtWork(q)' /\ pc'[q] # "creating"
    BY <2>2, <2>4 DEF AtWork, Ends
  <2>6. pc'[r] = "creating" => report' = Torn
    <3>1. r \in Procs
      BY PlaceFacts
    <3>2. OpenReport(r) => report' = Torn
      BY DEF OpenReport
    <3>3. ~OpenReport(r) => pc'[r] # "creating"
      BY <2>1, <3>1, GotoFacts
         DEF Report, BeginReport, ReadTier, ReadBytecode, Keep, WriteReport,
             Phases, Ends
    <3>4. QED
      BY <3>2, <3>3
  <2>7. TurnInv'
    BY <2>5, <2>6 DEF TurnInv
  <2>8. report \notin {None, Torn} => report' = report
    BY <1>2, <2>1, ReportFile
  <2>9. QED
    BY <2>7, <2>8
<1>7. CASE \E p \in Killable : Kill(p)
  <2>1. PICK k \in Procs : Kill(k)
    BY <1>7, ProcessAssumption
  <2>2. QED
    BY <1>3, <2>1, KillStep, PlaceFacts
<1>8. CASE Edit \/ UNCHANGED vars
  BY <1>3, <1>8 DEF Edit, vars
<1>9. QED
  BY <1>4, <1>5, <1>6, <1>7, <1>8 DEF Next, AllEnded, Writers

----------------------------------------------------------------------------
(* Theorems *)

LEMMA InitHolds == Init => TypeOK /\ PlaceInv /\ ReportInv /\ TurnInv
<1> SUFFICES ASSUME Init PROVE TypeOK /\ PlaceInv /\ ReportInv /\ TurnInv
  OBVIOUS
<1>1. TypeOK
  <2>1. [t \in Targets |-> None] \in Observations
    BY DEF Observations
  <2>2. 0 \in 0..MaxProducer
    BY ValueAssumption
  <2>3. [producer |-> 0, shown |-> [t \in Targets |-> None], kept |-> {},
         valid |-> FALSE] \in Metas
    BY <2>1, <2>2 DEF Metas
  <2>4. meta \in [Captures -> Metas]
    BY <2>3 DEF Init
  <2>5. at \in [Procs -> Readings] /\ dest \in [Places -> Dirs \cup {None}]
    BY NothingType DEF Init
  <2>6. pc \in [Procs -> Phases]
    BY DEF Init, Phases
  <2>7. QED
    BY <2>2, <2>4, <2>5, <2>6 DEF Init, TypeOK
<1>2. PlaceInv
  BY PlaceFacts DEF Init, PlaceInv, Writers
<1>3. \A r \in Reports : at[r].input = NoInput
  BY PlaceFacts DEF Init, Nothing
<1>4. ReportInv
  BY <1>3, NothingRead, PlaceFacts DEF Init, ReportInv, NoInput, Unread
<1>5. TurnInv
  BY PlaceFacts DEF Init, TurnInv, AtWork
<1>6. QED
  BY <1>1, <1>2, <1>4, <1>5

LEMMA Invariants == Spec => [](TypeOK /\ PlaceInv /\ ReportInv)
<1>1. TypeOK /\ PlaceInv /\ ReportInv /\ [Next]_vars => (TypeOK /\ PlaceInv /\ ReportInv)'
  BY PlaceStep, ReportInvStep
<1>2. QED
  BY <1>1, InitHolds, PTL DEF Spec

(* Phases, directories, records, readings and the report of any processes  *)
(* are well typed, although filter files, summaries and reports of one     *)
(* case may all be at work at the same time.                               *)
THEOREM TypeCorrect == Spec => []TypeOK
BY Invariants, PTL

(* A written report is sound for any captures, roots and edits, even if    *)
(* reports, summaries and analyses run at the same time: it pairs roots of *)
(* valid captures of one producer only, attributes bytecode of that        *)
(* producer only, and is complete only if it pairs every root.             *)
THEOREM ReportSound == Spec => []ReportIsSound
<1>1. ASSUME TypeOK, ReportInv, report \notin {None, Torn}
      PROVE  ReportIsSound
  <2>1. PICK i \in [Places -> Input] : i = report.input
    BY <1>1 DEF TypeOK, Documents
  <2>2. InputSound(i) /\ report = Document(i)
    BY <1>1, <2>1 DEF ReportInv
  <2>3. /\ report.rows = [l \in Labels |-> Row(i, l)]
        /\ report.attributed = Attributed(i) /\ report.complete = Complete(i)
    BY <2>2 DEF Document
  <2>4. Tiers \subseteq Places /\ "bytecode" \in Places
    BY PlaceFacts
  <2>5. ASSUME NEW p \in Places
        PROVE  /\ i[p].capture \in {None, Owner(p)}
               /\ i[p].capture # None => i[p].capture = Owner(p)
    BY <2>2 DEF InputSound
  <2>6. Compatible(i) => OneProducer({i[p].capture : p \in Tiers})
    BY PlaceFacts DEF Compatible, SameProducer, OneProducer
  <2>7. ASSUME NEW l \in Labels, Row(i, l) = "paired"
        PROVE  /\ OneProducer({i[p].capture : p \in Tiers})
               /\ \A p \in Tiers : /\ meta[Owner(p)].valid
                                   /\ Kind[Owner(p)] = p
                                   /\ OneRoot(Owner(p), l)
    <3>1. Compatible(i) /\ \A p \in Tiers : Available(i, p, l)
      BY <2>7 DEF Row
    <3>2. ASSUME NEW p \in Tiers
          PROVE  /\ meta[Owner(p)].valid
                 /\ Kind[Owner(p)] = p
                 /\ OneRoot(Owner(p), l)
      <4>1. i[p].capture # None /\ i[p].capture = Owner(p)
        BY <2>4, <2>5, <3>1 DEF Available, Usable
      <4>2. QED
        BY <3>1, <4>1 DEF Available, Usable, OneRoot, Units, WithFate
    <3>3. QED
      BY <2>6, <3>1, <3>2
  <2>8. ASSUME NEW l \in Attributed(i)
        PROVE  /\ meta[i["bytecode"].capture].valid
               /\ OneProducer({i[p].capture : p \in Tiers} \cup {i["bytecode"].capture})
               /\ Cardinality(Observed(i["bytecode"].capture, l)) = 1
    <3>1. /\ Compatible(i) /\ i["bytecode"].status = "AVAILABLE"
          /\ Cardinality(Observed(i["bytecode"].capture, l)) = 1
      BY <2>8 DEF Attributed
    <3>2. meta[i["bytecode"].capture].valid
      BY <2>2, <2>4, <3>1 DEF InputSound
    <3>3. PICK p \in Tiers : SameProducer(i["bytecode"].capture, i[p].capture)
      BY <2>2, <3>1 DEF InputSound
    <3>4. OneProducer({i[q].capture : q \in Tiers} \cup {i["bytecode"].capture})
      BY <2>6, <3>1, <3>3 DEF OneProducer, SameProducer
    <3>5. QED
      BY <3>1, <3>2, <3>4
  <2>9. ASSUME NEW l \in Labels, Complete(i), NEW p \in Tiers, Observed(Owner(p), l) # {}
        PROVE  Row(i, l) = "paired"
    <3>1. i[p].capture # None /\ Kind[i[p].capture] = p /\ i[p].capture = Owner(p)
      BY <2>2, <2>4, <2>5, <2>9 DEF Complete, InputSound
    <3>2. Seen(i, l)
      BY <2>9, <3>1 DEF Seen
    <3>3. QED
      BY <2>9, <3>2 DEF Complete
  <2>10. \A p \in Places : i[p].capture \in {None, Owner(p)}
    BY <2>5
  <2>11. \A l \in Labels :
            /\ report.rows[l] = "paired" =>
                   /\ OneProducer({i[p].capture : p \in Tiers})
                   /\ \A p \in Tiers : /\ meta[Owner(p)].valid
                                       /\ Kind[Owner(p)] = p
                                       /\ OneRoot(Owner(p), l)
            /\ l \in report.attributed =>
                   /\ meta[i["bytecode"].capture].valid
                   /\ OneProducer({i[p].capture : p \in Tiers} \cup {i["bytecode"].capture})
                   /\ Cardinality(Observed(i["bytecode"].capture, l)) = 1
            /\ report.complete =>
                   \A p \in Tiers : Observed(Owner(p), l) # {} =>
                                        report.rows[l] = "paired"
    BY <2>3, <2>7, <2>8, <2>9
  <2>12. QED
    BY <2>1, <2>10, <2>11, Zenon DEF ReportIsSound
<1>2. TypeOK /\ ReportInv => ReportIsSound
  BY <1>1 DEF ReportIsSound
<1>3. QED
  BY <1>2, Invariants, PTL

(* Whatever captures do at the same time, and wherever they are killed, a  *)
(* published capture and its record stay; and if reports of one output     *)
(* take turns, so does a written report.                                   *)
THEOREM EvidencePreserved ==
    ASSUME \E S \in Exclusive : Reports \subseteq S
    PROVE  Spec => EvidenceIsPreserved
<1>1. TypeOK /\ PlaceInv /\ TurnInv /\ [Next]_vars => TurnInv'
  BY TurnStep
<1>2. ASSUME TypeOK, PlaceInv, TurnInv, [Next]_vars
      PROVE  /\ \A p \in Places : dest[p] # None =>
                   /\ Owner(p)' = Owner(p)
                   /\ meta'[Owner(p)] = meta[Owner(p)]
             /\ report \notin {None, Torn} => report' = report
  BY <1>2, PlaceStep, TurnStep DEF Kept
<1>3. TypeOK /\ PlaceInv /\ TurnInv /\ [Next]_vars =>
         [/\ \A p \in Places : dest[p] # None =>
                /\ Owner(p)' = Owner(p)
                /\ meta'[Owner(p)] = meta[Owner(p)]
          /\ report \notin {None, Torn} => report' = report]_vars
  BY <1>2
<1>4. QED
  BY <1>1, <1>3, InitHolds, Invariants, PTL DEF Spec, EvidenceIsPreserved
=============================================================================
