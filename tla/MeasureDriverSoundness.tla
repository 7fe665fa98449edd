----------------------- MODULE MeasureDriverSoundness -----------------------
(***************************************************************************)
(* What a valid record of the output directory is worth, for any drivers,  *)
(* requests, dirty or broken product states and edits: its correctness run *)
(* passed on the product it timed, reference-eligible evidence is clean,   *)
(* and a driver that ends well hands out a record of what it asked about.  *)
(* Failures stay, the whole protocol implements the evidence store, and    *)
(* equivalent records are found.                                           *)
(***************************************************************************)
EXTENDS MeasureDriverProofs

USE DEF Products, Producers, Running

(* A step of driver d that publishes nothing, and does not end it well,    *)
(* only needs a look at d's own record.                                    *)
LEMMA QuietSound ==
    ASSUME TypeOK, SoundInv, NEW d \in Drivers,
           store' = store, req' = req, pc'[d] # "ok",
           \A e \in Drivers \ {d} :
               /\ pc'[e] = pc[e] /\ doc'[e] = doc[e]
               /\ seen'[e] = seen[e] /\ name'[e] = name[e],
           VerdictInv(pc'[d], req[d], doc'[d])
    PROVE  SoundInv'
<1>1. \A e \in Drivers : VerdictInv(pc'[e], req'[e], doc'[e])
  BY DEF SoundInv
<1>2. DeliveredEvidenceIsSound'
  <2>1. ASSUME NEW e \in Drivers, pc'[e] = "ok"
        PROVE  \E y \in store :
                   /\ y.name = name'[e] /\ y.doc.valid
                   /\ y.doc.key.product = seen'[e].product
                   /\ y.doc.producer = seen'[e].producer
                   /\ y.doc.timed <=> req[e].mode # "correctness"
                   /\ RanAsRecorded(y.doc)
    <3>1. pc[e] = "ok" /\ name'[e] = name[e] /\ seen'[e] = seen[e]
      BY <2>1
    <3>2. QED
      BY <3>1 DEF SoundInv, DeliveredEvidenceIsSound
  <2>2. QED
    BY <2>1, ZenonT(60) DEF DeliveredEvidenceIsSound, RanAsRecorded
<1>3. QED
  BY <1>1, <1>2 DEF SoundInv

(* The same for the steps that move on with a record m.                    *)
LEMMA ProgressSound ==
    ASSUME TypeOK, SoundInv, NEW d \in Drivers, NEW from,
           NEW to \in Phases \ {"ok"}, NEW m \in Docs,
           Progress(d, from, to, m), VerdictInv(to, req[d], m)
    PROVE  SoundInv'
<1>1. /\ pc'[d] = to /\ doc'[d] = m /\ store' = store /\ req' = req
      /\ seen' = seen /\ name' = name
      /\ \A e \in Drivers \ {d} : pc'[e] = pc[e] /\ doc'[e] = doc[e]
  BY DEF Progress, Goto, shared, TypeOK
<1>2. QED
  BY <1>1, QuietSound

(* A failing driver gives its reason, and keeps what else is known.        *)
LEMMA FailSound ==
    ASSUME TypeOK, SoundInv, NEW d \in Drivers, NEW from \in InStaging,
           NEW reason \in {"invalid", "unsupported"}, Fail(d, from, reason)
    PROVE  SoundInv'
<1> DEFINE m == [doc[d] EXCEPT !.reason = reason]
<1>1. doc[d] \in Docs /\ m \in Docs
  BY DocUpdates DEF TypeOK
<1>2. VerdictInv(from, req[d], doc[d])
  BY DEF SoundInv, Fail, Progress, Goto
<1>3. /\ m.key = doc[d].key /\ m.eligible = doc[d].eligible
      /\ m.classes = doc[d].classes /\ m.correct = doc[d].correct
      /\ m.timed = doc[d].timed /\ m.valid = doc[d].valid
      /\ m.reason = reason
  BY <1>1 DEF Docs
<1> HIDE DEF m
<1>4. VerdictInv("failed", req[d], m)
  BY <1>2, <1>3
     DEF VerdictInv, DescribesRequest, CorrectnessPassed, TimedIfAsked,
         VerdictReached, Measuring, Done, InStaging, Batch
<1>5. QED
  BY <1>1, <1>4, ProgressSound DEF Fail, Phases, m

(* What is known of a record stays known in a later phase that claims no   *)
(* more of it.                                                             *)
LEMMA PhaseSound ==
    ASSUME TypeOK, SoundInv, NEW d \in Drivers, NEW from \in InStaging,
           NEW to \in {"built", "hashed", "prepared", "correctness"},
           NEW m \in Docs, Progress(d, from, to, m), ~doc[d].valid,
           m.key = doc[d].key, m.eligible = doc[d].eligible,
           m.timed = doc[d].timed, m.valid = doc[d].valid,
           m.reason = doc[d].reason, from \notin {"failed", "promote", "renaming"}
    PROVE  SoundInv'
<1>1. VerdictInv(from, req[d], doc[d])
  BY DEF SoundInv, Progress, Goto
<1>2. VerdictInv(to, req[d], m)
  BY <1>1
     DEF VerdictInv, DescribesRequest, CorrectnessPassed, TimedIfAsked,
         VerdictReached, Measuring, Done
<1>3. QED
  BY <1>2, ProgressSound DEF Phases

(* The record a driver stages names its request and claims nothing yet.    *)
LEMMA StagedSound ==
    ASSUME NEW r \in Requests, NEW s
    PROVE  VerdictInv("staged", r, Metadata(r, s))
<1>1. r \in RequestType
  BY RequestsAssumption
<1> DEFINE a == IF "affinity" \in r.extras THEN "pinned" ELSE "taskset"
           k == ResultKey(r, s)
<1>a. k.case = Case(r) /\ k.tuned = r.tuned /\ k.product = s.product
  BY DEF ResultKey
<1>b. \A x : LET u == [k EXCEPT !.affinity = x]
             IN  u.case = k.case /\ u.tuned = k.tuned /\ u.product = k.product
  BY DEF ResultKey
<1>c. RecordedKey(r, s) = [k EXCEPT !.affinity = a]
  BY DEF RecordedKey
<1>d. Metadata(r, s).key = RecordedKey(r, s)
  BY DEF Metadata
<1> HIDE DEF a, k
<1>2. /\ Metadata(r, s).key.case = Case(r)
      /\ Metadata(r, s).key.tuned = r.tuned
      /\ Metadata(r, s).key.product = s.product
  BY <1>a, <1>b, <1>c, <1>d
<1>3. /\ ~Metadata(r, s).valid /\ ~Metadata(r, s).timed
      /\ Metadata(r, s).reason = "none"
      /\ (Metadata(r, s).eligible =>
              ~r.tuned /\ (s.product = None \/ s.product \notin Dirty))
  BY <1>1 DEF Metadata, RequestType
<1>4. QED
  BY <1>2, <1>3
     DEF VerdictInv, DescribesRequest, CorrectnessPassed, TimedIfAsked,
         VerdictReached, Measuring, Done

(* The mode of a request is in the case of its key.                        *)
LEMMA ModeOfCase ==
    ASSUME NEW r, NEW c, c = Case(r) PROVE c[3] = r.mode
BY DEF Case

(* What find_existing() gives a driver is evidence of what it asked about. *)
LEMMA ReuseSound ==
    ASSUME TypeOK, BatchInv, SoundInv, NEW d \in Drivers, Reuse(d)
    PROVE  SoundInv'
<1>1. PICK x \in Existing(d) : name' = [name EXCEPT ![d] = x.name]
  BY DEF Reuse
<1>2. /\ pc[d] = "identified" /\ pc'[d] = "ok"
      /\ \A e \in Drivers \ {d} : pc'[e] = pc[e] /\ name'[e] = name[e]
      /\ name'[d] = x.name
      /\ UNCHANGED <<store, req, seen, doc>>
  BY <1>1 DEF Reuse, Goto, shared, TypeOK
<1>3. \A e \in Drivers : VerdictInv(pc'[e], req'[e], doc'[e])
  <2>1. TAKE e \in Drivers
  <2>2. CASE e = d
    BY <1>2, <2>2 DEF VerdictInv, InStaging, Batch
  <2>3. CASE e # d
    BY <1>2, <2>3 DEF SoundInv
  <2>4. QED
    BY <2>2, <2>3
<1>4. /\ x \in store /\ x.doc.valid
      /\ x.doc.key = ResultKey(req[d], seen[d])
      /\ x.doc.producer = seen[d].producer
  BY DEF Existing
<1>5. x.doc.key.product = seen[d].product /\ x.doc.key.case = Case(req[d])
  BY <1>4 DEF ResultKey
<1>6. x.doc.timed <=> req[d].mode # "correctness"
  BY <1>4, <1>5, ModeOfCase DEF SoundInv, GoodRecord
<1>7. RanAsRecorded(x.doc)
  BY <1>4 DEF BatchInv, ValidRecordsAreExact
<1>8. DeliveredEvidenceIsSound'
  <2>1. ASSUME NEW e \in Drivers, pc'[e] = "ok"
        PROVE  \E y \in store :
                   /\ y.name = name'[e] /\ y.doc.valid
                   /\ y.doc.key.product = seen[e].product
                   /\ y.doc.producer = seen[e].producer
                   /\ y.doc.timed <=> req[e].mode # "correctness"
                   /\ RanAsRecorded(y.doc)
    <3>1. CASE e = d
      BY <1>2, <1>4, <1>5, <1>6, <1>7, <3>1
    <3>2. CASE e # d
      BY <1>2, <2>1, <3>2 DEF SoundInv, DeliveredEvidenceIsSound
    <3>3. QED
      BY <3>1, <3>2
  <2>2. QED
    BY <1>2, <2>1 DEF DeliveredEvidenceIsSound, RanAsRecorded
<1>9. QED
  BY <1>2, <1>3, <1>8 DEF SoundInv

(* Until its adapter is compiled, a driver's record claims nothing.        *)
LEMMA NotYetValid ==
    ASSUME BatchInv, NEW d \in Drivers,
           pc[d] \in Batch \cup {"staged", "unchanged", "verified"}
    PROVE  ~doc[d].valid
BY DEF BatchInv, DriverInv, ValidOnlyIfVerified

LEMMA PrepareSound ==
    ASSUME TypeOK, BatchInv, SoundInv, NEW d \in Drivers, Prepare(d)
    PROVE  SoundInv'
<1>1. doc[d] \in Docs /\ req[d] \in Requests /\ VerdictInv(pc[d], req[d], doc[d])
  BY DEF TypeOK, SoundInv
<1>2. ASSUME NEW p \in {"loaded", "located", "identified", "missing", "usage", "dead"},
             pc' = [pc EXCEPT ![d] = p], UNCHANGED <<store, req, doc, name>>,
             \A e \in Drivers \ {d} : seen'[e] = seen[e]
      PROVE  SoundInv'
  <2>1. pc'[d] = p /\ \A e \in Drivers \ {d} : pc'[e] = pc[e]
    BY <1>2 DEF TypeOK
  <2>2. VerdictInv(p, req[d], doc[d])
    BY <1>2 DEF VerdictInv, InStaging, Batch
  <2>3. QED
    BY <1>2, <2>1, <2>2, QuietSound
<1>3. CASE \/ LoadPolicy(d) \/ IdentifyProduct(d) \/ RefuseProduct(d)
           \/ IdentifyHarness(d) \/ RefuseRuntime(d) \/ Miss(d) \/ StageCollides(d)
  BY <1>2, <1>3
     DEF LoadPolicy, IdentifyProduct, RefuseProduct, IdentifyHarness, TypeOK,
         RefuseRuntime, Miss, StageCollides, Goto, shared
<1>4. CASE Reuse(d)
  BY <1>4, ReuseSound
<1>5. CASE Stage(d)
  <2>1. /\ pc'[d] = "staged" /\ doc'[d] = Metadata(req[d], seen[d])
        /\ \A e \in Drivers \ {d} : pc'[e] = pc[e] /\ doc'[e] = doc[e]
        /\ UNCHANGED <<store, req, seen, name>>
    BY <1>5 DEF Stage, Goto, TypeOK
  <2>2. QED
    BY <1>1, <2>1, StagedSound, QuietSound
<1>6. CASE Build(d)
  <2>1. /\ pc[d] = "staged" /\ pc'[d] = "built"
        /\ \A e \in Drivers \ {d} : pc'[e] = pc[e]
        /\ UNCHANGED <<store, req, seen, name, doc>>
    BY <1>6 DEF Build, Goto, TypeOK
  <2>2. ~doc[d].valid
    BY <2>1, NotYetValid
  <2>3. VerdictInv("built", req[d], doc[d])
    BY <1>1, <2>1, <2>2
       DEF VerdictInv, DescribesRequest, CorrectnessPassed, TimedIfAsked,
           VerdictReached, Measuring, Done, InStaging, Batch
  <2>4. QED
    BY <2>1, <2>3, QuietSound
<1>7. CASE BuildFails(d)
  <2> DEFINE m == [doc[d] EXCEPT !.reason = "invalid"]
  <2>1. /\ pc[d] = "staged" /\ pc'[d] = "failed" /\ doc'[d] = m
        /\ \A e \in Drivers \ {d} : pc'[e] = pc[e] /\ doc'[e] = doc[e]
        /\ UNCHANGED <<store, req, seen, name>>
    BY <1>7 DEF BuildFails, Goto, TypeOK
  <2>2. ~doc[d].valid
    BY <2>1, NotYetValid
  <2>3. /\ m.key = doc[d].key /\ m.eligible = doc[d].eligible
        /\ m.timed = doc[d].timed /\ m.valid = doc[d].valid /\ m.reason = "invalid"
    BY <1>1 DEF Docs
  <2> HIDE DEF m
  <2>4. VerdictInv("failed", req[d], m)
    BY <1>1, <2>1, <2>2, <2>3
       DEF VerdictInv, DescribesRequest, CorrectnessPassed, TimedIfAsked,
           VerdictReached, Measuring, Done, InStaging, Batch
  <2>5. QED
    BY <2>1, <2>4, QuietSound
<1>8. CASE HashClasses(d)
  <2> DEFINE m == [doc[d] EXCEPT !.built = classes]
  <2>1. m \in Docs /\ Progress(d, "built", "hashed", m)
    BY <1>8, DocUpdates DEF HashClasses, TypeOK
  <2>2. ~doc[d].valid
    BY <2>1, NotYetValid DEF Progress, Goto, Batch
  <2>3. /\ m.key = doc[d].key /\ m.eligible = doc[d].eligible
        /\ m.timed = doc[d].timed /\ m.valid = doc[d].valid
        /\ m.reason = doc[d].reason
    BY <1>1 DEF Docs
  <2> HIDE DEF m
  <2>4. QED
    BY <2>1, <2>2, <2>3, PhaseSound DEF InStaging, Batch
<1>9. CASE ResolvePeer(d)
  <2>1. Progress(d, "staged", "hashed", doc[d])
    BY <1>9 DEF ResolvePeer
  <2>2. ~doc[d].valid
    BY <2>1, NotYetValid DEF Progress, Goto
  <2>3. QED
    BY <1>1, <2>1, <2>2, PhaseSound DEF InStaging
<1>10. CASE CompileAdapter(d)
  <2> DEFINE m == [doc[d] EXCEPT !.inputs = @ \cup {harness}]
  <2>1. m \in Docs /\ Progress(d, "hashed", "prepared", m)
    BY <1>10, DocUpdates DEF CompileAdapter, TypeOK
  <2>2. ~doc[d].valid
    BY <2>1, NotYetValid DEF Progress, Goto, Batch
  <2>3. /\ m.key = doc[d].key /\ m.eligible = doc[d].eligible
        /\ m.timed = doc[d].timed /\ m.valid = doc[d].valid
        /\ m.reason = doc[d].reason
    BY <1>1 DEF Docs
  <2> HIDE DEF m
  <2>4. QED
    BY <2>1, <2>2, <2>3, PhaseSound DEF InStaging, Batch
<1>11. CASE PrepareFails(d) \/ AdapterUnsupported(d)
  BY <1>11, FailSound DEF PrepareFails, AdapterUnsupported, InStaging, Batch
<1>12. QED
  BY <1>3, <1>4, <1>5, <1>6, <1>7, <1>8, <1>9, <1>10, <1>11 DEF Prepare

(* A JVM gives the expected result or its driver fails, and what it loads  *)
(* later does not undo the class that computed it.                         *)
LEMMA ExecuteSound ==
    ASSUME TypeOK, BatchInv, SoundInv, NEW d \in Drivers,
           Execute(d) \/ LoadMore(d)
    PROVE  SoundInv'
<1> USE DEF DescribesRequest, CorrectnessPassed, TimedIfAsked, VerdictReached,
            Measuring, Done
<1> DEFINE r == req[d]
           m == doc[d]
<1>1. m \in Docs /\ Loaded(d) \in Docs /\ VerdictInv(pc[d], r, m)
  BY LoadedType DEF TypeOK, SoundInv
<1>2. ASSUME NEW from, NEW to,
             Progress(d, from, to, Loaded(d)),
             \/ from = "prepared" /\ to = "correctness"
             \/ from = "checked" /\ to = "timing"
             \/ from = "timed" /\ to = "jfr"
             \/ from \in Running /\ to = from
      PROVE  SoundInv'
  <2> DEFINE n == Loaded(d)
  <2>1. /\ n.key = m.key /\ n.eligible = m.eligible /\ n.correct = m.correct
        /\ n.timed = m.timed /\ n.valid = m.valid
        /\ m.classes \subseteq n.classes /\ n.reason = m.reason
    BY <1>1 DEF Loaded, Docs
  <2>2. pc[d] = from /\ from \in InStaging
    BY <1>2 DEF Progress, Goto, InStaging, Batch
  <2>3. ~m.valid
    BY <1>2, <2>2, NotYetValid DEF Batch
  <2> HIDE DEF n
  <2>4. VerdictInv(to, r, n)
    BY <1>1, <1>2, <2>1, <2>2, <2>3 DEF VerdictInv
  <2>5. Progress(d, from, to, n) /\ n \in Docs
    BY <1>1, <1>2 DEF n
  <2>6. QED
    BY <1>2, <2>4, <2>5, ProgressSound DEF Phases
<1>3. CASE StartCorrectness(d) \/ StartTiming(d) \/ StartJfr(d) \/ LoadMore(d)
  BY <1>2, <1>3 DEF StartCorrectness, StartTiming, StartJfr, LoadMore
<1>4. CASE CorrectnessPasses(d)
  <2> DEFINE only == r.mode = "correctness"
             to == IF only THEN "measured" ELSE "checked"
             n == [m EXCEPT !.correct = "PASS", !.eligible = @ /\ ~only]
  <2>1. n \in Docs
    BY <1>1 DEF Docs
  <2>2. /\ n.key = m.key /\ n.correct = "PASS" /\ n.timed = m.timed
        /\ n.valid = m.valid /\ n.classes = m.classes /\ n.reason = m.reason
        /\ n.eligible = (m.eligible /\ ~only)
    BY <1>1 DEF Docs
  <2>3. Progress(d, "correctness", to, n) /\ GivesExpected(d)
    BY <1>4 DEF CorrectnessPasses
  <2>4. pc[d] = "correctness"
    BY <2>3 DEF Progress, Goto
  <2>5. to \in {"measured", "checked"} /\ (to = "measured" <=> only)
    OBVIOUS
  <2>6. r.lang = "protos" => ~(m.classes \subseteq Broken)
    BY <2>3 DEF GivesExpected
  <2> HIDE DEF n, to
  <2>7. VerdictInv(to, r, n)
    BY <1>1, <2>2, <2>4, <2>5, <2>6 DEF VerdictInv, InStaging, Batch
  <2>8. QED
    BY <2>1, <2>3, <2>5, <2>7, ProgressSound DEF Phases
<1>5. CASE CorrectnessFails(d)
  <2> DEFINE n == [m EXCEPT !.correct = "FAIL", !.reason = "invalid"]
  <2>1. n \in Docs
    BY <1>1 DEF Docs
  <2>2. /\ n.key = m.key /\ n.eligible = m.eligible /\ n.timed = m.timed
        /\ n.valid = m.valid /\ n.reason = "invalid"
    BY <1>1 DEF Docs
  <2>3. Progress(d, "correctness", "failed", n) /\ pc[d] = "correctness"
    BY <1>5 DEF CorrectnessFails, Progress, Goto
  <2>4. ~m.valid
    BY <2>3, NotYetValid DEF Batch
  <2> HIDE DEF n
  <2>5. VerdictInv("failed", r, n)
    BY <1>1, <2>2, <2>3, <2>4 DEF VerdictInv, InStaging, Batch
  <2>6. QED
    BY <2>1, <2>3, <2>5, ProgressSound DEF Phases
<1>6. CASE TimingSucceeds(d)
  <2> DEFINE to == IF r.mode = "jfr" THEN "timed" ELSE "measured"
             n == [m EXCEPT !.timed = TRUE]
  <2>1. n \in Docs
    BY <1>1 DEF Docs
  <2>2. /\ n.key = m.key /\ n.eligible = m.eligible /\ n.timed
        /\ n.valid = m.valid /\ n.correct = m.correct /\ n.classes = m.classes
        /\ n.reason = m.reason
    BY <1>1 DEF Docs
  <2>3. Progress(d, "timing", to, n) /\ pc[d] = "timing"
    BY <1>6 DEF TimingSucceeds, Progress, Goto
  <2>4. to \in {"timed", "measured"}
    OBVIOUS
  <2> HIDE DEF n, to
  <2>5. VerdictInv(to, r, n)
    BY <1>1, <2>2, <2>3, <2>4 DEF VerdictInv, InStaging, Batch
  <2>6. QED
    BY <2>1, <2>3, <2>4, <2>5, ProgressSound DEF Phases
<1>7. CASE JfrSucceeds(d)
  <2>1. Progress(d, "jfr", "measured", m) /\ pc[d] = "jfr"
    BY <1>7 DEF JfrSucceeds, Progress, Goto
  <2>2. VerdictInv("measured", r, m)
    BY <1>1, <2>1 DEF VerdictInv, InStaging, Batch
  <2>3. QED
    BY <1>1, <2>1, <2>2, ProgressSound DEF Phases
<1>8. CASE RunFails(d)
  BY <1>8, FailSound DEF RunFails, InStaging, Batch
<1>9. QED
  BY <1>3, <1>4, <1>5, <1>6, <1>7, <1>8 DEF Execute

(* A record that is published as valid is good, whatever state of the      *)
(* checkout it is about.                                                   *)
LEMMA RecordSound ==
    ASSUME TypeOK, BatchInv, SoundInv, NEW d \in Drivers,
           pc[d] = "renaming", doc[d].valid
    PROVE  GoodRecord(doc[d]) /\ RanAsRecorded(doc[d])
<1>1. /\ VerdictInv(pc[d], req[d], doc[d])
      /\ DriverInv(pc[d], req[d], seen[d], doc[d])
  BY DEF SoundInv, BatchInv
<1>2. req[d].lang # "protos" => doc[d].classes = {}
  BY <1>1 DEF DriverInv, LoadedSinceSeen, InStaging
<1>3. doc[d].key.case[3] = req[d].mode
  BY <1>1, ModeOfCase DEF VerdictInv, DescribesRequest, InStaging
<1>4. QED
  BY <1>1, <1>2, <1>3
     DEF VerdictInv, DescribesRequest, CorrectnessPassed, TimedIfAsked,
         DriverInv, GoodRecord, InStaging

(* The verification keeps what the runs have shown, and promote() publishes*)
(* it.                                                                     *)
LEMMA FinishSound ==
    ASSUME TypeOK, BatchInv, SoundInv, NEW d \in Drivers, Finish(d)
    PROVE  SoundInv'
<1> USE DEF DescribesRequest, CorrectnessPassed, TimedIfAsked, VerdictReached,
            Measuring, Done
<1> DEFINE r == req[d]
           m == doc[d]
<1>1. m \in Docs /\ VerdictInv(pc[d], r, m)
  BY DEF TypeOK, SoundInv
<1>2. ASSUME NEW from, NEW to, Progress(d, from, to, m),
             \/ from = "measured" /\ to = "unchanged"
             \/ from = "unchanged" /\ to = "verified"
             \/ from = "recorded" /\ to = "promote"
      PROVE  SoundInv'
  <2>1. pc[d] = from
    BY <1>2 DEF Progress, Goto
  <2>2. VerdictInv(to, r, m)
    BY <1>1, <1>2, <2>1 DEF VerdictInv, InStaging, Batch
  <2>3. QED
    BY <1>1, <1>2, <2>2, ProgressSound DEF Phases
<1>3. CASE VerifyProduct(d)
  BY <1>2, <1>3, FailSound DEF VerifyProduct, InStaging, Batch
<1>4. CASE VerifyClasses(d)
  BY <1>2, <1>4, FailSound DEF VerifyClasses, InStaging
<1>5. CASE VerifyHarness(d)
  <2>1. CASE harness = seen[d].producer
    <3> DEFINE to == IF r.mode = "diagnostic" THEN "recorded" ELSE "promote"
               n == [m EXCEPT !.valid = TRUE]
    <3>1. pc[d] = "verified" /\ Progress(d, "verified", to, n)
      BY <1>5, <2>1 DEF VerifyHarness, Progress, Goto
    <3>2. n \in Docs
      BY <1>1 DEF Docs
    <3>3. /\ n.key = m.key /\ n.eligible = m.eligible /\ n.timed = m.timed
          /\ n.valid /\ n.correct = m.correct /\ n.classes = m.classes
          /\ n.reason = m.reason
      BY <1>1 DEF Docs
    <3>4. to \in {"recorded", "promote"}
      OBVIOUS
    <3> HIDE DEF n, to
    <3>5. VerdictInv(to, r, n)
      BY <1>1, <3>1, <3>3, <3>4 DEF VerdictInv, InStaging
    <3>6. QED
      BY <3>1, <3>2, <3>4, <3>5, ProgressSound DEF Phases
  <2>2. CASE harness # seen[d].producer
    BY <1>5, <2>2, FailSound DEF VerifyHarness, InStaging
  <2>3. QED
    BY <2>1, <2>2
<1>6. CASE AnalysisSucceeds(d)
  BY <1>2, <1>6 DEF AnalysisSucceeds
<1>7. CASE AnalysisFails(d)
  BY <1>7, FailSound DEF AnalysisFails, InStaging
<1>8. CASE RecordInvalid(d)
  <2> DEFINE n == [m EXCEPT !.valid = FALSE]
  <2>1. n \in Docs
    BY <1>1 DEF Docs
  <2>2. /\ n.key = m.key /\ n.eligible = m.eligible /\ n.timed = m.timed
        /\ ~n.valid /\ n.reason = m.reason
    BY <1>1 DEF Docs
  <2>3. Progress(d, "failed", "promote", n) /\ pc[d] = "failed"
    BY <1>8 DEF RecordInvalid, Progress, Goto
  <2> HIDE DEF n
  <2>4. VerdictInv("promote", r, n)
    BY <1>1, <2>2, <2>3 DEF VerdictInv, InStaging
  <2>5. QED
    BY <2>1, <2>3, <2>4, ProgressSound DEF Phases
<1>9. CASE ChooseName(d)
  <2>1. /\ pc[d] = "promote" /\ pc'[d] = "renaming"
        /\ \A e \in Drivers \ {d} : pc'[e] = pc[e] /\ name'[e] = name[e]
        /\ UNCHANGED <<store, req, seen, doc>>
    BY <1>9 DEF ChooseName, Goto, shared, TypeOK
  <2>2. VerdictInv("renaming", r, m)
    BY <1>1, <2>1 DEF VerdictInv, InStaging
  <2>3. QED
    BY <2>1, <2>2, QuietSound
<1>10. CASE Rename(d)
  <2> DEFINE x == [name |-> name[d], doc |-> m]
  <2>1. /\ pc[d] = "renaming" /\ store' = store \cup {x}
        /\ (pc'[d] = "ok" <=> m.reason = "none")
        /\ pc'[d] \in Terminal
        /\ \A e \in Drivers \ {d} : pc'[e] = pc[e]
        /\ UNCHANGED <<req, seen, name, doc>>
    BY <1>1, <1>10 DEF Rename, Goto, TypeOK, Docs, Terminal
  <2>2. \A e \in Drivers : VerdictInv(pc'[e], req'[e], doc'[e])
    BY <2>1 DEF SoundInv, VerdictInv, InStaging, Batch, Terminal
  <2>3. \A e \in store' : e.doc.valid => GoodRecord(e.doc)
    BY <2>1, RecordSound DEF SoundInv
  <2>4. ASSUME NEW e \in Drivers, pc'[e] = "ok"
        PROVE  \E y \in store' :
                   /\ y.name = name[e] /\ y.doc.valid
                   /\ y.doc.key.product = seen[e].product
                   /\ y.doc.producer = seen[e].producer
                   /\ y.doc.timed <=> req[e].mode # "correctness"
                   /\ RanAsRecorded(y.doc)
    <3>1. CASE e = d
      <4>1. m.valid /\ m.key.case = Case(r)
        BY <1>1, <2>1, <2>4, <3>1 DEF VerdictInv, InStaging
      <4>2. GoodRecord(m) /\ RanAsRecorded(m)
        BY <2>1, <4>1, RecordSound
      <4>3. m.timed <=> r.mode # "correctness"
        BY <4>1, <4>2, ModeOfCase DEF GoodRecord
      <4>4. m.key.product = seen[d].product /\ m.producer = seen[d].producer
        BY <2>1 DEF BatchInv, DriverInv, RecordNamesSeen, InStaging
      <4>5. x \in store' /\ x.name = name[d] /\ x.doc = m
        BY <2>1
      <4>6. QED
        BY <3>1, <4>1, <4>2, <4>3, <4>4, <4>5
    <3>2. CASE e # d
      <4>1. pc[e] = "ok" /\ store \subseteq store'
        BY <2>1, <2>4, <3>2
      <4>2. QED
        BY <4>1 DEF SoundInv, DeliveredEvidenceIsSound
    <3>3. QED
      BY <3>1, <3>2
  <2>5. DeliveredEvidenceIsSound'
    BY <2>1, <2>4 DEF DeliveredEvidenceIsSound, RanAsRecorded
  <2>6. QED
    BY <2>2, <2>3, <2>5 DEF SoundInv
<1>11. QED
  BY <1>3, <1>4, <1>5, <1>6, <1>7, <1>8, <1>9, <1>10 DEF Finish

----------------------------------------------------------------------------

LEMMA InitSound == Init => SoundInv
BY DEF Init, SoundInv, VerdictInv, DeliveredEvidenceIsSound, InStaging, Batch

(* SoundInv is inductive relative to the types and to BatchInv: a peer     *)
(* loads no product class, and nothing is valid before it is verified.     *)
LEMMA SoundStep == TypeOK /\ BatchInv /\ SoundInv /\ [Next]_vars => SoundInv'
<1> SUFFICES ASSUME TypeOK, BatchInv, SoundInv, [Next]_vars PROVE SoundInv'
  OBVIOUS
<1>1. ASSUME NEW d \in Drivers, Crash(d) PROVE SoundInv'
  <2>1. /\ pc'[d] = "dead" /\ \A e \in Drivers \ {d} : pc'[e] = pc[e]
        /\ UNCHANGED <<store, req, seen, name, doc>>
    BY <1>1 DEF Crash, shared, TypeOK
  <2>2. VerdictInv("dead", req[d], doc[d])
    BY DEF VerdictInv, InStaging, Batch
  <2>3. QED
    BY <2>1, <2>2, QuietSound
<1>2. CASE EditProduct \/ EditHarness \/ UNCHANGED vars
  <2>1. UNCHANGED <<pc, req, seen, doc, store, name>>
    BY <1>2 DEF EditProduct, EditHarness, vars, local
  <2>2. QED
    BY <2>1, ZenonT(60) DEF SoundInv, DeliveredEvidenceIsSound, RanAsRecorded
<1>3. QED
  BY <1>1, <1>2, PrepareSound, ExecuteSound, FinishSound
     DEF Next, Step, AllEnded

LEMMA SoundAlways == Spec => [](TypeOK /\ BatchInv /\ SoundInv)
BY TypeCorrect, InitBatch, BatchStep, InitSound, SoundStep, PTL DEF Spec

(* No valid record is of a product that computes a wrong result, and its   *)
(* correctness run passed: all its JVMs loaded one state of the product,   *)
(* and the correctness run gave the expected result from it.               *)
THEOREM AcceptedCorrect == Spec => []AcceptedTimingIsCorrect
<1>1. ASSUME BatchInv, SoundInv PROVE AcceptedTimingIsCorrect
  <2>1. ASSUME NEW e \in store, e.doc.valid
        PROVE  e.doc.correct = "PASS" /\ e.doc.classes \cap Broken = {}
    <3>1. GoodRecord(e.doc) /\ RanAsRecorded(e.doc)
      BY <1>1, <2>1 DEF SoundInv, BatchInv, ValidRecordsAreExact
    <3>2. QED
      BY <3>1 DEF GoodRecord, RanAsRecorded
  <2>2. QED
    BY <2>1 DEF AcceptedTimingIsCorrect
<1>2. BatchInv /\ SoundInv => AcceptedTimingIsCorrect
  BY <1>1
<1>3. QED
  BY <1>2, SoundAlways, PTL

(* Reference-eligible evidence is timed, untuned and of clean sources.     *)
THEOREM CleanReference == Spec => []ReferenceIsClean
<1>1. ASSUME TypeOK, BatchInv, SoundInv PROVE ReferenceIsClean
  <2>1. ASSUME NEW e \in store, e.doc.valid, e.doc.eligible
        PROVE  /\ e.doc.classes \cap Dirty = {}
               /\ e.doc.timed /\ ~e.doc.key.tuned
    <3>1. GoodRecord(e.doc) /\ RanAsRecorded(e.doc)
      BY <1>1, <2>1 DEF SoundInv, BatchInv, ValidRecordsAreExact
    <3>2. e.doc.classes \subseteq Nat
      BY <1>1 DEF TypeOK, Docs
    <3>3. \A v \in e.doc.classes : v = e.doc.key.product /\ v # None
      BY <3>1, <3>2, NoneAssumption DEF RanAsRecorded
    <3>4. QED
      BY <2>1, <3>1, <3>3 DEF GoodRecord
  <2>2. QED
    BY <2>1 DEF ReferenceIsClean
<1>2. TypeOK /\ BatchInv /\ SoundInv => ReferenceIsClean
  BY <1>1
<1>3. QED
  BY <1>2, SoundAlways, PTL

(* A driver that exits 0, measuring or reusing, hands out a valid record   *)
(* of the product and the producer files it identified, of the kind that   *)
(* it was asked for, and of what really ran.                               *)
THEOREM DeliveredSound == Spec => []DeliveredEvidenceIsSound
<1>1. SoundInv => DeliveredEvidenceIsSound
  BY DEF SoundInv
<1>2. QED
  BY <1>1, SoundAlways, PTL

----------------------------------------------------------------------------
(* Drivers and promote() as seen from the output directory: failures stay  *)
(* there and say so, only processes that died leave something in .staging, *)
(* and the whole protocol implements the evidence store.                   *)

HIDE DEF Products, Producers

(* Most steps of d do not show in the output directory, do not end d with  *)
(* an answer, and do not change what product state d is about.             *)
Quiet(d) ==
    /\ UNCHANGED <<product, staging, store, req, run, name>>
    /\ \A e \in Drivers : seen'[e].product = seen[e].product
    /\ \A e \in Drivers \ {d} : pc'[e] = pc[e] /\ doc'[e] = doc[e]
    /\ pc[d] \notin Terminal
    /\ pc'[d] \notin {"ok", "invalid", "unsupported", "renaming", "idle"}
    /\ pc'[d] = "loaded" => pc[d] = "idle"
    /\ pc[d] \in InStaging => pc'[d] \in InStaging \cup {"dead"}
    /\ pc'[d] \in InStaging => pc[d] \in InStaging

Visible(d) ==
    IdentifyProduct(d) \/ Reuse(d) \/ Stage(d) \/ ChooseName(d) \/ Rename(d)

(* A step that moves on within the staging directory is quiet.             *)
LEMMA ProgressShowsNothing ==
    ASSUME TypeOK, NEW d \in Drivers, NEW from \in InStaging,
           NEW to \in InStaging \ {"renaming"}, NEW m,
           Progress(d, from, to, m)
    PROVE  Quiet(d)
BY DEF Progress, Goto, shared, TypeOK, Quiet, InStaging, Batch, Terminal

(* The other steps of a driver are quiet.                                  *)
LEMMA OtherStepsAreQuiet ==
    ASSUME TypeOK, NEW d \in Drivers, Step(d) \/ LoadMore(d) \/ Crash(d),
           ~Visible(d)
    PROVE  Quiet(d)
<1>1. CASE LoadPolicy(d)
  BY <1>1 DEF LoadPolicy, Goto, shared, TypeOK, Quiet, InStaging, Batch, Terminal
<1>2. CASE IdentifyHarness(d)
  BY <1>2 DEF IdentifyHarness, Goto, shared, TypeOK, Quiet, InStaging, Batch,
              Terminal
<1>3. CASE RefuseProduct(d) \/ RefuseRuntime(d) \/ Miss(d) \/ StageCollides(d)
  BY <1>3 DEF RefuseProduct, RefuseRuntime, Miss, StageCollides, Goto, shared,
              TypeOK, Quiet, InStaging, Batch, Terminal
<1>4. CASE Build(d) \/ BuildFails(d)
  BY <1>4 DEF Build, BuildFails, Goto, TypeOK, Quiet, InStaging, Batch, Terminal
<1>5. CASE HashClasses(d) \/ ResolvePeer(d) \/ CompileAdapter(d)
  BY <1>5, ProgressShowsNothing
     DEF HashClasses, ResolvePeer, CompileAdapter, InStaging, Batch
<1>6. CASE PrepareFails(d) \/ AdapterUnsupported(d) \/ RunFails(d)
  BY <1>6, ProgressShowsNothing
     DEF PrepareFails, AdapterUnsupported, RunFails, Fail, InStaging, Batch
<1>7. CASE StartCorrectness(d) \/ StartTiming(d) \/ StartJfr(d) \/ LoadMore(d)
  BY <1>7, ProgressShowsNothing
     DEF StartCorrectness, StartTiming, StartJfr, LoadMore, InStaging, Batch
<1>8. CASE \/ CorrectnessPasses(d) \/ CorrectnessFails(d)
           \/ TimingSucceeds(d) \/ JfrSucceeds(d)
  BY <1>8, ProgressShowsNothing
     DEF CorrectnessPasses, CorrectnessFails, TimingSucceeds, JfrSucceeds,
         InStaging, Batch
<1>9. CASE VerifyProduct(d) \/ VerifyClasses(d) \/ VerifyHarness(d)
  BY <1>9, ProgressShowsNothing
     DEF VerifyProduct, VerifyClasses, VerifyHarness, Fail, InStaging, Batch
<1>10. CASE AnalysisSucceeds(d) \/ AnalysisFails(d) \/ RecordInvalid(d)
  BY <1>10, ProgressShowsNothing
     DEF AnalysisSucceeds, AnalysisFails, RecordInvalid, Fail, InStaging
<1>11. CASE Crash(d)
  BY <1>11 DEF Crash, shared, TypeOK, Quiet, InStaging, Batch, Terminal
<1>12. QED
  BY <1>1, <1>2, <1>3, <1>4, <1>5, <1>6, <1>7, <1>8, <1>9, <1>10, <1>11
     DEF Visible, Step, Prepare, Execute, Finish

(* Steps that do not show keep OutputInv.                                  *)
LEMMA QuietOutput ==
    ASSUME TypeOK, OutputInv, NEW d \in Drivers, Quiet(d)
    PROVE  OutputInv'
<1>1. \A e \in Drivers :
          /\ pc[e] \in InStaging \cup {"dead"} => pc'[e] \in InStaging \cup {"dead"}
          /\ pc'[e] \in {"idle", "loaded"} => pc[e] \in {"idle", "loaded"}
          /\ pc'[e] = "renaming" => pc[e] = "renaming" /\ doc'[e] = doc[e]
          /\ pc'[e] \in {"invalid", "unsupported"} => pc[e] = pc'[e]
  BY DEF Quiet, Terminal
<1>2. /\ UNCHANGED <<store, staging, req, run, name>>
      /\ \A e \in Drivers : seen'[e].product = seen[e].product
  BY DEF Quiet
<1>3. ASSUME NEW s \in staging
      PROVE  \E e \in Drivers : s = StagingDir(e, run[e])
                                /\ pc'[e] \in InStaging \cup {"dead"}
  BY <1>1 DEF OutputInv
<1>4. \A s \in staging' : \E e \in Drivers :
          s = StagingDir(e, run[e])' /\ pc'[e] \in InStaging \cup {"dead"}
  BY <1>2, <1>3 DEF StagingDir
<1>5. QED
  BY <1>1, <1>2, <1>4 DEF OutputInv

(* ... and so does each of those that do.                                  *)
LEMMA VisibleOutput ==
    ASSUME TypeOK, SoundInv, OutputInv, NEW d \in Drivers, Visible(d)
    PROVE  OutputInv'
<1>1. CASE IdentifyProduct(d)
  <2>1. /\ pc[d] = "loaded" /\ pc'[d] = "located"
        /\ \A e \in Drivers \ {d} : pc'[e] = pc[e] /\ seen'[e] = seen[e]
        /\ UNCHANGED <<store, staging, req, run, name, doc>>
    BY <1>1 DEF IdentifyProduct, Goto, shared, TypeOK
  <2>2. QED
    BY <2>1 DEF OutputInv, StagingDir, InStaging, Batch
<1>2. CASE Reuse(d)
  <2>1. /\ pc[d] = "identified" /\ pc'[d] = "ok"
        /\ \A e \in Drivers \ {d} : pc'[e] = pc[e] /\ name'[e] = name[e]
        /\ UNCHANGED <<store, staging, req, run, seen, doc>>
    BY <1>2 DEF Reuse, Goto, shared, TypeOK
  <2>2. QED
    BY <2>1 DEF OutputInv, StagingDir, InStaging, Batch
<1>3. CASE Stage(d)
  <2>1. PICK t \in RunIds : /\ staging' = staging \cup {StagingDir(d, t)}
                            /\ run' = [run EXCEPT ![d] = t]
    BY <1>3 DEF Stage
  <2>2. /\ pc[d] = "missing" /\ pc'[d] = "staged" /\ run'[d] = t
        /\ \A e \in Drivers \ {d} :
               pc'[e] = pc[e] /\ run'[e] = run[e] /\ doc'[e] = doc[e]
        /\ UNCHANGED <<store, req, name, seen>>
    BY <1>3, <2>1 DEF Stage, Goto, TypeOK
  <2>3. ASSUME NEW s \in staging'
        PROVE  \E e \in Drivers : s = StagingDir(e, run[e])'
                                  /\ pc'[e] \in InStaging \cup {"dead"}
    <3>1. CASE s = StagingDir(d, t)
      BY <2>2, <3>1 DEF StagingDir, InStaging
    <3>2. CASE s \in staging
      <4>1. PICK e \in Drivers : s = StagingDir(e, run[e])
                                 /\ pc[e] \in InStaging \cup {"dead"}
        BY <3>2 DEF OutputInv
      <4>2. e # d
        BY <2>2, <4>1 DEF InStaging, Batch
      <4>3. QED
        BY <2>2, <4>1, <4>2 DEF StagingDir
    <3>3. QED
      BY <2>1, <3>1, <3>2
  <2>4. QED
    BY <2>2, <2>3 DEF OutputInv
<1>4. CASE ChooseName(d)
  <2>1. PICK n \in 1..MaxSuffix : name' = [name EXCEPT ![d] = Destination(d, n)]
    BY <1>4 DEF ChooseName
  <2>2. /\ pc[d] = "promote" /\ pc'[d] = "renaming"
        /\ name'[d] = Destination(d, n)
        /\ \A e \in Drivers \ {d} : pc'[e] = pc[e] /\ name'[e] = name[e]
        /\ UNCHANGED <<store, staging, req, run, seen, doc>>
    BY <1>4, <2>1 DEF ChooseName, Goto, shared, TypeOK
  <2>a. Destination(d, n).invalid = (doc[d].reason # "none")
    BY DEF Destination
  <2>3. name'[d].invalid <=> doc[d].reason # "none"
    BY <2>2, <2>a
  <2>4. \A s \in staging : \E e \in Drivers :
            s = StagingDir(e, run[e])' /\ pc'[e] \in InStaging \cup {"dead"}
    BY <2>2 DEF OutputInv, StagingDir, InStaging
  <2>5. QED
    BY <2>2, <2>3, <2>4 DEF OutputInv
<1>5. CASE Rename(d)
  <2> DEFINE x == [name |-> name[d], doc |-> doc[d]]
  <2>1. /\ pc[d] = "renaming" /\ store' = store \cup {x}
        /\ staging' = staging \ {StagingDir(d, run[d])}
        /\ pc'[d] = IF doc[d].reason = "none" THEN "ok" ELSE doc[d].reason
        /\ \A e \in Drivers \ {d} : pc'[e] = pc[e]
        /\ UNCHANGED <<req, run, seen, name, doc>>
    BY <1>5 DEF Rename, Goto, TypeOK
  <2>2. /\ name[d].invalid <=> doc[d].reason # "none"
        /\ doc[d].valid <=> doc[d].reason = "none"
        /\ doc[d].reason \in {"none", "invalid", "unsupported"}
    BY <2>1 DEF OutputInv, SoundInv, VerdictInv, VerdictReached, InStaging,
                TypeOK, Docs
  <2>3. \A e \in store' : e.name.invalid <=> ~e.doc.valid
    BY <2>1, <2>2 DEF OutputInv
  <2>4. ASSUME NEW s \in staging'
        PROVE  \E e \in Drivers : s = StagingDir(e, run[e])'
                                  /\ pc'[e] \in InStaging \cup {"dead"}
    <3>1. PICK e \in Drivers : s = StagingDir(e, run[e])
                               /\ pc[e] \in InStaging \cup {"dead"}
      BY <2>1 DEF OutputInv
    <3>2. e # d
      BY <2>1, <3>1
    <3>3. QED
      BY <2>1, <3>1, <3>2 DEF StagingDir
  <2>5. x \in store' /\ x.name = name[d]
    BY <2>1
  <2>6. pc'[d] \in {"ok", "invalid", "unsupported"}
        /\ (pc'[d] # "ok" => name[d].invalid)
    BY <2>1, <2>2
  <2>7. ASSUME NEW e \in Drivers
        PROVE  /\ pc'[e] \in {"idle", "loaded"} => seen[e].product = None
               /\ pc'[e] = "renaming" =>
                      (name[e].invalid <=> doc[e].reason # "none")
               /\ pc'[e] \in {"invalid", "unsupported"} =>
                      \E y \in store' : y.name = name[e] /\ y.name.invalid
    <3>1. CASE e = d
      BY <2>5, <2>6, <3>1
    <3>2. CASE e # d
      BY <2>1, <3>2 DEF OutputInv
    <3>3. QED
      BY <3>1, <3>2
  <2>8. QED
    BY <2>1, <2>3, <2>4, <2>7 DEF OutputInv
<1>6. QED
  BY <1>1, <1>2, <1>3, <1>4, <1>5 DEF Visible

LEMMA InitOutput == Init => OutputInv
BY DEF Init, OutputInv, Blank

(* OutputInv is inductive relative to SoundInv, which tells that a record  *)
(* is valid exactly when it goes out without a reason against it.          *)
LEMMA OutputStep == TypeOK /\ SoundInv /\ OutputInv /\ [Next]_vars => OutputInv'
<1> SUFFICES ASSUME TypeOK, SoundInv, OutputInv, [Next]_vars PROVE OutputInv'
  OBVIOUS
<1>1. ASSUME NEW d \in Drivers, Step(d) \/ LoadMore(d) \/ Crash(d)
      PROVE  OutputInv'
  BY <1>1, OtherStepsAreQuiet, QuietOutput, VisibleOutput
<1>2. CASE EditProduct \/ EditHarness \/ UNCHANGED vars
  BY <1>2 DEF EditProduct, EditHarness, vars, local, OutputInv, StagingDir
<1>3. QED
  BY <1>1, <1>2 DEF Next, AllEnded

LEMMA OutputAlways == Spec => [](TypeOK /\ BatchInv /\ SoundInv /\ OutputInv)
BY SoundAlways, InitOutput, OutputStep, PTL DEF Spec

(* A published name tells the verdict on its record, and a driver that     *)
(* reports failure has left its record behind under such a name.           *)
THEOREM FailuresRetained == Spec => []FailuresAreRetained
<1>1. OutputInv => FailuresAreRetained
  BY DEF OutputInv, FailuresAreRetained
<1>2. QED
  BY <1>1, OutputAlways, PTL

(* Whatever is found under .staging belongs to a driver that is still at   *)
(* work or that died.                                                      *)
THEOREM OnlyDeadLeave == Spec => []OnlyDeadLeaveStaging
<1>1. OutputInv => OnlyDeadLeaveStaging
  BY DEF OutputInv, OnlyDeadLeaveStaging, InStaging, Batch
<1>2. QED
  BY <1>1, OutputAlways, PTL

----------------------------------------------------------------------------
(* The refinement *)

LEMMA InitRefines == Init => Evidence!ESInit
BY DEF Init, Blank, Accepted, Evidence!ESInit

(* What the evidence store sees of a state. *)
Asked   == [d \in Drivers |-> seen[d].product]
Answers == [d \in Drivers |-> IF pc[d] = "ok" THEN name[d] ELSE None]

LEMMA QuietRefines ==
    ASSUME TypeOK, NEW d \in Drivers, Quiet(d)
    PROVE  UNCHANGED <<product, Asked, Accepted, Answers>>
<1>1. \A e \in Drivers : (pc'[e] = "ok") = (pc[e] = "ok")
  BY DEF Quiet, Terminal
<1>2. QED
  BY <1>1 DEF Quiet, Asked, Accepted, Answers

(* Identifying the product is asking, ...                                  *)
LEMMA IdentifyRefines ==
    ASSUME TypeOK, OutputInv, NEW d \in Drivers, IdentifyProduct(d)
    PROVE  Evidence!Ask(d) \/ UNCHANGED <<product, Asked, Accepted, Answers>>
<1>1. /\ pc[d] = "loaded" /\ pc'[d] = "located"
      /\ \A e \in Drivers \ {d} : pc'[e] = pc[e]
      /\ UNCHANGED <<product, store, name>>
      /\ seen[d].product = None
  BY DEF IdentifyProduct, Goto, shared, TypeOK, OutputInv
<1>2. /\ \A e \in Drivers \ {d} : seen'[e].product = seen[e].product
      /\ seen'[d].product = IF req[d].dir THEN product ELSE None
  BY DEF IdentifyProduct, TypeOK
<1>3. \A e \in Drivers : (pc'[e] = "ok") = (pc[e] = "ok")
  BY <1>1
<1>4. Answers' = Answers /\ Accepted' = Accepted
  BY <1>1, <1>3 DEF Answers, Accepted
<1>5. CASE req[d].dir
  <2>1. Asked' = [Asked EXCEPT ![d] = product]
    BY <1>2, <1>5 DEF Asked
  <2>2. Asked[d] = None /\ Answers[d] = None
    BY <1>1 DEF Asked, Answers
  <2>3. QED
    BY <1>1, <1>4, <2>1, <2>2 DEF Evidence!Ask, Asked, Answers
<1>6. CASE ~req[d].dir
  BY <1>1, <1>2, <1>4, <1>6 DEF Asked
<1>7. QED
  BY <1>5, <1>6

(* ... reusing a record is recalling it, ...                               *)
LEMMA ReuseRefines ==
    ASSUME TypeOK, NEW d \in Drivers, Reuse(d)
    PROVE  Evidence!Recall(d)
<1>1. PICK x \in Existing(d) : name' = [name EXCEPT ![d] = x.name]
  BY DEF Reuse
<1>2. /\ pc[d] = "identified" /\ pc'[d] = "ok" /\ name'[d] = x.name
      /\ \A e \in Drivers \ {d} : pc'[e] = pc[e] /\ name'[e] = name[e]
      /\ UNCHANGED <<product, store, seen>>
  BY <1>1 DEF Reuse, Goto, shared, TypeOK
<1>3. /\ x \in store /\ x.doc.valid
      /\ x.doc.key.product = seen[d].product
  BY DEF Existing, ResultKey
<1> DEFINE a == [name |-> x.name, product |-> x.doc.key.product,
                 ran |-> x.doc.classes]
<1>4. a \in Accepted /\ a.product = Asked[d] /\ a.name = x.name
  BY <1>3 DEF Accepted, Asked
<1>5. Answers[d] = None /\ Answers' = [Answers EXCEPT ![d] = x.name]
  BY <1>2 DEF Answers
<1>6. UNCHANGED <<product, Asked, Accepted>>
  BY <1>2 DEF Asked, Accepted
<1>7. QED
  BY <1>4, <1>5, <1>6
     DEF Evidence!Recall, Evidence!Answer, Asked, Answers

(* ... and renaming a valid record into place is measuring.                *)
LEMMA RenameRefines ==
    ASSUME TypeOK, BatchInv, SoundInv, NEW d \in Drivers, Rename(d)
    PROVE  Evidence!Measure(d) \/ UNCHANGED <<product, Asked, Accepted, Answers>>
<1> DEFINE m == doc[d]
           x == [name |-> name[d], doc |-> m]
<1>1. /\ pc[d] = "renaming" /\ store' = store \cup {x}
      /\ pc'[d] = IF m.reason = "none" THEN "ok" ELSE m.reason
      /\ \A e \in Drivers \ {d} : pc'[e] = pc[e]
      /\ UNCHANGED <<product, seen, name>>
      /\ ~Published(name[d]) /\ name[d] \in Names
  BY DEF Rename, Goto, TypeOK
<1>2. /\ m.valid <=> m.reason = "none"
      /\ m.reason \in {"none", "invalid", "unsupported"}
  BY <1>1 DEF SoundInv, VerdictInv, VerdictReached, InStaging, TypeOK, Docs
<1>3. Asked' = Asked
  BY <1>1 DEF Asked
<1>4. CASE m.valid
  <2> DEFINE ran == m.classes
             a == [name |-> name[d], product |-> Asked[d], ran |-> ran]
  <2>1. m.key.product = Asked[d]
    BY <1>1 DEF BatchInv, DriverInv, RecordNamesSeen, InStaging, Asked
  <2>2. ran \in {{}, {Asked[d]}}
    BY <1>1, <1>4, <2>1, RecordSound DEF RanAsRecorded
  <2>3. \A e \in Accepted : e.name # name[d]
    BY <1>1 DEF Accepted, Published
  <2>4. Accepted' = Accepted \cup {a}
    <3> DEFINE Shown(e) == [name |-> e.name, product |-> e.doc.key.product,
                            ran |-> e.doc.classes]
    <3>1. Accepted = {Shown(e) : e \in {f \in store : f.doc.valid}}
      BY DEF Accepted
    <3>2. Accepted' = {Shown(e) : e \in {f \in store' : f.doc.valid}}
      BY DEF Accepted
    <3>3. x.name = name[d] /\ x.doc = m
      OBVIOUS
    <3>4. Shown(x) = a
      BY <2>1, <3>3
    <3> HIDE DEF Shown, x, a
    <3>5. {f \in store' : f.doc.valid} = {f \in store : f.doc.valid} \cup {x}
      BY <1>1, <1>4, <3>3
    <3>6. QED
      BY <3>1, <3>2, <3>4, <3>5
  <2>5. Answers[d] = None /\ Answers' = [Answers EXCEPT ![d] = name[d]]
    BY <1>1, <1>2, <1>4 DEF Answers
  <2> HIDE DEF ran
  <2>6. QED
    BY <1>1, <1>3, <2>2, <2>3, <2>4, <2>5
       DEF Evidence!Measure, Evidence!Answer, Asked, Answers
<1>5. CASE ~m.valid
  <2>1. Accepted' = Accepted
    BY <1>1, <1>5 DEF Accepted
  <2>2. \A e \in Drivers : (pc'[e] = "ok") = (pc[e] = "ok")
    BY <1>1, <1>2, <1>5
  <2>3. QED
    BY <1>1, <1>3, <2>1, <2>2 DEF Answers
<1>6. QED
  BY <1>4, <1>5

(* Every step is a step of the evidence store, or does not show.           *)
LEMMA StepRefines ==
    TypeOK /\ BatchInv /\ SoundInv /\ OutputInv /\ [Next]_vars =>
        [Evidence!ESNext]_(Evidence!esVars)
<1> SUFFICES ASSUME TypeOK, BatchInv, SoundInv, OutputInv, [Next]_vars
             PROVE  Evidence!ESNext \/ UNCHANGED Evidence!esVars
  OBVIOUS
<1>1. UNCHANGED <<product, Asked, Accepted, Answers>> => UNCHANGED Evidence!esVars
  BY DEF Evidence!esVars, Asked, Answers
<1>2. ASSUME NEW d \in Drivers, Step(d) \/ LoadMore(d) \/ Crash(d)
      PROVE  Evidence!ESNext \/ UNCHANGED Evidence!esVars
  <2>1. CASE ~Visible(d)
    BY <1>1, <1>2, <2>1, OtherStepsAreQuiet, QuietRefines
  <2>2. CASE IdentifyProduct(d)
    BY <1>1, <2>2, IdentifyRefines DEF Evidence!ESNext
  <2>3. CASE Reuse(d)
    BY <2>3, ReuseRefines DEF Evidence!ESNext
  <2>4. CASE Stage(d) \/ ChooseName(d)
    <3>1. /\ UNCHANGED <<product, store, seen>>
          /\ \A e \in Drivers : (pc'[e] = "ok") = (pc[e] = "ok")
          /\ \A e \in Drivers : pc[e] = "ok" => name'[e] = name[e]
      BY <2>4 DEF Stage, ChooseName, Goto, shared, TypeOK
    <3>2. UNCHANGED <<product, Asked, Accepted, Answers>>
      BY <3>1 DEF Asked, Accepted, Answers
    <3>3. QED
      BY <1>1, <3>2
  <2>5. CASE Rename(d)
    BY <1>1, <2>5, RenameRefines DEF Evidence!ESNext
  <2>6. QED
    BY <2>1, <2>2, <2>3, <2>4, <2>5 DEF Visible
<1>3. CASE EditProduct
  <2>1. UNCHANGED <<Asked, Accepted, Answers>>
    BY <1>3 DEF EditProduct, local, Asked, Accepted, Answers
  <2>2. QED
    BY <1>3, <2>1 DEF EditProduct, Evidence!ESNext, Evidence!Edit, Asked, Answers
<1>4. CASE EditHarness \/ UNCHANGED vars
  <2>1. UNCHANGED <<product, Asked, Accepted, Answers>>
    BY <1>4 DEF EditHarness, vars, local, Asked, Accepted, Answers
  <2>2. QED
    BY <1>1, <2>1
<1>5. QED
  BY <1>2, <1>3, <1>4 DEF Next, AllEnded

(* However many drivers share the output directory, whatever is edited     *)
(* meanwhile and wherever they are killed, the directory answers like a    *)
(* store of evidence about single product states.                          *)
THEOREM EvidenceStoreImplemented == Spec => ImplementsEvidenceStore
<1>1. Spec => []([Evidence!ESNext]_(Evidence!esVars))
  BY OutputAlways, StepRefines, PTL DEF Spec
<1>2. QED
  BY <1>1, InitRefines, PTL DEF Spec, ImplementsEvidenceStore, Evidence!ESSpec

----------------------------------------------------------------------------
(* find_existing(): what is equivalent is found *)

LEMMA MetadataHonest ==
    ASSUME NEW r \in Requests, NEW s
    PROVE  HonestKey(Metadata(r, s).key)
<1> DEFINE a == IF "affinity" \in r.extras THEN "pinned" ELSE "taskset"
           k == ResultKey(r, s)
<1>1. k.case = Case(r)
  BY DEF ResultKey
<1>2. \A x : LET u == [k EXCEPT !.affinity = x]
             IN  u.case = k.case /\ u.affinity = x
  BY DEF ResultKey
<1>3. Metadata(r, s).key = [k EXCEPT !.affinity = a]
  BY DEF Metadata, RecordedKey
<1>4. Case(r)[4] = r.extras
  BY DEF Case
<1> HIDE DEF k
<1> DEFINE u == [k EXCEPT !.affinity = a]
<1>5. u.case = Case(r) /\ u.affinity = a
  BY <1>1, <1>2
<1> HIDE DEF u
<1>6. HonestKey(u)
  BY <1>4, <1>5 DEF HonestKey
<1>7. QED
  BY <1>3, <1>6 DEF u

(* Moving on with a record of the same key changes no key.                 *)
LEMMA ProgressKeepsKeys ==
    ASSUME TypeOK, NEW d \in Drivers, NEW from, NEW to, NEW m,
           Progress(d, from, to, m), m.key = doc[d].key
    PROVE  \A e \in Drivers : doc'[e].key = doc[e].key
BY DEF Progress, TypeOK

LEMMA FailKeepsKeys ==
    ASSUME TypeOK, NEW d \in Drivers, NEW from, NEW reason,
           Fail(d, from, reason)
    PROVE  \A e \in Drivers : doc'[e].key = doc[e].key
<1>1. doc[d] \in Docs
  BY DEF TypeOK
<1>2. [doc[d] EXCEPT !.reason = reason].key = doc[d].key
  BY <1>1 DEF Docs
<1>3. QED
  BY <1>2, ProgressKeepsKeys DEF Fail

(* The key of a record is set when it is staged, and never again.          *)
LEMMA OtherStepsKeepKeys ==
    ASSUME TypeOK, NEW d \in Drivers, Step(d) \/ LoadMore(d) \/ Crash(d),
           ~Stage(d)
    PROVE  \A e \in Drivers : doc'[e].key = doc[e].key
<1>0. doc[d] \in Docs
  BY DEF TypeOK
<1>1. CASE \/ LoadPolicy(d) \/ IdentifyProduct(d) \/ RefuseProduct(d)
           \/ IdentifyHarness(d) \/ RefuseRuntime(d) \/ Reuse(d) \/ Miss(d)
           \/ StageCollides(d) \/ Build(d) \/ ChooseName(d) \/ Rename(d)
           \/ Crash(d)
  <2>1. doc' = doc
    BY <1>1 DEF LoadPolicy, IdentifyProduct, RefuseProduct, IdentifyHarness,
         RefuseRuntime, Reuse, Miss, StageCollides, Build, ChooseName, Rename,
         Crash
  <2>2. QED
    BY <2>1
<1>2. CASE BuildFails(d)
  <2>1. doc' = [doc EXCEPT ![d] = [doc[d] EXCEPT !.reason = "invalid"]]
    BY <1>2 DEF BuildFails
  <2>2. [doc[d] EXCEPT !.reason = "invalid"].key = doc[d].key
    BY <1>0 DEF Docs
  <2>3. QED
    BY <2>1, <2>2 DEF TypeOK
<1>3. CASE \/ HashClasses(d) \/ ResolvePeer(d) \/ CompileAdapter(d)
           \/ CorrectnessPasses(d) \/ CorrectnessFails(d) \/ TimingSucceeds(d)
           \/ JfrSucceeds(d) \/ AnalysisSucceeds(d) \/ RecordInvalid(d)
  <2>1. CASE HashClasses(d)
    <3> DEFINE m == [doc[d] EXCEPT !.built = classes]
    <3>1. m.key = doc[d].key
      BY <1>0 DEF Docs
    <3>2. \E from, to : Progress(d, from, to, m)
      BY <2>1 DEF HashClasses
    <3> HIDE DEF m
    <3>3. QED
      BY <3>1, <3>2, ProgressKeepsKeys
  <2>2. CASE CompileAdapter(d)
    <3> DEFINE m == [doc[d] EXCEPT !.inputs = @ \cup {harness}]
    <3>1. m.key = doc[d].key
      BY <1>0 DEF Docs
    <3>2. \E from, to : Progress(d, from, to, m)
      BY <2>2 DEF CompileAdapter
    <3> HIDE DEF m
    <3>3. QED
      BY <3>1, <3>2, ProgressKeepsKeys
  <2>3. CASE CorrectnessPasses(d)
    <3> DEFINE m == [doc[d] EXCEPT !.correct = "PASS",
                                !.eligible = @ /\ ~(req[d].mode = "correctness")]
    <3>1. m.key = doc[d].key
      BY <1>0 DEF Docs
    <3>2. \E from, to : Progress(d, from, to, m)
      BY <2>3 DEF CorrectnessPasses
    <3> HIDE DEF m
    <3>3. QED
      BY <3>1, <3>2, ProgressKeepsKeys
  <2>4. CASE CorrectnessFails(d)
    <3> DEFINE m == [doc[d] EXCEPT !.correct = "FAIL", !.reason = "invalid"]
    <3>1. m.key = doc[d].key
      BY <1>0 DEF Docs
    <3>2. \E from, to : Progress(d, from, to, m)
      BY <2>4 DEF CorrectnessFails
    <3> HIDE DEF m
    <3>3. QED
      BY <3>1, <3>2, ProgressKeepsKeys
  <2>5. CASE TimingSucceeds(d)
    <3> DEFINE m == [doc[d] EXCEPT !.timed = TRUE]
    <3>1. m.key = doc[d].key
      BY <1>0 DEF Docs
    <3>2. \E from, to : Progress(d, from, to, m)
      BY <2>5 DEF TimingSucceeds
    <3> HIDE DEF m
    <3>3. QED
      BY <3>1, <3>2, ProgressKeepsKeys
  <2>6. CASE RecordInvalid(d)
    <3> DEFINE m == [doc[d] EXCEPT !.valid = FALSE]
    <3>1. m.key = doc[d].key
      BY <1>0 DEF Docs
    <3>2. \E from, to : Progress(d, from, to, m)
      BY <2>6 DEF RecordInvalid
    <3> HIDE DEF m
    <3>3. QED
      BY <3>1, <3>2, ProgressKeepsKeys
  <2>7. CASE ResolvePeer(d) \/ JfrSucceeds(d) \/ AnalysisSucceeds(d)
    BY <2>7, ProgressKeepsKeys DEF ResolvePeer, JfrSucceeds, AnalysisSucceeds
  <2>8. QED
    BY <1>3, <2>1, <2>2, <2>3, <2>4, <2>5, <2>6, <2>7
<1>4. CASE StartCorrectness(d) \/ StartTiming(d) \/ StartJfr(d) \/ LoadMore(d)
  <2>1. Loaded(d).key = doc[d].key
    BY <1>0 DEF Loaded, Docs
  <2>2. QED
    BY <1>4, <2>1, ProgressKeepsKeys
       DEF StartCorrectness, StartTiming, StartJfr, LoadMore
<1>5. CASE PrepareFails(d) \/ AdapterUnsupported(d) \/ RunFails(d) \/ AnalysisFails(d)
  BY <1>5, FailKeepsKeys
     DEF PrepareFails, AdapterUnsupported, RunFails, AnalysisFails
<1>6. CASE VerifyProduct(d) \/ VerifyClasses(d)
  BY <1>6, ProgressKeepsKeys, FailKeepsKeys DEF VerifyProduct, VerifyClasses
<1>7. CASE VerifyHarness(d)
  <2>1. [doc[d] EXCEPT !.valid = TRUE].key = doc[d].key
    BY <1>0 DEF Docs
  <2>2. QED
    BY <1>7, <2>1, ProgressKeepsKeys, FailKeepsKeys DEF VerifyHarness
<1>8. QED
  BY <1>1, <1>2, <1>3, <1>4, <1>5, <1>6, <1>7
     DEF Step, Prepare, Execute, Finish

(* Only a rename adds a record.                                            *)
LEMMA OtherStepsStoreNothing ==
    ASSUME TypeOK, NEW d \in Drivers, Step(d) \/ LoadMore(d) \/ Crash(d),
           ~Rename(d)
    PROVE  store' = store
<1>1. CASE ~Visible(d)
  BY <1>1, OtherStepsAreQuiet DEF Quiet
<1>2. CASE IdentifyProduct(d) \/ Reuse(d) \/ Stage(d) \/ ChooseName(d)
  BY <1>2 DEF IdentifyProduct, Reuse, Stage, ChooseName, shared
<1>3. QED
  BY <1>1, <1>2 DEF Visible

LEMMA KeysStep ==
    TypeOK /\ SoundInv /\ NamesInv /\ KeysInv /\ [Next]_vars => KeysInv'
<1> SUFFICES ASSUME TypeOK, SoundInv, NamesInv, KeysInv, [Next]_vars
             PROVE  KeysInv'
  OBVIOUS
<1>1. ASSUME NEW d \in Drivers, Step(d) \/ LoadMore(d) \/ Crash(d)
      PROVE  KeysInv'
  <2>1. CASE Stage(d)
    <3>1. store' = store /\ doc' = [doc EXCEPT ![d] = Metadata(req[d], seen[d])]
      BY <2>1 DEF Stage
    <3>2. req[d] \in Requests
      BY DEF TypeOK
    <3>3. HonestKey(Metadata(req[d], seen[d]).key)
      BY <3>2, MetadataHonest
    <3>4. QED
      BY <3>1, <3>3 DEF KeysInv, HonestKey, TypeOK
  <2>2. CASE Rename(d)
    <3> DEFINE x == [name |-> name[d], doc |-> doc[d]]
    <3>1. store' = store \cup {x} /\ doc' = doc /\ pc[d] = "renaming"
      BY <2>2 DEF Rename, Goto
    <3>2. name[d].case = Case(req[d]) /\ doc[d].key.case = Case(req[d])
      BY <3>1 DEF NamesInv, SoundInv, VerdictInv, DescribesRequest, InStaging
    <3>3. x.name.case = x.doc.key.case /\ HonestKey(x.doc.key)
      BY <3>2 DEF KeysInv
    <3> HIDE DEF x
    <3>4. QED
      BY <3>1, <3>3 DEF KeysInv, HonestKey
  <2>3. CASE ~Stage(d) /\ ~Rename(d)
    <3>1. store' = store /\ \A e \in Drivers : doc'[e].key = doc[e].key
      BY <1>1, <2>3, OtherStepsKeepKeys, OtherStepsStoreNothing
    <3>2. QED
      BY <3>1 DEF KeysInv, HonestKey
  <2>4. QED
    BY <2>1, <2>2, <2>3
<1>2. CASE EditProduct \/ EditHarness \/ UNCHANGED vars
  BY <1>2 DEF EditProduct, EditHarness, vars, local, KeysInv, HonestKey
<1>3. QED
  BY <1>1, <1>2 DEF Next, AllEnded

LEMMA KeysAlways == Spec => [](TypeOK /\ SoundInv /\ OutputInv /\ KeysInv)
<1>1. Init => KeysInv
  <2> SUFFICES ASSUME Init PROVE KeysInv
    OBVIOUS
  <2>1. \A d \in Drivers : HonestKey(Metadata(req[d], Blank).key)
    BY MetadataHonest DEF Init
  <2>2. QED
    BY <2>1 DEF Init, KeysInv, HonestKey
<1>2. Init => NamesInv
  BY DEF Init, NamesInv, InStaging, Batch
<1>3. QED
  BY <1>1, <1>2, KeysStep, NamesStep, OutputAlways, PTL DEF Spec

(* Without affinity diagnostics, the key that a driver looks for is that   *)
(* of every record that is equivalent to what it would measure.            *)
LEMMA EquivalentExists ==
    ASSUME TypeOK, SoundInv, OutputInv, KeysInv, NEW d \in Drivers,
           "affinity" \notin req[d].extras, NEW e \in store, Equivalent(e, d)
    PROVE  e \in Existing(d)
<1>1. /\ e.doc \in Docs /\ e.doc.valid /\ e.doc.producer = seen[d].producer
      /\ e.name.case = Case(req[d]) /\ ~e.name.invalid
  BY DEF TypeOK, Equivalent, KeysInv, OutputInv
<1>2. Case(req[d])[4] = req[d].extras /\ Case(req[d])[3] = req[d].mode
  BY DEF Case
<1>3. e.doc.key.affinity = "taskset"
  BY <1>2 DEF KeysInv, HonestKey, Equivalent
<1>4. req[d].mode # "correctness" => e.doc.timed
  BY <1>2 DEF SoundInv, GoodRecord, Equivalent
<1>5. e.doc.key = ResultKey(req[d], seen[d])
  <2>1. e.doc.key \in Keys
    BY <1>1 DEF Docs
  <2>2. QED
    BY <1>3, <2>1 DEF Keys, ResultKey, Equivalent
<1>6. QED
  BY <1>1, <1>4, <1>5 DEF Existing

(* A driver goes on to measure only by way of a look that found nothing.   *)
LEMMA OnlyMissMisses ==
    ASSUME TypeOK, NEW d \in Drivers, Step(d) \/ LoadMore(d) \/ Crash(d),
           NEW e \in Drivers, pc[e] = "identified", pc'[e] = "missing"
    PROVE  Miss(e)
<1>1. e = d
  <2>1. CASE ~Visible(d)
    BY <2>1, OtherStepsAreQuiet DEF Quiet
  <2>2. CASE Visible(d)
    BY <2>2 DEF Visible, IdentifyProduct, Reuse, Stage, ChooseName, Rename,
                Goto, TypeOK
  <2>3. QED
    BY <2>1, <2>2
<1>2. ASSUME NEW from, NEW to, Goto(d, from, to)
      PROVE  from = "identified" /\ to = "missing"
  BY <1>1, <1>2 DEF Goto, TypeOK
<1>3. CASE Prepare(d)
  BY <1>1, <1>2, <1>3
     DEF Prepare, LoadPolicy, IdentifyProduct, RefuseProduct, IdentifyHarness,
         RefuseRuntime, Reuse, Stage, StageCollides, Build, BuildFails,
         HashClasses, ResolvePeer, CompileAdapter, PrepareFails,
         AdapterUnsupported, Fail, Progress
<1>4. ASSUME NEW from, NEW to, NEW m, Progress(d, from, to, m)
      PROVE  from = "identified"
  BY <1>2, <1>4 DEF Progress
<1>5. ~Execute(d) /\ ~LoadMore(d)
  BY <1>4
     DEF Execute, StartCorrectness, CorrectnessPasses, CorrectnessFails,
         StartTiming, TimingSucceeds, StartJfr, JfrSucceeds, RunFails, Fail,
         LoadMore
<1>6. ~Finish(d) /\ ~Crash(d)
  <2>1. ~Crash(d)
    BY <1>1 DEF Crash, TypeOK
  <2>2. ~ChooseName(d) /\ ~Rename(d)
    BY <1>2 DEF ChooseName, Rename
  <2>3. QED
    BY <1>4, <2>1, <2>2
       DEF Finish, VerifyProduct, VerifyClasses, VerifyHarness,
           AnalysisSucceeds, AnalysisFails, RecordInvalid, Fail
<1>7. QED
  BY <1>1, <1>3, <1>5, <1>6 DEF Step

(* No driver without affinity diagnostics overlooks an equivalent record:  *)
(* what a driver recorded is found under the key that another one computes *)
(* before its own run, and it was not published under a name that is       *)
(* skipped.  (With affinity diagnostics the recorded key differs.)         *)
LEMMA NothingOverlooked ==
    ASSUME TypeOK, SoundInv, OutputInv, KeysInv, [Next]_vars,
           NEW d \in Drivers, "affinity" \notin req[d].extras
    PROVE  ~Overlooks(d)
<1>1. SUFFICES ASSUME Overlooks(d) PROVE FALSE
  OBVIOUS
<1>2. pc[d] = "identified" /\ pc'[d] = "missing" /\ ~req[d].remeasure
  BY <1>1 DEF Overlooks
<1>3. Miss(d)
  <2>1. CASE EditProduct \/ EditHarness \/ UNCHANGED vars
    BY <1>2, <2>1 DEF EditProduct, EditHarness, vars, local
  <2>2. QED
    BY <1>2, <2>1, OnlyMissMisses DEF Next, AllEnded
<1>4. Existing(d) = {}
  BY <1>2, <1>3 DEF Miss
<1>5. QED
  BY <1>1, <1>4, EquivalentExists DEF Overlooks

(* Where no request asks for affinity diagnostics, no driver measures what *)
(* has been published for the same case, options, machine, product, policy *)
(* and producer by the time it looks, unless it is told to.                *)
THEOREM EquivalentReused ==
    ASSUME \A r \in Requests : "affinity" \notin r.extras
    PROVE  Spec => EquivalentIsReused
<1>1. TypeOK => \A d \in Drivers : "affinity" \notin req[d].extras
  BY DEF TypeOK
<1>2. TypeOK /\ SoundInv /\ OutputInv /\ KeysInv /\ [Next]_vars =>
          [\A d \in Drivers : ~Overlooks(d)]_vars
  BY <1>1, NothingOverlooked
<1>3. QED
  BY <1>2, KeysAlways, PTL DEF Spec, EquivalentIsReused
=============================================================================
