------------------------ MODULE MeasureDriverProofs ------------------------
(***************************************************************************)
(* Proofs about MeasureDriver, for any drivers, requests and bounds.       *)
(***************************************************************************)
EXTENDS MeasureDriver, TLAPS

USE DEF Products, Producers

(* The record a driver starts from, measure() 1713-1772, is a record.      *)
LEMMA MetadataType ==
    ASSUME NEW r \in Requests,
           NEW s \in [policy : Producers, product : Products \cup {None},
                      producer : Producers]
    PROVE  Metadata(r, s) \in Docs
<1>1. r \in RequestType
  BY RequestsAssumption
<1>2. PolicyOf[s.policy] \in Policies
  BY PolicyAssumption
<1>3. RecordedKey(r, s) \in Keys
  BY <1>1, <1>2 DEF RecordedKey, ResultKey, Keys, Cases, Affinities, RequestType
<1>4. QED
  BY <1>1, <1>3 DEF Metadata, Docs

(* The initial states are well typed.                                      *)
LEMMA InitType == Init => TypeOK
<1> SUFFICES ASSUME Init PROVE TypeOK
  OBVIOUS
<1>1. Blank \in [policy : Producers, product : Products \cup {None},
                 producer : Producers]
  BY BoundsAssumption DEF Blank
<1>2. doc \in [Drivers -> Docs]
  BY <1>1, MetadataType DEF Init
<1>3. name \in [Drivers -> Names]
  <2>1. \A d \in Drivers : Destination(d, 1) \in Names
    <3>1. TAKE d \in Drivers
    <3>2. req[d] \in Requests /\ run[d] = None
      BY DEF Init
    <3>3. 1 \in 1..MaxSuffix
      BY BoundsAssumption
    <3>4. QED
      BY <3>2, <3>3 DEF Destination, Names, Cases
  <2>2. QED
    BY <2>1 DEF Init
<1>4. QED
  BY <1>1, <1>2, <1>3, BoundsAssumption DEF Init, TypeOK, Phases

(* A record keeps its type under each update the driver makes to it. *)
LEMMA DocUpdates ==
    ASSUME NEW m \in Docs,
           NEW v \in Products, NEW h \in Producers, NEW b \in BOOLEAN,
           NEW reason \in {"invalid", "unsupported"}
    PROVE  /\ [m EXCEPT !.reason = reason] \in Docs
           /\ [m EXCEPT !.built = v] \in Docs
           /\ [m EXCEPT !.inputs = @ \cup {h}] \in Docs
           /\ [m EXCEPT !.correct = "PASS", !.eligible = @ /\ b] \in Docs
           /\ [m EXCEPT !.correct = "FAIL", !.reason = "invalid"] \in Docs
           /\ [m EXCEPT !.timed = TRUE] \in Docs
           /\ [m EXCEPT !.valid = b] \in Docs
<1>1. [m EXCEPT !.reason = reason] \in Docs
  BY DEF Docs
<1>2. [m EXCEPT !.built = v] \in Docs
  BY DEF Docs
<1>3. [m EXCEPT !.inputs = @ \cup {h}] \in Docs
  BY DEF Docs
<1>4. [m EXCEPT !.correct = "PASS", !.eligible = @ /\ b] \in Docs
  BY DEF Docs
<1>5. [m EXCEPT !.correct = "FAIL", !.reason = "invalid"] \in Docs
  BY DEF Docs
<1>6. [m EXCEPT !.timed = TRUE] \in Docs
  BY DEF Docs
<1>7. [m EXCEPT !.valid = b] \in Docs
  BY DEF Docs
<1>8. QED
  BY <1>1, <1>2, <1>3, <1>4, <1>5, <1>6, <1>7

(* What a JVM loads leaves the record a record.                            *)
LEMMA LoadedType ==
    ASSUME TypeOK, NEW d \in Drivers
    PROVE  Loaded(d) \in Docs
<1>1. doc[d] \in Docs /\ OnClasspath(d) \subseteq Products
  BY DEF TypeOK, OnClasspath
<1>2. QED
  BY <1>1 DEF TypeOK, Loaded, Docs

(* A driver that moves on with a well-typed record keeps TypeOK.           *)
LEMMA ProgressType ==
    ASSUME TypeOK, NEW d \in Drivers, NEW from, NEW to \in Phases,
           NEW m \in Docs, Progress(d, from, to, m)
    PROVE  TypeOK'
BY DEF TypeOK, Progress, Goto, shared

(* So does one that fails, whatever the reason.                            *)
LEMMA FailType ==
    ASSUME TypeOK, NEW d \in Drivers, NEW from,
           NEW reason \in {"invalid", "unsupported"}, Fail(d, from, reason)
    PROVE  TypeOK'
<1>1. doc[d] \in Docs
  BY DEF TypeOK
<1>2. [doc[d] EXCEPT !.reason = reason] \in Docs
  BY <1>1 DEF Docs
<1>3. QED
  BY <1>2, ProgressType DEF Fail, Phases

(* Every record, name and phase keeps its type, for any requests.          *)
THEOREM TypeCorrect == Spec => []TypeOK
<1>1. TypeOK /\ [Next]_vars => TypeOK'
  <2> SUFFICES ASSUME TypeOK, [Next]_vars PROVE TypeOK'
    OBVIOUS
  <2>1. ASSUME NEW d \in Drivers, Prepare(d) PROVE TypeOK'
    <3> doc[d] \in Docs
      BY DEF TypeOK
    <3>1. CASE LoadPolicy(d)
      BY <3>1 DEF TypeOK, LoadPolicy, Goto, Phases, shared
    <3>2. CASE IdentifyProduct(d)
      BY <3>2 DEF TypeOK, IdentifyProduct, Goto, Phases, shared
    <3>3. CASE RefuseProduct(d)
      BY <3>3 DEF TypeOK, RefuseProduct, Goto, Phases, Terminal, shared
    <3>4. CASE IdentifyHarness(d)
      BY <3>4 DEF TypeOK, IdentifyHarness, Goto, Phases, shared
    <3>5. CASE RefuseRuntime(d)
      BY <3>5 DEF TypeOK, RefuseRuntime, Goto, Phases, Terminal, shared
    <3>6. CASE Reuse(d)
      BY <3>6 DEF TypeOK, Reuse, Existing, Goto, Phases, Terminal, shared
    <3>7. CASE Stage(d)
      <4>1. Metadata(req[d], seen[d]) \in Docs
        BY MetadataType DEF TypeOK
      <4>2. Case(req[d]) \in Cases
        BY DEF TypeOK, Cases
      <4>3. QED
        BY <3>7, <4>1, <4>2 DEF TypeOK, Stage, StagingDir, Goto, Phases
    <3>8. CASE StageCollides(d) \/ Miss(d)
      BY <3>8 DEF TypeOK, StageCollides, Miss, Goto, Phases, Terminal, shared
    <3>9. CASE Build(d)
      BY <3>9 DEF TypeOK, Build, Goto, Phases
    <3>10. CASE BuildFails(d)
      <4>1. doc' = [doc EXCEPT ![d] = [doc[d] EXCEPT !.reason = "invalid"]]
        BY <3>10 DEF BuildFails
      <4>2. [doc[d] EXCEPT !.reason = "invalid"] \in Docs
        BY DEF Docs
      <4>3. QED
        BY <3>10, <4>1, <4>2 DEF TypeOK, BuildFails, Goto, Phases
    <3>11. CASE HashClasses(d)
      <4>1. [doc[d] EXCEPT !.built = classes] \in Docs
        BY DocUpdates DEF TypeOK
      <4>2. QED
        BY <3>11, <4>1, ProgressType DEF HashClasses, Phases
    <3>12. CASE ResolvePeer(d)
      BY <3>12, ProgressType DEF ResolvePeer, Phases
    <3>13. CASE CompileAdapter(d)
      <4>1. [doc[d] EXCEPT !.inputs = @ \cup {harness}] \in Docs
        BY DocUpdates DEF TypeOK
      <4>2. QED
        BY <3>13, <4>1, ProgressType DEF CompileAdapter, Phases
    <3>14. CASE PrepareFails(d)
      BY <3>14, FailType DEF PrepareFails
    <3>15. CASE AdapterUnsupported(d)
      BY <3>15, FailType DEF AdapterUnsupported
    <3>16. QED
      BY <2>1, <3>1, <3>2, <3>3, <3>4, <3>5, <3>6, <3>7, <3>8, <3>9, <3>10,
         <3>11, <3>12, <3>13, <3>14, <3>15 DEF Prepare
  <2>2. ASSUME NEW d \in Drivers, Execute(d) \/ LoadMore(d) PROVE TypeOK'
    <3> doc[d] \in Docs /\ Loaded(d) \in Docs
      BY LoadedType DEF TypeOK
    <3>1. CASE StartCorrectness(d) \/ StartTiming(d) \/ StartJfr(d) \/ LoadMore(d)
      BY <3>1, ProgressType
         DEF StartCorrectness, StartTiming, StartJfr, LoadMore, Phases, Running
    <3>2. CASE CorrectnessPasses(d)
      <4> DEFINE b == ~(req[d].mode = "correctness")
      <4>1. [doc[d] EXCEPT !.correct = "PASS", !.eligible = @ /\ b] \in Docs
        BY DEF Docs
      <4>2. QED
        BY <3>2, <4>1, ProgressType DEF CorrectnessPasses, Phases
    <3>3. CASE CorrectnessFails(d)
      <4>1. [doc[d] EXCEPT !.correct = "FAIL", !.reason = "invalid"] \in Docs
        BY DEF Docs
      <4>2. QED
        BY <3>3, <4>1, ProgressType DEF CorrectnessFails, Phases
    <3>4. CASE TimingSucceeds(d)
      <4>1. [doc[d] EXCEPT !.timed = TRUE] \in Docs
        BY DEF Docs
      <4>2. QED
        BY <3>4, <4>1, ProgressType DEF TimingSucceeds, Phases
    <3>5. CASE JfrSucceeds(d)
      BY <3>5, ProgressType DEF JfrSucceeds, Phases
    <3>6. CASE RunFails(d)
      BY <3>6, FailType DEF RunFails
    <3>7. QED
      BY <2>2, <3>1, <3>2, <3>3, <3>4, <3>5, <3>6 DEF Execute
  <2>3. ASSUME NEW d \in Drivers, Finish(d) PROVE TypeOK'
    <3> doc[d] \in Docs
      BY DEF TypeOK
    <3>1. CASE VerifyProduct(d)
      BY <3>1, FailType, ProgressType DEF VerifyProduct, Phases
    <3>2. CASE VerifyClasses(d)
      BY <3>2, FailType, ProgressType DEF VerifyClasses, Phases
    <3>3. CASE VerifyHarness(d)
      <4>1. [doc[d] EXCEPT !.valid = TRUE] \in Docs
        BY DEF Docs
      <4>2. QED
        BY <3>3, <4>1, FailType, ProgressType DEF VerifyHarness, Phases
    <3>4. CASE AnalysisSucceeds(d)
      BY <3>4, ProgressType DEF AnalysisSucceeds, Phases
    <3>5. CASE AnalysisFails(d)
      BY <3>5, FailType DEF AnalysisFails
    <3>6. CASE RecordInvalid(d)
      <4>1. [doc[d] EXCEPT !.valid = FALSE] \in Docs
        BY DEF Docs
      <4>2. QED
        BY <3>6, <4>1, ProgressType DEF RecordInvalid, Phases
    <3>7. CASE ChooseName(d)
      <4>1. \A n \in 1..MaxSuffix : Destination(d, n) \in Names
        BY DEF TypeOK, Destination, Names, Cases
      <4>2. QED
        BY <3>7, <4>1 DEF TypeOK, ChooseName, Goto, Phases, shared
    <3>8. CASE Rename(d)
      BY <3>8 DEF TypeOK, Rename, Goto, Phases, Terminal, Docs
    <3>9. QED
      BY <2>3, <3>1, <3>2, <3>3, <3>4, <3>5, <3>6, <3>7, <3>8 DEF Finish
  <2>4. ASSUME NEW d \in Drivers, Crash(d) PROVE TypeOK'
    BY <2>4 DEF TypeOK, Crash, Phases, Terminal, shared
  <2>5. CASE EditProduct \/ EditHarness
    BY <2>5, BoundsAssumption DEF TypeOK, EditProduct, EditHarness, local
  <2>6. CASE UNCHANGED vars
    BY <2>6 DEF TypeOK, vars
  <2>7. QED
    BY <2>1, <2>2, <2>3, <2>4, <2>5, <2>6 DEF Next, Step, AllEnded
<1>2. QED
  BY <1>1, InitType, PTL DEF Spec

----------------------------------------------------------------------------

USE DEF Running

(* A step that changes one driver's phase and record only needs a look at  *)
(* that driver.                                                            *)
LEMMA ProgressKeeps ==
    ASSUME TypeOK, BatchInv, NEW d \in Drivers, NEW from, NEW to \in Phases,
           NEW m \in Docs, Progress(d, from, to, m),
           DriverInv(to, req[d], seen[d], m)
    PROVE  BatchInv'
<1>1. UNCHANGED <<product, classes, harness, store, req, seen>>
  BY DEF Progress, shared
<1>2. /\ pc'[d] = to /\ doc'[d] = m
      /\ \A e \in Drivers \ {d} : pc'[e] = pc[e] /\ doc'[e] = doc[e]
  BY DEF Progress, Goto, TypeOK
<1>3. \A e \in Drivers : DriverInv(pc'[e], req[e], seen[e], doc'[e])
  BY <1>2 DEF BatchInv
<1>4. \A e \in Drivers : DriverInv(pc[e], req[e], seen[e], doc[e])'
  BY <1>1, <1>3
     DEF DriverInv, SeenIsPast, SeenWhatWasAsked, RecordNamesSeen, BuiltSinceSeen,
         LoadedSinceSeen, InputsWereRead, ProductUnmoved,
            ValidOnlyIfVerified
<1>5. QED
  BY <1>1, <1>4 DEF BatchInv, ValidRecordsAreExact

(* A failing driver keeps BatchInv: nothing is claimed of its record.      *)
LEMMA FailKeeps ==
    ASSUME TypeOK, BatchInv, NEW d \in Drivers, NEW from \in InStaging,
           NEW reason \in {"invalid", "unsupported"}, Fail(d, from, reason)
    PROVE  BatchInv'
<1> DEFINE m == [doc[d] EXCEPT !.reason = reason]
<1>1. doc[d] \in Docs /\ m \in Docs
  BY DocUpdates DEF TypeOK
<1>2. DriverInv(from, req[d], seen[d], doc[d])
  BY DEF BatchInv, Fail, Progress, Goto
<1>3. /\ m.key = doc[d].key /\ m.producer = doc[d].producer
      /\ m.classes = doc[d].classes /\ m.inputs = doc[d].inputs
      /\ m.valid = doc[d].valid
  BY <1>1 DEF Docs
<1>4. DriverInv("failed", req[d], seen[d], m)
  BY <1>2, <1>3
     DEF DriverInv, SeenIsPast, SeenWhatWasAsked, RecordNamesSeen, BuiltSinceSeen,
         LoadedSinceSeen, InputsWereRead, ProductUnmoved,
            ValidOnlyIfVerified, RanAsRecorded,
         Located, InStaging, Batch
<1>5. QED
  BY <1>1, <1>4, ProgressKeeps DEF Fail, Phases

(* The sources only move on, and that disturbs no driver.                  *)
SourcesMoveOn == product <= product' /\ classes <= classes' /\ harness <= harness'

(* Later sources never break what is known of a driver.                    *)
LEMMA MovingOnKeeps ==
    ASSUME TypeOK, TypeOK', NEW e \in Drivers, SourcesMoveOn,
           DriverInv(pc[e], req[e], seen[e], doc[e]),
           pc'[e] = pc[e], req'[e] = req[e], seen'[e] = seen[e],
           doc'[e] = doc[e]
    PROVE  DriverInv(pc[e], req[e], seen[e], doc[e])'
<1> DEFINE s == seen[e]
           m == doc[e]
<1>1. /\ product \in Nat /\ product' \in Nat /\ classes \in Nat
      /\ classes' \in Nat /\ harness \in Nat /\ harness' \in Nat
  BY DEF TypeOK
<1>2. /\ s.product # None => s.product \in Nat
      /\ s.producer \in Nat
      /\ m.classes \subseteq Nat /\ m.inputs \subseteq Nat
  BY DEF TypeOK, Docs
<1>3. SeenIsPast(s) => SeenIsPast(s)'
  BY <1>1, <1>2 DEF SeenIsPast, SourcesMoveOn
<1>4. SeenWhatWasAsked(pc[e], req[e], s) => SeenWhatWasAsked(pc[e], req[e], s)'
  BY DEF SeenWhatWasAsked
<1>5. RecordNamesSeen(pc[e], s, m) => RecordNamesSeen(pc[e], s, m)'
  BY DEF RecordNamesSeen
<1>6. InputsWereRead(pc[e], m) => InputsWereRead(pc[e], m)'
  BY DEF InputsWereRead
<1>7. ProductUnmoved(pc[e], s, m) => ProductUnmoved(pc[e], s, m)'
  BY DEF ProductUnmoved
<1>8. ValidOnlyIfVerified(pc[e], m) => ValidOnlyIfVerified(pc[e], m)'
  BY DEF ValidOnlyIfVerified
<1>9. ASSUME pc[e] \in Located, SeenWhatWasAsked(pc[e], req[e], s),
             req[e].lang = "protos"
      PROVE  s.product \in Nat
  <2>1. req[e].dir
    BY <1>9, RequestsAssumption DEF TypeOK, WellFormed
  <2>2. QED
    BY <1>2, <1>9, <2>1 DEF SeenWhatWasAsked
<1>10. DriverInv(pc[e], req[e], s, m) => BuiltSinceSeen(pc[e], req[e], s)'
  BY <1>1, <1>9
     DEF DriverInv, BuiltSinceSeen, SourcesMoveOn, Located, InStaging
<1>11. DriverInv(pc[e], req[e], s, m) => LoadedSinceSeen(pc[e], req[e], s, m)'
  BY <1>1, <1>2 DEF DriverInv, LoadedSinceSeen, SourcesMoveOn
<1>12. QED
  BY <1>3, <1>4, <1>5, <1>6, <1>7, <1>8, <1>10, <1>11 DEF DriverInv, RanAsRecorded

(* A step of driver d that publishes nothing keeps the invariant when it   *)
(* keeps d's own part of it.                                               *)
LEMMA StepKeeps ==
    ASSUME TypeOK, TypeOK', BatchInv, NEW d \in Drivers,
           SourcesMoveOn, classes' <= product', store' = store,
           \A e \in Drivers \ {d} :
               /\ pc'[e] = pc[e] /\ req'[e] = req[e]
               /\ seen'[e] = seen[e] /\ doc'[e] = doc[e],
           DriverInv(pc[d], req[d], seen[d], doc[d])'
    PROVE  BatchInv'
<1>1. \A e \in Drivers : DriverInv(pc[e], req[e], seen[e], doc[e])'
  <2>1. TAKE e \in Drivers
  <2>2. CASE e = d
    BY <2>2
  <2>3. CASE e # d
    BY <2>3, MovingOnKeeps DEF BatchInv
  <2>4. QED
    BY <2>2, <2>3
<1>2. QED
  BY <1>1 DEF BatchInv, ValidRecordsAreExact

(* The steps up to the compiled adapter keep BatchInv.                     *)
LEMMA PrepareKeeps ==
    ASSUME TypeOK, TypeOK', BatchInv, NEW d \in Drivers, Prepare(d)
    PROVE  BatchInv'
<1> USE DEF SeenIsPast, SeenWhatWasAsked, RecordNamesSeen, BuiltSinceSeen,
            LoadedSinceSeen, InputsWereRead, ProductUnmoved,
            ValidOnlyIfVerified, RanAsRecorded,
            Located, InStaging, Batch
<1> DEFINE r == req[d]
           s == seen[d]
           m == doc[d]
<1>1. DriverInv(pc[d], r, s, m) /\ classes <= product
  BY DEF BatchInv
<1>2. /\ product \in Products /\ classes \in Products /\ harness \in Producers
      /\ r \in Requests /\ m \in Docs
      /\ s \in [policy : Producers, product : Products \cup {None},
                producer : Producers]
  BY DEF TypeOK
<1>3. None \notin Nat /\ (r.lang = "protos" => r.dir) /\ r.lang \in {"protos", "peer"}
  BY <1>2, NoneAssumption, RequestsAssumption DEF WellFormed, RequestType
<1>4. product \in Nat /\ classes \in Nat /\ harness \in Nat
  BY <1>2
<1>5. CASE LoadPolicy(d) \/ IdentifyProduct(d) \/ IdentifyHarness(d)
  <2> USE DEF LoadPolicy, IdentifyProduct, IdentifyHarness, Goto, shared
  <2>1. SourcesMoveOn /\ classes' <= product' /\ store' = store
    BY <1>1, <1>4, <1>5 DEF SourcesMoveOn
  <2>2. \A e \in Drivers \ {d} :
            /\ pc'[e] = pc[e] /\ req'[e] = req[e]
            /\ seen'[e] = seen[e] /\ doc'[e] = doc[e]
    BY <1>5 DEF TypeOK
  <2>3. DriverInv(pc[d], req[d], seen[d], doc[d])'
    <3>1. CASE LoadPolicy(d)
      <4>1. /\ pc'[d] = "loaded" /\ doc' = doc /\ req' = req
            /\ seen'[d].product = s.product /\ seen'[d].producer = s.producer
            /\ UNCHANGED <<product, classes, harness>>
        BY <3>1 DEF TypeOK
      <4>2. QED
        BY <1>1, <4>1 DEF DriverInv
    <3>2. CASE IdentifyProduct(d)
      <4>1. /\ pc'[d] = "located" /\ doc' = doc /\ req' = req
            /\ seen'[d].product = IF r.dir THEN product ELSE None
            /\ seen'[d].producer = s.producer
            /\ UNCHANGED <<product, classes, harness>>
        BY <3>2 DEF TypeOK
      <4>2. QED
        BY <1>1, <1>3, <1>4, <4>1 DEF DriverInv
    <3>3. CASE IdentifyHarness(d)
      <4>1. /\ pc[d] = "located" /\ pc'[d] = "identified" /\ doc' = doc /\ req' = req
            /\ seen'[d].product = s.product
            /\ seen'[d].producer = harness
            /\ UNCHANGED <<product, classes, harness>>
        BY <3>3 DEF TypeOK
      <4>2. QED
        BY <1>1, <1>4, <4>1 DEF DriverInv
    <3>4. QED
      BY <1>5, <3>1, <3>2, <3>3
  <2>4. QED
    BY <2>1, <2>2, <2>3, StepKeeps
<1>6. CASE RefuseProduct(d) \/ RefuseRuntime(d) \/ Reuse(d) \/ Miss(d) \/ StageCollides(d)
  <2> USE DEF RefuseProduct, RefuseRuntime, Reuse, Miss, StageCollides, Goto, shared
  <2>1. SourcesMoveOn /\ classes' <= product' /\ store' = store
    BY <1>1, <1>4, <1>6 DEF SourcesMoveOn
  <2>2. \A e \in Drivers \ {d} :
            /\ pc'[e] = pc[e] /\ req'[e] = req[e]
            /\ seen'[e] = seen[e] /\ doc'[e] = doc[e]
    BY <1>6 DEF TypeOK
  <2>3. /\ \/ pc'[d] \in {"usage", "dead"}
           \/ pc[d] = "identified" /\ pc'[d] \in {"missing", "ok"}
        /\ UNCHANGED <<req, seen, doc, product, classes, harness>>
    BY <1>6 DEF TypeOK
  <2>4. DriverInv(pc[d], req[d], seen[d], doc[d])'
    BY <1>1, <2>3 DEF DriverInv
  <2>5. QED
    BY <2>1, <2>2, <2>4, StepKeeps
<1>7. CASE Stage(d)
  <2> USE DEF Stage, Goto
  <2>1. SourcesMoveOn /\ classes' <= product' /\ store' = store
    BY <1>1, <1>4, <1>7 DEF SourcesMoveOn
  <2>2. \A e \in Drivers \ {d} :
            /\ pc'[e] = pc[e] /\ req'[e] = req[e]
            /\ seen'[e] = seen[e] /\ doc'[e] = doc[e]
    BY <1>7 DEF TypeOK
  <2>3. /\ pc[d] = "missing" /\ pc'[d] = "staged"
        /\ doc'[d] = Metadata(r, s)
        /\ UNCHANGED <<req, seen, product, classes, harness>>
    BY <1>7 DEF TypeOK
  <2>4. /\ Metadata(r, s).key.product = s.product
        /\ Metadata(r, s).producer = s.producer
        /\ Metadata(r, s).classes = {} /\ Metadata(r, s).inputs = {}
        /\ ~Metadata(r, s).valid
    BY DEF Metadata, RecordedKey, ResultKey
  <2>5. DriverInv(pc[d], req[d], seen[d], doc[d])'
    BY <1>1, <2>3, <2>4 DEF DriverInv
  <2>6. QED
    BY <2>1, <2>2, <2>5, StepKeeps
<1>8. CASE Build(d) \/ BuildFails(d)
  <2> USE DEF Build, BuildFails, Goto
  <2>1. SourcesMoveOn /\ classes' <= product' /\ store' = store
    BY <1>1, <1>4, <1>8 DEF SourcesMoveOn
  <2>2. \A e \in Drivers \ {d} :
            /\ pc'[e] = pc[e] /\ req'[e] = req[e]
            /\ seen'[e] = seen[e] /\ doc'[e] = doc[e]
    BY <1>8 DEF TypeOK
  <2>3. /\ pc[d] = "staged"
        /\ pc'[d] = "failed" \/ (pc'[d] = "built" /\ classes' = product)
        /\ UNCHANGED <<req, seen, product, harness>>
    BY <1>8 DEF TypeOK
  <2>4. /\ doc'[d].key = m.key /\ doc'[d].producer = m.producer
        /\ doc'[d].classes = m.classes /\ doc'[d].inputs = m.inputs
        /\ doc'[d].valid = m.valid
    BY <1>2, <1>8 DEF TypeOK, Docs
  <2>5. DriverInv(pc[d], req[d], seen[d], doc[d])'
    BY <1>1, <1>3, <1>4, <2>3, <2>4 DEF DriverInv
  <2>6. QED
    BY <2>1, <2>2, <2>5, StepKeeps
<1>9. CASE HashClasses(d)
  <2> DEFINE n == [m EXCEPT !.built = classes]
  <2>1. /\ n.key = m.key /\ n.producer = m.producer
        /\ n.classes = m.classes /\ n.inputs = m.inputs /\ n.valid = m.valid
    BY <1>2 DEF Docs
  <2>2. pc[d] = "built"
    BY <1>9 DEF HashClasses, Progress, Goto
  <2>3. DriverInv("hashed", r, s, n)
    BY <1>1, <2>1, <2>2 DEF DriverInv
  <2>4. QED
    BY <1>2, <1>9, <2>3, DocUpdates, ProgressKeeps DEF HashClasses, Phases
<1>10. CASE ResolvePeer(d)
  <2>1. pc[d] = "staged" /\ r.lang = "peer"
    BY <1>10 DEF ResolvePeer, Progress, Goto
  <2>2. DriverInv("hashed", r, s, m)
    BY <1>1, <2>1 DEF DriverInv
  <2>3. QED
    BY <1>2, <1>10, <2>2, ProgressKeeps DEF ResolvePeer, Phases
<1>11. CASE CompileAdapter(d)
  <2> DEFINE n == [m EXCEPT !.inputs = @ \cup {harness}]
  <2>1. /\ n.key = m.key /\ n.producer = m.producer
        /\ n.classes = m.classes /\ n.inputs = m.inputs \cup {harness}
        /\ n.valid = m.valid
    BY <1>2 DEF Docs
  <2>2. pc[d] = "hashed"
    BY <1>11 DEF CompileAdapter, Progress, Goto
  <2>3. ~m.valid
    BY <1>1, <2>2 DEF DriverInv
  <2>4. DriverInv("prepared", r, s, n)
    BY <1>1, <1>4, <2>1, <2>2, <2>3 DEF DriverInv
  <2>5. QED
    BY <1>2, <1>11, <2>4, DocUpdates, ProgressKeeps DEF CompileAdapter, Phases
<1>12. CASE PrepareFails(d) \/ AdapterUnsupported(d)
  BY <1>12, FailKeeps DEF PrepareFails, AdapterUnsupported
<1>13. QED
  BY <1>5, <1>6, <1>7, <1>8, <1>9, <1>10, <1>11, <1>12 DEF Prepare

(* So do the JVMs, which load classes of the interval they run in, ...     *)
LEMMA ExecuteKeeps ==
    ASSUME TypeOK, BatchInv, NEW d \in Drivers, Execute(d) \/ LoadMore(d)
    PROVE  BatchInv'
<1> USE DEF SeenIsPast, SeenWhatWasAsked, RecordNamesSeen, BuiltSinceSeen,
            LoadedSinceSeen, InputsWereRead, ProductUnmoved,
            ValidOnlyIfVerified, RanAsRecorded, Located, InStaging, Batch
<1> DEFINE r == req[d]
           s == seen[d]
           m == doc[d]
<1>1. DriverInv(pc[d], r, s, m) /\ classes <= product
  BY DEF BatchInv
<1>2. /\ product \in Nat /\ classes \in Nat /\ harness \in Nat
      /\ m \in Docs /\ Loaded(d) \in Docs
  BY LoadedType DEF TypeOK
<1>3. ASSUME NEW from \in Batch, NEW to \in Running,
             Progress(d, from, to, Loaded(d))
      PROVE  BatchInv'
  <2> DEFINE n == Loaded(d)
  <2>1. /\ n.key = m.key /\ n.producer = m.producer /\ n.valid = m.valid
        /\ n.classes = m.classes \cup OnClasspath(d)
        /\ n.inputs = m.inputs \cup {harness}
    BY <1>2 DEF Loaded, Docs
  <2>2. OnClasspath(d) \subseteq {classes}
        /\ (OnClasspath(d) # {} => r.lang = "protos")
    BY DEF OnClasspath
  <2>3. pc[d] = from
    BY <1>3 DEF Progress, Goto
  <2>4. DriverInv(to, r, s, n)
    BY <1>1, <1>2, <1>3, <2>1, <2>2, <2>3 DEF DriverInv
  <2>5. QED
    BY <1>2, <1>3, <2>4, ProgressKeeps DEF Phases
<1>4. ASSUME NEW from \in Running, NEW to \in Batch, NEW n \in Docs,
             Progress(d, from, to, n), n.key = m.key,
             n.producer = m.producer, n.valid = m.valid,
             n.classes = m.classes, n.inputs = m.inputs,
             to \notin {"built", "hashed"}
      PROVE  BatchInv'
  <2>1. pc[d] = from
    BY <1>4 DEF Progress, Goto
  <2>2. DriverInv(to, r, s, n)
    BY <1>1, <1>4, <2>1 DEF DriverInv
  <2>3. QED
    BY <1>4, <2>2, ProgressKeeps DEF Phases
<1>5. CASE StartCorrectness(d) \/ StartTiming(d) \/ StartJfr(d) \/ LoadMore(d)
  BY <1>3, <1>5 DEF StartCorrectness, StartTiming, StartJfr, LoadMore
<1>6. CASE CorrectnessPasses(d)
  <2> DEFINE only == r.mode = "correctness"
             n == [m EXCEPT !.correct = "PASS", !.eligible = @ /\ ~only]
  <2>1. n \in Docs
    BY <1>2 DEF Docs
  <2>2. /\ n.key = m.key /\ n.producer = m.producer /\ n.valid = m.valid
        /\ n.classes = m.classes /\ n.inputs = m.inputs
    BY <1>2 DEF Docs
  <2> DEFINE to == IF only THEN "measured" ELSE "checked"
  <2>3. Progress(d, "correctness", to, n)
    BY <1>6 DEF CorrectnessPasses
  <2>4. "correctness" \in Running /\ to \in Batch /\ to \notin {"built", "hashed"}
    OBVIOUS
  <2> HIDE DEF n, to
  <2>5. QED
    BY <1>4, <2>1, <2>2, <2>3, <2>4
<1>7. CASE CorrectnessFails(d)
  <2> DEFINE n == [m EXCEPT !.correct = "FAIL", !.reason = "invalid"]
  <2>1. n \in Docs
    BY <1>2 DEF Docs
  <2>2. /\ n.key = m.key /\ n.producer = m.producer /\ n.valid = m.valid
        /\ n.classes = m.classes /\ n.inputs = m.inputs
    BY <1>2 DEF Docs
  <2>3. pc[d] = "correctness"
    BY <1>7 DEF CorrectnessFails, Progress, Goto
  <2>4. DriverInv("failed", r, s, n)
    BY <1>1, <2>2, <2>3 DEF DriverInv
  <2>5. QED
    BY <1>7, <2>1, <2>4, ProgressKeeps DEF CorrectnessFails, Phases
<1>8. CASE TimingSucceeds(d)
  <2> DEFINE n == [m EXCEPT !.timed = TRUE]
  <2>1. n \in Docs
    BY <1>2 DEF Docs
  <2>2. /\ n.key = m.key /\ n.producer = m.producer /\ n.valid = m.valid
        /\ n.classes = m.classes /\ n.inputs = m.inputs
    BY <1>2 DEF Docs
  <2> DEFINE to == IF r.mode = "jfr" THEN "timed" ELSE "measured"
  <2>3. Progress(d, "timing", to, n)
    BY <1>8 DEF TimingSucceeds
  <2>4. "timing" \in Running /\ to \in Batch /\ to \notin {"built", "hashed"}
    OBVIOUS
  <2> HIDE DEF n, to
  <2>5. QED
    BY <1>4, <2>1, <2>2, <2>3, <2>4
<1>9. CASE JfrSucceeds(d)
  BY <1>2, <1>4, <1>9 DEF JfrSucceeds
<1>10. CASE RunFails(d)
  BY <1>10, FailKeeps DEF RunFails
<1>11. QED
  BY <1>5, <1>6, <1>7, <1>8, <1>9, <1>10 DEF Execute

(* ... and the verification, which closes the interval, and promote().     *)
LEMMA FinishKeeps ==
    ASSUME TypeOK, TypeOK', BatchInv, NEW d \in Drivers, Finish(d)
    PROVE  BatchInv'
<1> USE DEF SeenIsPast, SeenWhatWasAsked, RecordNamesSeen, BuiltSinceSeen,
            LoadedSinceSeen, InputsWereRead, ProductUnmoved,
            ValidOnlyIfVerified, RanAsRecorded, Located, InStaging, Batch
<1> DEFINE r == req[d]
           s == seen[d]
           m == doc[d]
<1>1. DriverInv(pc[d], r, s, m) /\ classes <= product
  BY DEF BatchInv
<1>2. /\ product \in Nat /\ classes \in Nat /\ harness \in Nat
      /\ m \in Docs /\ s.producer \in Nat
      /\ m.classes \subseteq Nat /\ m.inputs \subseteq Nat
  BY DEF TypeOK, Docs
<1>3. r.lang = "protos" => r.dir
  BY RequestsAssumption DEF TypeOK, WellFormed
<1>4. CASE VerifyProduct(d)
  <2>1. CASE r.dir => product = s.product
    <3>1. pc[d] = "measured" /\ Progress(d, "measured", "unchanged", m)
      BY <1>4, <2>1 DEF VerifyProduct, Progress, Goto
    <3>2. m.classes \subseteq {s.product}
      BY <1>1, <1>2, <1>3, <2>1, <3>1 DEF DriverInv
    <3>3. DriverInv("unchanged", r, s, m)
      BY <1>1, <3>1, <3>2 DEF DriverInv
    <3>4. QED
      BY <1>2, <3>1, <3>3, ProgressKeeps DEF Phases
  <2>2. CASE ~(r.dir => product = s.product)
    BY <1>4, <2>2, FailKeeps DEF VerifyProduct
  <2>3. QED
    BY <2>1, <2>2
<1>5. CASE VerifyClasses(d)
  <2>1. CASE Progress(d, "unchanged", "verified", m)
    <3>1. pc[d] = "unchanged"
      BY <2>1 DEF Progress, Goto
    <3>2. DriverInv("verified", r, s, m)
      BY <1>1, <3>1 DEF DriverInv
    <3>3. QED
      BY <1>2, <2>1, <3>2, ProgressKeeps DEF Phases
  <2>2. CASE Fail(d, "unchanged", "invalid")
    BY <2>2, FailKeeps
  <2>3. QED
    BY <1>5, <2>1, <2>2 DEF VerifyClasses
<1>6. CASE VerifyHarness(d)
  <2>1. CASE harness = s.producer
    <3> DEFINE to == IF r.mode = "diagnostic" THEN "recorded" ELSE "promote"
               n == [m EXCEPT !.valid = TRUE]
    <3>1. pc[d] = "verified" /\ Progress(d, "verified", to, n)
      BY <1>6, <2>1 DEF VerifyHarness, Progress, Goto
    <3>2. n \in Docs
      BY <1>2 DEF Docs
    <3>3. /\ n.key = m.key /\ n.producer = m.producer
          /\ n.classes = m.classes /\ n.inputs = m.inputs
      BY <1>2 DEF Docs
    <3>4. m.inputs = {s.producer}
      BY <1>1, <1>2, <2>1, <3>1 DEF DriverInv
    <3>5. m.classes \subseteq {m.key.product} /\ m.producer = s.producer
      BY <1>1, <3>1 DEF DriverInv
    <3>6. RanAsRecorded(n)
      BY <3>3, <3>4, <3>5
    <3>7. DriverInv(to, r, s, n)
      BY <1>1, <3>1, <3>3, <3>6 DEF DriverInv
    <3>8. QED
      BY <3>1, <3>2, <3>7, ProgressKeeps DEF Phases
  <2>2. CASE harness # s.producer
    BY <1>6, <2>2, FailKeeps DEF VerifyHarness
  <2>3. QED
    BY <2>1, <2>2
<1>7. CASE AnalysisSucceeds(d)
  <2>1. pc[d] = "recorded"
    BY <1>7 DEF AnalysisSucceeds, Progress, Goto
  <2>2. DriverInv("promote", r, s, m)
    BY <1>1, <2>1 DEF DriverInv
  <2>3. QED
    BY <1>2, <1>7, <2>2, ProgressKeeps DEF AnalysisSucceeds, Phases
<1>8. CASE AnalysisFails(d)
  BY <1>8, FailKeeps DEF AnalysisFails
<1>9. CASE RecordInvalid(d)
  <2> DEFINE n == [m EXCEPT !.valid = FALSE]
  <2>1. n \in Docs
    BY <1>2 DEF Docs
  <2>2. /\ n.key = m.key /\ n.producer = m.producer /\ n.valid = FALSE
        /\ n.classes = m.classes /\ n.inputs = m.inputs
    BY <1>2 DEF Docs
  <2>3. pc[d] = "failed"
    BY <1>9 DEF RecordInvalid, Progress, Goto
  <2>4. DriverInv("promote", r, s, n)
    BY <1>1, <2>2, <2>3 DEF DriverInv
  <2>5. QED
    BY <1>9, <2>1, <2>4, ProgressKeeps DEF RecordInvalid, Phases
<1>10. CASE ChooseName(d)
  <2> USE DEF ChooseName, Goto, shared
  <2>1. SourcesMoveOn /\ classes' <= product' /\ store' = store
    BY <1>1, <1>2, <1>10 DEF SourcesMoveOn
  <2>2. \A e \in Drivers \ {d} :
            /\ pc'[e] = pc[e] /\ req'[e] = req[e]
            /\ seen'[e] = seen[e] /\ doc'[e] = doc[e]
    BY <1>10 DEF TypeOK
  <2>3. /\ pc[d] = "promote" /\ pc'[d] = "renaming"
        /\ UNCHANGED <<req, seen, doc, product, classes, harness>>
    BY <1>10 DEF TypeOK
  <2>4. DriverInv(pc[d], req[d], seen[d], doc[d])'
    BY <1>1, <2>3 DEF DriverInv
  <2>5. QED
    BY <2>1, <2>2, <2>4, StepKeeps
<1>11. CASE Rename(d)
  <2> USE DEF Rename, Goto
  <2>1. /\ pc[d] = "renaming"
        /\ UNCHANGED <<product, classes, harness, req, seen, doc>>
        /\ pc'[d] \in {"ok", "invalid", "unsupported"}
        /\ \A e \in Drivers \ {d} : pc'[e] = pc[e]
    BY <1>11 DEF TypeOK, Docs
  <2>2. \A e \in Drivers : DriverInv(pc[e], req[e], seen[e], doc[e])'
    <3>1. TAKE e \in Drivers
    <3>2. DriverInv(pc[e], req[e], seen[e], doc[e])
      BY DEF BatchInv
    <3>3. CASE e = d
      BY <2>1, <3>2, <3>3 DEF DriverInv
    <3>4. CASE e # d
      BY <2>1, <3>2, <3>4 DEF DriverInv
    <3>5. QED
      BY <3>3, <3>4
  <2>3. ValidRecordsAreExact'
    <3>1. store' = store \cup {[name |-> name[d], doc |-> m]}
      BY <1>11
    <3>2. m.valid => RanAsRecorded(m)
      BY <1>1 DEF DriverInv
    <3>3. QED
      BY <3>1, <3>2 DEF BatchInv, ValidRecordsAreExact
  <2>4. QED
    BY <1>1, <2>1, <2>2, <2>3 DEF BatchInv
<1>12. QED
  BY <1>4, <1>5, <1>6, <1>7, <1>8, <1>9, <1>10, <1>11 DEF Finish

(* BatchInv holds before the first driver starts.                          *)
LEMMA InitBatch == Init => BatchInv
<1> SUFFICES ASSUME Init PROVE BatchInv
  OBVIOUS
<1>1. \A d \in Drivers : DriverInv(pc[d], req[d], seen[d], doc[d])
  <2>1. TAKE d \in Drivers
  <2>2. /\ pc[d] = "idle" /\ seen[d].product = None /\ seen[d].producer = 0
        /\ product = 0 /\ harness = 0 /\ ~doc[d].valid
    BY DEF Init, Blank, Metadata
  <2>3. QED
    BY <2>2
       DEF DriverInv, SeenIsPast, SeenWhatWasAsked, RecordNamesSeen,
           BuiltSinceSeen, LoadedSinceSeen, InputsWereRead, ProductUnmoved,
           ValidOnlyIfVerified, Located, InStaging, Batch
<1>2. QED
  BY <1>1 DEF Init, BatchInv, ValidRecordsAreExact

(* BatchInv is inductive.                                                  *)
LEMMA BatchStep == TypeOK /\ TypeOK' /\ BatchInv /\ [Next]_vars => BatchInv'
<1> SUFFICES ASSUME TypeOK, TypeOK', BatchInv, [Next]_vars PROVE BatchInv'
  OBVIOUS
<1>1. product \in Nat /\ classes \in Nat /\ harness \in Nat
  BY DEF TypeOK
<1>2. ASSUME NEW d \in Drivers, Crash(d) PROVE BatchInv'
  <2>1. SourcesMoveOn /\ classes' <= product' /\ store' = store
    BY <1>1, <1>2 DEF Crash, shared, SourcesMoveOn, BatchInv
  <2>2. \A e \in Drivers \ {d} :
            /\ pc'[e] = pc[e] /\ req'[e] = req[e]
            /\ seen'[e] = seen[e] /\ doc'[e] = doc[e]
    BY <1>2 DEF Crash, shared, TypeOK
  <2>3. /\ pc'[d] = "dead"
        /\ UNCHANGED <<req, seen, doc, product, classes, harness>>
    BY <1>2 DEF Crash, shared, TypeOK
  <2>4. DriverInv(pc[d], req[d], seen[d], doc[d])
    BY DEF BatchInv
  <2>5. DriverInv(pc[d], req[d], seen[d], doc[d])'
    BY <2>3, <2>4
       DEF DriverInv, SeenIsPast, SeenWhatWasAsked, RecordNamesSeen,
           BuiltSinceSeen, LoadedSinceSeen, InputsWereRead, ProductUnmoved,
           ValidOnlyIfVerified, RanAsRecorded, Located, InStaging, Batch
  <2>6. QED
    BY <2>1, <2>2, <2>5, StepKeeps
<1>3. CASE EditProduct \/ EditHarness \/ UNCHANGED vars
  <2>1. SourcesMoveOn /\ classes' <= product'
    BY <1>1, <1>3
       DEF EditProduct, EditHarness, vars, SourcesMoveOn, BatchInv
  <2>2. UNCHANGED <<pc, req, seen, doc, store>>
    BY <1>3 DEF EditProduct, EditHarness, vars, local
  <2>3. \A e \in Drivers : DriverInv(pc[e], req[e], seen[e], doc[e])'
    BY <2>1, <2>2, MovingOnKeeps DEF BatchInv
  <2>4. QED
    BY <2>1, <2>2, <2>3 DEF BatchInv, ValidRecordsAreExact
<1>4. QED
  BY <1>2, <1>3, PrepareKeeps, ExecuteKeeps, FinishKeeps
     DEF Next, Step, AllEnded

(* For any number of drivers and edits, a valid record names exactly the   *)
(* product classes and the producer files that its JVMs loaded.            *)
THEOREM Exactness == Spec => []ValidRecordsAreExact
<1>1. BatchInv => ValidRecordsAreExact
  BY DEF BatchInv
<1>2. QED
  BY <1>1, TypeCorrect, InitBatch, BatchStep, PTL DEF Spec

----------------------------------------------------------------------------
(* Publication: no two drivers rename onto one name.                       *)

HIDE DEF Products, Producers
USE DEF Running

(* A step of d that leaves directories and names alone keeps NamesInv if   *)
(* it does not bring d among those that own a staging directory.           *)
LEMMA QuietKeeps ==
    ASSUME TypeOK, NamesInv, NEW d \in Drivers,
           UNCHANGED <<staging, store, req, run>>,
           \A e \in Drivers \ {d} : pc'[e] = pc[e] /\ name'[e] = name[e],
           pc'[d] \in InStaging => pc[d] \in InStaging /\ pc'[d] # "renaming"
    PROVE  NamesInv'
<1> USE DEF NamesInv, StagingDir, Published
<1>1. \A e \in Drivers : pc'[e] \in InStaging => pc[e] \in InStaging
  OBVIOUS
<1>2. \A e \in Drivers : pc'[e] \in InStaging /\ pc'[e] = "renaming" =>
          pc[e] = "renaming" /\ name'[e] = name[e]
  OBVIOUS
<1>3. QED
  BY <1>1, <1>2

(* The same for a step given by its phases.                                *)
LEMMA GotoIsQuiet ==
    ASSUME TypeOK, NamesInv, NEW d \in Drivers, NEW from, NEW to,
           Goto(d, from, to), UNCHANGED <<staging, store, req, run>>,
           \A e \in Drivers \ {d} : name'[e] = name[e],
           to \in InStaging => from \in InStaging /\ to # "renaming"
    PROVE  NamesInv'
<1>1. /\ pc[d] = from /\ pc'[d] = to
      /\ \A e \in Drivers \ {d} : pc'[e] = pc[e]
  BY DEF Goto, TypeOK
<1>2. QED
  BY <1>1, QuietKeeps

(* A driver that only moves on owns the directory it owned.                *)
LEMMA ProgressIsQuiet ==
    ASSUME TypeOK, NamesInv, NEW d \in Drivers, NEW from, NEW to, NEW m,
           Progress(d, from, to, m), from \in InStaging, to # "renaming"
    PROVE  NamesInv'
BY GotoIsQuiet DEF Progress, shared

(* mkdir() gives the driver a directory that nobody owns.                  *)
LEMMA StageKeepsNames ==
    ASSUME TypeOK, NamesInv, NEW d \in Drivers, Stage(d)
    PROVE  NamesInv'
<1>1. PICK t \in RunIds : /\ StagingDir(d, t) \notin staging
                          /\ staging' = staging \cup {StagingDir(d, t)}
                          /\ run' = [run EXCEPT ![d] = t]
  BY DEF Stage
<1>2. /\ pc'[d] = "staged" /\ run'[d] = t
      /\ \A e \in Drivers \ {d} : pc'[e] = pc[e] /\ run'[e] = run[e]
      /\ UNCHANGED <<req, store, name>>
  BY <1>1 DEF Stage, Goto, TypeOK
<1>3. \A e \in Drivers \ {d} : pc[e] \in InStaging =>
          StagingDir(e, run[e]) # StagingDir(d, t)
  BY <1>1 DEF NamesInv
<1>4. QED
  BY <1>1, <1>2, <1>3 DEF NamesInv, StagingDir, Published

(* promote() chooses a name in the own case and run id that is free.       *)
LEMMA ChooseKeepsNames ==
    ASSUME TypeOK, NamesInv, NEW d \in Drivers, ChooseName(d)
    PROVE  NamesInv'
<1>1. PICK n \in 1..MaxSuffix :
          /\ ~Published(Destination(d, n))
          /\ name' = [name EXCEPT ![d] = Destination(d, n)]
  BY DEF ChooseName
<1>2. /\ pc[d] = "promote" /\ pc'[d] = "renaming"
      /\ name'[d] = Destination(d, n)
      /\ \A e \in Drivers \ {d} : pc'[e] = pc[e] /\ name'[e] = name[e]
      /\ UNCHANGED <<staging, store, req, run>>
  BY <1>1 DEF ChooseName, Goto, shared, TypeOK
<1>3. Destination(d, n).case = Case(req[d]) /\ Destination(d, n).run = run[d]
  BY DEF Destination
<1>4. \A e \in Drivers : pc'[e] \in InStaging => pc[e] \in InStaging
  BY <1>2 DEF InStaging
<1>5. ASSUME NEW x \in Drivers, pc'[x] \in InStaging
      PROVE  /\ StagingDir(x, run[x]) \in staging
             /\ \A e \in Drivers \ {x} : pc'[e] \in InStaging =>
                    StagingDir(e, run[e]) # StagingDir(x, run[x])
  BY <1>4, <1>5 DEF NamesInv
<1>6. ASSUME NEW x \in Drivers, pc'[x] = "renaming"
      PROVE  /\ name'[x].case = Case(req[x]) /\ name'[x].run = run[x]
             /\ ~Published(name'[x])
  <2>1. CASE x = d
    BY <1>1, <1>2, <1>3, <2>1
  <2>2. CASE x # d
    <3>1. pc[x] = "renaming" /\ pc[x] \in InStaging
      BY <1>2, <1>6, <2>2 DEF InStaging
    <3>2. QED
      BY <1>2, <2>2, <3>1 DEF NamesInv
  <2>3. QED
    BY <2>1, <2>2
<1>7. QED
  BY <1>2, <1>5, <1>6 DEF NamesInv, StagingDir, Published

(* A rename takes no name that another driver is about to use.             *)
LEMMA RenameKeepsNames ==
    ASSUME TypeOK, NamesInv, NEW d \in Drivers, Rename(d)
    PROVE  NamesInv'
<1>1. /\ pc[d] = "renaming" /\ pc[d] \in InStaging
      /\ pc'[d] \notin InStaging
      /\ \A e \in Drivers \ {d} : pc'[e] = pc[e]
      /\ UNCHANGED <<req, run, name>>
      /\ store' = store \cup {[name |-> name[d], doc |-> doc[d]]}
      /\ staging' = staging \ {StagingDir(d, run[d])}
  <2>1. doc[d].reason \in {"none", "invalid", "unsupported"}
    BY DEF TypeOK, Docs
  <2>2. /\ pc[d] = "renaming"
        /\ pc'[d] \in {"ok", "invalid", "unsupported"}
        /\ \A e \in Drivers \ {d} : pc'[e] = pc[e]
    BY <2>1 DEF Rename, Goto, TypeOK
  <2>3. QED
    BY <2>2 DEF Rename, InStaging, Batch
<1>2. name[d].case = Case(req[d]) /\ name[d].run = run[d]
  BY <1>1 DEF NamesInv
<1>3. ASSUME NEW e \in Drivers \ {d}, pc[e] \in InStaging
      PROVE  /\ StagingDir(e, run[e]) \in staging'
             /\ pc[e] = "renaming" => ~Published(name[e])'
  <2>1. StagingDir(e, run[e]) # StagingDir(d, run[d])
    BY <1>1, <1>3 DEF NamesInv
  <2>2. StagingDir(e, run[e]) \in staging
    BY <1>3 DEF NamesInv
  <2>3. ASSUME pc[e] = "renaming" PROVE ~Published(name[e])'
    <3>1. /\ ~Published(name[e])
          /\ name[e].case = Case(req[e]) /\ name[e].run = run[e]
      BY <1>3, <2>3 DEF NamesInv
    <3>2. name[e] # name[d]
      BY <1>2, <2>1, <3>1 DEF StagingDir
    <3>3. QED
      BY <1>1, <3>1, <3>2 DEF Published
  <2>4. QED
    BY <1>1, <2>1, <2>2, <2>3
<1>4. QED
  BY <1>1, <1>3 DEF NamesInv, StagingDir

(* The steps up to the compiled adapter keep NamesInv.                     *)
LEMMA PrepareKeepsNames ==
    ASSUME TypeOK, NamesInv, NEW d \in Drivers, Prepare(d)
    PROVE  NamesInv'
<1>1. CASE LoadPolicy(d) \/ IdentifyProduct(d) \/ IdentifyHarness(d)
  <2>1. UNCHANGED <<staging, store, req, run, name>>
    BY <1>1 DEF LoadPolicy, IdentifyProduct, IdentifyHarness, shared
  <2>2. \E from, to : Goto(d, from, to) /\ to \notin InStaging
    BY <1>1 DEF LoadPolicy, IdentifyProduct, IdentifyHarness, InStaging, Batch
  <2>3. QED
    BY <2>1, <2>2, GotoIsQuiet
<1>2. CASE RefuseProduct(d) \/ RefuseRuntime(d) \/ Miss(d) \/ StageCollides(d)
  <2>1. UNCHANGED <<staging, store, req, run, name>>
    BY <1>2 DEF RefuseProduct, RefuseRuntime, Miss, StageCollides, shared
  <2>2. \E from, to : Goto(d, from, to) /\ to \notin InStaging
    BY <1>2 DEF RefuseProduct, RefuseRuntime, Miss, StageCollides, InStaging, Batch
  <2>3. QED
    BY <2>1, <2>2, GotoIsQuiet
<1>3. CASE Reuse(d)
  <2>1. UNCHANGED <<staging, store, req, run>>
    BY <1>3 DEF Reuse, shared
  <2>2. \A e \in Drivers \ {d} : name'[e] = name[e]
    BY <1>3 DEF Reuse, TypeOK
  <2>3. Goto(d, "identified", "ok") /\ "ok" \notin InStaging
    BY <1>3 DEF Reuse, InStaging, Batch
  <2>4. QED
    BY <2>1, <2>2, <2>3, GotoIsQuiet
<1>4. CASE Stage(d)
  BY <1>4, StageKeepsNames
<1>5. CASE Build(d) \/ BuildFails(d)
  <2>1. UNCHANGED <<staging, store, req, run, name>>
    BY <1>5 DEF Build, BuildFails
  <2>2. \E to : Goto(d, "staged", to) /\ to # "renaming"
    BY <1>5 DEF Build, BuildFails
  <2>3. QED
    BY <2>1, <2>2, GotoIsQuiet DEF InStaging
<1>6. CASE HashClasses(d) \/ ResolvePeer(d) \/ CompileAdapter(d)
  <2>1. \E from \in InStaging : \E to, m :
            Progress(d, from, to, m) /\ to # "renaming"
    BY <1>6 DEF HashClasses, ResolvePeer, CompileAdapter, InStaging, Batch
  <2>2. QED
    BY <2>1, ProgressIsQuiet
<1>7. CASE PrepareFails(d) \/ AdapterUnsupported(d)
  <2>1. \E from \in InStaging : \E to, m :
            Progress(d, from, to, m) /\ to # "renaming"
    BY <1>7 DEF PrepareFails, AdapterUnsupported, Fail, InStaging, Batch
  <2>2. QED
    BY <2>1, ProgressIsQuiet
<1>8. QED
  BY <1>1, <1>2, <1>3, <1>4, <1>5, <1>6, <1>7 DEF Prepare

(* The JVM runs keep NamesInv.                                             *)
LEMMA ExecuteKeepsNames ==
    ASSUME TypeOK, NamesInv, NEW d \in Drivers, Execute(d) \/ LoadMore(d)
    PROVE  NamesInv'
<1>1. \E from \in InStaging : \E to, m :
          Progress(d, from, to, m) /\ to # "renaming"
  <2> USE DEF InStaging, Batch, Running
  <2>1. CASE StartCorrectness(d) \/ StartTiming(d) \/ StartJfr(d)
    BY <2>1 DEF StartCorrectness, StartTiming, StartJfr
  <2>2. CASE CorrectnessPasses(d) \/ CorrectnessFails(d)
    BY <2>2 DEF CorrectnessPasses, CorrectnessFails
  <2>3. CASE TimingSucceeds(d) \/ JfrSucceeds(d) \/ RunFails(d)
    BY <2>3 DEF TimingSucceeds, JfrSucceeds, RunFails, Fail
  <2>4. CASE LoadMore(d)
    BY <2>4 DEF LoadMore
  <2>5. QED
    BY <2>1, <2>2, <2>3, <2>4 DEF Execute
<1>2. QED
  BY <1>1, ProgressIsQuiet

(* Verification and publication keep NamesInv.                             *)
LEMMA FinishKeepsNames ==
    ASSUME TypeOK, NamesInv, NEW d \in Drivers, Finish(d)
    PROVE  NamesInv'
<1>1. CASE ChooseName(d)
  BY <1>1, ChooseKeepsNames
<1>2. CASE Rename(d)
  BY <1>2, RenameKeepsNames
<1>3. CASE ~ChooseName(d) /\ ~Rename(d)
  <2>1. \E from \in InStaging : \E to, m :
            Progress(d, from, to, m) /\ to # "renaming"
    <3> USE DEF InStaging, Batch, Fail
    <3>1. CASE VerifyProduct(d)
      BY <3>1 DEF VerifyProduct
    <3>2. CASE VerifyClasses(d)
      BY <3>2 DEF VerifyClasses
    <3>3. CASE VerifyHarness(d)
      BY <3>3 DEF VerifyHarness
    <3>4. CASE AnalysisSucceeds(d) \/ AnalysisFails(d) \/ RecordInvalid(d)
      BY <3>4 DEF AnalysisSucceeds, AnalysisFails, RecordInvalid
    <3>5. QED
      BY <1>3, <3>1, <3>2, <3>3, <3>4 DEF Finish
  <2>2. QED
    BY <2>1, ProgressIsQuiet
<1>4. QED
  BY <1>1, <1>2, <1>3

(* NamesInv is inductive.                                                  *)
LEMMA NamesStep == TypeOK /\ NamesInv /\ [Next]_vars => NamesInv'
<1> SUFFICES ASSUME TypeOK, NamesInv, [Next]_vars PROVE NamesInv'
  OBVIOUS
<1>1. ASSUME NEW d \in Drivers, Crash(d) PROVE NamesInv'
  BY <1>1, QuietKeeps DEF Crash, shared, InStaging, Batch, TypeOK
<1>2. CASE EditProduct \/ EditHarness \/ UNCHANGED vars
  BY <1>2 DEF EditProduct, EditHarness, vars, local, NamesInv, StagingDir,
              Published
<1>3. QED
  BY <1>1, <1>2, PrepareKeepsNames, ExecuteKeepsNames, FinishKeepsNames
     DEF Next, Step, AllEnded

(* However many drivers run at once, no rename finds its name in use.      *)
THEOREM NoCollision == Spec => []RenameNeverCollides
<1>1. Init => NamesInv
  BY DEF Init, NamesInv, InStaging, Batch
<1>2. TypeOK /\ NamesInv => RenameNeverCollides
  BY DEF NamesInv, RenameNeverCollides, InStaging
<1>3. QED
  BY <1>1, <1>2, NamesStep, TypeCorrect, PTL DEF Spec
=============================================================================
