--------------------------- MODULE MeasureDriver ---------------------------
(***************************************************************************)
(* harness/measure_protos.py, function measure(): driver processes that    *)
(* share one Protos checkout, one benchmark checkout and one output        *)
(* directory, while a developer keeps editing both checkouts.              *)
(*                                                                         *)
(* A driver identifies the product and its own producer files, reuses an   *)
(* equivalent valid record or stages a new one, builds, runs correctness,  *)
(* timing and an optional profile in fresh JVMs, identifies product and    *)
(* producer again, and renames its staging directory into the output.      *)
(*                                                                         *)
(* Sources are version numbers: an edit gives the checkout a state it has  *)
(* never had (an edit undone between two identifications is outside the    *)
(* model).  doc[d].classes and doc[d].inputs are history: the product      *)
(* classes and the producer files that d's JVMs really loaded.             *)
(***************************************************************************)
EXTENDS Naturals

CONSTANTS
    Drivers,        \* driver processes
    Requests,       \* command lines they may be started with
    Hosts,          \* container image, Java, host and CPU identities
    RunIds,         \* UTC timestamps the clock may give
    Dirty,          \* product versions with uncommitted changes
    Broken,         \* product versions that compute a wrong result
    PolicyOf,       \* timing policy each producer version resolves to
    Policies,
    None,
    MaxProduct,     \* bound on the edits of the product
    MaxHarness,     \* bound on the edits of the producer files
    MaxSuffix       \* bound on the "-2", "-3", ... suffixes of promote()

VARIABLES
    product,        \* version of the sources in the Protos checkout
    classes,        \* version that <checkout>/target/classes was built from
    harness,        \* version of the producer files
    staging,        \* directories under <output>/.staging
    store,          \* published records under <output>/<case>/
    pc, req, seen, run, name, doc

shared == <<product, classes, harness, staging, store>>
local  == <<pc, req, seen, run, name, doc>>
vars   == <<product, classes, harness, staging, store,
            pc, req, seen, run, name, doc>>

----------------------------------------------------------------------------
(* Requests, names and records *)

Products  == 0..MaxProduct
Producers == 0..MaxHarness

RequestType ==
    [lang : {"protos", "peer"}, stage : {"reference", "smoke"},
     mode : {"correctness", "timing", "jfr", "diagnostic"},
     extras : SUBSET {"jit", "affinity"},
     tuned : BOOLEAN,       \* policy overrides or extra JVM options
     dir : BOOLEAN,         \* --dir names a checkout
     pins : SUBSET Products,     \* product versions whose pom carries --version
     allowDirty : BOOLEAN, remeasure : BOOLEAN, host : Hosts]

(* The combinations of options that measure() lets through. *)
WellFormed(r) ==
    /\ r.extras # {} => r.mode = "diagnostic"
    /\ r.lang = "protos" => r.dir

ASSUME RequestsAssumption ==
    /\ Requests \subseteq RequestType
    /\ \A r \in Requests : WellFormed(r)
ASSUME BoundsAssumption ==
    MaxProduct \in Nat /\ MaxHarness \in Nat /\ MaxSuffix \in Nat \ {0}
ASSUME NoneAssumption == None \notin Nat
ASSUME PolicyAssumption == PolicyOf \in [Producers -> Policies]

Case(r) == <<r.lang, r.stage, r.mode, r.extras>>
Cases   == {Case(r) : r \in Requests}

Affinities == {"taskset", "pinned"}
Keys  == [case : Cases, tuned : BOOLEAN, host : Hosts, affinity : Affinities,
          product : Products \cup {None}, policy : Policies]
Names == [case : Cases, run : RunIds \cup {None}, invalid : BOOLEAN,
          n : 1..MaxSuffix]
Docs  == [key : Keys, producer : Producers, policy : Producers,
          built : Products \cup {None},
          valid : BOOLEAN, reason : {"none", "invalid", "unsupported"},
          correct : {"unknown", "PASS", "FAIL"}, timed : BOOLEAN,
          eligible : BOOLEAN, classes : SUBSET Products,
          inputs : SUBSET Producers]

(* result_key as measure() computes it before the lookup, and the host     *)
(* identity inside it once the affinity diagnostics have been set up.      *)
ResultKey(r, s) ==
    [case |-> Case(r), tuned |-> r.tuned, host |-> r.host,
     affinity |-> "taskset", product |-> s.product,
     policy |-> PolicyOf[s.policy]]

RecordedKey(r, s) ==
    [ResultKey(r, s) EXCEPT
        !.affinity = IF "affinity" \in r.extras THEN "pinned" ELSE "taskset"]

(* Mutant: eligibility forgets the uncommitted changes. *)
MetadataOfAnyState(r, s) ==
    [key |-> RecordedKey(r, s), producer |-> s.producer, policy |-> s.policy,
     built |-> None, valid |-> FALSE, reason |-> "none",
     correct |-> "unknown", timed |-> FALSE,
     eligible |-> r.stage = "reference" /\ ~r.tuned /\ r.mode # "diagnostic",
     classes |-> {}, inputs |-> {}]

Metadata(r, s) ==
    [key |-> RecordedKey(r, s), producer |-> s.producer, policy |-> s.policy,
     built |-> None, valid |-> FALSE, reason |-> "none",
     correct |-> "unknown", timed |-> FALSE,
     eligible |-> /\ r.stage = "reference"
                  /\ ~r.tuned
                  /\ r.mode # "diagnostic"
                  /\ s.product = None \/ s.product \notin Dirty,
     classes |-> {}, inputs |-> {}]

Terminal == {"ok", "invalid", "unsupported", "usage", "dead"}
Running  == {"correctness", "timing", "jfr"}
Phases   == {"idle", "loaded", "located", "identified", "missing", "staged",
             "built", "hashed", "prepared", "checked", "timed", "measured",
             "unchanged", "verified", "recorded", "failed", "promote",
             "renaming"} \cup Running \cup Terminal

TypeOK ==
    /\ product \in Products /\ classes \in Products /\ harness \in Producers
    /\ staging \subseteq Cases \X RunIds
    /\ store \subseteq [name : Names, doc : Docs]
    /\ pc \in [Drivers -> Phases]
    /\ req \in [Drivers -> Requests]
    /\ seen \in [Drivers -> [policy : Producers,
                             product : Products \cup {None},
                             producer : Producers]]
    /\ run \in [Drivers -> RunIds \cup {None}]
    /\ name \in [Drivers -> Names]
    /\ doc \in [Drivers -> Docs]

(* Mutant: the suffix counts from zero. *)
DestinationFromZero(d, n) ==
    [case |-> Case(req[d]), run |-> run[d],
     invalid |-> doc[d].reason # "none", n |-> n - 1]

(* Where d's record goes: <case>/<run id>, .invalid if it failed, -n.     *)
Destination(d, n) ==
    [case |-> Case(req[d]), run |-> run[d],
     invalid |-> doc[d].reason # "none", n |-> n]

Blank == [policy |-> 0, product |-> None, producer |-> 0]

Init ==
    /\ product = 0 /\ classes = 0 /\ harness = 0
    /\ staging = {} /\ store = {}
    /\ pc = [d \in Drivers |-> "idle"]
    /\ req \in [Drivers -> Requests]
    /\ seen = [d \in Drivers |-> Blank]
    /\ run = [d \in Drivers |-> None]
    /\ doc = [d \in Drivers |-> Metadata(req[d], Blank)]
    /\ name = [d \in Drivers |-> Destination(d, 1)]

----------------------------------------------------------------------------
(* One driver, up to its staging directory *)

Goto(d, from, to) == pc[d] = from /\ pc' = [pc EXCEPT ![d] = to]

(* cases.json and the catalog are read: the policy and the expected result *)
(* come from the producer files as they are now.                           *)
LoadPolicy(d) ==
    /\ Goto(d, "idle", "loaded")
    /\ seen' = [seen EXCEPT ![d].policy = harness]
    /\ UNCHANGED <<shared, req, run, name, doc>>

Admitted(r, v) ==
    /\ r.lang = "protos" => v \in r.pins
    /\ v \notin Dirty \/ r.allowDirty

IdentifyProduct(d) ==
    /\ req[d].dir => Admitted(req[d], product)
    /\ Goto(d, "loaded", "located")
    /\ seen' = [seen EXCEPT ![d].product =
                    IF req[d].dir THEN product ELSE None]
    /\ UNCHANGED <<shared, req, run, name, doc>>

(* A dirty checkout, or one of another version, is a usage error. *)
RefuseProduct(d) ==
    /\ req[d].dir /\ ~Admitted(req[d], product)
    /\ Goto(d, "loaded", "usage")
    /\ UNCHANGED <<shared, req, seen, run, name, doc>>

IdentifyHarness(d) ==
    /\ Goto(d, "located", "identified")
    /\ seen' = [seen EXCEPT ![d].producer = harness]
    /\ UNCHANGED <<shared, req, run, name, doc>>

(* The CPU is outside the affinity mask, the Ruby runtime is not prepared, *)
(* or the output directory belongs to something else.                      *)
RefuseRuntime(d) ==
    /\ Goto(d, "identified", "usage")
    /\ UNCHANGED <<shared, req, seen, run, name, doc>>

(* Mutant: the case alone decides what is equivalent. *)
ExistingOfCase(d) ==
    {e \in store : e.name.case = Case(req[d]) /\ e.doc.valid}

(* Mutant: the producer is not compared. *)
ExistingOfAnyProducer(d) ==
    {e \in store : e.doc.valid /\ e.doc.key = ResultKey(req[d], seen[d])}

(* Mutant: only evidence eligible as reference is reused. *)
ExistingEligible(d) ==
    {e \in store :
        /\ e.doc.valid /\ e.doc.eligible
        /\ e.doc.key = ResultKey(req[d], seen[d])
        /\ e.doc.producer = seen[d].producer}

(* find_existing(): only promoted directories are looked at, and those     *)
(* named *.invalid are skipped before their metadata is read.              *)
Existing(d) ==
    {e \in store :
        /\ e.name.case = Case(req[d])
        /\ ~(e.name.invalid /\ e.name.n = 1)
        /\ e.doc.valid
        /\ e.doc.key = ResultKey(req[d], seen[d])
        /\ e.doc.producer = seen[d].producer
        /\ req[d].mode # "correctness" => e.doc.timed}

Reuse(d) ==
    /\ ~req[d].remeasure
    /\ Goto(d, "identified", "ok")
    /\ \E e \in Existing(d) : name' = [name EXCEPT ![d] = e.name]
    /\ UNCHANGED <<shared, req, seen, run, doc>>

(* Nothing to reuse; another driver may publish before this one stages.    *)
Miss(d) ==
    /\ Existing(d) = {} \/ req[d].remeasure
    /\ Goto(d, "identified", "missing")
    /\ UNCHANGED <<shared, req, seen, run, name, doc>>

StagingDir(d, t) == <<Case(req[d]), t>>

(* Mutant: mkdir(exist_ok=True). *)
StageExistOk(d) ==
    /\ Goto(d, "missing", "staged")
    /\ \E t \in RunIds :
        /\ staging' = staging \cup {StagingDir(d, t)}
        /\ run' = [run EXCEPT ![d] = t]
    /\ doc' = [doc EXCEPT ![d] = Metadata(req[d], seen[d])]
    /\ UNCHANGED <<product, classes, harness, store, req, seen, name>>

(* The clock gives the run id; mkdir() refuses a directory that exists. *)
Stage(d) ==
    /\ Goto(d, "missing", "staged")
    /\ \E t \in RunIds :
        /\ StagingDir(d, t) \notin staging
        /\ staging' = staging \cup {StagingDir(d, t)}
        /\ run' = [run EXCEPT ![d] = t]
    /\ doc' = [doc EXCEPT ![d] = Metadata(req[d], seen[d])]
    /\ UNCHANGED <<product, classes, harness, store, req, seen, name>>

(* Mutant: a directory in use is waited for. *)
StageWaits(d) ==
    /\ \E t \in RunIds : StagingDir(d, t) \in staging
    /\ Goto(d, "missing", "missing")
    /\ UNCHANGED <<shared, req, seen, run, name, doc>>

StageCollides(d) ==
    /\ \E t \in RunIds : StagingDir(d, t) \in staging
    /\ Goto(d, "missing", "dead")
    /\ UNCHANGED <<shared, req, seen, run, name, doc>>

----------------------------------------------------------------------------
(* One driver, from its staging directory to the verified record *)

(* The driver moves on, m is its record from here on, all else stays.      *)
Progress(d, from, to, m) ==
    /\ Goto(d, from, to)
    /\ doc' = [doc EXCEPT ![d] = m]
    /\ UNCHANGED <<shared, req, seen, run, name>>

Fail(d, from, reason) ==
    Progress(d, from, "failed", [doc[d] EXCEPT !.reason = reason])

(* mvn compile writes the checkout's shared target/classes. *)
Build(d) ==
    /\ req[d].lang = "protos"
    /\ Goto(d, "staged", "built")
    /\ classes' = product
    /\ UNCHANGED <<product, harness, staging, store, req, seen, run, name, doc>>

BuildFails(d) ==
    /\ req[d].lang = "protos"
    /\ Goto(d, "staged", "failed")
    /\ doc' = [doc EXCEPT ![d] = [@ EXCEPT !.reason = "invalid"]]
    /\ classes' \in {classes, product}
    /\ UNCHANGED <<product, harness, staging, store, req, seen, run, name>>

HashClasses(d) ==
    Progress(d, "built", "hashed", [doc[d] EXCEPT !.built = classes])

ResolvePeer(d) ==
    /\ req[d].lang = "peer"
    /\ Progress(d, "staged", "hashed", doc[d])

(* The adapter is compiled from the producer's Java sources. *)
CompileAdapter(d) ==
    Progress(d, "hashed", "prepared",
             [doc[d] EXCEPT !.inputs = @ \cup {harness}])

(* Peer classpath unresolved, adapter class missing, peer version mismatch. *)
PrepareFails(d) ==
    \/ req[d].lang = "peer" /\ Fail(d, "staged", "invalid")
    \/ Fail(d, "hashed", "invalid")

AdapterUnsupported(d) == Fail(d, "hashed", "unsupported")

(* What a JVM of d has loaded once it reads its classpath now. *)
OnClasspath(d) == IF req[d].lang = "protos" THEN {classes} ELSE {}

Loaded(d) ==
    [doc[d] EXCEPT !.classes = @ \cup OnClasspath(d),
                   !.inputs = @ \cup {harness}]

StartCorrectness(d) == Progress(d, "prepared", "correctness", Loaded(d))
StartTiming(d)      == Progress(d, "checked", "timing", Loaded(d))
StartJfr(d)         == Progress(d, "timed", "jfr", Loaded(d))

(* Classes are loaded on demand for as long as a JVM runs. *)
LoadMore(d) ==
    /\ Loaded(d) # doc[d]
    /\ \E p \in Running : Progress(d, p, p, Loaded(d))

(* Mutant: the exit status alone decides. *)
GivesExpectedByStatus(d) == TRUE

(* The expected result appears unless every class loaded is of a broken    *)
(* product; a run may fail whatever it loaded.                             *)
GivesExpected(d) ==
    req[d].lang = "protos" => ~(doc[d].classes \subseteq Broken)

CorrectnessPasses(d) ==
    LET only == req[d].mode = "correctness" IN
    /\ GivesExpected(d)
    /\ Progress(d, "correctness", IF only THEN "measured" ELSE "checked",
                [doc[d] EXCEPT !.correct = "PASS", !.eligible = @ /\ ~only])

CorrectnessFails(d) ==
    Progress(d, "correctness", "failed",
             [doc[d] EXCEPT !.correct = "FAIL", !.reason = "invalid"])

TimingSucceeds(d) ==
    /\ GivesExpected(d)
    /\ Progress(d, "timing", IF req[d].mode = "jfr" THEN "timed" ELSE "measured",
                [doc[d] EXCEPT !.timed = TRUE])

JfrSucceeds(d) ==
    /\ GivesExpected(d)
    /\ Progress(d, "jfr", "measured", doc[d])

RunFails(d) == Fail(d, "timing", "invalid") \/ Fail(d, "jfr", "invalid")

(* Mutant: the producer files are identified only once. *)
VerifyHarnessOnce(d) ==
    Progress(d, "verified",
             IF req[d].mode = "diagnostic" THEN "recorded" ELSE "promote",
             [doc[d] EXCEPT !.valid = TRUE])

(* Identity after the complete batch: the checkout, then target/classes,   *)
(* then the producer files.                                                *)
VerifyProduct(d) ==
    IF req[d].dir => product = seen[d].product
    THEN Progress(d, "measured", "unchanged", doc[d])
    ELSE Fail(d, "measured", "invalid")

VerifyClasses(d) ==
    IF req[d].lang = "protos" => classes = doc[d].built
    THEN Progress(d, "unchanged", "verified", doc[d])
    ELSE Fail(d, "unchanged", "invalid")

(* The record is declared valid and written; a diagnostic is analysed next. *)
VerifyHarness(d) ==
    IF harness = seen[d].producer
    THEN Progress(d, "verified",
                  IF req[d].mode = "diagnostic" THEN "recorded" ELSE "promote",
                  [doc[d] EXCEPT !.valid = TRUE])
    ELSE Fail(d, "verified", "invalid")

AnalysisSucceeds(d) == Progress(d, "recorded", "promote", doc[d])

AnalysisFails(d) == Fail(d, "recorded", "invalid")

----------------------------------------------------------------------------
(* Publication *)

(* Mutants: validity set before the analysis stays, the failure is only    *)
(* reported and not published.                                             *)
RecordInvalidLate(d) == Progress(d, "failed", "promote", doc[d])

RecordInvalidUnpublished(d) ==
    Progress(d, "failed", "invalid", [doc[d] EXCEPT !.valid = FALSE])

RecordInvalid(d) ==
    Progress(d, "failed", "promote", [doc[d] EXCEPT !.valid = FALSE])

Published(nm) == \E e \in store : e.name = nm

(* promote(): the first name that does not exist, ... *)
ChooseName(d) ==
    /\ Goto(d, "promote", "renaming")
    /\ \E n \in 1..MaxSuffix :
        /\ ~Published(Destination(d, n))
        /\ \A m \in 1..(n - 1) : Published(Destination(d, m))
        /\ name' = [name EXCEPT ![d] = Destination(d, n)]
    /\ UNCHANGED <<shared, req, seen, run, doc>>

(* Mutant: the staging directory is copied. *)
RenameCopies(d) ==
    /\ ~Published(name[d])
    /\ Goto(d, "renaming",
            IF doc[d].reason = "none" THEN "ok" ELSE doc[d].reason)
    /\ store' = store \cup {[name |-> name[d], doc |-> doc[d]]}
    /\ UNCHANGED <<product, classes, harness, staging, req, seen, run, name,
                   doc>>

(* ... and the rename, which the system refuses onto a directory in use. *)
Rename(d) ==
    /\ ~Published(name[d])
    /\ Goto(d, "renaming",
            IF doc[d].reason = "none" THEN "ok" ELSE doc[d].reason)
    /\ store' = store \cup {[name |-> name[d], doc |-> doc[d]]}
    /\ staging' = staging \ {StagingDir(d, run[d])}
    /\ UNCHANGED <<product, classes, harness, req, seen, run, name, doc>>

----------------------------------------------------------------------------
(* The environment, and the system *)

(* The process is killed, or an exception that measure() does not catch    *)
(* ends it; what it staged stays under .staging.                           *)
Crash(d) ==
    /\ pc[d] \notin Terminal \cup {"idle"}
    /\ pc' = [pc EXCEPT ![d] = "dead"]
    /\ UNCHANGED <<shared, req, seen, run, name, doc>>

EditProduct ==
    /\ product < MaxProduct
    /\ product' = product + 1
    /\ UNCHANGED <<classes, harness, staging, store, local>>

EditHarness ==
    /\ harness < MaxHarness
    /\ harness' = harness + 1
    /\ UNCHANGED <<product, classes, staging, store, local>>

Prepare(d) ==
    \/ LoadPolicy(d) \/ IdentifyProduct(d) \/ RefuseProduct(d)
    \/ IdentifyHarness(d) \/ RefuseRuntime(d) \/ Reuse(d) \/ Miss(d)
    \/ Stage(d) \/ StageCollides(d)
    \/ Build(d) \/ BuildFails(d) \/ HashClasses(d) \/ ResolvePeer(d)
    \/ CompileAdapter(d) \/ PrepareFails(d) \/ AdapterUnsupported(d)

Execute(d) ==
    \/ StartCorrectness(d) \/ CorrectnessPasses(d) \/ CorrectnessFails(d)
    \/ StartTiming(d) \/ TimingSucceeds(d) \/ StartJfr(d) \/ JfrSucceeds(d)
    \/ RunFails(d)

Finish(d) ==
    \/ VerifyProduct(d) \/ VerifyClasses(d) \/ VerifyHarness(d)
    \/ AnalysisSucceeds(d) \/ AnalysisFails(d)
    \/ RecordInvalid(d) \/ ChooseName(d) \/ Rename(d)

Step(d) == Prepare(d) \/ Execute(d) \/ Finish(d)

(* Every driver has ended: nothing is left to do but edits. *)
AllEnded == (\A d \in Drivers : pc[d] \in Terminal) /\ UNCHANGED vars

Next ==
    \/ \E d \in Drivers : Step(d) \/ LoadMore(d) \/ Crash(d)
    \/ EditProduct \/ EditHarness
    \/ AllEnded

Spec == Init /\ [][Next]_vars

(* Each process is scheduled, and the JVMs and builds it waits for end.    *)
FairSpec == Spec /\ \A d \in Drivers : WF_vars(Step(d))

----------------------------------------------------------------------------
(* Properties *)

(* A valid record names the product state its JVMs loaded, and no other,   *)
(* however the checkout and target/classes moved while it was measured.    *)
RanAsRecorded(m) ==
    /\ m.classes \subseteq {m.key.product}
    /\ m.inputs = {m.producer}

ValidRecordsAreExact == \A e \in store : e.doc.valid => RanAsRecorded(e.doc)

(* No record with a published timing is of a product that computes a wrong *)
(* result, and its correctness run passed before the timing.               *)
AcceptedTimingIsCorrect ==
    \A e \in store :
        e.doc.valid => /\ e.doc.correct = "PASS"
                       /\ e.doc.classes \cap Broken = {}

(* Reference-eligible evidence comes from clean sources only: no JVM of it *)
(* loaded classes built while the checkout was dirty.                      *)
ReferenceIsClean ==
    \A e \in store :
        e.doc.valid /\ e.doc.eligible =>
            /\ e.doc.classes \cap Dirty = {}
            /\ e.doc.timed /\ ~e.doc.key.tuned

(* A driver that exits 0, measuring or reusing, hands out a record that    *)
(* is valid for the sources it identified itself.                          *)
DeliveredEvidenceIsSound ==
    \A d \in Drivers : pc[d] = "ok" =>
        \E e \in store :
            /\ e.name = name[d] /\ e.doc.valid
            /\ e.doc.key.product = seen[d].product
            /\ e.doc.producer = seen[d].producer
            /\ e.doc.timed <=> req[d].mode # "correctness"
            /\ RanAsRecorded(e.doc)

(* Two drivers never rename onto one name: mkdir() of the staging          *)
(* directory keeps the run id to one of them until it is published.        *)
RenameNeverCollides ==
    \A d \in Drivers : pc[d] = "renaming" => ~Published(name[d])

(* Only a driver that died leaves a directory under .staging.              *)
OnlyDeadLeaveStaging ==
    \A s \in staging : \E d \in Drivers :
        /\ s = StagingDir(d, run[d])
        /\ pc[d] \notin {"ok", "invalid", "unsupported", "usage"}

(* The directory name tells the verdict, and a driver that reports failure *)
(* has left its record behind, marked invalid.                             *)
FailuresAreRetained ==
    /\ \A e \in store : e.name.invalid <=> ~e.doc.valid
    /\ \A d \in Drivers : pc[d] \in {"invalid", "unsupported"} =>
           \E e \in store : e.name = name[d] /\ e.name.invalid

(* An equivalent valid record is reused: without --remeasure no driver     *)
(* misses what has been published for the same case, options, machine,     *)
(* product, policy and producer when it looks.                             *)
Equivalent(e, d) ==
    /\ e.doc.valid
    /\ e.doc.producer = seen[d].producer
    /\ e.doc.key.case = Case(req[d])
    /\ e.doc.key.tuned = req[d].tuned
    /\ e.doc.key.host = req[d].host
    /\ e.doc.key.product = seen[d].product
    /\ e.doc.key.policy = PolicyOf[seen[d].policy]

Overlooks(d) ==
    /\ pc[d] = "identified" /\ pc'[d] = "missing"
    /\ ~req[d].remeasure
    /\ \E e \in store : Equivalent(e, d)

EquivalentIsReused == [][\A d \in Drivers : ~Overlooks(d)]_vars

(* A driver that starts ends, whatever else goes on.                       *)
EveryDriverEnds ==
    \A d \in Drivers : pc[d] = "loaded" ~> pc[d] \in Terminal

(* A failed measurement ends up published as invalid, unless its process   *)
(* dies first.                                                             *)
FailureIsPublished ==
    \A d \in Drivers :
        pc[d] = "failed" ~>
            \/ pc[d] = "dead"
            \/ \E e \in store : e.name = name[d] /\ ~e.doc.valid

(* The whole protocol answers like the evidence store: each driver's       *)
(* measure() appears to read, run and publish one product state.           *)
Accepted ==
    {[name |-> e.name, product |-> e.doc.key.product,
      ran |-> e.doc.classes] : e \in {f \in store : f.doc.valid}}

Evidence == INSTANCE EvidenceStore WITH
    Clients  <- Drivers,
    asked    <- [d \in Drivers |-> seen[d].product],
    accepted <- Accepted,
    answer   <- [d \in Drivers |-> IF pc[d] = "ok" THEN name[d] ELSE None]

ImplementsEvidenceStore == Evidence!ESSpec

----------------------------------------------------------------------------
(* The inductive invariant behind ValidRecordsAreExact.  Sources only move *)
(* on, so whatever a JVM loads lies between the version identified before  *)
(* the batch and the version there is now; finding the two equal after the *)
(* batch closes the interval.                                              *)

Batch == {"built", "hashed", "prepared", "checked", "timed", "measured"}
             \cup Running
InStaging == Batch \cup {"staged", "unchanged", "verified", "recorded",
                         "failed", "promote", "renaming"}
Located == InStaging \cup {"located", "identified", "missing", "ok"}

SeenIsPast(s) ==
    /\ s.product # None => s.product <= product
    /\ s.producer <= harness

SeenWhatWasAsked(p, r, s) == p \in Located => (s.product # None <=> r.dir)

RecordNamesSeen(p, s, m) ==
    p \in InStaging => m.key.product = s.product /\ m.producer = s.producer

BuiltSinceSeen(p, r, s) ==
    p \in Batch /\ r.lang = "protos" => s.product <= classes

LoadedSinceSeen(p, r, s, m) ==
    p \in InStaging =>
        /\ \A v \in m.classes :
               r.lang = "protos" /\ s.product <= v /\ v <= product
        /\ \A h \in m.inputs : s.producer <= h /\ h <= harness

InputsWereRead(p, m) ==
    p \in (Batch \ {"built", "hashed"}) \cup {"unchanged", "verified"} =>
        m.inputs # {}

ProductUnmoved(p, s, m) ==
    p \in {"unchanged", "verified"} => m.classes \subseteq {s.product}

ValidOnlyIfVerified(p, m) ==
    p \in Batch \cup {"staged", "unchanged", "verified"} => ~m.valid

DriverInv(p, r, s, m) ==
    /\ SeenIsPast(s)
    /\ SeenWhatWasAsked(p, r, s)
    /\ RecordNamesSeen(p, s, m)
    /\ BuiltSinceSeen(p, r, s)
    /\ LoadedSinceSeen(p, r, s, m)
    /\ InputsWereRead(p, m)
    /\ ProductUnmoved(p, s, m)
    /\ ValidOnlyIfVerified(p, m)
    /\ m.valid => RanAsRecorded(m)

BatchInv ==
    /\ classes <= product
    /\ \A d \in Drivers : DriverInv(pc[d], req[d], seen[d], doc[d])
    /\ ValidRecordsAreExact

(* The invariant behind RenameNeverCollides: a driver that measures owns   *)
(* its staging directory alone, and publishes under that name.             *)
NamesInv ==
    \A d \in Drivers : pc[d] \in InStaging =>
        /\ StagingDir(d, run[d]) \in staging
        /\ \A e \in Drivers \ {d} : pc[e] \in InStaging =>
               StagingDir(e, run[e]) # StagingDir(d, run[d])
        /\ pc[d] = "renaming" =>
               /\ name[d].case = Case(req[d]) /\ name[d].run = run[d]
               /\ ~Published(name[d])

(* The invariant behind the verdicts: what the record has been through by  *)
(* the time its driver has reached phase p.                                *)
Measuring == {"checked", "timing", "timed", "jfr"}
Done      == {"measured", "unchanged", "verified", "recorded"}

DescribesRequest(r, m) ==
    /\ m.key.case = Case(r)
    /\ m.eligible => /\ ~m.key.tuned
                     /\ m.key.product = None \/ m.key.product \notin Dirty

CorrectnessPassed(p, r, m) ==
    p \in Measuring \cup Done \/ m.valid =>
        m.correct = "PASS" /\ (r.lang = "protos" => ~(m.classes \subseteq Broken))

TimedIfAsked(p, r, m) ==
    /\ p \in Measuring \/ m.timed => r.mode # "correctness"
    /\ p \in {"timed", "jfr"} => m.timed
    /\ p \in Done \/ m.valid =>
           (r.mode = "correctness" => ~m.eligible) /\ (m.timed \/ r.mode = "correctness")

VerdictReached(p, m) ==
    /\ p = "recorded" => m.valid
    /\ CASE p = "failed" -> m.reason # "none"
         [] p \in {"promote", "renaming"} -> m.valid <=> m.reason = "none"
         [] OTHER -> m.reason = "none"

VerdictInv(p, r, m) ==
    p \in InStaging => /\ DescribesRequest(r, m)
                       /\ CorrectnessPassed(p, r, m)
                       /\ TimedIfAsked(p, r, m)
                       /\ VerdictReached(p, m)

GoodRecord(m) ==
    /\ m.correct = "PASS"
    /\ m.classes = {} \/ ~(m.classes \subseteq Broken)
    /\ m.timed <=> m.key.case[3] # "correctness"
    /\ m.eligible => /\ m.timed /\ ~m.key.tuned
                     /\ m.key.product = None \/ m.key.product \notin Dirty

SoundInv ==
    /\ \A d \in Drivers : VerdictInv(pc[d], req[d], doc[d])
    /\ \A e \in store : e.doc.valid => GoodRecord(e.doc)
    /\ DeliveredEvidenceIsSound

(* The invariant behind the refinement: what the output directory, its     *)
(* staging directories and the ended drivers say of each other.            *)
OutputInv ==
    /\ \A e \in store : e.name.invalid <=> ~e.doc.valid
    /\ \A s \in staging : \E d \in Drivers :
           s = StagingDir(d, run[d]) /\ pc[d] \in InStaging \cup {"dead"}
    /\ \A d \in Drivers :
           /\ pc[d] \in {"idle", "loaded"} => seen[d].product = None
           /\ pc[d] = "renaming" =>
                  (name[d].invalid <=> doc[d].reason # "none")
           /\ pc[d] \in {"invalid", "unsupported"} =>
                  \E e \in store : e.name = name[d] /\ e.name.invalid

(* The invariant behind EquivalentIsReused: a record says under which      *)
(* affinity it was measured as its own case tells, and is found under it.  *)
HonestKey(k) ==
    k.affinity = IF "affinity" \in k.case[4] THEN "pinned" ELSE "taskset"

KeysInv ==
    /\ \A d \in Drivers : HonestKey(doc[d].key)
    /\ \A e \in store : HonestKey(e.doc.key) /\ e.name.case = e.doc.key.case
=============================================================================
