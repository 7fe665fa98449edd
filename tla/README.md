# Verification of protos-benchmarks

TLA+ models of the benchmark host and the measurement harness, the TLC
configurations that check them, and TLAPS proofs about all of the models. Paths
are relative to the repository; `mp` is `harness/measure_protos.py`, `mg` is
`harness/measure_graphs.py`, `ge` is `harness/graph_evidence.py`.

## 1. Inventory

| Part | State it keeps | Operations | Model |
| --- | --- | --- | --- |
| Host commands, `benchmark.py` | image tags and IDs of Podman | sequences of containers: measure, prepare, diagnose, build images | `HostBatch` |
| Measurement driver, `mp` 1419-2212 | `<output>/.staging/<case>-<run id>`, `<output>/<case>/<run id>[-n][.invalid]`, the checkout's `target/classes` | identify, look up, stage, build, run JVMs, identify again, publish | `MeasureDriver`, `EvidenceStore` |
| Adapter cache, `mp` 716-790 | `.work/embedded/<owner>/<surface>/<hash>` | validate, delete, compile, rename, stamp | `AdapterCache` |
| Class path caches, `mp` 480-536, 547-675 | a class path per pom; a class path and pom per peer; the Maven repository | resolve into `.partial`, replace | `RuntimeCaches` |
| Bytecode-size instrument, `bytecode_size_runtime.py` | a cache of compiled instruments | fetch the processor, compile, rename | `RuntimeCaches` |
| Measurement engine, `MeasurementEngine.java` | one JVM's samples, result, recording, threads | correctness, warmup and steady calls, diagnostics | `MeasurementEngine` |
| Engine output, `measurement_support.py`, `measure_diagnostics.py`, `jit_timeline.py`, `compiler_trace.py` | none | parse finished logs | `MeasurementEngine` (partly) |
| Graph evidence, `mg` 221-1073 with `ge` 1272-1330 | `<output>/.staging/<workload>--<language>`, `<output>/<workload>/<language>`, `matrix.json` | capture, analyze, summarize | `GraphEvidence` |
| Graph resolution, `ge` | none | parse a trace, choose compilations, resolve units | `CompilationTrace` |
| Cold and bytecode campaigns, `mg` 1287-2312 | a staging directory each, then the case's directory; filter files; a summary | capture, analyze, summarize | `ColdCampaign` |
| Structural report, `mg` 2316-4066, `ge` | `structural-report.json` | read three inputs, pair roots, write once | `ColdCampaign` |
| Surface adapters, IGV analyzer, catalog and policies, build files, results | data, or one call | | not modelled (section 6) |

**Interaction.** Processes do not talk to each other. They share directories:
the Protos checkout with its `target/classes`, the benchmark checkout whose
policy and adapter sources they read, the caches under `.work`, and the output
directory. Nothing is locked. What protects a result is optimistic: `mkdir()`
of a directory nobody else has, `rename()` as the moment of publication, and
hashes of product and producer files taken before and after a batch. The host
starts containers and learns their exit codes; the driver starts JVMs and reads
their merged output.

**Hard behaviours.** Several drivers, captures, analyses and host commands at
once on those directories; a developer who edits either checkout in the middle; a process
killed between two calls, whose leftovers the next one meets; a step that fails
after the result was already marked valid; a cache entry that looks complete and
is not; a compiler's records that name call targets by labels that are not
unique; output lines cut up by another thread. The tests call functions one at
a time on directories of their own and reach few of these. `PROJECT.json` lists
each hazard at its line with the properties about it.

**What makes the parts correct.**

* A valid record describes exactly the product classes and producer files that
  ran; a wrong result is never published as a timing; reference evidence comes
  from clean sources; what a driver reuses is what it would have measured; a
  failure leaves an `.invalid` record; names are never taken twice.
* A cached adapter, class path or instrument is that of the sources and identity
  it is used for, whatever was killed before.
* A batch that returns 0 has a record of every case; a preparation that returns
  0 leaves nothing for a container without a network to fetch.
* What the driver accepts of a JVM was made in full and agreed throughout.
* The units of a stable run are installed code and the callees of the workload.
* A capture stops at the first pair of budgets that agree; `matrix.json` counts
  graphs of the very capture it names; evidence is not mixed nor lost; a report
  pairs roots only of captures that may be compared.

## 2. Modules

| Module | Contents |
| --- | --- |
| `EvidenceStore` | abstract specification: clients ask about the product as it is and are answered with accepted evidence about that state |
| `MeasureDriver` | `measure()`; its properties, refinement mapping and inductive invariants |
| `AdapterCache` | `compile_adapter()` and the JVMs that load its classes |
| `RuntimeCaches` | class path of a pom, class path of a peer, compiled instrument |
| `HostBatch` | the host commands; EXTENDS `RuntimeCaches`, whose steps are those of its containers |
| `MeasurementEngine` | one engine process, and what the driver and the analyses accept of it |
| `CompilationTrace` | a trace that grows with the compiler's events, and what is resolved from it |
| `GraphEvidence` | capture, analyze and summarize of one case |
| `ColdCampaign` | cold and bytecode captures, analyze, summaries and reports of one case |
| `*Proofs` | theorems about the module they are named after (section 4) |
| `MeasureDriverSoundness` | the theorems about what is published and reused, and the refinement; EXTENDS `MeasureDriverProofs` |
| `MC_*` | requests, model values and symmetry for TLC |

The operators marked as mutants next to an action are that action with a
plausible bug; `PROJECT.json` says which property each of them breaks, and which
lines of the source each definition stands for.

How they compose: `HostBatch` runs `RuntimeCaches` inside its containers.
`MeasureDriver` takes from `AdapterCache` that an adapter is what the
producer version names (`inputs`), from `RuntimeCaches` that the class paths are
complete, and from `MeasurementEngine` that a JVM that exits 0 with the expected
result made every call; each of these is a property checked there, under the
conditions stated there. `ColdCampaign` and `GraphEvidence` take from
`CompilationTrace` what a run shows.

### MeasureDriver

`product`, `classes` and `harness` are versions of the checkout, of what
`target/classes` was built from, and of the producer files; `staging` and
`store` are the directories of the output. Per driver, `pc` is the last step of
`measure()` it did, `req` its command line, `seen` what it identified, `run` its
timestamp, `name` the name it publishes under, and `doc` its `metadata.json` with
two history fields: `classes` and `inputs`, what its JVMs really loaded.

| Code | Actions |
| --- | --- |
| catalog and policy (1511), product (1557), producer (1595), machine (1599-1606) | `LoadPolicy`, `IdentifyProduct`/`RefuseProduct`, `IdentifyHarness`, `RefuseRuntime` |
| `find_existing()` (1051-1103, 1666-1698) | `Reuse`, `Miss` |
| staging (1702-1711) | `Stage`, `StageCollides` |
| `prepare_surface_runtime()` (1774) | `Build`/`BuildFails`, `HashClasses`, `ResolvePeer`, `CompileAdapter`, `AdapterUnsupported`, `PrepareFails` |
| JVMs (1795-2041) | `StartCorrectness`, `StartTiming`, `StartJfr`, `LoadMore`, and their successes and failures |
| identification again (2043-2107) | `VerifyProduct`, `VerifyClasses`, `VerifyHarness` |
| analyses after the verdict (2109-2161) | `AnalysisSucceeds`, `AnalysisFails` |
| failure (2187-2212), `promote()` (1106-1116) | `RecordInvalid`, `ChooseName`, `Rename` |
| the outside | `EditProduct`, `EditHarness`, `Crash` |

A lookup and the `mkdir()` after it, and `promote()`'s choice of a name and its
rename, are separate steps: other drivers act in between. A JVM loads classes
over time (`LoadMore`), while other drivers may rebuild them.

### AdapterCache

`entry[s]` holds the files of the entry whose hash is that of source version
`s`: the stamp, the main class, all other classes, and `classes.partial`, each
with the sources and identity it came from. `rmtree()` is one `Remove` per file
in any order; `mkdir()`, `javac`, `rename()` and the stamp are one action each,
with their failures. `Start` and `Verify` are the driver's hashes of the producer
files around the measurement, `LoadMain` and `LoadRest` its class loading.

### RuntimeCaches and HostBatch

`m2` is what the Maven repository holds. A dependency class path has two names,
`partial[p]` and `pathFile[p]`, for files whose `content` is written while they
are open, so that two containers that share a name share a file
(`OpenPartial`, `WritePartial`, `ReplacePath`, `mp` 480-536). `peer_classpath()`
compares the pom (`ReadPeerPom`), reuses a path whose jars are there
(`ReusePeer`), or resolves it and replaces path and pom one after the other
(`ReplacePeerPath`, `ReplacePeerPom`). `compile_instrument()` hashes the source,
compiles in a directory of its own and renames (`HashInstrument`, `Javac`,
`RenameInstrument`, `EntryExists`). A container's `job` goes through one stage
per cache it needs, then runs its JVMs (`RunEnds`), fails or is killed.

A host command is a loop over containers, `Plan(req)`: per round it looks its image up
(`Inspect`), starts a container (`StartContainer`, where podman looks the tag up
again), and goes on (`NextContainer`) or stops (`StopAtFailure`). `Build` moves
a tag. A measurement's container looks for a record when it starts (`found`) and
in the end delivers that one, or one of its own (`Deliver`). `seen` is a history
variable: the sources with which a command began, and the image IDs its tags have
named since.
`Environment` changes poms and harness, or loses jars, while nothing runs: what an
edit under a running driver does is the subject of `MeasureDriver`.

### MeasurementEngine

`job` is the kind of process; `at` and `done` are its place in the plan of
samples. `Begin`, `Call`, `End` are the loop of `measure()`; `Pin`, `List`,
`Verify`, `Open`, `StartSampler` the preparation of a diagnostic; `FinishTiming`,
`FinishDiagnostic`, `StopDiagnostic` the end, in the order in which
`MeasurementEngine.java` prints. `Emit` lets any lines
of an output be lost to a compiler's that is printed into them, where compilers
print to the same stream: in a JIT timeline, and in any run with a `--jvm-option`
that says so (`prints`). `Spawn`, `Vanish`, `Deoptimize` (a moment) and
`EventBegins`, `EventEnds` (a compilation or collection with a duration) are the
rest of the JVM. Acceptance
(`TimingAccepted`, `JfrAccepted`, `AnalysisPasses`, `TimelinePasses`) is
`parse_output()`, the driver's checks, and the checks of
`measure_diagnostics.py` and `jit_timeline.py`, as operators on the output.

### CompilationTrace

`code` and `body` are the installed code of each call target and the inlining
tree it was compiled with: what is true. `parsed` is what `parse_trace()` makes
of the records printed meanwhile: inlining blocks that wait for their "opt
done", compilations, failures, invalidations, problems. Actions are the
compiler's events (`Compile`, `CompilationFails`, `Invalidate`,
`CompileUnread`); the resolution (`Units`, `StableCandidate`, `SelectTier`,
`InventoryAvailable`) consists of operators on `parsed`, which can so be compared
with `code` and `body` in every state.

### GraphEvidence

`stage` and `dest` are the two directories of a case; each file in them is
represented by the capture whose JVM produced its content, so that a mixture
shows. `meta[c]` is what capture `c` puts into its `capture.json`: what each
budget showed, whether the runs are listed, whether it is valid. `at[p]` is where
an analysis or summary is. `rmtree()` of the old evidence (`Erode`, `Erase`) and
the rename (`Publish`) are separate; creating a filter file (`OpenFilter`) and
writing it (`WriteFilter`) are separate, as in `mg` 632-634. A capture's directory that is there but empty is not in
the way (`Occupied`, mg 273). `iter_cases()` lists
the directories once (`Begin`) and reads each `capture.json` later (`Visit`);
its pattern `*/*` matches `.staging` too, so that leftovers of a killed capture
are visited like cases. What a budget shows is a signature, "unstable" or
"unresolved". `overlapped` is a history variable: whether two captures were ever
past the deletion of the staging directory at once, or a reader was in a directory
that was no longer that of the `capture.json` it had read.

### ColdCampaign

`dest[p]` is the case's directory in the output of Tier 1, of Tier 2 and of the
bytecode diagnostic, with the filter file of each root and the summary; `meta[c]`
the `capture.json` of a capture with what its JVM showed of each root (its label,
and whether it was compiled once with a dump, without one, repeatedly, or
never); `report` the report file. Captures are `Identify` ... `Publish`;
analyses `BeginAnalysis`, `OpenFilter`, `WriteFilter`; summaries `ReadGraph`,
`HashGraph` (a filter file is read, and hashed later), `OpenSummary`,
`WriteSummary`; reports read one input after the other (`ReadTier`,
`ReadBytecode`) and then keep the file that is there or create and write it
(`Keep`, `OpenReport`, `WriteReport`). `StructuralInput`, `BytecodeInput`, `Row`,
`Attributed` and `Complete` are the operators the report is computed with.

## 3. Runs

| Run | Question | Result |
| --- | --- | --- |
| `timing` | two drivers time one case while the checkout becomes dirty, then wrong, and either may be killed; fair scheduling | correct, clean, no name collision; implements `EvidenceStore`; every driver ends, every failure is published |
| `batches` | hosts, policy overrides and `--version`; correctness-only, JFR, diagnostic and peer batches with all their failures; edits | exact; reuse happens exactly when everything matches; failures are retained; only dead drivers leave staging |
| `affinity` | is a diagnostic with pinned threads reused? | no: the stored key was changed after the lookup (finding) |
| `cache_drivers` | three drivers on the adapter cache, in turn or at once, killed anywhere | the adapter is the one the record names; in turn, only a removal that was cut off breaks later drivers |
| `host` | two processes with two host commands each, containers that fail or are killed | caches serve what was asked for, batches are complete and of the sources and images they had, prepared containers run offline, one image build mislabels one case of a batch at most |
| `engine` | one process of each kind, wrong results, lost lines, threads, a deoptimization or an event with a duration | what is accepted is complete, agreed, and measured in the windows it claims |
| `resolution` | every trace of up to five events of five targets | units are installed and are the callees; inventory and selection agree, and the inventory offers installed code or names the later compilation beside it |
| `labels` | are the units always the callees? | no: a label shared by an uncompiled callee (finding) |
| `graphs_serial` | capture, smoke capture with `--remeasure`, analysis, summary in any order, killed anywhere, product edits | the matrix is exact, evidence is never mixed, only `--remeasure` replaces valid evidence |
| `graphs_shared` | two smoke captures, an analysis and a summary at the same time | a valid matrix entry counts graphs of the capture it names, unless processes were in each other's way in one of two named manners |
| `graphs_torn` | does an analysis finish what a killed one left undone? | no: a cut-off filter file counts as finished (finding) |
| `campaign` | two captures for one place, one of them of the wrong tier, analyses, summaries and reports, some killed, edits | evidence and reports never change; reports are sound |

**Known limits that are not runs.**

* `AdapterIsExact` fails if drivers of different Java or dependency identities
  work on one entry at the same time (`Mixed`), and if an edit between hash and
  javac is undone (`Reverts`). A kill within `rmtree()` may leave an entry with
  stamp and main class but without its other classes, which later drivers take
  and fail on until it is deleted by hand (mp 757); records stay exact.
  `CacheRecovers` excepts exactly the entries to which this happened (`cut`).
* The policy is read (mp 1511) before the producer files are hashed (mp 1595): an
  edit between the two gives a record judged by a policy that the files it names
  do not contain.
* `MatrixIsExact` fails if an analysis or a summary works on a case while a
  capture replaces it (`Exclusive` with the captures only), or if two captures
  work on one case. `MixingNeedsAnOverlap` says that nothing else makes it fail.
* A timing with a `--jvm-option` that makes the compilers print may be accepted
  with samples missing (mp 1931 does not count them), or with `sample_calls` read
  as 1 if that line is lost. `AcceptedSamplesAreThePlan` excepts these runs from
  the count, which are not reference-eligible, and says that what they have left
  are samples of the plan in its order.
* The inventory lists a compilation at one tier beside a later one at the other
  (`InventoryIsLive` says which of the two is installed), also if the listed one
  was invalidated before the later one was made.
* Two containers that resolve one pom at once share a `.partial` file (mp 500);
  one may put the other's unfinished file in place. A replacement of a peer's
  class path that is killed between path and pom (mp 665) is served if the
  harness then returns to the old edition. `CachesServeExactly` excepts exactly
  these (`spoiled`). A preparation that meets the second case reports success
  and resolves nothing, so `prepared` leaves that edition out (`Prepares`).
* An image ID is looked up before the container is started by tag (benchmark.py
  225): one `image-build` in between mislabels one case, no more.
* A report, once written, stays: one that was INCOMPLETE or cut off by a kill
  needs another output directory (mg 3834). Two reports of one output at once
  may both find no file and write it one after the other.
* `graph_capture_key()` names no producer hashes (mg 267): evidence of an older
  harness is taken for the current one's. An edit undone before the final
  identification (mp 2048) is invisible. A JVM that hangs holds its driver for
  ever (mp 940).

**Bounds.** Two drivers: all interference in the code is between a process and
one other that acts between two of its steps, or left something behind. Two edits
of the product in `timing` give a state before, one in the middle and one after;
one edit elsewhere. One timestamp, so that two drivers of one case always
collide; `MaxSuffix` 3 is one more than two drivers can need. The cache has
three drivers (one leaves something, one builds on it, one meets the result), two
identities and three source versions. `host` has two processes with two commands
each, two poms, two editions, one image build, and batches of four containers
over two languages: a failure, a kill or a build can so come before, between and
after cases, and a command can meet what another left. `engine` has one warmup
and two steady samples of two calls: the first and last call of a sample, and the
edges between phases, differ. Its one event, of any start and end on the bounded
clock, lies before, in, across or after any window; events do not act on each
other. `resolution` has an entry, a primary unit, two
callees and a target that shares a label, and five events, enough for every
target to be compiled or for one to be compiled, invalidated and compiled again
behind the others. Graph evidence has three budgets (two that agree and one that
does not, on either side) and two signatures when serial, one budget when
everything runs at once. `campaign` has two roots that may share a label, and
begins where Tier 2 has been captured and summarized (`PreparedInit`), as
interference on Tier 2 would be that on Tier 1 again. Symmetry is used among
drivers, timestamps, processes and threads, only in runs without liveness
properties.

**Fairness.** `timing` assumes weak fairness of each driver's own steps: the
operating system schedules every process, and the JVMs and builds it waits for
end. The latter is an assumption: `run_logged()` (mp 939-952) sets no timeout.
Kills, edits and further class loading are not fair. Other runs state no fairness
and check safety only.

**Deadlock** is checked wherever processes may only end by themselves; a state in
which every process has ended stutters explicitly (`AllEnded`). `engine`,
`host`, `resolution` and `labels` switch the check off: the process exits, the
commands are used up, or the trace has reached its bound.

## 4. Proofs

All for any sets of processes, requests, targets and values and any bounds, from
the named assumptions of the modules: requests are well formed, bounds are
natural numbers, a missing value is no value, processes of different subcommands
are different, processes and call targets are finitely many, poms, editions and
the processor are different artifacts, and a label from which the object
identities have been taken has none to lose. TLC evaluates them in the runs. Each
property below is checked by a run first, and so is each inductive invariant.

The proofs have one outline: `Init => IInv`,
one lemma per action (or group of actions) for `IInv /\ [Next]_vars => IInv'`, and
`IInv => Property`. Where a step needs the result of a search of unknown length,
`LeastExists` (from the well-foundedness of `<` on `Nat`) gives induction over a
*set* of numbers: the least number that is not in the set leads to a
contradiction. The library's induction rules take an operator as a parameter,
which the provers cannot instantiate.

**MeasureDriver.**

* `TypeCorrect`; `Exactness` (`ValidRecordsAreExact`). The property is not
  inductive: a record is made valid long after its JVMs loaded anything.
  `BatchInv` adds that versions only move on, that `classes` never runs ahead of
  `product`, and that whatever a driver's JVMs have loaded lies between what the
  driver saw first and what there is now. `VerifyProduct` and `VerifyHarness`
  find both ends equal, so the interval is a point; from there to the
  publication the record does not change.
* `NoCollision` (`RenameNeverCollides`), with `NamesInv`: between `mkdir()` and
  the rename the staging directory, hence case and timestamp, belongs to one
  driver, and a published name contains them.
* `AcceptedCorrect`, `CleanReference`, `DeliveredSound`, with `SoundInv`: what a
  record has been through by the phase its driver has reached. That a broken
  product is caught needs both halves: the correctness run saw *some* class of
  the product that works, and by `Exactness` all classes are of one state.
* `FailuresRetained`, `OnlyDeadLeave`, `EvidenceStoreImplemented`, with
  `OutputInv`: what the output directory, its staging directories and the ended
  drivers say of each other. In the refinement a driver's `IdentifyProduct` is
  the abstract `Ask`, its `Rename` of a valid record `Measure`, its `Reuse`
  `Recall`, and every other step a stutter.
* `EquivalentReused` (`EquivalentIsReused`) assumes that no request asks for
  affinity diagnostics; with them the property does not hold (the `affinity`
  finding). `KeysInv`: the key of a record says under which affinity it was
  measured exactly as its case does, is never changed after `Stage`, and its case
  is in the published name. With `SoundInv` (a valid record was timed if its mode
  times) and `OutputInv` (its name is not skipped) an equivalent record passes
  every test of `find_existing()`.

**AdapterCache.**

* `TypeCorrect` and `Recovery` (`CacheRecovers`, an action property) hold without
  conditions. `AloneInv` says that `rmtree()` of a driver that is alone misses
  nothing, and that an entry with stamp and main class but without its other
  classes is being removed or is one whose removal was cut off. So a driver that
  is alone fails in `mkdir()` or `rename()` never, and for a missing class only
  with such an entry.
* `AdapterExact` assumes `~Reverts` and `~Mixed`. `ExactInv`: what is in an
  entry was compiled from its own version or a later one and carries the stamp's
  identity; what another identity left is still to be deleted or gone. The
  driver's last hash equal to its first closes the interval.

**GraphEvidence.**

* With no condition on who runs when: `TypeCorrect`, `FirstPair`
  (`StopsAtFirstPair`) and `MixingOverlaps` (`MixingNeedsAnOverlap`). `RunsInv`: up
  to the end a capture has not met its pair; appending an outcome can only make the
  last two agree. `SettledInv`: a directory or a reader names only captures that
  have written their `capture.json`, after which it does not change. `MatrixInv`:
  as long as nobody is or was in another's way (`Apart`), files lie beside those of
  their own capture, and what a reader holds or has counted is of the capture it
  entered at. What was counted before processes met stays counted.
* If captures take turns (`Captures \subseteq Exclusive`): `OwnEvidence`,
  `OnlyRemeasure`. `OwnInv`: once its staging directory is cleared, what is in it
  is the capture's own, and without `--remeasure` there is nothing to replace.
* If everybody takes turns (`Procs \subseteq Exclusive`): `ExactMatrix`
  (`MatrixIsExact`), since then nobody is ever in another's way (`Alone`).

**CompilationTrace.**

* `TypeCorrect`, and `FinalIsInstalled`: while a trace shows no
  problem, the compilation taken for a target's final one, unless an
  invalidation follows it, is the code that runs, with the very tree that was
  printed for it. `InventoryLive` (`InventoryIsLive`): what the inventory offers is
  that code with its tree if it is the final compilation, and is listed beside the
  installed code of the other tier if it is not. `TraceInv` needs that no inlining block is left in front of what
  comes: a done or failed compilation takes it away.
* `UnitsInstalled` (`StableUnitsAreInstalled`) and `UnitsExact`
  (`UnitsAreCallees`). `Units` is the last of as many layers of the search as there
  are call targets. `LayersOfUnits` shows that the recursion has a solution;
  `UnitsReached` that every layer consists of compiled targets; `UnitsLeast` that
  no set closed under callees is missed; `UnitsClosed` that there are enough
  layers: each one either is closed or has more targets than its number, and
  there are not more targets than all. `CalleesAreTrue` takes the step from labels
  to targets: no label is that of two compiled targets, and what was called was
  compiled, so a label has the called target and no other. `Ran`: a target that
  was compiled has code to be called from.
* `InventorySelects` (`InventoryAgrees`): a root whose name without identities is
  its own is found under that name and alone, since taking the identities from
  such a name changes nothing.

**MeasurementEngine.** `EngineInvariant` is the inductive invariant `EngineInv`,
one part per concern, and the other theorems follow from it.

* `AcceptedCalls` (`CallsInv`: calls made are those of the samples before this one
  and what is done of this one, and all returned one result; `ResultsInv`: a
  result line is printed at the end and says that one).
* `AcceptedSamples` (`TimingInv`, `DiagnosticInv`: the output where no compiler
  prints, or the file of a diagnostic, has one sample line per sample behind, in
  order). `LostInv`: whatever compilers print into, a line that is left is where
  the engine printed it, so the samples of any accepted run are some of the plan's,
  in its order.
* `RecordingSteady` (`RecordingInv`: a recording that has begun saw the steady
  samples so far), `EventsInWindows` (`TimelineInv`: windows follow each other, and
  an event lasted into a sample's window, ended by its start, or began after its
  end, so that it counts in the windows it met up to the tick of the clock in
  which both happen), `AffinityProved` (`AffinityInv`: at the end
  whoever was in the first snapshot and still lives is in the second one too, and
  has its mask).

**RuntimeCaches and HostBatch.** `BatchInvariant` (`BatchOK`) has five parts.

* `CachesInv`, for `ServedExactly` (`CachesServeExactly`): where each container is
  among its stages; for a pom that no two containers resolved at once, that the
  `.partial` file is that of the one container that writes it and not the file in
  place; for the peer, that path and pom belong together unless somebody is about
  to replace the pom or was killed before; that an instrument's entry is named
  after its source. Sources change only while nobody is at work, so what a
  container has asked for is still what they are.
* `RoundsInv` and `HistoryInv`, for `BatchComplete`: a batch has one record for each
  round behind it, each of the round's case; the sources of a command at work are
  those with which it began; the image ID it passes on is one the tag has named
  since; and a record that a container is going to reuse is of these.
* `ImagesInv`, for `MislabelsBounded`: a tag never returns to an image that it has
  left (section 5), so the case whose image was overtaken and each one before it needed a
  build of its own.
* `PreparedInv`, for `OfflineRuns` (`PreparedRunsOffline`, an action property): what
  the stages behind a preparation's container provide stays in the repository
  until jars are lost, and then nothing counts as prepared any more.

**ColdCampaign.**

* `TypeCorrect`, `ReportSound` with no condition on who runs when. `PlaceInv`:
  who published has ended, so its record does not change. `ReportInv`: what a
  report has read speaks of such captures, so a report is always what it would
  be if it were computed now (`report = Document(report.input)`), although it
  was put together from reads at different times.
* `EvidencePreserved` assumes that reports of one output take turns; `TurnInv`:
  the file a report writes is the one it created.

**Only model-checked:** liveness (`EveryDriverEnds`, `FailureIsPublished`), since
neither fairness nor ENABLED is in the provers' reach. The three properties of
the violation runs do not hold: for two of them the theorem above has the
condition under which they do (`EquivalentReused`, `UnitsExact`), and
`AnalysisIsComplete` is what a killed analysis breaks.

## 5. Abstractions

* Sources are version numbers and hashes are injective: equal hashes mean equal
  sources. In `MeasureDriver` an edit never restores an earlier state: an edit
  undone between the two identifications is invisible to the code too.
* `mvn compile` and the hash of the class tree are one step each; JVMs load
  through a set of versions, not class by class.
* `host` stands for image, Java, CPU and machine, `tuned` for policy overrides
  and extra JVM options. A run's result is right, or wrong if the product is.
* `retain_runs()` and the deletion of an old staging directory are one step each. Only the directories of one case are modelled;
  cases share none. Captures for Ruby, which have no product, and
  `--allow-dirty-product` of captures are left out. The version in
  `GraphEvidence` is that of the product: `graph_capture_key()` has no other.
* The clock gives a timestamp that others may have been given too; with
  microseconds that is rare but nothing excludes it.
* `HostBatch`: an image build gives a new ID. One that finds everything in
  Podman's cache may give the tag an ID that it had; then a batch could reuse what
  several other batches have mislabelled. `EachBuildMislabelsOne` is said of builds
  that give new IDs (`ImagesInv` rests on it). `--remeasure`, with which
  a container looks for no record, is an option of `MeasureDriver` only.
* `RuntimeCaches`: an artifact stands for all jars of a class path. The peer is
  JavaScript; an edition stands for all that decides a peer's pom and the
  instrument's source.
* `MeasurementEngine`: numbers printed with samples, and the statistics computed
  from them, are left out. A line is whole or broken: one that a compiler's output
  is printed into is not read as another line of the engine. Threads have two
  roles. The JVM's events are one moment or one interval. Times are ticks of a
  clock that moves at every boundary and may stand still in between.
* `CompilationTrace`: line formats are left out; a record is read as it was
  printed, or lost for a reason that becomes a problem. Reading stops mattering at
  the first problem, from which on nothing is resolved.
* `ColdCampaign`: product and harness are one version, edits are not undone, and
  the case is of the product's own language. Staging directories have names of
  their own (`mkdtemp`) and are left out, with analyses that meet one. A report
  reads one input in one step; a mixture would be INVALID by its hashes. Of two
  summaries that write at once the last write wins. The test whether a report is
  there (mg 3834) and its creation are one step (`OpenReport`): in the run and in
  `EvidencePreserved` reports take turns, so that nothing comes between them;
  without turns it would not hold (section 3).

## 6. Not modelled

* `measure_protos.py`: `--verify-producer` (a check that changes nothing), the
  printing of records.
* `measure_graphs.py` and `graph_evidence.py`: the comparison of rungs in the
  matrix, the `verify` subcommand, captures of one root, peers' producer
  identity, option lists, the parsers of expansion trees and histograms, the
  attribution of bytecode sizes. They read finished evidence and keep no state.
* `measure_diagnostics.py`, `jit_timeline.py`, `compiler_trace.py`: the tables
  they print. Whether they fail is an action of `MeasureDriver`.
* `benchmark.py`: argument parsing, installation and the analysis commands, each
  one call.
* Surface adapters: one sequential call each into a language. The instrument runs
  inside Truffle. The IGV analyzer is a container that reads one dump and prints
  its graphs; it is a step that gives the dump's content or fails.
* Catalog, policies, cases, build files, tests, results: data. `MeasureDriver`
  has their version and the policy that each version resolves to.

What would come next: `GraphEvidence` and `ColdCampaign` for several cases with
one shared matrix or report; `compare_rung()` against a reference definition; a
refinement of an abstract cache by `RuntimeCaches` and `AdapterCache`.
