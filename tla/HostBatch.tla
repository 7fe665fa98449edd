----------------------------- MODULE HostBatch -----------------------------
(***************************************************************************)
(* The host commands of benchmark.py: each resolves the tag of an image,   *)
(* starts one container after the other with podman and stops at the first *)
(* nonzero exit code.  Measurement containers have no network; what they   *)
(* need must have been prepared by containers that have one.  Commands run *)
(* next to each other and share the images and the caches.                 *)
(***************************************************************************)
EXTENDS RuntimeCaches, FiniteSets

CONSTANTS Requests,     \* what the commands may be asked for
          Images,       \* the tags: one for Ruby, one for the other languages
          MaxBuilds,    \* bound: image builds
          MaxCommands   \* bound: commands of one process, one after the other

Langs    == {"protos", "js", "ruby"}
CommandNames == {"measure", "peer-prepare", "product-prepare", "bytecode-prepare",
                 "bytecode-capture", "graphs-capture", "image-build"}

ASSUME RequestsAssumption ==
    \A r \in Requests : /\ r.command \in CommandNames
                        /\ r.langs \in Seq(Langs)
                        /\ r.works \in Seq({r.works[i] : i \in DOMAIN r.works})
ASSUME ImagesAssumption == {"main", "ruby"} \subseteq Images
ASSUME BoundsAssumption == MaxBuilds \in Nat /\ MaxCommands \in Nat \ {0}

VARIABLES tag,       \* the image ID that each tag names, 0 if there is none
          builds,    \* image builds so far; each gives a new ID
          seen,      \* history: what each command has had before it: the sources,
                     \* and the image IDs that each tag has named
          req,       \* the command of each process
          at,        \* where it is in its loop over the containers
          hpc,       \* where it is within one round
          claimed,   \* the image ID it passes to the container
          ran,       \* the image ID the container was created from
          found,     \* the record that the container is going to reuse, or None
          served,    \* the records its containers have delivered
          code,      \* its exit code
          commands,  \* commands the process has begun
          records,   \* the valid records in the output directory
          prepared   \* history: what a preparation has reported as ready

host    == <<req, at, hpc, claimed, ran, found, served, code, commands>>
results == <<records, prepared>>
images  == <<tag, builds, seen>>
vars    == <<disk, job, images, host, results>>

ImageOf(lang) == IF lang = "ruby" THEN "ruby" ELSE "main"

(* The caches a JVM of the language needs; Ruby's are part of its image. *)
RuntimeOf(lang) == CASE lang = "protos" -> <<"product">>
                     [] lang = "js"     -> <<"peer">>
                     [] lang = "ruby"   -> <<>>

Container(lang, stages, net) ==
    [lang |-> lang, case |-> <<>>, image |-> ImageOf(lang), stages |-> stages,
     net |-> net, prepare |-> net]

(* run_measurement(): for each workload, for each language, one container. *)
MeasurementPlan(r) ==
    [i \in 1..(Len(r.works) * Len(r.langs)) |->
        LET lang == r.langs[((i - 1) % Len(r.langs)) + 1]
            work == r.works[((i - 1) \div Len(r.langs)) + 1] IN
        [Container(lang, RuntimeOf(lang), FALSE) EXCEPT !.case = <<work, lang>>]]

PerLanguage(r, stages(_), net(_)) ==
    [i \in DOMAIN r.langs |-> Container(r.langs[i], stages(r.langs[i]), net(r.langs[i]))]

Online(lang)  == lang # "ruby"
Offline(lang) == FALSE

(* run_peer_prepare(): Ruby is prepared without a network. *)
PeerPreparePlan(r) == PerLanguage(r, RuntimeOf, Online)

ProductPreparePlan == <<Container("protos", <<"product">>, TRUE)>>

(* run_bytecode_prepare(): fetch, then check without a network. *)
BytecodePreparePlan ==
    <<Container("js", <<"processor">>, TRUE), Container("js", <<"processor">>, FALSE)>>

(* run_bytecode(), run_cold() and run_graphs() pass no image ID. *)
DiagnosticStages(lang) ==
    IF lang = "ruby" THEN <<>> ELSE Append(RuntimeOf(lang), "instrument")
DiagnosticPlan(r) == PerLanguage(r, DiagnosticStages, Offline)
GraphsPlan(r)     == PerLanguage(r, RuntimeOf, Offline)

Plan(r) ==
    CASE r.command = "measure"          -> MeasurementPlan(r)
      [] r.command = "peer-prepare"     -> PeerPreparePlan(r)
      [] r.command = "product-prepare"  -> ProductPreparePlan
      [] r.command = "bytecode-prepare" -> BytecodePreparePlan
      [] r.command = "bytecode-capture" -> DiagnosticPlan(r)
      [] r.command = "graphs-capture"   -> GraphsPlan(r)
      [] r.command = "image-build"      -> <<>>

(* What a command reports as prepared when it returns 0.  As for
   CachesServeExactly, a peer's class path is excepted whose replacement was
   killed before the pom's, if the harness is back at the old edition. *)
Prepares(r) ==
    CASE r.command = "peer-prepare"     -> {edition : i \in {j \in DOMAIN r.langs : r.langs[j] = "js"}} \ spoiled
      [] r.command = "product-prepare"  -> {pom}
      [] r.command = "bytecode-prepare" -> {Processor}
      [] OTHER                          -> {}

Current(c)  == Plan(req[c])[at[c]]
SourceOf(k) == CASE k.lang = "protos" -> pom
                 [] k.lang = "js"     -> edition
                 [] OTHER             -> None
SourceSeen(c, k) == CASE k.lang = "protos" -> seen[c].pom
                      [] k.lang = "js"     -> seen[c].edition
                      [] OTHER             -> None
Measures(c) == req[c].command = "measure"

Ids        == 0..(1 + MaxBuilds)
RecordType == [case : {<<w, l>> : w \in UNION {{r.works[i] : i \in DOMAIN r.works} : r \in Requests},
                                  l \in Langs},
               of : Poms \cup Editions \cup {None}, claimed : Ids, ran : Ids]

SeenType   == [pom : Poms, edition : Editions, ids : [Images -> SUBSET Ids]]

(* The values of every variable; at most one container per command. *)
TypeOK ==
    /\ CachesTypeOK
    /\ tag \in [Images -> Ids] /\ builds \in 0..MaxBuilds
    /\ seen \in [Procs -> SeenType]
    /\ req \in [Procs -> Requests]
    /\ at \in [Procs -> Nat] /\ \A c \in Procs : at[c] \in 1..(Len(Plan(req[c])) + 1)
    /\ hpc \in [Procs -> {"next", "start", "wait", "ended"}]
    /\ claimed \in [Procs -> Ids] /\ ran \in [Procs -> Ids]
    /\ found \in [Procs -> RecordType \cup {None}]
    /\ served \in [Procs -> Seq(RecordType)]
    /\ code \in [Procs -> 0..2]
    /\ commands \in [Procs -> 1..MaxCommands]
    /\ records \subseteq RecordType
    /\ prepared \subseteq Artifacts
    /\ \A c \in Procs : job[c] # NoJob => hpc[c] = "wait"

Beginning == [pom |-> pom, edition |-> edition, ids |-> [i \in Images |-> {tag[i]}]]

Init ==
    /\ CachesInit
    /\ tag \in [Images -> {0, 1}] /\ builds = 0
    /\ seen = [c \in Procs |-> Beginning]
    /\ req \in [Procs -> Requests]
    /\ at = [c \in Procs |-> 1]
    /\ hpc = [c \in Procs |-> "next"]
    /\ claimed = [c \in Procs |-> 0] /\ ran = [c \in Procs |-> 0]
    /\ found = [c \in Procs |-> None]
    /\ served = [c \in Procs |-> <<>>]
    /\ code = [c \in Procs |-> 0]
    /\ commands = [c \in Procs |-> 1]
    /\ records = {} /\ prepared = {}

-----------------------------------------------------------------------------
(* Mutant: the image is identified once, before the loop. *)
InspectOnce(c) ==
    LET id == tag[Current(c).image] IN
    /\ hpc[c] = "next" /\ at[c] <= Len(Plan(req[c]))
    /\ id # 0
    /\ claimed' = [claimed EXCEPT ![c] = IF ~Measures(c) THEN 0
                                        ELSE IF at[c] = 1 THEN id ELSE claimed[c]]
    /\ hpc' = [hpc EXCEPT ![c] = "start"]
    /\ UNCHANGED <<disk, job, images, req, at, ran, found, served, code, commands, results>>

(* require_image() and image_identity() look the tag up ... *)
Inspect(c) ==
    LET id == tag[Current(c).image] IN
    /\ hpc[c] = "next" /\ at[c] <= Len(Plan(req[c]))
    /\ id # 0
    /\ claimed' = [claimed EXCEPT ![c] = IF Measures(c) THEN id ELSE 0]
    /\ hpc' = [hpc EXCEPT ![c] = "start"]
    /\ UNCHANGED <<disk, job, images, req, at, ran, found, served, code, commands, results>>

ImageMissing(c) ==
    /\ hpc[c] = "next" /\ at[c] <= Len(Plan(req[c]))
    /\ tag[Current(c).image] = 0
    /\ hpc' = [hpc EXCEPT ![c] = "ended"]
    /\ code' = [code EXCEPT ![c] = 2]
    /\ UNCHANGED <<disk, job, images, req, at, claimed, ran, found, served, commands, results>>

(* Mutant: every record of the case is taken for equivalent. *)
EquivalentCase(c, k) == {r \in records : r.case = k.case}

(* The records that the driver in the container takes for equivalent. *)
Equivalent(c, k) ==
    {r \in records : r.case = k.case /\ r.of = SourceOf(k) /\ r.claimed = claimed[c]}

(* ... and run_container() lets podman look it up again.  The driver in the
   container looks for an equivalent record before it prepares anything. *)
StartContainer(c) ==
    LET k == Current(c) IN
    /\ hpc[c] = "start"
    /\ ran' = [ran EXCEPT ![c] = tag[k.image]]
    /\ \E r \in IF Equivalent(c, k) = {} THEN {None} ELSE Equivalent(c, k) :
           found' = [found EXCEPT ![c] = r]
    /\ job' = [job EXCEPT ![c] =
                  NewJob(IF Equivalent(c, k) = {} THEN k.stages ELSE <<>>, k.net, k.prepare)]
    /\ hpc' = [hpc EXCEPT ![c] = "wait"]
    /\ UNCHANGED <<disk, images, req, at, claimed, served, code, commands, results>>

(* A measurement's container reuses the record that it has found, or leaves one
   of its own, whatever others have left meanwhile. *)
Measured(c) == [case |-> Current(c).case, of |-> SourceOf(Current(c)),
                claimed |-> claimed[c], ran |-> ran[c]]
Delivered(c) == IF found[c] = None THEN Measured(c) ELSE found[c]

Deliver(c) ==
    IF Measures(c)
    THEN /\ records' = records \cup {Delivered(c)}
         /\ served' = [served EXCEPT ![c] = Append(@, Delivered(c))]
    ELSE UNCHANGED <<records, served>>

EndContainer(c) ==
    job' = [job EXCEPT ![c] = NoJob] /\ found' = [found EXCEPT ![c] = None]

NextContainer(c) ==
    /\ hpc[c] = "wait" /\ job[c].pc = "done"
    /\ Deliver(c)
    /\ at' = [at EXCEPT ![c] = @ + 1]
    /\ EndContainer(c)
    /\ hpc' = [hpc EXCEPT ![c] = "next"]
    /\ UNCHANGED <<disk, images, req, claimed, ran, code, commands, prepared>>

(* Mutant: a failed container is skipped. *)
SkipFailure(c) ==
    /\ hpc[c] = "wait" /\ job[c].pc \in Ended \ {"done"}
    /\ EndContainer(c)
    /\ hpc' = [hpc EXCEPT ![c] = "next"]
    /\ at' = [at EXCEPT ![c] = @ + 1]
    /\ UNCHANGED <<disk, images, req, claimed, ran, served, code, commands, results>>

(* Mutant: the loop ends, and the command returns 0. *)
StopWithZero(c) ==
    /\ hpc[c] = "wait" /\ job[c].pc \in Ended \ {"done"}
    /\ EndContainer(c)
    /\ hpc' = [hpc EXCEPT ![c] = "ended"]
    /\ prepared' = prepared \cup Prepares(req[c])
    /\ UNCHANGED <<disk, images, req, at, claimed, ran, served, code, commands, records>>

(* Mutant: a container that has failed is not removed. *)
StopKeepsContainer(c) ==
    /\ hpc[c] = "wait" /\ job[c].pc \in Ended \ {"done"}
    /\ hpc' = [hpc EXCEPT ![c] = "ended"]
    /\ code' = [code EXCEPT ![c] = 1]
    /\ UNCHANGED <<disk, job, images, req, at, claimed, ran, found, served, commands, results>>

StopAtFailure(c) ==
    /\ hpc[c] = "wait" /\ job[c].pc \in Ended \ {"done"}
    /\ EndContainer(c)
    /\ hpc' = [hpc EXCEPT ![c] = "ended"]
    /\ code' = [code EXCEPT ![c] = 1]
    /\ UNCHANGED <<disk, images, req, at, claimed, ran, served, commands, results>>

Return(c) ==
    /\ hpc[c] = "next" /\ at[c] > Len(Plan(req[c])) /\ req[c].command # "image-build"
    /\ hpc' = [hpc EXCEPT ![c] = "ended"]
    /\ prepared' = prepared \cup Prepares(req[c])
    /\ UNCHANGED <<disk, job, images, req, at, claimed, ran, found, served, code, commands, records>>

(* image-build moves the tag to a new image, or fails. *)
Build(c) ==
    /\ hpc[c] = "next" /\ req[c].command = "image-build"
    /\ builds < MaxBuilds
    /\ builds' = builds + 1
    /\ \E i \in Images :
          /\ tag' = [tag EXCEPT ![i] = builds + 2]
          /\ seen' = [d \in Procs |-> [seen[d] EXCEPT !.ids[i] = @ \cup {builds + 2}]]
    /\ hpc' = [hpc EXCEPT ![c] = "ended"]
    /\ UNCHANGED <<disk, job, req, at, claimed, ran, found, served, code, commands, results>>

BuildFails(c) ==
    /\ hpc[c] = "next" /\ req[c].command = "image-build"
    /\ hpc' = [hpc EXCEPT ![c] = "ended"]
    /\ code' = [code EXCEPT ![c] = 1]
    /\ UNCHANGED <<disk, job, images, req, at, claimed, ran, found, served, commands, results>>

(* The user calls the next command, the same or another. *)
Again(c) ==
    /\ hpc[c] = "ended" /\ commands[c] < MaxCommands
    /\ \E r \in Requests : req' = [req EXCEPT ![c] = r]
    /\ commands' = [commands EXCEPT ![c] = @ + 1]
    /\ seen' = [seen EXCEPT ![c] = Beginning]
    /\ at' = [at EXCEPT ![c] = 1]
    /\ hpc' = [hpc EXCEPT ![c] = "next"]
    /\ claimed' = [claimed EXCEPT ![c] = 0] /\ ran' = [ran EXCEPT ![c] = 0]
    /\ found' = found
    /\ served' = [served EXCEPT ![c] = <<>>]
    /\ code' = [code EXCEPT ![c] = 0]
    /\ UNCHANGED <<disk, job, tag, builds, results>>

Cached(c) ==
    /\ ContainerStep(c)
    /\ UNCHANGED <<images, host, results>>

(* No command is at work while the sources change or jars get lost. *)
Environment ==
    /\ \A c \in Procs : hpc[c] = "ended"
    /\ EditPom \/ EditHarness \/ LoseJars
    /\ prepared' = IF m2' = m2 THEN prepared ELSE {}
    /\ UNCHANGED <<images, host, records>>

Next ==
    \/ \E c \in Procs :
          \/ Inspect(c) \/ ImageMissing(c) \/ StartContainer(c) \/ Cached(c)
          \/ NextContainer(c) \/ StopAtFailure(c) \/ Return(c)
          \/ Build(c) \/ BuildFails(c) \/ Again(c)
    \/ Environment

Spec == Init /\ [][Next]_vars

-----------------------------------------------------------------------------
(* A batch that returns 0 has a valid record of each selected case, in the
   order of its loop, and every record that it got is of the case, of the sources
   as they were when the batch began and of an image ID that the case's tag has
   named since then - though containers fail, are killed or reuse records that
   other batches leave at the same time (the loop of run_measurement()). *)
Serves(c, r, k) ==
    /\ r \in records
    /\ r.case = k.case
    /\ r.of = SourceSeen(c, k)
    /\ r.claimed \in seen[c].ids[k.image] \ {0}
BatchIsComplete ==
    \A c \in Procs :
        /\ \A i \in DOMAIN served[c] : Serves(c, served[c][i], Plan(req[c])[i])
        /\ Measures(c) /\ hpc[c] = "ended" /\ code[c] = 0 =>
              Len(served[c]) = Len(Plan(req[c]))

(* The image ID of a record is looked up by tag before podman looks up the tag
   again.  An image build in between gives the record the ID of an image that
   did not run; but each build does so to one case of a batch at most. *)
EachBuildMislabelsOne ==
    \A c \in Procs :
        Cardinality({i \in DOMAIN served[c] : served[c][i].claimed # served[c][i].ran}) <= builds

(* What a preparation command has reported as ready is there for the containers
   without a network: none of them is refused because of it, whatever was killed
   or prepared since (run_product_prepare(), run_peer_prepare() and
   run_bytecode_prepare()). *)
PreparedRunsOffline ==
    [][\A c \in Procs :
          job[c].pc # "unprepared" /\ job'[c].pc = "unprepared" =>
              (IF Head(job[c].stages) \in {"processor", "instrument"} THEN Processor
               ELSE job'[c].key) \notin prepared]_vars

-----------------------------------------------------------------------------
(* Why the properties hold: the rest of the inductive invariant. *)

(* Where a command is, and what it has to show for the rounds it has done. *)
RoundInv(c) ==
    /\ hpc[c] \in {"start", "wait"} => at[c] <= Len(Plan(req[c]))
    /\ IF Measures(c)
       THEN /\ Len(served[c]) = at[c] - 1
            /\ hpc[c] = "ended" /\ code[c] = 0 => at[c] > Len(Plan(req[c]))
       ELSE served[c] = <<>>
    /\ \A i \in DOMAIN served[c] : Serves(c, served[c][i], Plan(req[c])[i])
RoundsInv == \A c \in Procs : RoundInv(c)

(* The sources stay as they were when a command at work began; its image ID is
   one that the tag has named since, and the record to be reused is of both. *)
SeenInv(c) ==
    /\ hpc[c] # "ended" => seen[c].pom = pom /\ seen[c].edition = edition
    /\ \A i \in Images : tag[i] \in seen[c].ids[i]
    /\ Measures(c) /\ hpc[c] \in {"start", "wait"} =>
          claimed[c] \in seen[c].ids[Current(c).image] \ {0}
FoundInv(c) ==
    Measures(c) /\ hpc[c] = "wait" /\ found[c] # None => found[c] \in Equivalent(c, Current(c))
HistoryInv == \A c \in Procs : SeenInv(c) /\ FoundInv(c)

(* The cases of a batch that ran in another image than the record says, and the
   case at work whose image the tag has left: each needs a build of its own. *)
Mislabelled(c) == {i \in DOMAIN served[c] : served[c][i].claimed # served[c][i].ran}
Overtaken(c)   == /\ Measures(c) /\ hpc[c] \in {"start", "wait"}
                  /\ tag[Current(c).image] # claimed[c]
LabelInv(c) ==
    /\ claimed[c] <= builds + 1
    /\ Measures(c) /\ hpc[c] = "wait" /\ ran[c] # claimed[c] => Overtaken(c)
    /\ Cardinality(Mislabelled(c)) <= builds
    /\ Overtaken(c) => Cardinality(Mislabelled(c)) < builds

(* A tag never returns to an image that it has left. *)
ImagesInv ==
    /\ \A i \in Images : tag[i] <= builds + 1
    /\ \A c \in Procs : LabelInv(c)
    /\ \A r \in records :
          /\ r.claimed <= builds + 1
          /\ r.claimed # r.ran => tag[ImageOf(r.case[2])] # r.claimed

(* What a stage that a container has behind it has left in the repository. *)
Provided(stage) ==
    CASE stage = "product"    -> pom \in m2
      [] stage = "peer"       -> edition \in m2 \cup spoiled
      [] stage = "processor"  -> Processor \in m2
      [] stage = "instrument" -> TRUE
StagesOf(stages) == {stages[i] : i \in DOMAIN stages}
ProgressInv(c) ==
    /\ hpc[c] # "ended" => \A i \in 1..(at[c] - 1) :
          \A s \in StagesOf(Plan(req[c])[i].stages) : Provided(s)
    /\ hpc[c] = "wait" =>
          \A s \in StagesOf(Current(c).stages) \ StagesOf(job[c].stages) : Provided(s)
PreparedInv ==
    /\ prepared \subseteq m2
    /\ \A c \in Procs : ~Measures(c) => ProgressInv(c)

BatchInv == CachesInv /\ RoundsInv /\ HistoryInv /\ ImagesInv /\ PreparedInv
=============================================================================
