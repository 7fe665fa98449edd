--------------------------- MODULE RuntimeCaches ---------------------------
(***************************************************************************)
(* The caches that a container fills or reads before it may start a JVM:   *)
(* the Maven repository, the dependency class path of a Protos pom.xml     *)
(* (build_product), the class path of a peer language (peer_classpath) and *)
(* the compiled bytecode-size instrument (compile_instrument).  They live  *)
(* in the repository's .work directory, which every container mounts, so   *)
(* containers of different commands work on them at the same time.         *)
(*                                                                         *)
(* A container goes through a sequence of stages, one per cache it needs.  *)
(* An edition stands for everything in the harness that decides a peer's   *)
(* pom.xml and the instrument's source; a pom for the product's pom.xml.   *)
(* Both are changed only while no container runs: what a change under a    *)
(* running driver does is the subject of MeasureDriver and AdapterCache.   *)
(***************************************************************************)
EXTENDS Sequences, Naturals, FiniteSets

CONSTANTS Procs,      \* host commands, each with at most one container
          Poms,       \* versions of the product's pom.xml
          Editions,   \* versions of the harness
          Processor,  \* the annotation processor's jar
          Cut,        \* the content of a file that is not written to its end
          None

ASSUME ProcsAssumption == IsFiniteSet(Procs)

(* The artifacts are told apart, and from what stands for none of them. *)
ASSUME ArtifactsAssumption ==
    /\ Poms \cap Editions = {} /\ Processor \notin Poms \cup Editions
    /\ None \notin Poms \cup Editions \cup {Processor}
    /\ Cut \notin Poms \cup Editions \cup {Processor}
    /\ None \notin Nat

VARIABLES pom,       \* the product's pom.xml as it is now
          edition,   \* the harness as it is now
          m2,        \* what the Maven repository holds
          partial,   \* <pom hash>.partial: the file with that name
          pathFile,  \* <pom hash>.txt: the file with that name
          content,   \* what is in each file
          peerPom,   \* peer-classpath/<version>/pom.xml
          peerPath,  \* peer-classpath/<version>/classpath.txt
          entry,     \* bytecode-size-instrument/<cache key>
          job,       \* the container of each command
          spoiled    \* history: poms that two containers resolved at once, and the
                     \* peer's edition if a replacement was killed half-way

sources == <<pom, edition>>
paths   == <<partial, pathFile, content>>
peer    == <<peerPom, peerPath>>
disk    == <<sources, m2, paths, peer, entry, spoiled>>

(* Enough files for the two names and for those that containers hold open. *)
Files     == 1..(Cardinality(Procs) + 1)
Artifacts == Poms \cup Editions \cup {Processor}
Stages    == {"product", "peer", "processor", "instrument"}
(* The stages that a container can have before it, and the rest of each. *)
StageSeqs == {<<>>, <<"product">>, <<"peer">>, <<"processor">>, <<"instrument">>,
              <<"product", "instrument">>, <<"peer", "instrument">>}
Ended     == {"done", "failed", "unprepared", "incomplete", "killed"}
Busy      == {"stage", "lookup", "resolve", "write", "replace", "read",
              "path", "mvn", "putPath", "putPom", "javac", "rename", "run"}

(* No container, and one that is to go through stages with or without a
   network; "prepare" containers check what they prepared. *)
NoJob == [stages |-> <<>>, net |-> FALSE, prepare |-> FALSE, since |-> None,
          pc |-> "none", key |-> None, file |-> None, changed |-> FALSE,
          built |-> None, got |-> None]
NewJob(stages, net, prepare) ==
    [NoJob EXCEPT !.stages = stages, !.net = net, !.prepare = prepare,
                  !.since = edition, !.pc = IF stages = <<>> THEN "run" ELSE "stage"]

JobType == [stages : StageSeqs, net : BOOLEAN, prepare : BOOLEAN,
            since : Editions \cup {None}, pc : {"none"} \cup Busy \cup Ended,
            key : Poms \cup Editions \cup {None}, file : Files \cup {None},
            changed : BOOLEAN, built : Editions \cup {None},
            got : [stage : Stages, of : Artifacts, is : Artifacts \cup {Cut}]
                      \cup {None}]

CachesTypeOK ==
    /\ pom \in Poms /\ edition \in Editions
    /\ m2 \subseteq Artifacts
    /\ partial \in [Poms -> Files \cup {None}]
    /\ pathFile \in [Poms -> Files \cup {None}]
    /\ content \in [Poms -> [Files -> Poms \cup {Cut}]]
    /\ peerPom \in Editions \cup {None} /\ peerPath \in Editions \cup {None}
    /\ entry \in [Editions -> Editions \cup {Cut, None}]
    /\ job \in [Procs -> JobType]
    /\ spoiled \subseteq Poms \cup Editions

CachesInit ==
    /\ pom \in Poms /\ edition \in Editions
    /\ m2 = {}
    /\ partial = [p \in Poms |-> None] /\ pathFile = [p \in Poms |-> None]
    /\ content = [p \in Poms |-> [f \in Files |-> Cut]]
    /\ peerPom = None /\ peerPath = None
    /\ entry = [e \in Editions |-> None]
    /\ job = [c \in Procs |-> NoJob]
    /\ spoiled = {}

At(c, stage, pc) ==
    /\ job[c].pc = pc
    /\ Head(job[c].stages) = stage
Goto(c, pc)      == job' = [job EXCEPT ![c].pc = pc]
GotoKey(c, pc, k) == job' = [job EXCEPT ![c].pc = pc, ![c].key = k]

(* The stage is over, with what it hands to the JVM: `is`, asked for as `of`. *)
Finish(c, of, is) ==
    LET rest == Tail(job[c].stages) IN
    job' = [job EXCEPT ![c].got = [stage |-> Head(job[c].stages), of |-> of, is |-> is],
                       ![c].stages = rest,
                       ![c].pc = IF rest = <<>> THEN "run" ELSE "stage"]

(* Maven finds an artifact in the repository or, with a network, outside it. *)
CanResolve(c, a) == job[c].net \/ a \in m2
Download(c, a)   == m2' = m2 \cup {a}

-----------------------------------------------------------------------------
(* build_product(): the classes, and the class path of the pom's hash. *)

MvnCompile(c) ==
    /\ At(c, "product", "stage")
    /\ CanResolve(c, pom)
    /\ Download(c, pom) /\ Goto(c, "lookup")
    /\ UNCHANGED <<sources, paths, peer, entry, spoiled>>

ProductUnprepared(c) ==
    /\ At(c, "product", "stage")
    /\ ~CanResolve(c, pom)
    /\ GotoKey(c, "unprepared", pom)
    /\ UNCHANGED disk

LookUpPath(c) ==
    /\ At(c, "product", "lookup")
    /\ GotoKey(c, IF pathFile[pom] # None THEN "read" ELSE "resolve", pom)
    /\ UNCHANGED disk

(* The other containers that have the .partial file open or not yet renamed. *)
Resolving(c, p) ==
    {d \in Procs \ {c} : job[d].key = p /\ job[d].pc \in {"write", "replace"}}

NewFile(p) ==
    CHOOSE f \in Files : f # pathFile[p] /\ \A d \in Procs : job[d].file # f

(* Maven opens the .partial file, truncating one that is there ... *)
OpenPartial(c) ==
    LET p    == job[c].key
        file == IF partial[p] = None THEN NewFile(p) ELSE partial[p] IN
    /\ At(c, "product", "resolve")
    /\ partial' = [partial EXCEPT ![p] = file]
    /\ content' = [content EXCEPT ![p][file] = Cut]
    /\ job' = [job EXCEPT ![c].pc = "write", ![c].file = file]
    /\ spoiled' = IF Resolving(c, p) # {} THEN spoiled \cup {p} ELSE spoiled
    /\ UNCHANGED <<sources, m2, pathFile, peer, entry>>

(* ... and writes the class path of the pom.xml that is there now. *)
WritePartial(c) ==
    LET p == job[c].key IN
    /\ At(c, "product", "write")
    /\ content' = [content EXCEPT ![p][job[c].file] = pom]
    /\ Goto(c, "replace")
    /\ UNCHANGED <<sources, m2, partial, pathFile, spoiled, peer, entry>>

ReplacePath(c) ==
    LET p == job[c].key IN
    /\ At(c, "product", "replace")
    /\ partial[p] # None
    /\ pathFile' = [pathFile EXCEPT ![p] = partial[p]]
    /\ partial' = [partial EXCEPT ![p] = None]
    /\ Goto(c, "read")
    /\ UNCHANGED <<sources, m2, content, spoiled, peer, entry>>

(* Another container has taken the .partial file away. *)
PartialMissing(c) ==
    /\ At(c, "product", "replace")
    /\ partial[job[c].key] = None
    /\ Goto(c, "failed")
    /\ UNCHANGED disk

ReadPath(c) ==
    LET p  == job[c].key
        is == content[p][pathFile[p]] IN
    /\ At(c, "product", "read")
    /\ job[c].prepare => is \in m2
    /\ Finish(c, p, is)
    /\ UNCHANGED disk

(* prepare_product() finds jars of the path missing. *)
PathUnresolved(c) ==
    LET p == job[c].key IN
    /\ At(c, "product", "read")
    /\ job[c].prepare /\ content[p][pathFile[p]] \notin m2
    /\ Goto(c, "failed")
    /\ UNCHANGED disk

-----------------------------------------------------------------------------
(* peer_classpath(): a pom.xml and the class path resolved for it.  The pom
   that is expected is that of the harness the container loaded. *)

ReadPeerPom(c) ==
    /\ At(c, "peer", "stage")
    /\ job' = [job EXCEPT ![c].pc = "path", ![c].key = job[c].since,
                          ![c].changed = peerPom # job[c].since]
    /\ UNCHANGED disk

Ready(path) == path \in m2

(* Mutant: a path is taken if its jars are there, whatever pom it is for. *)
ReusePeerOfAnyPom(c) ==
    /\ At(c, "peer", "path")
    /\ Ready(peerPath)
    /\ Finish(c, job[c].key, peerPath)
    /\ UNCHANGED disk

ReusePeer(c) ==
    /\ At(c, "peer", "path")
    /\ ~job[c].changed /\ Ready(peerPath)
    /\ Finish(c, job[c].key, peerPath)
    /\ UNCHANGED disk

MissPeer(c) ==
    /\ At(c, "peer", "path")
    /\ job[c].changed \/ ~Ready(peerPath)
    /\ Goto(c, "mvn")
    /\ UNCHANGED disk

ResolvePeer(c) ==
    /\ At(c, "peer", "mvn")
    /\ CanResolve(c, job[c].key)
    /\ Download(c, job[c].key) /\ Goto(c, "putPath")
    /\ UNCHANGED <<sources, paths, peer, entry, spoiled>>

PeerUnprepared(c) ==
    /\ At(c, "peer", "mvn")
    /\ ~CanResolve(c, job[c].key)
    /\ Goto(c, "unprepared")
    /\ UNCHANGED disk

(* The new class path is in place before the new pom. *)
ReplacePeerPath(c) ==
    /\ At(c, "peer", "putPath")
    /\ peerPath' = job[c].key
    /\ IF job[c].changed THEN Goto(c, "putPom") ELSE Finish(c, job[c].key, job[c].key)
    /\ spoiled' = IF job[c].changed THEN spoiled ELSE spoiled \ Editions
    /\ UNCHANGED <<sources, m2, paths, peerPom, entry>>

ReplacePeerPom(c) ==
    /\ At(c, "peer", "putPom")
    /\ peerPom' = job[c].key
    /\ Finish(c, job[c].key, job[c].key)
    /\ spoiled' = spoiled \ Editions
    /\ UNCHANGED <<sources, m2, paths, peerPath, entry>>

-----------------------------------------------------------------------------
(* prepare_processor(), processor_jar() and compile_instrument(). *)

FetchProcessor(c) ==
    /\ At(c, "processor", "stage")
    /\ CanResolve(c, Processor)
    /\ Download(c, Processor) /\ Finish(c, Processor, Processor)
    /\ UNCHANGED <<sources, paths, peer, entry, spoiled>>

ProcessorUnprepared(c) ==
    /\ At(c, "processor", "stage") \/ At(c, "instrument", "stage")
    /\ Processor \notin m2
    /\ Head(job[c].stages) = "processor" => ~job[c].net
    /\ Goto(c, "unprepared")
    /\ UNCHANGED disk

Whole(e) == entry[e] \notin {None, Cut}

(* The cache key holds the source's hash; the entry is taken if its class and
   its services file are there. *)
HashInstrument(c) ==
    /\ At(c, "instrument", "stage")
    /\ Processor \in m2
    /\ IF Whole(edition)
       THEN Finish(c, edition, entry[edition])
       ELSE GotoKey(c, IF entry[edition] = None THEN "javac" ELSE "incomplete", edition)
    /\ UNCHANGED disk

(* javac reads the source again; it writes to a directory of its own. *)
Javac(c) ==
    /\ At(c, "instrument", "javac")
    /\ job' = [job EXCEPT ![c].pc = "rename", ![c].built = edition]
    /\ UNCHANGED disk

RenameInstrument(c) ==
    /\ At(c, "instrument", "rename")
    /\ entry[job[c].key] = None
    /\ entry' = [entry EXCEPT ![job[c].key] = job[c].built]
    /\ Finish(c, job[c].key, job[c].built)
    /\ UNCHANGED <<sources, m2, paths, peer, spoiled>>

(* Another container was faster: rename() does not replace a directory. *)
EntryExists(c) ==
    /\ At(c, "instrument", "rename")
    /\ entry[job[c].key] # None
    /\ Goto(c, "failed")
    /\ UNCHANGED disk

-----------------------------------------------------------------------------
(* After its last stage a container runs its JVMs, if it has any.  Maven, javac,
   the checks before a stage or a JVM fail; the container is killed. *)

RunEnds(c) ==
    /\ job[c].pc = "run"
    /\ Goto(c, "done")
    /\ UNCHANGED disk

StageFails(c) ==
    /\ job[c].pc \in {"stage", "write", "mvn", "javac", "run"}
    /\ Goto(c, "failed")
    /\ UNCHANGED disk

KillContainer(c) ==
    /\ job[c].pc \in Busy
    /\ Goto(c, "killed")
    /\ spoiled' = IF job[c].pc = "putPom" /\ peerPom \notin {None, job[c].key}
                  THEN spoiled \cup {peerPom} ELSE spoiled
    /\ UNCHANGED <<sources, m2, paths, peer, entry>>

ContainerStep(c) ==
    \/ MvnCompile(c) \/ ProductUnprepared(c) \/ LookUpPath(c) \/ OpenPartial(c)
    \/ WritePartial(c) \/ ReplacePath(c) \/ PartialMissing(c) \/ ReadPath(c)
    \/ PathUnresolved(c)
    \/ ReadPeerPom(c) \/ ReusePeer(c) \/ MissPeer(c) \/ ResolvePeer(c)
    \/ PeerUnprepared(c) \/ ReplacePeerPath(c) \/ ReplacePeerPom(c)
    \/ FetchProcessor(c) \/ ProcessorUnprepared(c) \/ HashInstrument(c) \/ Javac(c)
    \/ RenameInstrument(c) \/ EntryExists(c)
    \/ RunEnds(c) \/ StageFails(c) \/ KillContainer(c)

Quiet == \A c \in Procs : job[c].pc \notin Busy

(* While nothing runs the checkout is switched to another pom, the harness is
   edited, or jars are missing from the Maven repository. *)
EditPom ==
    /\ Quiet
    /\ pom' \in Poms \ {pom}
    /\ UNCHANGED <<edition, m2, paths, peer, entry, job, spoiled>>

EditHarness ==
    /\ Quiet
    /\ edition' \in Editions \ {edition}
    /\ UNCHANGED <<pom, m2, paths, peer, entry, job, spoiled>>

LoseJars ==
    /\ Quiet
    /\ m2' = {}
    /\ UNCHANGED <<sources, paths, peer, entry, job, spoiled>>

-----------------------------------------------------------------------------
(* What a stage hands to the JVMs of its container is complete and belongs to
   the pom, the peer version or the instrument source the container asked for;
   jars of a peer path are there; and no container is refused for an entry that
   an earlier one left incomplete - whoever was killed where, and whatever ran
   at the same time.  There are two exceptions: a pom that two containers
   resolved at once, for which one name of a .partial file is not enough; and a
   peer's class path whose replacement was killed before the pom's, if the
   harness then returns to the edition of the old pom. *)
CachesServeExactly ==
    \A c \in Procs :
        LET got == job[c].got IN
        /\ job[c].pc # "incomplete"
        /\ got # None => (got.is = got.of \/ got.of \in spoiled)
        /\ got # None /\ got.stage = "peer" /\ job[c].pc \in Busy => got.is \in m2

-----------------------------------------------------------------------------
(* Why CachesServeExactly holds: the parts of an inductive invariant. *)

ProductSteps    == {"lookup", "resolve", "write", "replace", "read"}
PeerSteps       == {"path", "mvn", "putPath", "putPom"}
InstrumentSteps == {"javac", "rename"}

(* A container is in the stage at the head of those it has left, for the
   sources as they are: nothing changes them while it is at work. *)
Position(j) ==
    /\ j.pc \in Busy \ {"run"} => j.stages # <<>>
    /\ j.pc \in {"run", "done"} => j.stages = <<>>
    /\ j.pc \in Busy => j.since = edition
    /\ j.pc \in ProductSteps => Head(j.stages) = "product"
    /\ j.pc \in ProductSteps \ {"lookup"} => j.key = pom
    /\ j.pc \in PeerSteps => Head(j.stages) = "peer" /\ j.key = edition
    /\ j.pc \in InstrumentSteps => Head(j.stages) = "instrument" /\ j.key = edition
    /\ j.pc = "rename" => j.built = edition
    /\ j.pc # "incomplete"
Positions == \A c \in Procs : Position(job[c])

Writers == {c \in Procs : job[c].pc \in {"write", "replace"}}

(* A pom that no two containers resolved at once: the .partial file is that of
   the one container that writes it, and not the file of the class path. *)
OnPath(c) ==
    LET j == job[c] IN
    /\ j.pc \in ProductSteps => pom \in m2
    /\ j.pc \in {"stage", "lookup", "resolve"} /\ Head(j.stages) = "product" => j.file = None
    /\ j.pc = "read" => pathFile[pom] # None
    /\ j.pc \in {"write", "replace"} => j.file # None
    /\ j.pc \in {"write", "replace"} /\ pom \notin spoiled =>
          Writers = {c} /\ j.file = partial[pom]
    /\ j.pc = "replace" /\ pom \notin spoiled => content[pom][j.file] = pom
PathsInv ==
    /\ \A c \in Procs : OnPath(c)
    /\ \A p \in Poms \ spoiled : pathFile[p] # None =>
          content[p][pathFile[p]] = p /\ partial[p] # pathFile[p]

(* A path that is not that of the pom beside it: its replacement was killed
   before the pom's, or a container is about to replace the pom.  A container
   that takes the pom for current finds the path current, or its jars missing. *)
OnPeer(j) ==
    /\ j.pc \in PeerSteps /\ j.changed => peerPom # edition \/ peerPath = edition
    /\ j.pc \in PeerSteps /\ ~j.changed =>
          /\ peerPom = edition
          /\ j.pc # "path" => peerPath = edition \/ peerPath \notin m2
    /\ j.pc = "putPom" => j.changed /\ peerPath = edition
    /\ j.pc \in {"putPath", "putPom"} => edition \in m2
PeerInv ==
    /\ \A c \in Procs : OnPeer(job[c])
    /\ peerPom # None /\ peerPath # peerPom =>
          \/ peerPom \in spoiled
          \/ \E c \in Procs : job[c].pc = "putPom" /\ peerPom # edition

(* An entry is named after the source it was compiled from. *)
EntriesInv == \A e \in Editions : entry[e] \in {e, None}

(* What a container has got is what it asked for, or one of the exceptions. *)
Explained(got) ==
    /\ \/ got.is = got.of
       \/ got.stage = "product" /\ got.of \in Poms \cap spoiled
       \/ /\ got.stage = "peer" /\ got.of = edition
          /\ edition \in spoiled /\ peerPom = edition /\ peerPath = got.is
    /\ got.stage = "peer" => got.is \in m2
GotInv == \A c \in Procs : job[c].got # None => Explained(job[c].got)

CachesInv == Positions /\ PathsInv /\ PeerInv /\ EntriesInv /\ GotInv
=============================================================================
