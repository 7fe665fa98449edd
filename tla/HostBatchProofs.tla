-------------------------- MODULE HostBatchProofs --------------------------
(***************************************************************************)
(* Proofs about HostBatch and the caches its containers share, for any     *)
(* processes, commands, images, poms and editions.                         *)
(***************************************************************************)
EXTENDS HostBatch, FiniteSetTheorems, SequenceTheorems, TLAPS

Working == ProductSteps \cup PeerSteps \cup InstrumentSteps
Others(c) == \A d \in Procs \ {c} : job'[d] = job[d]

(* A step of a container that leaves what it is about alone. *)
Same(c) == /\ job'[c].net = job[c].net /\ job'[c].prepare = job[c].prepare
           /\ job'[c].since = job[c].since

(* The stage is over: the container runs its JVMs, or goes to the next stage. *)
Onward(c) ==
    \/ job'[c].pc = "run" /\ job'[c].stages = <<>>
    \/ /\ job'[c].pc = "stage" /\ job'[c].stages # <<>>
       /\ Head(job'[c].stages) = "instrument"

USE DEF Busy, Ended, ProductSteps, PeerSteps, InstrumentSteps

----------------------------------------------------------------------------
(* What a step does to the job of its container *)

LEMMA ArtifactFacts ==
    /\ None \notin Poms /\ None \notin Editions /\ None \notin Files
    /\ Cut \notin Poms /\ Cut \notin Editions
    /\ \A p \in Poms : p \notin Editions /\ p # Processor
    /\ \A e \in Editions : e \notin Poms /\ e # Processor
    /\ Poms \subseteq Artifacts /\ Editions \subseteq Artifacts /\ Processor \in Artifacts
    /\ None \notin Artifacts
BY ArtifactsAssumption, ProcsAssumption, FS_CardinalityType DEF Files, Artifacts

Got == [stage : Stages, of : Artifacts, is : Artifacts \cup {Cut}]

LEMMA JobFields ==
    ASSUME NEW j \in JobType
    PROVE  /\ j.stages \in StageSeqs /\ j.net \in BOOLEAN /\ j.prepare \in BOOLEAN
           /\ j.since \in Editions \cup {None}
           /\ j.pc \in {"none"} \cup Busy \cup Ended
           /\ j.key \in Poms \cup Editions \cup {None}
           /\ j.file \in Files \cup {None} /\ j.changed \in BOOLEAN
           /\ j.built \in Editions \cup {None} /\ j.got \in Got \cup {None}
           /\ j = [stages |-> j.stages, net |-> j.net, prepare |-> j.prepare,
                   since |-> j.since, pc |-> j.pc, key |-> j.key, file |-> j.file,
                   changed |-> j.changed, built |-> j.built, got |-> j.got]
BY DEF JobType, Got

LEMMA GotFields ==
    ASSUME NEW g \in Got
    PROVE  /\ g.stage \in Stages /\ g.of \in Artifacts /\ g.is \in Artifacts \cup {Cut}
BY DEF Got

LEMMA GotoMoves ==
    ASSUME CachesTypeOK, NEW c \in Procs, NEW pc \in Busy \cup Ended, Goto(c, pc)
    PROVE  /\ job' \in [Procs -> JobType]
           /\ job'[c] = [job[c] EXCEPT !.pc = pc]
           /\ job'[c].pc = pc /\ job'[c].stages = job[c].stages
           /\ job'[c].key = job[c].key /\ job'[c].file = job[c].file
           /\ job'[c].changed = job[c].changed /\ job'[c].built = job[c].built
           /\ job'[c].got = job[c].got /\ Same(c) /\ Others(c)
<1>1. job[c] \in JobType /\ job' = [job EXCEPT ![c] = [job[c] EXCEPT !.pc = pc]]
  BY DEF CachesTypeOK, Goto
<1>2. [job[c] EXCEPT !.pc = pc] \in JobType
  BY <1>1 DEF JobType
<1>3. job'[c] = [job[c] EXCEPT !.pc = pc] /\ Others(c)
  BY <1>1 DEF CachesTypeOK, Others
<1>4. job' \in [Procs -> JobType]
  BY <1>1, <1>2 DEF CachesTypeOK
<1>5. QED
  BY <1>1, <1>3, <1>4 DEF JobType, Same

LEMMA GotoKeyMoves ==
    ASSUME CachesTypeOK, NEW c \in Procs, NEW pc \in Busy \cup Ended,
           NEW k \in Poms \cup Editions, GotoKey(c, pc, k)
    PROVE  /\ job' \in [Procs -> JobType]
           /\ job'[c].pc = pc /\ job'[c].stages = job[c].stages
           /\ job'[c].key = k /\ job'[c].file = job[c].file
           /\ job'[c].changed = job[c].changed /\ job'[c].built = job[c].built
           /\ job'[c].got = job[c].got /\ Same(c) /\ Others(c)
<1> DEFINE j == [job[c] EXCEPT !.pc = pc, !.key = k]
<1>1. job[c] \in JobType /\ job' = [job EXCEPT ![c] = j]
  BY DEF CachesTypeOK, GotoKey
<1>2. j \in JobType
  BY <1>1 DEF JobType
<1>3. job'[c] = j /\ Others(c)
  BY <1>1 DEF CachesTypeOK, Others
<1>4. job' \in [Procs -> JobType]
  <2> HIDE DEF j
  <2> QED BY <1>1, <1>2 DEF CachesTypeOK
<1>5. QED
  BY <1>1, <1>3, <1>4 DEF JobType, Same

(* The rest of a sequence of stages is one, and has no product stage. *)
LEMMA RestStages ==
    ASSUME NEW s \in StageSeqs, s # <<>>
    PROVE  /\ Head(s) \in Stages /\ Tail(s) \in StageSeqs
           /\ Tail(s) # <<>> => Head(Tail(s)) = "instrument"
<1>1. \A x : Head(<<x>>) = x /\ Tail(<<x>>) = <<>>
  OBVIOUS
<1>2. \A x, y : Head(<<x, y>>) = x /\ Tail(<<x, y>>) = <<y>>
  OBVIOUS
<1>3. CASE \E x \in Stages : s = <<x>>
  BY <1>1, <1>3 DEF StageSeqs
<1>4. CASE \E x \in Stages : s = <<x, "instrument">>
  BY <1>1, <1>2, <1>4 DEF StageSeqs
<1>5. QED
  BY <1>3, <1>4 DEF StageSeqs, Stages

LEMMA JobUpdate ==
    ASSUME NEW o \in JobType, NEW g \in Got, NEW rest \in StageSeqs, NEW pc \in Busy
    PROVE  [o EXCEPT !.got = g, !.stages = rest, !.pc = pc] \in JobType
<1> DEFINE G == Got \cup {None}
           P == {"none"} \cup Busy \cup Ended
<1>1. JobType = [stages : StageSeqs, net : BOOLEAN, prepare : BOOLEAN,
                 since : Editions \cup {None}, pc : P,
                 key : Poms \cup Editions \cup {None}, file : Files \cup {None},
                 changed : BOOLEAN, built : Editions \cup {None}, got : G]
  BY DEF JobType, Got
<1>2. g \in G /\ pc \in P
  OBVIOUS
<1> HIDE DEF G, P
<1>3. QED
  BY <1>1, <1>2

LEMMA FinishMoves ==
    ASSUME CachesTypeOK, NEW c \in Procs, NEW of \in Artifacts,
           NEW is \in Artifacts \cup {Cut}, job[c].stages # <<>>, Finish(c, of, is)
    PROVE  /\ job' \in [Procs -> JobType]
           /\ job'[c].got = [stage |-> Head(job[c].stages), of |-> of, is |-> is]
           /\ job'[c].got.stage = Head(job[c].stages)
           /\ job'[c].got.of = of /\ job'[c].got.is = is
           /\ job'[c].stages = Tail(job[c].stages)
           /\ Onward(c)
           /\ job'[c].key = job[c].key /\ job'[c].file = job[c].file
           /\ job'[c].changed = job[c].changed /\ job'[c].built = job[c].built
           /\ Same(c) /\ Others(c)
<1> DEFINE rest == Tail(job[c].stages)
           g    == [stage |-> Head(job[c].stages), of |-> of, is |-> is]
           pc   == IF rest = <<>> THEN "run" ELSE "stage"
           j    == [job[c] EXCEPT !.got = g, !.stages = rest, !.pc = pc]
<1>0. job' = [job EXCEPT ![c].got = g, ![c].stages = rest, ![c].pc = pc]
  BY Zenon DEF Finish
<1>1. job[c] \in JobType /\ job' = [job EXCEPT ![c] = j]
  <2> HIDE DEF rest, g, pc
  <2> QED BY <1>0 DEF CachesTypeOK
<1>2. rest \in StageSeqs /\ (rest # <<>> => Head(rest) = "instrument")
  BY <1>1, RestStages, JobFields
<1>3. g \in Got
  BY <1>1, RestStages, JobFields DEF Got
<1>4. pc \in Busy
  OBVIOUS
<1>5. j \in JobType
  <2> HIDE DEF rest, g, pc
  <2> QED BY <1>1, <1>2, <1>3, <1>4, JobUpdate
<1>6. job'[c] = j /\ Others(c)
  <2> HIDE DEF j
  <2> QED BY <1>1 DEF CachesTypeOK, Others
<1>7. job' \in [Procs -> JobType]
  <2> HIDE DEF j
  <2> QED BY <1>1, <1>5 DEF CachesTypeOK
<1>8. /\ j.got = g /\ j.stages = rest /\ j.pc = pc /\ j.key = job[c].key
      /\ j.file = job[c].file /\ j.changed = job[c].changed /\ j.built = job[c].built
      /\ j.net = job[c].net /\ j.prepare = job[c].prepare /\ j.since = job[c].since
  <2> HIDE DEF rest, g, pc
  <2> QED BY <1>1 DEF JobType
<1>9. QED
  BY <1>2, <1>6, <1>7, <1>8 DEF Same, Onward

----------------------------------------------------------------------------
(* What a step of one container leaves of the others' part of each invariant *)

LEMMA PositionsMove ==
    ASSUME Positions, NEW c \in Procs, Others(c), UNCHANGED sources, Position(job[c])'
    PROVE  Positions'
<1>1. ASSUME NEW d \in Procs \ {c}
      PROVE  Position(job[d])'
  <2>1. job'[d] = job[d] /\ pom' = pom /\ edition' = edition
    BY DEF Others, sources
  <2>2. QED
    BY <2>1 DEF Positions, Position
<1>2. QED
  BY <1>1 DEF Positions

(* A step that leaves the files of the product's class path as they are. *)
LEMMA PathsStep ==
    ASSUME CachesTypeOK, PathsInv, NEW c \in Procs, Others(c), UNCHANGED <<sources, paths>>,
           m2 \subseteq m2', spoiled \cap Poms \subseteq spoiled',
           job'[c].pc \in {"write", "replace"} => job[c].pc \in {"write", "replace"},
           OnPath(c)'
    PROVE  PathsInv'
<1>1. /\ pom' = pom /\ partial' = partial /\ pathFile' = pathFile /\ content' = content
      /\ pom \in Poms
  BY DEF sources, paths, CachesTypeOK
<1>2. Writers' \ {c} = Writers \ {c} /\ Writers' \subseteq Writers
  BY DEF Writers, Others
<1>3. ASSUME NEW d \in Procs
      PROVE  OnPath(d)'
  <2>1. CASE d # c
    <3>1. job'[d] = job[d] /\ OnPath(d)
      BY <2>1 DEF Others, PathsInv
    <3>2. job[d].pc \in {"write", "replace"} => d \in Writers'
      BY <1>2, <2>1 DEF Writers
    <3>3. QED
      BY <1>1, <1>2, <3>1, <3>2 DEF OnPath
  <2>2. QED
    BY <2>1
<1>4. \A p \in Poms \ spoiled' : pathFile'[p] # None =>
          content'[p][pathFile'[p]] = p /\ partial'[p] # pathFile'[p]
  BY <1>1 DEF PathsInv
<1>5. QED
  BY <1>3, <1>4 DEF PathsInv

(* A step outside the product's class path, or one that leaves it. *)
LEMMA PathsMove ==
    ASSUME CachesTypeOK, PathsInv, NEW c \in Procs, Others(c), UNCHANGED <<sources, paths>>,
           m2 \subseteq m2', spoiled \cap Poms \subseteq spoiled',
           job'[c].pc \notin ProductSteps,
           job'[c].pc = "stage" /\ Head(job'[c].stages) = "product" => job'[c].file = None
    PROVE  PathsInv'
<1>1. OnPath(c)'
  BY DEF OnPath
<1>2. QED
  BY <1>1, PathsStep

(* A step outside a peer's class path, or one that leaves it with both files. *)
LEMMA PeerMove ==
    ASSUME CachesTypeOK, PeerInv, NEW c \in Procs, Others(c), UNCHANGED <<sources, peer>>,
           m2 \subseteq m2', m2' \subseteq m2 \cup {pom, edition, Processor},
           spoiled \cap Editions \subseteq spoiled',
           job'[c].pc \notin PeerSteps, job[c].pc # "putPom"
    PROVE  PeerInv'
<1>1. /\ edition' = edition /\ pom' = pom /\ peerPom' = peerPom /\ peerPath' = peerPath
      /\ edition \in Editions /\ pom \in Poms
      /\ peerPom \in Editions \cup {None} /\ peerPath \in Editions \cup {None}
  BY DEF sources, peer, CachesTypeOK
<1>2. peerPath \notin m2 => peerPath = edition \/ peerPath \notin m2'
  BY <1>1, ArtifactsAssumption
<1>3. ASSUME NEW d \in Procs
      PROVE  OnPeer(job[d])'
  <2>1. CASE d = c
    BY <2>1 DEF OnPeer
  <2>2. CASE d # c
    <3>1. job'[d] = job[d] /\ OnPeer(job[d])
      BY <2>2 DEF Others, PeerInv
    <3>2. QED
      BY <1>1, <1>2, <3>1 DEF OnPeer
  <2>3. QED
    BY <2>1, <2>2
<1>4. ASSUME NEW d \in Procs, job[d].pc = "putPom"
      PROVE  job'[d].pc = "putPom"
  BY <1>4 DEF Others
<1>5. QED
  BY <1>1, <1>3, <1>4 DEF PeerInv

(* A step that hands nothing over, or something that is explained. *)
LEMMA GotMove ==
    ASSUME GotInv, NEW c \in Procs, Others(c), UNCHANGED <<sources, peer>>,
           m2 \subseteq m2', spoiled \subseteq spoiled',
           job'[c].got = job[c].got \/ job'[c].got = None \/ Explained(job[c].got)'
    PROVE  GotInv'
<1>1. edition' = edition /\ peerPom' = peerPom /\ peerPath' = peerPath
  BY DEF sources, peer
<1>2. ASSUME NEW d \in Procs, job'[d].got # None
      PROVE  Explained(job[d].got)'
  <2>1. CASE job'[d].got = job[d].got
    BY <1>1, <1>2, <2>1 DEF GotInv, Explained
  <2>2. CASE job'[d].got # job[d].got
    BY <1>2, <2>2 DEF Others
  <2>3. QED
    BY <2>1, <2>2
<1>3. QED
  BY <1>2 DEF GotInv

CachesOK == CachesTypeOK /\ CachesInv

LEMMA TypeMove ==
    ASSUME CachesTypeOK, UNCHANGED <<sources, paths, peer, entry, spoiled>>,
           m2' \subseteq m2 \cup {pom, edition, Processor},
           job' \in [Procs -> JobType]
    PROVE  CachesTypeOK'
<1>1. m2' \subseteq Artifacts
  BY DEF CachesTypeOK, Artifacts
<1>2. QED
  BY <1>1 DEF CachesTypeOK, sources, paths, peer

(* A step that ends a stage, fails or begins anew, and leaves the files.    *)
LEMMA QuietStep ==
    ASSUME CachesOK, NEW c \in Procs, job' \in [Procs -> JobType], Others(c),
           UNCHANGED <<sources, paths, peer, entry, spoiled>>,
           m2 \subseteq m2', m2' \subseteq m2 \cup {pom, edition, Processor},
           Position(job[c])', job'[c].pc \notin ProductSteps \cup PeerSteps,
           job'[c].pc = "stage" /\ Head(job'[c].stages) = "product" => job'[c].file = None,
           job[c].pc # "putPom",
           job'[c].got = job[c].got \/ job'[c].got = None \/ Explained(job[c].got)'
    PROVE  CachesOK'
<1>1. CachesTypeOK /\ Positions /\ PathsInv /\ PeerInv /\ EntriesInv /\ GotInv
  BY DEF CachesOK, CachesInv
<1>2. CachesTypeOK'
  BY <1>1, TypeMove
<1>3. Positions'
  BY <1>1, PositionsMove
<1>4. PathsInv'
  BY <1>1, PathsMove
<1>5. PeerInv'
  BY <1>1, PeerMove
<1>6. EntriesInv'
  BY <1>1 DEF EntriesInv
<1>7. GotInv'
  BY <1>1, GotMove
<1>8. QED
  BY <1>2, <1>3, <1>4, <1>5, <1>6, <1>7 DEF CachesOK, CachesInv

(* A container that stops, from any step but the last of a peer's stage. *)
LEMMA StopStep ==
    ASSUME CachesOK, NEW c \in Procs, NEW pc \in Ended \ {"incomplete"}, Goto(c, pc),
           UNCHANGED disk, pc = "done" => job[c].stages = <<>>, job[c].pc # "putPom"
    PROVE  CachesOK'
<1>1. CachesTypeOK
  BY DEF CachesOK
<1>2. /\ job' \in [Procs -> JobType] /\ job'[c].pc = pc /\ Others(c)
      /\ job'[c].stages = job[c].stages /\ job'[c].got = job[c].got
  BY <1>1, GotoMoves
<1>3. Position(job[c])'
  BY <1>2 DEF Position
<1>4. UNCHANGED <<sources, paths, peer, entry, spoiled>> /\ m2' = m2
  BY DEF disk
<1>5. QED
  BY <1>2, <1>3, <1>4, QuietStep

----------------------------------------------------------------------------
(* build_product() *)

LEMMA Parts ==
    ASSUME CachesOK, NEW c \in Procs
    PROVE  /\ CachesTypeOK /\ Positions /\ PathsInv /\ PeerInv /\ EntriesInv /\ GotInv
           /\ job[c] \in JobType /\ Position(job[c]) /\ OnPath(c) /\ OnPeer(job[c])
           /\ job[c].got # None => Explained(job[c].got)
           /\ pom \in Poms /\ edition \in Editions
BY DEF CachesOK, CachesInv, CachesTypeOK, Positions, PathsInv, PeerInv, GotInv

(* Steps to a further step of the stage that leave the class path files. *)
LEMMA InProduct ==
    ASSUME CachesOK, NEW c \in Procs, job' \in [Procs -> JobType], Others(c),
           UNCHANGED <<sources, paths, peer, entry, spoiled>>,
           m2 \subseteq m2', m2' \subseteq m2 \cup {pom, edition, Processor},
           Position(job[c])', OnPath(c)', job'[c].got = job[c].got,
           job[c].pc # "putPom", job'[c].pc \in {"lookup", "resolve", "read"}
    PROVE  CachesOK'
<1>1. CachesTypeOK /\ Positions /\ PathsInv /\ PeerInv /\ EntriesInv /\ GotInv
  BY Parts
<1>2. CachesTypeOK'
  BY <1>1, TypeMove
<1>3. Positions'
  BY <1>1, PositionsMove
<1>4. PathsInv'
  BY <1>1, PathsStep
<1>5. PeerInv'
  BY <1>1, PeerMove
<1>6. EntriesInv'
  BY <1>1 DEF EntriesInv
<1>7. GotInv'
  BY <1>1, GotMove
<1>8. QED
  BY <1>2, <1>3, <1>4, <1>5, <1>6, <1>7 DEF CachesOK, CachesInv

LEMMA MvnCompileStep ==
    ASSUME CachesOK, NEW c \in Procs, MvnCompile(c)
    PROVE  CachesOK'
<1>1. CachesTypeOK /\ Position(job[c]) /\ OnPath(c) /\ pom \in Poms
  BY Parts
<1>2. job[c].pc = "stage" /\ Head(job[c].stages) = "product" /\ Goto(c, "lookup")
  BY DEF MvnCompile, At
<1>3. /\ UNCHANGED <<sources, paths, peer, entry, spoiled>> /\ m2' = m2 \cup {pom}
      /\ pom' = pom /\ edition' = edition
  BY DEF MvnCompile, Download, sources
<1>4. /\ job' \in [Procs -> JobType] /\ job'[c].pc = "lookup" /\ Others(c) /\ Same(c)
      /\ job'[c].stages = job[c].stages /\ job'[c].got = job[c].got
      /\ job'[c].file = job[c].file
  BY <1>1, <1>2, GotoMoves
<1>5. Position(job[c])'
  BY <1>1, <1>2, <1>3, <1>4 DEF Position, Same
<1>6. OnPath(c)'
  BY <1>1, <1>2, <1>3, <1>4 DEF OnPath
<1>7. QED
  BY <1>2, <1>3, <1>4, <1>5, <1>6, InProduct

LEMMA ProductUnpreparedStep ==
    ASSUME CachesOK, NEW c \in Procs, ProductUnprepared(c)
    PROVE  CachesOK'
<1>1. CachesTypeOK /\ pom \in Poms
  BY Parts
<1>2. job[c].pc = "stage" /\ GotoKey(c, "unprepared", pom) /\ UNCHANGED disk
  BY DEF ProductUnprepared, At
<1>3. /\ job' \in [Procs -> JobType] /\ job'[c].pc = "unprepared" /\ Others(c)
      /\ job'[c].got = job[c].got
  BY <1>1, <1>2, GotoKeyMoves
<1>4. Position(job[c])'
  BY <1>3 DEF Position
<1>5. UNCHANGED <<sources, paths, peer, entry, spoiled>> /\ m2' = m2
  BY <1>2 DEF disk
<1>6. QED
  BY <1>2, <1>3, <1>4, <1>5, QuietStep

LEMMA LookUpPathStep ==
    ASSUME CachesOK, NEW c \in Procs, LookUpPath(c)
    PROVE  CachesOK'
<1>1. CachesTypeOK /\ Position(job[c]) /\ OnPath(c) /\ pom \in Poms
  BY Parts
<1> DEFINE pc == IF pathFile[pom] # None THEN "read" ELSE "resolve"
<1>2. /\ job[c].pc = "lookup" /\ Head(job[c].stages) = "product"
      /\ GotoKey(c, pc, pom) /\ UNCHANGED disk
  BY DEF LookUpPath, At
<1>3. /\ job' \in [Procs -> JobType] /\ job'[c].pc = pc /\ Others(c) /\ Same(c)
      /\ job'[c].stages = job[c].stages /\ job'[c].got = job[c].got
      /\ job'[c].file = job[c].file /\ job'[c].key = pom
  BY <1>1, <1>2, GotoKeyMoves
<1>4. /\ UNCHANGED <<sources, paths, peer, entry, spoiled>> /\ m2' = m2
      /\ pom' = pom /\ edition' = edition /\ pathFile' = pathFile
  BY <1>2 DEF disk, sources, paths
<1>5. Position(job[c])'
  BY <1>1, <1>2, <1>3, <1>4 DEF Position, Same
<1>6. OnPath(c)'
  BY <1>1, <1>2, <1>3, <1>4 DEF OnPath
<1>7. QED
  BY <1>2, <1>3, <1>4, <1>5, <1>6, InProduct

(* There are enough files: the container that asks for one has none. *)
LEMMA NewFileExists ==
    ASSUME CachesTypeOK, NEW c \in Procs, job[c].file = None, NEW p \in Poms
    PROVE  NewFile(p) \in Files /\ NewFile(p) # pathFile[p]
<1> DEFINE f == [d \in Procs |-> IF d = c THEN pathFile[p] ELSE job[d].file]
           T == {f[d] : d \in Procs}
<1>1. IsFiniteSet(Procs) /\ Cardinality(Procs) \in Nat
  BY ProcsAssumption, FS_CardinalityType
<1>2. f \in Surjection(Procs, T)
  BY DEF Surjection
<1>3. IsFiniteSet(T) /\ Cardinality(T) <= Cardinality(Procs)
  <2> HIDE DEF f, T
  <2> QED BY <1>1, <1>2, FS_Surjection
<1>4. Cardinality(Files) = Cardinality(Procs) + 1
  BY <1>1, FS_Interval DEF Files
<1>5. ~(Files \subseteq T)
  <2> HIDE DEF f, T
  <2>1. Cardinality(T) \in Nat
    BY <1>3, FS_CardinalityType
  <2>2. SUFFICES ASSUME Files \subseteq T PROVE FALSE
    OBVIOUS
  <2>3. Cardinality(Files) <= Cardinality(T)
    BY <1>3, <2>2, FS_Subset
  <2>4. QED
    BY <1>1, <1>3, <1>4, <2>1, <2>3
<1>6. PICK g \in Files : g \notin T
  BY <1>5
<1>7. g # pathFile[p] /\ \A d \in Procs : job[d].file # g
  <2>1. f[c] = pathFile[p] /\ \A d \in Procs : f[d] # g
    BY <1>6
  <2>2. \A d \in Procs : job[d].file # g
    <3>1. None \notin Files
      BY ArtifactFacts
    <3>2. QED
      BY <1>6, <2>1, <3>1
  <2>3. QED
    BY <2>1, <2>2
<1>8. QED
  BY <1>6, <1>7 DEF NewFile

LEMMA OpenPartialStep ==
    ASSUME CachesOK, NEW c \in Procs, OpenPartial(c)
    PROVE  CachesOK'
<1> DEFINE file == IF partial[pom] = None THEN NewFile(pom) ELSE partial[pom]
           j    == [job[c] EXCEPT !.pc = "write", !.file = file]
<1>1. /\ CachesTypeOK /\ Positions /\ PathsInv /\ PeerInv /\ EntriesInv /\ GotInv
      /\ job[c] \in JobType /\ Position(job[c]) /\ OnPath(c) /\ pom \in Poms
  BY Parts
<1>2. job[c].pc = "resolve" /\ Head(job[c].stages) = "product" /\ job[c].key = pom
  BY <1>1 DEF OpenPartial, At, Position
<1>3. /\ partial' = [partial EXCEPT ![pom] = file]
      /\ content' = [content EXCEPT ![pom][file] = Cut]
      /\ job' = [job EXCEPT ![c].pc = "write", ![c].file = file]
      /\ spoiled' = IF Resolving(c, pom) # {} THEN spoiled \cup {pom} ELSE spoiled
      /\ UNCHANGED <<sources, m2, pathFile, peer, entry>>
  BY <1>2 DEF OpenPartial
<1>4. job[c].file = None
  BY <1>1, <1>2 DEF OnPath
<1>5. file \in Files
  BY <1>1, <1>4, NewFileExists DEF CachesTypeOK
<1>6. pathFile[pom] # None /\ pom \notin spoiled => file # pathFile[pom]
  BY <1>1, <1>4, NewFileExists DEF PathsInv
<1>7. /\ job' \in [Procs -> JobType] /\ Others(c) /\ job'[c].pc = "write"
      /\ job'[c].file = file /\ job'[c].stages = job[c].stages /\ job'[c].key = pom
      /\ job'[c].got = job[c].got /\ job'[c].since = job[c].since
  <2> HIDE DEF file
  <2>1. job' = [job EXCEPT ![c] = j]
    BY <1>1, <1>3 DEF CachesTypeOK
  <2>2. j \in JobType
    BY <1>1, <1>5 DEF JobType
  <2>3. job'[c] = j /\ Others(c) /\ job' \in [Procs -> JobType]
    <3> HIDE DEF j
    <3> QED BY <1>1, <2>1, <2>2 DEF CachesTypeOK, Others
  <2>4. QED
    BY <1>1, <1>2, <2>3 DEF JobType
<1> HIDE DEF file, j
<1>8. /\ pom' = pom /\ edition' = edition /\ pathFile' = pathFile /\ m2' = m2
      /\ entry' = entry /\ UNCHANGED peer /\ UNCHANGED sources
  BY <1>3 DEF sources
<1>9. CachesTypeOK'
  <2>1. partial' \in [Poms -> Files \cup {None}]
    BY <1>1, <1>3, <1>5 DEF CachesTypeOK
  <2>2. content' \in [Poms -> [Files -> Poms \cup {Cut}]]
    BY <1>1, <1>3, <1>5 DEF CachesTypeOK
  <2>3. QED
    BY <1>1, <1>3, <1>7, <1>8, <2>1, <2>2 DEF CachesTypeOK, peer
<1>10. Positions'
  <2>1. Position(job[c])'
    BY <1>1, <1>2, <1>7, <1>8 DEF Position
  <2>2. QED
    BY <1>1, <1>7, <1>8, <2>1, PositionsMove
<1>11. PathsInv'
  <2>1. \A d \in Procs : job[d].pc \in {"write", "replace"} => job[d].key = pom
    BY <1>1 DEF Positions, Position
  <2>2. pom \notin spoiled' => Writers' = {c} /\ pom \notin spoiled
    <3>1. ASSUME pom \notin spoiled'
          PROVE  Writers' = {c} /\ pom \notin spoiled
      <4>1. Resolving(c, pom) = {}
        BY <1>3, <3>1
      <4>2. QED
        BY <1>3, <1>7, <2>1, <3>1, <4>1 DEF Resolving, Writers, Others
    <3>2. QED
      BY <3>1
  <2>3. partial'[pom] = file
    BY <1>1, <1>3 DEF CachesTypeOK
  <2>4. ASSUME NEW d \in Procs
        PROVE  OnPath(d)'
    <3>1. CASE d = c
      <4>1. pom' \in m2' /\ job'[c].file # None
        <5>1. pom \in m2
          BY <1>1, <1>2 DEF OnPath
        <5>2. job'[c].file \in Files
          BY <1>5, <1>7
        <5>3. QED
          BY <1>8, <5>1, <5>2, ArtifactFacts
      <4>2. pom' \notin spoiled' => Writers' = {c} /\ job'[c].file = partial'[pom']
        BY <1>7, <1>8, <2>2, <2>3
      <4>3. QED
        BY <1>7, <3>1, <4>1, <4>2 DEF OnPath
    <3>2. CASE d # c
      <4>1. job'[d] = job[d] /\ OnPath(d)
        BY <1>1, <1>7, <3>2 DEF Others, PathsInv
      <4>2. pom \notin spoiled' => job[d].pc \notin {"write", "replace"}
        BY <2>2, <3>2, <4>1 DEF Writers
      <4>3. QED
        BY <1>8, <4>1, <4>2 DEF OnPath
    <3>3. QED
      BY <3>1, <3>2
  <2>5. ASSUME NEW p \in Poms \ spoiled', pathFile'[p] # None
        PROVE  content'[p][pathFile'[p]] = p /\ partial'[p] # pathFile'[p]
    <3>1. p \in Poms \ spoiled /\ pathFile[p] # None
      BY <1>3, <1>8, <2>5
    <3>2. content[p][pathFile[p]] = p /\ partial[p] # pathFile[p]
      BY <1>1, <3>1 DEF PathsInv
    <3>3. CASE p = pom
      BY <1>1, <1>3, <1>5, <1>6, <1>8, <2>3, <3>1, <3>2, <3>3 DEF CachesTypeOK
    <3>4. CASE p # pom
      BY <1>1, <1>3, <1>8, <3>2, <3>4 DEF CachesTypeOK
    <3>5. QED
      BY <3>3, <3>4
  <2>6. QED
    BY <2>4, <2>5 DEF PathsInv
<1>12. spoiled \subseteq spoiled'
  BY <1>3
<1>13. PeerInv'
  BY <1>1, <1>2, <1>7, <1>8, <1>12, PeerMove
<1>14. EntriesInv'
  BY <1>1, <1>8 DEF EntriesInv
<1>15. GotInv'
  BY <1>1, <1>7, <1>8, <1>12, GotMove
<1>16. QED
  BY <1>9, <1>10, <1>11, <1>13, <1>14, <1>15 DEF CachesOK, CachesInv

LEMMA WritePartialStep ==
    ASSUME CachesOK, NEW c \in Procs, WritePartial(c)
    PROVE  CachesOK'
<1>1. /\ CachesTypeOK /\ Positions /\ PathsInv /\ PeerInv /\ EntriesInv /\ GotInv
      /\ job[c] \in JobType /\ Position(job[c]) /\ OnPath(c) /\ pom \in Poms
  BY Parts
<1>2. /\ job[c].pc = "write" /\ Head(job[c].stages) = "product" /\ job[c].key = pom
      /\ Goto(c, "replace")
  BY <1>1 DEF WritePartial, At, Position
<1>3. /\ content' = [content EXCEPT ![pom][job[c].file] = pom]
      /\ UNCHANGED <<sources, m2, partial, pathFile, spoiled, peer, entry>>
  BY <1>2 DEF WritePartial
<1>4. /\ job' \in [Procs -> JobType] /\ Others(c) /\ job'[c].pc = "replace" /\ Same(c)
      /\ job'[c].file = job[c].file /\ job'[c].stages = job[c].stages
      /\ job'[c].key = pom /\ job'[c].got = job[c].got
  BY <1>1, <1>2, GotoMoves
<1>5. /\ pom' = pom /\ edition' = edition /\ pathFile' = pathFile /\ m2' = m2
      /\ partial' = partial /\ spoiled' = spoiled
      /\ entry' = entry /\ UNCHANGED peer /\ UNCHANGED sources
  BY <1>3 DEF sources
<1>6. CachesTypeOK'
  <2>1. content' \in [Poms -> [Files -> Poms \cup {Cut}]]
    BY <1>1, <1>3 DEF CachesTypeOK
  <2>2. QED
    BY <1>1, <1>4, <1>5, <2>1 DEF CachesTypeOK, peer
<1>7. Positions'
  <2>1. Position(job[c])'
    BY <1>1, <1>2, <1>4, <1>5 DEF Position, Same
  <2>2. QED
    BY <1>1, <1>4, <1>5, <2>1, PositionsMove
<1>8. PathsInv'
  <2>1. Writers' = Writers
    BY <1>2, <1>4 DEF Writers, Others
  <2>2. job[c].file \in Files
    BY <1>1, <1>2, JobFields DEF OnPath
  <2>3. content'[pom][job[c].file] = pom
    BY <1>1, <1>3, <2>2 DEF CachesTypeOK
  <2>4. ASSUME NEW d \in Procs
        PROVE  OnPath(d)'
    <3>1. CASE d = c
      BY <1>1, <1>2, <1>4, <1>5, <2>1, <2>3, <3>1 DEF OnPath
    <3>2. CASE d # c
      <4>1. job'[d] = job[d] /\ OnPath(d)
        BY <1>1, <1>4, <3>2 DEF Others, PathsInv
      <4>2. pom \notin spoiled => job[d].pc \notin {"write", "replace"}
        BY <1>1, <1>2, <3>2 DEF Writers, OnPath
      <4>3. QED
        BY <1>5, <2>1, <4>1, <4>2 DEF OnPath
    <3>3. QED
      BY <3>1, <3>2
  <2>5. ASSUME NEW p \in Poms \ spoiled', pathFile'[p] # None
        PROVE  content'[p][pathFile'[p]] = p /\ partial'[p] # pathFile'[p]
    <3>1. content[p][pathFile[p]] = p /\ partial[p] # pathFile[p]
      BY <1>1, <1>5, <2>5 DEF PathsInv
    <3>2. CASE p = pom
      <4>1. job[c].file = partial[pom]
        BY <1>1, <1>2, <1>5, <2>5, <3>2 DEF OnPath
      <4>2. content'[p][pathFile[p]] = content[p][pathFile[p]]
        BY <1>1, <1>3, <2>2, <3>1, <3>2, <4>1 DEF CachesTypeOK
      <4>3. QED
        BY <1>5, <3>1, <4>2
    <3>3. CASE p # pom
      BY <1>1, <1>3, <1>5, <3>1, <3>3 DEF CachesTypeOK
    <3>4. QED
      BY <3>2, <3>3
  <2>6. QED
    BY <2>4, <2>5 DEF PathsInv
<1>9. PeerInv'
  BY <1>1, <1>2, <1>4, <1>5, PeerMove
<1>10. EntriesInv'
  BY <1>1, <1>5 DEF EntriesInv
<1>11. GotInv'
  BY <1>1, <1>4, <1>5, GotMove
<1>12. QED
  BY <1>6, <1>7, <1>8, <1>9, <1>10, <1>11 DEF CachesOK, CachesInv

LEMMA ReplacePathStep ==
    ASSUME CachesOK, NEW c \in Procs, ReplacePath(c)
    PROVE  CachesOK'
<1>1. /\ CachesTypeOK /\ Positions /\ PathsInv /\ PeerInv /\ EntriesInv /\ GotInv
      /\ job[c] \in JobType /\ Position(job[c]) /\ OnPath(c) /\ pom \in Poms
  BY Parts
<1>2. /\ job[c].pc = "replace" /\ Head(job[c].stages) = "product" /\ job[c].key = pom
      /\ Goto(c, "read")
  BY <1>1 DEF ReplacePath, At, Position
<1>3. /\ partial[pom] # None
      /\ pathFile' = [pathFile EXCEPT ![pom] = partial[pom]]
      /\ partial' = [partial EXCEPT ![pom] = None]
      /\ UNCHANGED <<sources, m2, content, spoiled, peer, entry>>
  BY <1>2 DEF ReplacePath
<1>4. /\ job' \in [Procs -> JobType] /\ Others(c) /\ job'[c].pc = "read" /\ Same(c)
      /\ job'[c].file = job[c].file /\ job'[c].stages = job[c].stages
      /\ job'[c].key = pom /\ job'[c].got = job[c].got
  BY <1>1, <1>2, GotoMoves
<1>5. /\ pom' = pom /\ edition' = edition /\ content' = content /\ m2' = m2
      /\ spoiled' = spoiled /\ entry' = entry /\ UNCHANGED peer /\ UNCHANGED sources
  BY <1>3 DEF sources
<1>6. /\ partial' \in [Poms -> Files \cup {None}] /\ pathFile' \in [Poms -> Files \cup {None}]
      /\ pathFile'[pom] = partial[pom] /\ partial'[pom] = None
      /\ \A p \in Poms \ {pom} : pathFile'[p] = pathFile[p] /\ partial'[p] = partial[p]
  BY <1>1, <1>3 DEF CachesTypeOK
<1>7. CachesTypeOK'
  BY <1>1, <1>4, <1>5, <1>6 DEF CachesTypeOK, peer
<1>8. Positions'
  <2>1. Position(job[c])'
    BY <1>1, <1>2, <1>4, <1>5 DEF Position, Same
  <2>2. QED
    BY <1>1, <1>4, <1>5, <2>1, PositionsMove
<1>9. PathsInv'
  <2>1. pom \notin spoiled => /\ Writers = {c} /\ job[c].file = partial[pom]
                              /\ content[pom][partial[pom]] = pom
    BY <1>1, <1>2 DEF OnPath
  <2>2. ASSUME NEW d \in Procs
        PROVE  OnPath(d)'
    <3>1. CASE d = c
      BY <1>1, <1>2, <1>3, <1>4, <1>5, <1>6, <3>1 DEF OnPath
    <3>2. CASE d # c
      <4>1. job'[d] = job[d] /\ OnPath(d)
        BY <1>1, <1>4, <3>2 DEF Others, PathsInv
      <4>2. pom \notin spoiled => job[d].pc \notin {"write", "replace"}
        BY <2>1, <3>2 DEF Writers
      <4>3. QED
        BY <1>3, <1>5, <1>6, <4>1, <4>2 DEF OnPath
    <3>3. QED
      BY <3>1, <3>2
  <2>3. ASSUME NEW p \in Poms \ spoiled', pathFile'[p] # None
        PROVE  content'[p][pathFile'[p]] = p /\ partial'[p] # pathFile'[p]
    <3>1. CASE p = pom
      BY <1>3, <1>5, <1>6, <2>1, <2>3, <3>1
    <3>2. CASE p # pom
      BY <1>1, <1>5, <1>6, <2>3, <3>2 DEF PathsInv
    <3>3. QED
      BY <3>1, <3>2
  <2>4. QED
    BY <2>2, <2>3 DEF PathsInv
<1>10. PeerInv'
  BY <1>1, <1>2, <1>4, <1>5, PeerMove
<1>11. EntriesInv'
  BY <1>1, <1>5 DEF EntriesInv
<1>12. GotInv'
  BY <1>1, <1>4, <1>5, GotMove
<1>13. QED
  BY <1>7, <1>8, <1>9, <1>10, <1>11, <1>12 DEF CachesOK, CachesInv

LEMMA PartialMissingStep ==
    ASSUME CachesOK, NEW c \in Procs, PartialMissing(c)
    PROVE  CachesOK'
BY StopStep DEF PartialMissing, At

LEMMA PathUnresolvedStep ==
    ASSUME CachesOK, NEW c \in Procs, PathUnresolved(c)
    PROVE  CachesOK'
BY StopStep DEF PathUnresolved, At

LEMMA ReadPathStep ==
    ASSUME CachesOK, NEW c \in Procs, ReadPath(c)
    PROVE  CachesOK'
<1> DEFINE is == content[pom][pathFile[pom]]
<1>1. /\ CachesTypeOK /\ PathsInv /\ Position(job[c]) /\ OnPath(c) /\ pom \in Poms
      /\ job[c] \in JobType
  BY Parts
<1>2. /\ job[c].pc = "read" /\ Head(job[c].stages) = "product" /\ job[c].key = pom
      /\ job[c].stages # <<>> /\ Finish(c, pom, is) /\ UNCHANGED disk
  BY <1>1 DEF ReadPath, At, Position
<1>3. pathFile[pom] \in Files /\ is \in Artifacts \cup {Cut} /\ pom \in Artifacts
  BY <1>1, <1>2 DEF OnPath, CachesTypeOK, Artifacts
<1>4. pom \notin spoiled => is = pom
  BY <1>1, <1>2 DEF PathsInv, OnPath
<1> HIDE DEF is
<1>5. /\ job' \in [Procs -> JobType] /\ Others(c) /\ Same(c)
      /\ job'[c].got.of = pom /\ job'[c].got.is = is /\ job'[c].got.stage = "product"
      /\ Onward(c)
  BY <1>1, <1>2, <1>3, FinishMoves
<1>6. /\ UNCHANGED <<sources, paths, peer, entry, spoiled>> /\ m2' = m2
      /\ pom' = pom /\ edition' = edition
  BY <1>2 DEF disk, sources
<1>7. Position(job[c])'
  BY <1>1, <1>2, <1>5, <1>6 DEF Position, Same, Onward
<1>8. Explained(job[c].got)'
  BY <1>1, <1>4, <1>5, <1>6 DEF Explained
<1>9. QED
  BY <1>2, <1>5, <1>6, <1>7, <1>8, QuietStep DEF Onward

----------------------------------------------------------------------------
(* peer_classpath() *)

(* A step to another step of the stage that leaves both files. *)
LEMMA InPeer ==
    ASSUME CachesOK, NEW c \in Procs, job' \in [Procs -> JobType], Others(c),
           UNCHANGED <<sources, paths, peer, entry, spoiled>>,
           m2 \subseteq m2', m2' \subseteq m2 \cup {pom, edition, Processor},
           Position(job[c])', OnPeer(job[c])', job'[c].got = job[c].got,
           job[c].pc # "putPom", job'[c].pc \in {"path", "mvn", "putPath"}
    PROVE  CachesOK'
<1>1. /\ CachesTypeOK /\ Positions /\ PathsInv /\ PeerInv /\ EntriesInv /\ GotInv
      /\ pom \in Poms /\ edition \in Editions
  BY Parts
<1>2. CachesTypeOK'
  BY <1>1, TypeMove
<1>3. Positions'
  BY <1>1, PositionsMove
<1>4. PathsInv'
  BY <1>1, PathsMove
<1>5. PeerInv'
  <2>1. /\ edition' = edition /\ peerPom' = peerPom /\ peerPath' = peerPath
        /\ spoiled' = spoiled /\ peerPath \in Editions \cup {None}
    BY <1>1 DEF sources, peer, CachesTypeOK
  <2>2. peerPath \notin m2 => peerPath = edition \/ peerPath \notin m2'
    BY <1>1, <2>1, ArtifactsAssumption
  <2>3. ASSUME NEW d \in Procs
        PROVE  OnPeer(job[d])'
    <3>1. CASE d # c
      <4>1. job'[d] = job[d] /\ OnPeer(job[d])
        BY <1>1, <3>1 DEF Others, PeerInv
      <4>2. QED
        BY <2>1, <2>2, <4>1 DEF OnPeer
    <3>2. QED
      BY <3>1
  <2>4. \A d \in Procs : job[d].pc = "putPom" => job'[d].pc = "putPom"
    BY DEF Others
  <2>5. QED
    BY <1>1, <2>1, <2>3, <2>4 DEF PeerInv
<1>6. EntriesInv'
  BY <1>1 DEF EntriesInv
<1>7. GotInv'
  BY <1>1, GotMove
<1>8. QED
  BY <1>2, <1>3, <1>4, <1>5, <1>6, <1>7 DEF CachesOK, CachesInv

LEMMA ReadPeerPomStep ==
    ASSUME CachesOK, NEW c \in Procs, ReadPeerPom(c)
    PROVE  CachesOK'
<1> DEFINE differs == peerPom # edition
           j == [job[c] EXCEPT !.pc = "path", !.key = edition, !.changed = differs]
<1>1. /\ CachesTypeOK /\ Position(job[c]) /\ edition \in Editions /\ job[c] \in JobType
  BY Parts
<1>2. /\ job[c].pc = "stage" /\ Head(job[c].stages) = "peer" /\ job[c].since = edition
      /\ UNCHANGED disk
  BY <1>1 DEF ReadPeerPom, At, Position
<1>3. job' = [job EXCEPT ![c].pc = "path", ![c].key = edition, ![c].changed = differs]
      /\ differs \in BOOLEAN
  BY <1>2 DEF ReadPeerPom
<1> HIDE DEF differs
<1>4. job' = [job EXCEPT ![c] = j] /\ j \in JobType
  BY <1>1, <1>3 DEF CachesTypeOK, JobType
<1>5. job'[c] = j /\ Others(c) /\ job' \in [Procs -> JobType]
  <2> HIDE DEF j
  <2> QED BY <1>1, <1>4 DEF CachesTypeOK, Others
<1>6. /\ job'[c].pc = "path" /\ job'[c].key = edition /\ job'[c].stages = job[c].stages
      /\ job'[c].since = edition /\ job'[c].got = job[c].got
      /\ job'[c].changed = differs
  BY <1>1, <1>2, <1>5 DEF JobType
<1> HIDE DEF j
<1>7. /\ UNCHANGED <<sources, paths, peer, entry, spoiled>> /\ m2' = m2
      /\ pom' = pom /\ edition' = edition /\ peerPom' = peerPom /\ peerPath' = peerPath
  BY <1>2 DEF disk, sources, peer
<1>8. Position(job[c])'
  BY <1>1, <1>2, <1>6, <1>7 DEF Position
<1>9. OnPeer(job[c])'
  BY <1>6, <1>7 DEF OnPeer, differs
<1>10. QED
  BY <1>2, <1>5, <1>6, <1>7, <1>8, <1>9, InPeer

(* The path that is taken is for the pom, or its replacement was killed. *)
LEMMA ReusePeerStep ==
    ASSUME CachesOK, NEW c \in Procs, ReusePeer(c)
    PROVE  CachesOK'
<1>1. /\ CachesTypeOK /\ Position(job[c]) /\ OnPeer(job[c]) /\ PeerInv
      /\ edition \in Editions /\ job[c] \in JobType
  BY Parts
<1>2. /\ job[c].pc = "path" /\ Head(job[c].stages) = "peer" /\ job[c].key = edition
      /\ job[c].stages # <<>> /\ peerPath \in m2
      /\ Finish(c, edition, peerPath) /\ UNCHANGED disk
  BY <1>1 DEF ReusePeer, At, Position, Ready
<1>3. peerPath \in Artifacts \cup {Cut} /\ edition \in Artifacts
  BY <1>1, <1>2 DEF CachesTypeOK, Artifacts
<1>4. /\ job' \in [Procs -> JobType] /\ Others(c) /\ Same(c)
      /\ job'[c].got.of = edition /\ job'[c].got.is = peerPath /\ job'[c].got.stage = "peer"
      /\ Onward(c)
  BY <1>1, <1>2, <1>3, FinishMoves
<1>5. /\ UNCHANGED <<sources, paths, peer, entry, spoiled>> /\ m2' = m2
      /\ pom' = pom /\ edition' = edition /\ peerPom' = peerPom /\ peerPath' = peerPath
      /\ spoiled' = spoiled
  BY <1>2 DEF disk, sources, peer
<1>6. Position(job[c])'
  BY <1>1, <1>2, <1>4, <1>5 DEF Position, Same, Onward
<1>7. peerPom = edition
  BY <1>1, <1>2 DEF ReusePeer, OnPeer
<1>8. peerPath = edition \/ edition \in spoiled
  BY <1>1, <1>7, ArtifactFacts DEF PeerInv
<1>9. Explained(job[c].got)'
  BY <1>2, <1>4, <1>5, <1>7, <1>8 DEF Explained
<1>10. QED
  BY <1>2, <1>4, <1>5, <1>6, <1>9, QuietStep DEF Onward

LEMMA MissPeerStep ==
    ASSUME CachesOK, NEW c \in Procs, MissPeer(c)
    PROVE  CachesOK'
<1>1. /\ CachesTypeOK /\ Position(job[c]) /\ OnPeer(job[c]) /\ edition \in Editions
  BY Parts
<1>2. /\ job[c].pc = "path" /\ Head(job[c].stages) = "peer" /\ job[c].key = edition
      /\ job[c].changed \/ peerPath \notin m2
      /\ Goto(c, "mvn") /\ UNCHANGED disk
  BY <1>1 DEF MissPeer, At, Position, Ready
<1>3. /\ job' \in [Procs -> JobType] /\ job'[c].pc = "mvn" /\ Others(c) /\ Same(c)
      /\ job'[c].stages = job[c].stages /\ job'[c].got = job[c].got
      /\ job'[c].key = job[c].key /\ job'[c].changed = job[c].changed
  BY <1>1, <1>2, GotoMoves
<1>4. /\ UNCHANGED <<sources, paths, peer, entry, spoiled>> /\ m2' = m2
      /\ pom' = pom /\ edition' = edition /\ peerPom' = peerPom /\ peerPath' = peerPath
  BY <1>2 DEF disk, sources, peer
<1>5. Position(job[c])'
  BY <1>1, <1>2, <1>3, <1>4 DEF Position, Same
<1>6. OnPeer(job[c])'
  BY <1>1, <1>2, <1>3, <1>4 DEF OnPeer
<1>7. QED
  BY <1>2, <1>3, <1>4, <1>5, <1>6, InPeer

LEMMA ResolvePeerStep ==
    ASSUME CachesOK, NEW c \in Procs, ResolvePeer(c)
    PROVE  CachesOK'
<1>1. /\ CachesTypeOK /\ Position(job[c]) /\ OnPeer(job[c]) /\ edition \in Editions
      /\ pom \in Poms
  BY Parts
<1>2. /\ job[c].pc = "mvn" /\ Head(job[c].stages) = "peer" /\ job[c].key = edition
      /\ Goto(c, "putPath")
  BY <1>1 DEF ResolvePeer, At, Position
<1>3. /\ UNCHANGED <<sources, paths, peer, entry, spoiled>> /\ m2' = m2 \cup {edition}
      /\ pom' = pom /\ edition' = edition /\ peerPom' = peerPom /\ peerPath' = peerPath
  BY <1>2 DEF ResolvePeer, Download, sources, peer
<1>4. /\ job' \in [Procs -> JobType] /\ job'[c].pc = "putPath" /\ Others(c) /\ Same(c)
      /\ job'[c].stages = job[c].stages /\ job'[c].got = job[c].got
      /\ job'[c].key = job[c].key /\ job'[c].changed = job[c].changed
  BY <1>1, <1>2, GotoMoves
<1>5. Position(job[c])'
  BY <1>1, <1>2, <1>3, <1>4 DEF Position, Same
<1>6. OnPeer(job[c])'
  BY <1>1, <1>2, <1>3, <1>4 DEF OnPeer
<1>7. QED
  BY <1>2, <1>3, <1>4, <1>5, <1>6, InPeer

LEMMA PeerUnpreparedStep ==
    ASSUME CachesOK, NEW c \in Procs, PeerUnprepared(c)
    PROVE  CachesOK'
BY StopStep DEF PeerUnprepared, At

(* The class path is in place: of the current pom, or of the one to come. *)
LEMMA ReplacePeerPathStep ==
    ASSUME CachesOK, NEW c \in Procs, ReplacePeerPath(c)
    PROVE  CachesOK'
<1>1. /\ CachesTypeOK /\ Positions /\ PathsInv /\ PeerInv /\ EntriesInv /\ GotInv
      /\ Position(job[c]) /\ OnPeer(job[c]) /\ edition \in Editions /\ job[c] \in JobType
  BY Parts
<1>2. /\ job[c].pc = "putPath" /\ Head(job[c].stages) = "peer" /\ job[c].key = edition
      /\ job[c].stages # <<>> /\ edition \in m2
  BY <1>1 DEF ReplacePeerPath, At, Position, OnPeer
<1>3. /\ peerPath' = edition
      /\ UNCHANGED <<sources, m2, paths, peerPom, entry>>
      /\ pom' = pom /\ edition' = edition /\ peerPom' = peerPom /\ m2' = m2
  BY <1>2 DEF ReplacePeerPath, sources
<1>4. spoiled \cap Poms \subseteq spoiled' /\ spoiled' \subseteq spoiled
  BY ArtifactFacts DEF ReplacePeerPath
<1>5. edition \in Artifacts
  BY <1>1, ArtifactFacts
<1>6. /\ job' \in [Procs -> JobType] /\ Others(c) /\ Position(job[c])'
      /\ job'[c].pc \notin ProductSteps
      /\ job'[c].pc = "stage" => Head(job'[c].stages) = "instrument"
      /\ job'[c].got # None => job'[c].got = job[c].got \/ (job'[c].got.is = job'[c].got.of
                                                           /\ job'[c].got.is = edition)
  <2>1. CASE job[c].changed
    <3>1. Goto(c, "putPom")
      BY <1>2, <2>1 DEF ReplacePeerPath
    <3>2. /\ job' \in [Procs -> JobType] /\ job'[c].pc = "putPom" /\ Others(c) /\ Same(c)
          /\ job'[c].stages = job[c].stages /\ job'[c].got = job[c].got
          /\ job'[c].key = job[c].key
      BY <1>1, <3>1, GotoMoves
    <3>3. Position(job[c])'
      BY <1>1, <1>2, <1>3, <3>2 DEF Position, Same
    <3>4. QED
      BY <3>2, <3>3
  <2>2. CASE ~job[c].changed
    <3>1. Finish(c, edition, edition)
      BY <1>2, <2>2 DEF ReplacePeerPath
    <3>2. /\ job' \in [Procs -> JobType] /\ Others(c) /\ Same(c)
          /\ job'[c].got.of = edition /\ job'[c].got.is = edition
          /\ Onward(c)
      BY <1>1, <1>2, <1>5, <3>1, FinishMoves
    <3>3. Position(job[c])'
      BY <1>1, <1>2, <1>3, <3>2 DEF Position, Same, Onward
    <3>4. QED
      BY <3>2, <3>3 DEF Onward
  <2>3. QED
    BY <2>1, <2>2
<1>7. job[c].changed => job'[c].pc = "putPom" /\ job'[c].changed /\ job'[c].got = job[c].got
                        /\ spoiled' = spoiled
  <2>1. ASSUME job[c].changed
        PROVE  job'[c].pc = "putPom" /\ job'[c].changed /\ job'[c].got = job[c].got
               /\ spoiled' = spoiled
    <3>1. Goto(c, "putPom") /\ spoiled' = spoiled
      BY <1>2, <2>1 DEF ReplacePeerPath
    <3>2. job'[c].pc = "putPom" /\ job'[c].changed = job[c].changed /\ job'[c].got = job[c].got
      BY <1>1, <3>1, GotoMoves
    <3>3. QED
      BY <2>1, <3>1, <3>2
  <2>2. QED
    BY <2>1
<1>8. ~job[c].changed => job'[c].pc \in {"run", "stage"} /\ peerPom = edition
  <2>1. ASSUME ~job[c].changed
        PROVE  job'[c].pc \in {"run", "stage"} /\ peerPom = edition
    <3>1. Finish(c, edition, edition)
      BY <1>2, <2>1 DEF ReplacePeerPath
    <3>2. job'[c].pc \in {"run", "stage"}
      BY <1>1, <1>2, <1>5, <3>1, FinishMoves DEF Onward
    <3>3. QED
      BY <1>1, <1>2, <2>1, <3>2 DEF OnPeer
  <2>2. QED
    BY <2>1
<1>9. CachesTypeOK'
  BY <1>1, <1>3, <1>4, <1>6 DEF CachesTypeOK, sources, paths
<1>10. Positions'
  BY <1>1, <1>3, <1>6, PositionsMove
<1>11. PathsInv'
  BY <1>1, <1>3, <1>4, <1>6, PathsMove
<1>12. PeerInv'
  <2>1. ASSUME NEW d \in Procs
        PROVE  OnPeer(job[d])'
    <3>1. CASE d # c
      <4>1. job'[d] = job[d] /\ OnPeer(job[d])
        BY <1>1, <1>6, <3>1 DEF Others, PeerInv
      <4>2. QED
        BY <1>3, <4>1 DEF OnPeer
    <3>2. CASE d = c
      <4>1. CASE job[c].changed
        BY <1>2, <1>3, <1>7, <3>2, <4>1 DEF OnPeer
      <4>2. CASE ~job[c].changed
        BY <1>8, <3>2, <4>2 DEF OnPeer
      <4>3. QED
        BY <4>1, <4>2
    <3>3. QED
      BY <3>1, <3>2
  <2>2. peerPom' # None /\ peerPath' # peerPom' =>
          \E d \in Procs : job'[d].pc = "putPom" /\ peerPom' # edition'
    BY <1>3, <1>7, <1>8
  <2>3. QED
    BY <2>1, <2>2 DEF PeerInv
<1>13. EntriesInv'
  BY <1>1, <1>3 DEF EntriesInv
<1>14. GotInv'
  <2>1. \/ job[c].changed /\ (peerPom # edition \/ peerPath = edition)
        \/ ~job[c].changed /\ (peerPath = edition \/ peerPath \notin m2)
    BY <1>1, <1>2 DEF OnPeer
  <2>2. ASSUME NEW d \in Procs, job'[d].got # None
        PROVE  Explained(job[d].got)'
    <3>1. CASE job'[d].got = job[d].got
      <4>1. Explained(job[d].got)
        BY <1>1, <2>2, <3>1 DEF GotInv
      <4>2. QED
        BY <1>3, <1>4, <2>1, <3>1, <4>1 DEF Explained
    <3>2. CASE job'[d].got # job[d].got
      <4>1. d = c /\ job'[c].got.is = job'[c].got.of /\ job'[c].got.is = edition
        BY <1>6, <2>2, <3>2 DEF Others
      <4>2. QED
        BY <1>2, <1>3, <4>1 DEF Explained
    <3>3. QED
      BY <3>1, <3>2
  <2>3. QED
    BY <2>2 DEF GotInv
<1>15. QED
  BY <1>9, <1>10, <1>11, <1>12, <1>13, <1>14 DEF CachesOK, CachesInv

LEMMA ReplacePeerPomStep ==
    ASSUME CachesOK, NEW c \in Procs, ReplacePeerPom(c)
    PROVE  CachesOK'
<1>1. /\ CachesTypeOK /\ Positions /\ PathsInv /\ PeerInv /\ EntriesInv /\ GotInv
      /\ Position(job[c]) /\ OnPeer(job[c]) /\ edition \in Editions /\ job[c] \in JobType
  BY Parts
<1>2. /\ job[c].pc = "putPom" /\ Head(job[c].stages) = "peer" /\ job[c].key = edition
      /\ job[c].stages # <<>> /\ edition \in m2 /\ peerPath = edition
  BY <1>1 DEF ReplacePeerPom, At, Position, OnPeer
<1>3. /\ peerPom' = edition /\ spoiled' = spoiled \ Editions /\ Finish(c, edition, edition)
      /\ UNCHANGED <<sources, m2, paths, peerPath, entry>>
      /\ pom' = pom /\ edition' = edition /\ peerPath' = peerPath /\ m2' = m2
  BY <1>2 DEF ReplacePeerPom, sources
<1>4. spoiled \cap Poms \subseteq spoiled'
  BY <1>3, ArtifactFacts
<1>5. edition \in Artifacts
  BY <1>1, ArtifactFacts
<1>6. /\ job' \in [Procs -> JobType] /\ Others(c) /\ Same(c)
      /\ job'[c].got.of = edition /\ job'[c].got.is = edition
      /\ Onward(c)
  BY <1>1, <1>2, <1>3, <1>5, FinishMoves
<1>7. CachesTypeOK'
  BY <1>1, <1>3, <1>6 DEF CachesTypeOK, sources, paths
<1>8. Positions'
  <2>1. Position(job[c])'
    BY <1>1, <1>2, <1>3, <1>6 DEF Position, Same, Onward
  <2>2. QED
    BY <1>1, <1>3, <1>6, <2>1, PositionsMove
<1>9. PathsInv'
  BY <1>1, <1>3, <1>4, <1>6, PathsMove DEF Onward
<1>10. PeerInv'
  <2>1. ASSUME NEW d \in Procs
        PROVE  OnPeer(job[d])'
    <3>1. CASE d # c
      <4>1. job'[d] = job[d] /\ OnPeer(job[d])
        BY <1>1, <1>6, <3>1 DEF Others, PeerInv
      <4>2. QED
        BY <1>2, <1>3, <4>1 DEF OnPeer
    <3>2. CASE d = c
      BY <1>6, <3>2 DEF OnPeer, Onward
    <3>3. QED
      BY <3>1, <3>2
  <2>2. peerPath' = peerPom'
    BY <1>2, <1>3
  <2>3. QED
    BY <2>1, <2>2 DEF PeerInv
<1>11. EntriesInv'
  BY <1>1, <1>3 DEF EntriesInv
<1>12. GotInv'
  <2>1. ASSUME NEW d \in Procs, job'[d].got # None
        PROVE  Explained(job[d].got)'
    <3>1. CASE d # c
      <4>1. job'[d] = job[d] /\ Explained(job[d].got)
        BY <1>1, <1>6, <2>1, <3>1 DEF GotInv, Others
      <4>2. QED
        BY <1>2, <1>3, <1>4, <4>1 DEF Explained
    <3>2. CASE d = c
      BY <1>2, <1>3, <1>6, <3>2 DEF Explained
    <3>3. QED
      BY <3>1, <3>2
  <2>2. QED
    BY <2>1 DEF GotInv
<1>13. QED
  BY <1>7, <1>8, <1>9, <1>10, <1>11, <1>12 DEF CachesOK, CachesInv

----------------------------------------------------------------------------
(* prepare_processor(), compile_instrument(), and the end of a container *)

(* A stage before a JVM of the diagnostics hands over what was asked for. *)
LEMMA HandOverStep ==
    ASSUME CachesOK, NEW c \in Procs, job[c].stages # <<>>, Head(job[c].stages) # "peer",
           job[c].pc \in {"stage", "rename"}, NEW of \in Artifacts, Finish(c, of, of),
           UNCHANGED <<sources, paths, peer, spoiled>>,
           m2 \subseteq m2', m2' \subseteq m2 \cup {pom, edition, Processor},
           entry' \in [Editions -> Editions \cup {Cut, None}], EntriesInv'
    PROVE  CachesOK'
<1>1. /\ CachesTypeOK /\ Positions /\ PathsInv /\ PeerInv /\ EntriesInv /\ GotInv
      /\ Position(job[c]) /\ pom \in Poms /\ edition \in Editions
  BY Parts
<1>2. of \in Artifacts \cup {Cut}
  OBVIOUS
<1>3. /\ job' \in [Procs -> JobType] /\ Others(c) /\ Same(c) /\ Onward(c)
      /\ job'[c].got.of = of /\ job'[c].got.is = of
      /\ job'[c].got.stage = Head(job[c].stages)
  BY <1>1, <1>2, FinishMoves
<1>4. pom' = pom /\ edition' = edition
  BY DEF sources
<1>5. CachesTypeOK'
  <2>1. m2' \subseteq Artifacts
    BY <1>1 DEF CachesTypeOK, Artifacts
  <2>2. QED
    BY <1>1, <1>3, <2>1 DEF CachesTypeOK, sources, paths, peer
<1>6. Positions'
  <2>1. Position(job[c])'
    BY <1>1, <1>3, <1>4 DEF Position, Same, Onward
  <2>2. QED
    BY <1>1, <1>3, <2>1, PositionsMove
<1>7. PathsInv'
  BY <1>1, <1>3, PathsMove DEF Onward
<1>8. PeerInv'
  BY <1>1, <1>3, PeerMove DEF Onward
<1>9. GotInv'
  <2>1. Explained(job[c].got)'
    BY <1>3 DEF Explained
  <2>2. QED
    BY <1>1, <1>3, <2>1, GotMove
<1>10. QED
  BY <1>5, <1>6, <1>7, <1>8, <1>9 DEF CachesOK, CachesInv

LEMMA FetchProcessorStep ==
    ASSUME CachesOK, NEW c \in Procs, FetchProcessor(c)
    PROVE  CachesOK'
<1>1. CachesTypeOK /\ EntriesInv /\ Position(job[c])
  BY Parts
<1>2. /\ job[c].pc = "stage" /\ Head(job[c].stages) = "processor" /\ job[c].stages # <<>>
      /\ Finish(c, Processor, Processor) /\ m2' = m2 \cup {Processor}
      /\ UNCHANGED <<sources, paths, peer, spoiled>> /\ entry' = entry
  BY <1>1 DEF FetchProcessor, At, Download, Position
<1>3. entry' \in [Editions -> Editions \cup {Cut, None}] /\ EntriesInv'
  BY <1>1, <1>2 DEF CachesTypeOK, EntriesInv
<1>4. QED
  BY <1>2, <1>3, ArtifactFacts, HandOverStep

LEMMA ProcessorUnpreparedStep ==
    ASSUME CachesOK, NEW c \in Procs, ProcessorUnprepared(c)
    PROVE  CachesOK'
<1>1. job[c].pc = "stage" /\ Goto(c, "unprepared") /\ UNCHANGED disk
  BY DEF ProcessorUnprepared, At
<1>2. QED
  BY <1>1, StopStep

(* An entry is whole or not there: nothing is refused as incomplete. *)
LEMMA HashInstrumentStep ==
    ASSUME CachesOK, NEW c \in Procs, HashInstrument(c)
    PROVE  CachesOK'
<1>1. CachesTypeOK /\ EntriesInv /\ Position(job[c]) /\ edition \in Editions /\ job[c] \in JobType
  BY Parts
<1>2. /\ job[c].pc = "stage" /\ Head(job[c].stages) = "instrument" /\ job[c].stages # <<>>
      /\ UNCHANGED disk
  BY <1>1 DEF HashInstrument, At, Position
<1>3. /\ UNCHANGED <<sources, paths, peer, entry, spoiled>> /\ m2' = m2
      /\ pom' = pom /\ edition' = edition /\ entry' = entry
  BY <1>2 DEF disk, sources
<1>4. entry[edition] \in {edition, None} /\ (Whole(edition) <=> entry[edition] = edition)
  BY <1>1, ArtifactFacts DEF EntriesInv, Whole
<1>5. CASE Whole(edition)
  <2>1. Finish(c, edition, edition)
    BY <1>4, <1>5 DEF HashInstrument
  <2>2. entry' \in [Editions -> Editions \cup {Cut, None}] /\ EntriesInv'
    BY <1>1, <1>3 DEF CachesTypeOK, EntriesInv
  <2>3. edition \in Artifacts
    BY <1>1, ArtifactFacts
  <2>4. QED
    BY <1>2, <1>3, <2>1, <2>2, <2>3, HandOverStep
<1>6. CASE ~Whole(edition)
  <2>1. GotoKey(c, "javac", edition)
    BY <1>4, <1>6 DEF HashInstrument
  <2>2. /\ job' \in [Procs -> JobType] /\ job'[c].pc = "javac" /\ Others(c) /\ Same(c)
        /\ job'[c].stages = job[c].stages /\ job'[c].got = job[c].got
        /\ job'[c].key = edition
    BY <1>1, <2>1, GotoKeyMoves
  <2>3. Position(job[c])'
    BY <1>1, <1>2, <1>3, <2>2 DEF Position, Same
  <2>4. QED
    BY <1>2, <1>3, <2>2, <2>3, QuietStep
<1>7. QED
  BY <1>5, <1>6

LEMMA JavacStep ==
    ASSUME CachesOK, NEW c \in Procs, Javac(c)
    PROVE  CachesOK'
<1> DEFINE j == [job[c] EXCEPT !.pc = "rename", !.built = edition]
<1>1. CachesTypeOK /\ Position(job[c]) /\ edition \in Editions /\ job[c] \in JobType
  BY Parts
<1>2. /\ job[c].pc = "javac" /\ Head(job[c].stages) = "instrument"
      /\ job' = [job EXCEPT ![c].pc = "rename", ![c].built = edition] /\ UNCHANGED disk
  BY DEF Javac, At
<1>3. job' = [job EXCEPT ![c] = j] /\ j \in JobType
  BY <1>1, <1>2 DEF CachesTypeOK, JobType
<1>4. job'[c] = j /\ Others(c) /\ job' \in [Procs -> JobType]
  <2> HIDE DEF j
  <2> QED BY <1>1, <1>3 DEF CachesTypeOK, Others
<1>5. /\ job'[c].pc = "rename" /\ job'[c].built = edition /\ job'[c].stages = job[c].stages
      /\ job'[c].since = job[c].since /\ job'[c].key = job[c].key /\ job'[c].got = job[c].got
  BY <1>1, <1>4 DEF JobType
<1> HIDE DEF j
<1>6. /\ UNCHANGED <<sources, paths, peer, entry, spoiled>> /\ m2' = m2
      /\ pom' = pom /\ edition' = edition
  BY <1>2 DEF disk, sources
<1>7. Position(job[c])'
  BY <1>1, <1>2, <1>5, <1>6 DEF Position
<1>8. QED
  BY <1>2, <1>4, <1>5, <1>6, <1>7, QuietStep

LEMMA RenameInstrumentStep ==
    ASSUME CachesOK, NEW c \in Procs, RenameInstrument(c)
    PROVE  CachesOK'
<1>1. CachesTypeOK /\ EntriesInv /\ Position(job[c]) /\ edition \in Editions /\ job[c] \in JobType
  BY Parts
<1>2. /\ job[c].pc = "rename" /\ Head(job[c].stages) = "instrument" /\ job[c].stages # <<>>
      /\ job[c].key = edition /\ job[c].built = edition
  BY <1>1 DEF RenameInstrument, At, Position
<1>3. /\ entry' = [entry EXCEPT ![edition] = edition] /\ Finish(c, edition, edition)
      /\ UNCHANGED <<sources, m2, paths, peer, spoiled>>
  BY <1>2 DEF RenameInstrument
<1>4. entry' \in [Editions -> Editions \cup {Cut, None}] /\ EntriesInv'
  BY <1>1, <1>3 DEF CachesTypeOK, EntriesInv
<1>5. edition \in Artifacts
  BY <1>1, ArtifactFacts
<1>6. QED
  BY <1>2, <1>3, <1>4, <1>5, HandOverStep

LEMMA EntryExistsStep ==
    ASSUME CachesOK, NEW c \in Procs, EntryExists(c)
    PROVE  CachesOK'
BY StopStep DEF EntryExists, At

LEMMA RunEndsStep ==
    ASSUME CachesOK, NEW c \in Procs, RunEnds(c)
    PROVE  CachesOK'
<1>1. job[c].pc = "run" /\ job[c].stages = <<>> /\ Goto(c, "done") /\ UNCHANGED disk
  BY Parts DEF RunEnds, Position
<1>2. QED
  BY <1>1, StopStep

LEMMA StageFailsStep ==
    ASSUME CachesOK, NEW c \in Procs, StageFails(c)
    PROVE  CachesOK'
BY StopStep DEF StageFails

(* A container killed between the two replacements of a peer's files spoils
   the edition of the old pom. *)
LEMMA KillContainerStep ==
    ASSUME CachesOK, NEW c \in Procs, KillContainer(c)
    PROVE  CachesOK'
<1>1. /\ CachesTypeOK /\ Positions /\ PathsInv /\ PeerInv /\ EntriesInv /\ GotInv
      /\ Position(job[c]) /\ OnPeer(job[c]) /\ edition \in Editions /\ job[c] \in JobType
  BY Parts
<1>2. Goto(c, "killed") /\ UNCHANGED <<sources, m2, paths, peer, entry>>
  BY DEF KillContainer
<1>3. /\ job' \in [Procs -> JobType] /\ job'[c].pc = "killed" /\ Others(c)
      /\ job'[c].got = job[c].got
  BY <1>1, <1>2, GotoMoves
<1>4. /\ spoiled \subseteq spoiled'
      /\ spoiled' \subseteq spoiled \cup Editions
      /\ job[c].pc = "putPom" /\ peerPom # None /\ peerPom # edition => peerPom \in spoiled'
      /\ spoiled' # spoiled => job[c].pc = "putPom"
  BY <1>1 DEF KillContainer, CachesTypeOK, Position
<1>5. /\ edition' = edition /\ pom' = pom /\ peerPom' = peerPom /\ peerPath' = peerPath
      /\ m2' = m2
  BY <1>2 DEF sources, peer
<1>6. CachesTypeOK'
  BY <1>1, <1>2, <1>3, <1>4 DEF CachesTypeOK, sources, paths, peer
<1>7. Positions'
  <2>1. Position(job[c])'
    BY <1>3 DEF Position
  <2>2. QED
    BY <1>1, <1>2, <1>3, <2>1, PositionsMove
<1>8. PathsInv'
  BY <1>1, <1>2, <1>3, <1>4, PathsMove
<1>9. PeerInv'
  <2>1. ASSUME NEW d \in Procs
        PROVE  OnPeer(job[d])'
    <3>1. CASE d # c
      <4>1. job'[d] = job[d] /\ OnPeer(job[d])
        BY <1>1, <1>3, <3>1 DEF Others, PeerInv
      <4>2. QED
        BY <1>5, <4>1 DEF OnPeer
    <3>2. CASE d = c
      BY <1>3, <3>2 DEF OnPeer
    <3>3. QED
      BY <3>1, <3>2
  <2>2. ASSUME peerPom' # None, peerPath' # peerPom', peerPom' \notin spoiled'
        PROVE  \E d \in Procs : job'[d].pc = "putPom" /\ peerPom' # edition'
    <3>1. PICK d \in Procs : job[d].pc = "putPom" /\ peerPom # edition
      BY <1>1, <1>4, <1>5, <2>2 DEF PeerInv
    <3>2. d # c
      BY <1>4, <1>5, <2>2, <3>1
    <3>3. QED
      BY <1>3, <1>5, <3>1, <3>2 DEF Others
  <2>3. QED
    BY <2>1, <2>2 DEF PeerInv
<1>10. EntriesInv'
  BY <1>1, <1>2 DEF EntriesInv
<1>11. GotInv'
  BY <1>1, <1>2, <1>3, <1>4, <1>5, GotMove
<1>12. QED
  BY <1>6, <1>7, <1>8, <1>9, <1>10, <1>11 DEF CachesOK, CachesInv

(* Any step of a container keeps the caches in order. *)
LEMMA ContainerKeepsCaches ==
    ASSUME CachesOK, NEW c \in Procs, ContainerStep(c)
    PROVE  CachesOK'
BY MvnCompileStep, ProductUnpreparedStep, LookUpPathStep, OpenPartialStep, WritePartialStep,
   ReplacePathStep, PartialMissingStep, ReadPathStep, PathUnresolvedStep, ReadPeerPomStep,
   ReusePeerStep, MissPeerStep, ResolvePeerStep, PeerUnpreparedStep, ReplacePeerPathStep,
   ReplacePeerPomStep, FetchProcessorStep, ProcessorUnpreparedStep, HashInstrumentStep,
   JavacStep, RenameInstrumentStep, EntryExistsStep, RunEndsStep, StageFailsStep,
   KillContainerStep
   DEF ContainerStep

----------------------------------------------------------------------------
(* The containers of a command *)

Works == UNION {{r.works[i] : i \in DOMAIN r.works} : r \in Requests}
Cases == {<<w, l>> : w \in Works, l \in Langs}
Containers == [lang : Langs, case : Cases \cup {<<>>}, image : Images, stages : StageSeqs,
               net : BOOLEAN, prepare : BOOLEAN]

LEMMA RequestFacts ==
    ASSUME NEW r \in Requests
    PROVE  /\ r.command \in CommandNames /\ r.langs \in Seq(Langs)
           /\ Len(r.langs) \in Nat /\ DOMAIN r.langs = 1..Len(r.langs)
           /\ \A i \in 1..Len(r.langs) : r.langs[i] \in Langs
           /\ Len(r.works) \in Nat /\ DOMAIN r.works = 1..Len(r.works)
           /\ \A i \in 1..Len(r.works) : r.works[i] \in Works
<1> DEFINE W == {r.works[i] : i \in DOMAIN r.works}
<1>1. r.command \in CommandNames /\ r.langs \in Seq(Langs) /\ r.works \in Seq(W)
  BY RequestsAssumption
<1>2. W \subseteq Works
  BY DEF Works
<1> HIDE DEF W
<1>3. QED
  BY <1>1, <1>2

LEMMA ContainerFacts ==
    ASSUME NEW l \in Langs, NEW s \in StageSeqs, NEW net \in BOOLEAN
    PROVE  /\ Container(l, s, net) \in Containers
           /\ Container(l, s, net).stages = s /\ Container(l, s, net).net = net
           /\ Container(l, s, net).image = ImageOf(l) /\ Container(l, s, net).lang = l
           /\ Container(l, s, net).case = <<>>
BY ImagesAssumption DEF Container, Containers, ImageOf

LEMMA StageFacts ==
    ASSUME NEW l \in Langs
    PROVE  /\ RuntimeOf(l) \in StageSeqs /\ DiagnosticStages(l) \in StageSeqs
           /\ l = "js" => RuntimeOf(l) = <<"peer">>
           /\ Online(l) \in BOOLEAN /\ Offline(l) \in BOOLEAN
<1>1. ASSUME NEW x, NEW y
      PROVE  Append(<<x>>, y) = <<x, y>>
  <2> DEFINE S == {x, y}
  <2>1. <<x>> \in Seq(S) /\ <<x, y>> \in Seq(S) /\ y \in S /\ Len(<<x>>) = 1
        /\ Len(<<x, y>>) = 2 /\ <<x>>[1] = x /\ <<x, y>>[1] = x /\ <<x, y>>[2] = y
    OBVIOUS
  <2> DEFINE s == <<x>>
             t == <<x, y>>
             a == Append(s, y)
  <2> HIDE DEF S, s, t
  <2>2. s \in Seq(S) /\ Len(s) = 1 /\ s[1] = x
    BY <2>1 DEF s
  <2>3. a \in Seq(S) /\ Len(a) = 2 /\ a[1] = x /\ a[2] = y
    <3>1. /\ a \in Seq(S) /\ Len(a) = Len(s) + 1
          /\ \A i \in 1..Len(s) : a[i] = s[i]
          /\ a[Len(s) + 1] = y
      <4>1. s \in Seq(S) /\ y \in S
        BY <2>1, <2>2
      <4>2. QED
        BY <4>1, AppendProperties
    <3> HIDE DEF a
    <3>2. QED
      BY <2>2, <3>1
  <2>4. t \in Seq(S) /\ Len(t) = 2 /\ t[1] = x /\ t[2] = y
    BY <2>1 DEF t
  <2> HIDE DEF a
  <2>5. \A i \in 1..Len(a) : a[i] = t[i]
    BY <2>3, <2>4
  <2>6. a = t
    BY <2>3, <2>4, <2>5, SeqEqual
  <2>7. QED
    BY <2>6 DEF a, s, t
<1>2. QED
  BY <1>1 DEF Langs, RuntimeOf, DiagnosticStages, StageSeqs, Online, Offline

(* Rounds of a batch are its workloads times its languages. *)
LEMMA Rounds ==
    ASSUME NEW m \in Nat, NEW n \in Nat, NEW i \in 1..(m * n)
    PROVE  /\ n > 0 /\ ((i - 1) % n) + 1 \in 1..n
           /\ ((i - 1) \div n) + 1 \in 1..m
<1>1. n > 0
  <2>1. CASE n = 0
    <3>1. m * n = 0
      BY <2>1
    <3>2. QED
      BY <3>1
  <2>2. QED
    BY <2>1
<1> DEFINE q == (i - 1) \div n
           r == (i - 1) % n
<1>2. i - 1 = n * q + r /\ r \in 0..(n - 1) /\ q \in Int
  BY <1>1
<1> HIDE DEF q, r
<1>3. n * q \in Int /\ m * n \in Int
  BY <1>2
<1>4. q >= 0
  <2>1. CASE q < 0
    <3>1. n * q <= -n
      BY <1>1, <1>2, <2>1
    <3>2. QED
      BY <1>2, <1>3, <3>1
  <2>2. QED
    BY <1>2, <2>1
<1>5. q < m
  <2>1. CASE q >= m
    <3>1. n * q >= m * n
      BY <1>1, <1>2, <2>1
    <3>2. QED
      BY <1>2, <1>3, <3>1
  <2>2. QED
    BY <1>2, <2>1
<1>6. QED
  BY <1>1, <1>2, <1>4, <1>5 DEF q, r

LEMMA FunctionIsSeq ==
    ASSUME NEW S, NEW n \in Nat, NEW f \in [1..n -> S]
    PROVE  f \in Seq(S) /\ Len(f) = n
OBVIOUS

LEMMA PerLanguageFacts ==
    ASSUME NEW r \in Requests
    PROVE  /\ PerLanguage(r, RuntimeOf, Online) \in Seq(Containers)
           /\ PerLanguage(r, DiagnosticStages, Offline) \in Seq(Containers)
           /\ PerLanguage(r, RuntimeOf, Offline) \in Seq(Containers)
           /\ DOMAIN PerLanguage(r, RuntimeOf, Online) = DOMAIN r.langs
           /\ \A i \in DOMAIN r.langs :
                 PerLanguage(r, RuntimeOf, Online)[i].stages = RuntimeOf(r.langs[i])
<1> DEFINE n == Len(r.langs)
           f == [i \in 1..n |-> Container(r.langs[i], RuntimeOf(r.langs[i]), Online(r.langs[i]))]
           g == [i \in 1..n |-> Container(r.langs[i], DiagnosticStages(r.langs[i]),
                                          Offline(r.langs[i]))]
           h == [i \in 1..n |-> Container(r.langs[i], RuntimeOf(r.langs[i]),
                                          Offline(r.langs[i]))]
<1>1. n \in Nat /\ DOMAIN r.langs = 1..n /\ \A i \in 1..n : r.langs[i] \in Langs
  BY RequestFacts
<1>2. /\ PerLanguage(r, RuntimeOf, Online) = f
      /\ PerLanguage(r, DiagnosticStages, Offline) = g
      /\ PerLanguage(r, RuntimeOf, Offline) = h
  BY <1>1, Zenon DEF PerLanguage
<1>3. f \in [1..n -> Containers] /\ g \in [1..n -> Containers] /\ h \in [1..n -> Containers]
  <2> HIDE DEF n
  <2>1. ASSUME NEW i \in 1..n
        PROVE  /\ Container(r.langs[i], RuntimeOf(r.langs[i]), Online(r.langs[i])) \in Containers
               /\ Container(r.langs[i], DiagnosticStages(r.langs[i]), Offline(r.langs[i]))
                     \in Containers
               /\ Container(r.langs[i], RuntimeOf(r.langs[i]), Offline(r.langs[i]))
                     \in Containers
    BY <1>1, StageFacts, ContainerFacts
  <2>2. QED
    BY <2>1
<1>4. \A i \in 1..n : f[i].stages = RuntimeOf(r.langs[i])
  BY <1>1, StageFacts, ContainerFacts
<1> HIDE DEF n, f, g, h
<1>5. DOMAIN f = 1..n
  BY <1>3
<1>6. QED
  BY <1>1, <1>2, <1>3, <1>4, <1>5, FunctionIsSeq

LEMMA MeasurementFacts ==
    ASSUME NEW r \in Requests
    PROVE  /\ MeasurementPlan(r) \in Seq(Containers)
           /\ \A i \in 1..Len(MeasurementPlan(r)) :
                 /\ MeasurementPlan(r)[i].case \in Cases
                 /\ MeasurementPlan(r)[i].image = ImageOf(MeasurementPlan(r)[i].case[2])
<1> DEFINE m == Len(r.works)
           n == Len(r.langs)
           k == m * n
           lang(i) == r.langs[((i - 1) % n) + 1]
           work(i) == r.works[((i - 1) \div n) + 1]
           e(i) == [Container(lang(i), RuntimeOf(lang(i)), FALSE)
                       EXCEPT !.case = <<work(i), lang(i)>>]
           f == [i \in 1..k |-> e(i)]
<1>1. m \in Nat /\ n \in Nat /\ k \in Nat
  <2>1. m \in Nat /\ n \in Nat
    BY RequestFacts
  <2> HIDE DEF m, n
  <2>2. QED
    BY <2>1
<1>2. MeasurementPlan(r) = f
  BY Zenon DEF MeasurementPlan
<1>3. ASSUME NEW i \in 1..k
      PROVE  lang(i) \in Langs /\ work(i) \in Works
  <2>1. ((i - 1) % n) + 1 \in 1..n /\ ((i - 1) \div n) + 1 \in 1..m
    BY <1>1, <1>3, Rounds
  <2>2. QED
    BY <2>1, RequestFacts
<1>4. ASSUME NEW w \in Works, NEW l \in Langs,
             NEW x, x = [Container(l, RuntimeOf(l), FALSE) EXCEPT !.case = <<w, l>>]
      PROVE  x \in Containers /\ x.case \in Cases /\ x.image = ImageOf(x.case[2])
  <2> DEFINE s == RuntimeOf(l)
             p == <<w, l>>
  <2>1. s \in StageSeqs /\ p \in Cases /\ p[2] = l /\ ImageOf(l) \in Images
    BY StageFacts, ImagesAssumption DEF Cases, ImageOf
  <2>2. x = [Container(l, s, FALSE) EXCEPT !.case = p]
    BY <1>4
  <2> HIDE DEF s, p
  <2>3. x = [lang |-> l, case |-> p, image |-> ImageOf(l), stages |-> s,
             net |-> FALSE, prepare |-> FALSE]
    BY <2>2 DEF Container
  <2>4. QED
    BY <2>1, <2>3 DEF Containers
<1>5. \A i \in 1..k : /\ e(i) \in Containers /\ e(i).case \in Cases
                      /\ e(i).image = ImageOf(e(i).case[2])
  <2> HIDE DEF lang, work, k
  <2> QED BY <1>3, <1>4
<1> HIDE DEF e, k
<1>6. f \in [1..k -> Containers]
  BY <1>5
<1>7. f \in Seq(Containers) /\ Len(f) = k
  <2> HIDE DEF f
  <2> QED BY <1>1, <1>6, FunctionIsSeq
<1>8. QED
  BY <1>2, <1>5, <1>7

LEMMA ShortPlans ==
    ASSUME NEW S, NEW x \in S, NEW y \in S
    PROVE  <<x>> \in Seq(S) /\ <<x, y>> \in Seq(S) /\ <<>> \in Seq(S)
OBVIOUS

(* What a plan is, for every command. *)
LEMMA PlanFacts ==
    ASSUME NEW r \in Requests
    PROVE  /\ Plan(r) \in Seq(Containers) /\ Len(Plan(r)) \in Nat
           /\ \A i \in 1..Len(Plan(r)) : Plan(r)[i] \in Containers
           /\ r.command = "measure" => \A i \in 1..Len(Plan(r)) :
                 /\ Plan(r)[i].case \in Cases
                 /\ Plan(r)[i].image = ImageOf(Plan(r)[i].case[2])
<1>1. r.command \in CommandNames
  BY RequestFacts
<1>2. ProductPreparePlan \in Seq(Containers)
  <2>1. Container("protos", <<"product">>, TRUE) \in Containers
    BY ContainerFacts DEF Langs, StageSeqs
  <2>2. QED
    BY <2>1, ShortPlans DEF ProductPreparePlan
<1>3. BytecodePreparePlan \in Seq(Containers)
  <2>1. /\ Container("js", <<"processor">>, TRUE) \in Containers
        /\ Container("js", <<"processor">>, FALSE) \in Containers
    BY ContainerFacts DEF Langs, StageSeqs
  <2>2. QED
    BY <2>1, ShortPlans DEF BytecodePreparePlan
<1>4. Plan(r) \in Seq(Containers)
  <2>1. /\ PeerPreparePlan(r) \in Seq(Containers) /\ DiagnosticPlan(r) \in Seq(Containers)
        /\ GraphsPlan(r) \in Seq(Containers)
    BY PerLanguageFacts, Zenon DEF PeerPreparePlan, DiagnosticPlan, GraphsPlan
  <2>2. \/ Plan(r) = MeasurementPlan(r) \/ Plan(r) = PeerPreparePlan(r)
        \/ Plan(r) = ProductPreparePlan \/ Plan(r) = BytecodePreparePlan
        \/ Plan(r) = DiagnosticPlan(r) \/ Plan(r) = GraphsPlan(r) \/ Plan(r) = <<>>
    BY <1>1 DEF Plan, CommandNames
  <2>3. QED
    BY <1>2, <1>3, <2>1, <2>2, MeasurementFacts, EmptySeq
<1>5. r.command = "measure" => Plan(r) = MeasurementPlan(r)
  BY DEF Plan
<1>6. QED
  BY <1>4, <1>5, MeasurementFacts, ElementOfSeq, LenProperties

(* Only the containers of a measurement are for a case. *)
LEMMA PlainPlans ==
    ASSUME NEW r \in Requests, r.command # "measure", NEW i \in 1..Len(Plan(r))
    PROVE  Plan(r)[i].case = <<>>
<1>1. r.command \in CommandNames /\ DOMAIN r.langs = 1..Len(r.langs) /\ Len(r.langs) \in Nat
      /\ \A j \in 1..Len(r.langs) : r.langs[j] \in Langs
  BY RequestFacts
<1>2. CASE Plan(r) = PeerPreparePlan(r) \/ Plan(r) = DiagnosticPlan(r) \/ Plan(r) = GraphsPlan(r)
  <2>1. DOMAIN Plan(r) = DOMAIN r.langs
    BY <1>2, Zenon DEF PeerPreparePlan, DiagnosticPlan, GraphsPlan, PerLanguage
  <2>2. i \in DOMAIN r.langs /\ r.langs[i] \in Langs
    BY <1>1, <2>1, PlanFacts, LenProperties
  <2>3. \/ Plan(r)[i] = Container(r.langs[i], RuntimeOf(r.langs[i]), Online(r.langs[i]))
        \/ Plan(r)[i] = Container(r.langs[i], DiagnosticStages(r.langs[i]), Offline(r.langs[i]))
        \/ Plan(r)[i] = Container(r.langs[i], RuntimeOf(r.langs[i]), Offline(r.langs[i]))
    BY <1>2, <2>2, Zenon DEF PeerPreparePlan, DiagnosticPlan, GraphsPlan, PerLanguage
  <2>4. QED
    BY <2>2, <2>3, StageFacts, ContainerFacts
<1>3. CASE Plan(r) = ProductPreparePlan
  <2>1. i = 1
    BY <1>3 DEF ProductPreparePlan
  <2> DEFINE s == <<"product">>
             k == Plan(r)[1]
  <2>2. k = Container("protos", s, TRUE)
    BY <1>3 DEF ProductPreparePlan
  <2> HIDE DEF k, s
  <2>3. k.case = <<>>
    BY <2>2 DEF Container
  <2>4. QED
    BY <2>1, <2>3 DEF k
<1>4. CASE Plan(r) = BytecodePreparePlan
  <2>1. i \in 1..2
    BY <1>4 DEF BytecodePreparePlan
  <2> DEFINE s == <<"processor">>
             k == Plan(r)[i]
  <2>2. k = Container("js", s, TRUE) \/ k = Container("js", s, FALSE)
    <3> DEFINE x == Container("js", s, TRUE)
               y == Container("js", s, FALSE)
    <3>1. Plan(r) = <<x, y>> /\ (i = 1 \/ i = 2)
      BY <1>4, <2>1 DEF BytecodePreparePlan
    <3> HIDE DEF x, y
    <3>2. k = x \/ k = y
      BY <3>1
    <3>3. QED
      BY <3>2 DEF x, y
  <2> HIDE DEF k, s
  <2>3. k.case = <<>>
    BY <2>2 DEF Container
  <2>4. QED
    BY <2>3 DEF k
<1>5. CASE Plan(r) = <<>>
  BY <1>5
<1>6. QED
  BY <1>1, <1>2, <1>3, <1>4, <1>5 DEF Plan, CommandNames

----------------------------------------------------------------------------
(* What a step of a container means for the commands *)

(* The stages that a container has left, and what it leaves behind one. *)
LEMMA SequenceStages ==
    ASSUME NEW s \in StageSeqs, s # <<>>
    PROVE  StagesOf(s) \subseteq StagesOf(Tail(s)) \cup {Head(s)}
<1>1. \A x : Head(<<x>>) = x /\ DOMAIN <<x>> = 1..1 /\ <<x>>[1] = x
  OBVIOUS
<1>2. \A x, y : /\ Head(<<x, y>>) = x /\ Tail(<<x, y>>) = <<y>> /\ DOMAIN <<x, y>> = 1..2
                /\ <<x, y>>[1] = x /\ <<x, y>>[2] = y
  OBVIOUS
<1>3. CASE \E x \in Stages : s = <<x>>
  BY <1>1, <1>3 DEF StagesOf
<1>4. CASE \E x \in Stages : s = <<x, "instrument">>
  BY <1>1, <1>2, <1>4 DEF StagesOf
<1>5. QED
  BY <1>3, <1>4 DEF StageSeqs, Stages

StageDone(c) ==
    \/ job'[c].stages = job[c].stages
    \/ /\ job[c].stages # <<>> /\ job'[c].stages = Tail(job[c].stages)
       /\ \E s \in Stages : s = Head(job[c].stages) /\ Provided(s)'

(* What the commands need to know of a step of a container. *)
Onwards(c) ==
    /\ pom' = pom /\ edition' = edition /\ m2 \subseteq m2'
    /\ edition \in m2 \cup spoiled => edition \in m2' \cup spoiled'
    /\ job[c].pc \in Busy /\ StageDone(c) /\ Others(c)
    /\ job'[c].pc = "unprepared" =>
          /\ Head(job[c].stages) \in {"processor", "instrument"} => Processor \notin m2
          /\ Head(job[c].stages) \notin {"processor", "instrument"} => job'[c].key \notin m2

LEMMA GotoOnwards ==
    ASSUME CachesOK, NEW c \in Procs, NEW pc \in Busy \cup Ended, Goto(c, pc),
           job[c].pc \in Busy, UNCHANGED sources, m2 \subseteq m2',
           edition \in m2 \cup spoiled => edition \in m2' \cup spoiled',
           pc = "unprepared" =>
              /\ Head(job[c].stages) \in {"processor", "instrument"} => Processor \notin m2
              /\ Head(job[c].stages) \notin {"processor", "instrument"} => job[c].key \notin m2
    PROVE  Onwards(c)
<1>1. /\ job'[c].pc = pc /\ job'[c].stages = job[c].stages /\ job'[c].key = job[c].key
      /\ Others(c)
  BY Parts, GotoMoves
<1>2. QED
  BY <1>1 DEF Onwards, StageDone, sources

LEMMA GotoKeyOnwards ==
    ASSUME CachesOK, NEW c \in Procs, NEW pc \in Busy \cup Ended,
           NEW k \in Poms \cup Editions, GotoKey(c, pc, k),
           job[c].pc = "stage" \/ job[c].pc = "lookup", UNCHANGED disk,
           pc = "unprepared" => Head(job[c].stages) = "product" /\ k \notin m2
    PROVE  Onwards(c)
<1>1. job'[c].pc = pc /\ job'[c].stages = job[c].stages /\ job'[c].key = k /\ Others(c)
  BY Parts, GotoKeyMoves
<1>2. QED
  BY <1>1 DEF Onwards, StageDone, disk, sources

LEMMA FinishOnwards ==
    ASSUME CachesOK, NEW c \in Procs, NEW of \in Artifacts,
           NEW is \in Artifacts \cup {Cut}, Finish(c, of, is),
           job[c].pc \in Busy \ {"run"}, UNCHANGED sources, m2 \subseteq m2',
           edition \in m2 \cup spoiled => edition \in m2' \cup spoiled',
           NEW stage \in Stages, stage = Head(job[c].stages), Provided(stage)'
    PROVE  Onwards(c)
<1>1. job[c].stages # <<>>
  BY Parts DEF Position
<1>2. job'[c].stages = Tail(job[c].stages) /\ job'[c].pc # "unprepared" /\ Others(c)
  BY <1>1, Parts, FinishMoves DEF Onward
<1>3. QED
  BY <1>1, <1>2 DEF Onwards, StageDone, sources

LEMMA ProductOnwards ==
    ASSUME CachesOK, NEW c \in Procs,
           \/ MvnCompile(c) \/ ProductUnprepared(c) \/ LookUpPath(c) \/ OpenPartial(c)
           \/ WritePartial(c) \/ ReplacePath(c) \/ PartialMissing(c) \/ ReadPath(c)
           \/ PathUnresolved(c)
    PROVE  Onwards(c)
<1>1. /\ CachesTypeOK /\ Position(job[c]) /\ OnPath(c) /\ pom \in Poms
      /\ job[c] \in JobType
  BY Parts
<1>2. CASE MvnCompile(c)
  <2>1. /\ job[c].pc = "stage" /\ Goto(c, "lookup") /\ m2' = m2 \cup {pom}
        /\ UNCHANGED <<sources, spoiled>>
    BY <1>2 DEF MvnCompile, At, Download
  <2>2. QED
    BY <2>1, GotoOnwards
<1>3. CASE ProductUnprepared(c)
  <2>1. /\ job[c].pc = "stage" /\ Head(job[c].stages) = "product" /\ pom \notin m2
        /\ GotoKey(c, "unprepared", pom) /\ UNCHANGED disk
    BY <1>3 DEF ProductUnprepared, At, CanResolve
  <2>2. QED
    BY <1>1, <2>1, GotoKeyOnwards
<1>4. CASE LookUpPath(c)
  <2>1. /\ job[c].pc = "lookup" /\ UNCHANGED disk
        /\ GotoKey(c, IF pathFile[pom] # None THEN "read" ELSE "resolve", pom)
    BY <1>4 DEF LookUpPath, At
  <2>2. QED
    BY <1>1, <2>1, GotoKeyOnwards
<1>5. CASE OpenPartial(c)
  <2> DEFINE file == IF partial[pom] = None THEN NewFile(pom) ELSE partial[pom]
  <2>1. /\ job[c].pc = "resolve" /\ UNCHANGED <<sources, m2>> /\ spoiled \subseteq spoiled'
        /\ job' = [job EXCEPT ![c].pc = "write", ![c].file = file]
    BY <1>1, <1>5 DEF OpenPartial, At, Position
  <2> HIDE DEF file
  <2>2. job'[c].pc = "write" /\ job'[c].stages = job[c].stages /\ Others(c)
    BY <1>1, <2>1 DEF CachesTypeOK, JobType, Others
  <2>3. QED
    BY <2>1, <2>2 DEF Onwards, StageDone, sources
<1>6. CASE WritePartial(c)
  BY <1>6, GotoOnwards DEF WritePartial, At
<1>7. CASE ReplacePath(c)
  BY <1>7, GotoOnwards DEF ReplacePath, At
<1>8. CASE PartialMissing(c)
  BY <1>8, GotoOnwards DEF PartialMissing, At, disk
<1>9. CASE ReadPath(c)
  <2> DEFINE is == content[pom][pathFile[pom]]
  <2>1. /\ job[c].pc = "read" /\ Head(job[c].stages) = "product" /\ job[c].key = pom
        /\ Finish(c, pom, is) /\ UNCHANGED disk
    BY <1>1, <1>9 DEF ReadPath, At, Position
  <2>2. pathFile[pom] \in Files /\ is \in Artifacts \cup {Cut} /\ pom \in Artifacts
    BY <1>1, <2>1 DEF OnPath, CachesTypeOK, Artifacts
  <2> HIDE DEF is
  <2>3. Provided("product")' /\ UNCHANGED <<sources, m2, spoiled>>
    BY <1>1, <2>1 DEF Provided, OnPath, disk, sources
  <2>4. QED
    BY <2>1, <2>2, <2>3, FinishOnwards DEF Stages
<1>10. CASE PathUnresolved(c)
  BY <1>10, GotoOnwards DEF PathUnresolved, At, disk
<1>11. QED
  BY <1>2, <1>3, <1>4, <1>5, <1>6, <1>7, <1>8, <1>9, <1>10

LEMMA PeerOnwards ==
    ASSUME CachesOK, NEW c \in Procs,
           \/ ReadPeerPom(c) \/ ReusePeer(c) \/ MissPeer(c) \/ ResolvePeer(c)
           \/ PeerUnprepared(c) \/ ReplacePeerPath(c) \/ ReplacePeerPom(c)
    PROVE  Onwards(c)
<1>1. /\ CachesTypeOK /\ Position(job[c]) /\ OnPeer(job[c]) /\ edition \in Editions
      /\ job[c] \in JobType /\ edition \in Artifacts /\ PeerInv
  BY Parts, ArtifactFacts
<1>2. CASE ReadPeerPom(c)
  <2> DEFINE differs == peerPom # job[c].since
             k == job[c].since
  <2>1. /\ job[c].pc = "stage" /\ UNCHANGED disk
        /\ job' = [job EXCEPT ![c].pc = "path", ![c].key = k, ![c].changed = differs]
    BY <1>2 DEF ReadPeerPom, At
  <2> HIDE DEF differs, k
  <2>2. job'[c].pc = "path" /\ job'[c].stages = job[c].stages /\ Others(c)
    BY <1>1, <2>1 DEF CachesTypeOK, JobType, Others
  <2>3. QED
    BY <2>1, <2>2 DEF Onwards, StageDone, disk, sources
<1>3. CASE ReusePeer(c)
  <2>1. /\ job[c].pc = "path" /\ Head(job[c].stages) = "peer" /\ job[c].key = edition
        /\ peerPath \in m2 /\ Finish(c, edition, peerPath) /\ UNCHANGED disk
    BY <1>1, <1>3 DEF ReusePeer, At, Position, Ready
  <2>2. peerPath \in Artifacts \cup {Cut}
    BY <1>1, <2>1 DEF CachesTypeOK, Artifacts
  <2>3. peerPom = edition
    BY <1>1, <1>3, <2>1 DEF ReusePeer, OnPeer
  <2>4. edition \in m2 \cup spoiled
    BY <1>1, <2>1, <2>3, ArtifactFacts DEF PeerInv
  <2>5. Provided("peer")' /\ UNCHANGED <<sources, m2, spoiled>>
    BY <2>1, <2>4 DEF Provided, disk, sources
  <2>6. QED
    BY <1>1, <2>1, <2>2, <2>5, FinishOnwards DEF Stages
<1>4. CASE MissPeer(c)
  BY <1>4, GotoOnwards DEF MissPeer, At, disk
<1>5. CASE ResolvePeer(c)
  BY <1>5, GotoOnwards DEF ResolvePeer, At, Download
<1>6. CASE PeerUnprepared(c)
  <2>1. /\ job[c].pc = "mvn" /\ Head(job[c].stages) = "peer" /\ job[c].key \notin m2
        /\ Goto(c, "unprepared") /\ UNCHANGED disk
    BY <1>6 DEF PeerUnprepared, At, CanResolve
  <2>2. QED
    BY <2>1, GotoOnwards DEF disk
<1>7. CASE ReplacePeerPath(c) \/ ReplacePeerPom(c)
  <2>1. /\ Head(job[c].stages) = "peer" /\ job[c].key = edition /\ edition \in m2
        /\ UNCHANGED <<sources, m2>>
    BY <1>1, <1>7 DEF ReplacePeerPath, ReplacePeerPom, At, Position, OnPeer
  <2>2. Provided("peer")' /\ edition \in m2' \cup spoiled'
    BY <2>1 DEF Provided, sources
  <2>3. job[c].pc \in {"putPath", "putPom"}
    BY <1>7 DEF ReplacePeerPath, ReplacePeerPom, At
  <2>4. Goto(c, "putPom") \/ Finish(c, edition, edition)
    BY <1>7, <2>1 DEF ReplacePeerPath, ReplacePeerPom
  <2>5. CASE Goto(c, "putPom")
    BY <2>1, <2>2, <2>3, <2>5, GotoOnwards
  <2>6. CASE Finish(c, edition, edition)
    BY <1>1, <2>1, <2>2, <2>3, <2>6, FinishOnwards DEF Stages
  <2>7. QED
    BY <2>4, <2>5, <2>6
<1>8. QED
  BY <1>2, <1>3, <1>4, <1>5, <1>6, <1>7

LEMMA RestOnwards ==
    ASSUME CachesOK, NEW c \in Procs,
           \/ FetchProcessor(c) \/ ProcessorUnprepared(c) \/ HashInstrument(c) \/ Javac(c)
           \/ RenameInstrument(c) \/ EntryExists(c)
           \/ RunEnds(c) \/ StageFails(c) \/ KillContainer(c)
    PROVE  Onwards(c)
<1>1. /\ CachesTypeOK /\ Position(job[c]) /\ edition \in Editions /\ EntriesInv
      /\ job[c] \in JobType /\ edition \in Artifacts /\ Processor \in Artifacts
  BY Parts, ArtifactFacts
<1>2. CASE FetchProcessor(c)
  <2>1. /\ job[c].pc = "stage" /\ Head(job[c].stages) = "processor"
        /\ Finish(c, Processor, Processor) /\ m2' = m2 \cup {Processor}
        /\ UNCHANGED <<sources, spoiled>>
    BY <1>2 DEF FetchProcessor, At, Download
  <2>2. Provided("processor")'
    BY <2>1 DEF Provided
  <2>3. QED
    BY <1>1, <2>1, <2>2, FinishOnwards DEF Stages
<1>3. CASE ProcessorUnprepared(c)
  <2>1. /\ job[c].pc = "stage" /\ Head(job[c].stages) \in {"processor", "instrument"}
        /\ Processor \notin m2 /\ Goto(c, "unprepared") /\ UNCHANGED disk
    BY <1>3 DEF ProcessorUnprepared, At
  <2>2. QED
    BY <2>1, GotoOnwards DEF disk
<1>4. CASE HashInstrument(c)
  <2>1. /\ job[c].pc = "stage" /\ Head(job[c].stages) = "instrument" /\ Processor \in m2
        /\ UNCHANGED disk
    BY <1>4 DEF HashInstrument, At
  <2>2. Provided("instrument")' /\ UNCHANGED <<sources, m2, spoiled>>
    BY <2>1 DEF Provided, disk
  <2>3. CASE Whole(edition)
    <3>1. Finish(c, edition, edition)
      BY <1>1, <1>4, <2>3, ArtifactFacts DEF HashInstrument, Whole, EntriesInv
    <3>2. QED
      BY <1>1, <2>1, <2>2, <3>1, FinishOnwards DEF Stages
  <2>4. CASE ~Whole(edition)
    <3>1. GotoKey(c, IF entry[edition] = None THEN "javac" ELSE "incomplete", edition)
      BY <1>4, <2>4 DEF HashInstrument
    <3>2. QED
      BY <1>1, <2>1, <3>1, GotoKeyOnwards
  <2>5. QED
    BY <2>3, <2>4
<1>5. CASE Javac(c)
  <2>1. /\ job[c].pc = "javac" /\ UNCHANGED disk
        /\ job' = [job EXCEPT ![c].pc = "rename", ![c].built = edition]
    BY <1>5 DEF Javac, At
  <2>2. job'[c].pc = "rename" /\ job'[c].stages = job[c].stages /\ Others(c)
    BY <1>1, <2>1 DEF CachesTypeOK, JobType, Others
  <2>3. QED
    BY <2>1, <2>2 DEF Onwards, StageDone, disk, sources
<1>6. CASE RenameInstrument(c)
  <2>1. /\ job[c].pc = "rename" /\ Head(job[c].stages) = "instrument"
        /\ Finish(c, edition, edition) /\ UNCHANGED <<sources, m2, spoiled>>
    BY <1>1, <1>6 DEF RenameInstrument, At, Position
  <2>2. Provided("instrument")'
    BY DEF Provided
  <2>3. QED
    BY <1>1, <2>1, <2>2, FinishOnwards DEF Stages
<1>7. CASE EntryExists(c)
  BY <1>7, GotoOnwards DEF EntryExists, At, disk
<1>8. CASE RunEnds(c)
  BY <1>8, GotoOnwards DEF RunEnds, disk
<1>9. CASE StageFails(c)
  BY <1>9, GotoOnwards DEF StageFails, disk
<1>10. CASE KillContainer(c)
  <2>1. /\ job[c].pc \in Busy /\ Goto(c, "killed") /\ spoiled \subseteq spoiled'
        /\ UNCHANGED <<sources, m2>>
    BY <1>10 DEF KillContainer
  <2>2. QED
    BY <2>1, GotoOnwards
<1>11. QED
  BY <1>2, <1>3, <1>4, <1>5, <1>6, <1>7, <1>8, <1>9, <1>10

LEMMA ContainerOnwards ==
    ASSUME CachesOK, NEW c \in Procs, ContainerStep(c)
    PROVE  Onwards(c)
BY ProductOnwards, PeerOnwards, RestOnwards DEF ContainerStep

----------------------------------------------------------------------------
(* What a step leaves of the parts of other commands *)

BatchOK == TypeOK /\ BatchInv

SameHost(d) == /\ req'[d] = req[d] /\ at'[d] = at[d] /\ hpc'[d] = hpc[d]
               /\ claimed'[d] = claimed[d] /\ ran'[d] = ran[d] /\ found'[d] = found[d]
               /\ served'[d] = served[d] /\ code'[d] = code[d]

LEMMA BatchParts ==
    ASSUME BatchOK
    PROVE  /\ TypeOK /\ CachesTypeOK /\ CachesInv /\ CachesOK /\ RoundsInv /\ HistoryInv
           /\ ImagesInv /\ PreparedInv
BY DEF BatchOK, BatchInv, TypeOK, CachesOK

LEMMA ProcParts ==
    ASSUME BatchOK, NEW c \in Procs
    PROVE  /\ RoundInv(c) /\ LabelInv(c) /\ (~Measures(c) => ProgressInv(c))
           /\ SeenInv(c) /\ FoundInv(c)
           /\ req[c] \in Requests /\ at[c] \in 1..(Len(Plan(req[c])) + 1)
           /\ at[c] \in Nat /\ Len(Plan(req[c])) \in Nat
           /\ hpc[c] \in {"next", "start", "wait", "ended"}
           /\ claimed[c] \in Ids /\ ran[c] \in Ids /\ served[c] \in Seq(RecordType)
           /\ job[c] \in JobType /\ (job[c] # NoJob => hpc[c] = "wait")
<1>1. /\ TypeOK /\ CachesTypeOK /\ RoundsInv /\ HistoryInv /\ ImagesInv /\ PreparedInv
  BY BatchParts
<1>2. /\ RoundInv(c) /\ LabelInv(c) /\ (~Measures(c) => ProgressInv(c))
      /\ SeenInv(c) /\ FoundInv(c)
  BY <1>1 DEF RoundsInv, HistoryInv, ImagesInv, PreparedInv
<1>3. /\ req[c] \in Requests /\ at[c] \in 1..(Len(Plan(req[c])) + 1) /\ at[c] \in Nat
      /\ hpc[c] \in {"next", "start", "wait", "ended"}
      /\ claimed[c] \in Ids /\ ran[c] \in Ids /\ served[c] \in Seq(RecordType)
      /\ job[c] \in JobType /\ (job[c] # NoJob => hpc[c] = "wait")
  BY <1>1 DEF TypeOK, CachesTypeOK
<1>4. Len(Plan(req[c])) \in Nat
  BY <1>3, PlanFacts
<1>5. QED
  BY <1>2, <1>3, <1>4

(* What a command has had before it only grows. *)
SeenKept(d) == /\ seen'[d].pom = seen[d].pom /\ seen'[d].edition = seen[d].edition
               /\ \A i \in Images : seen[d].ids[i] \subseteq seen'[d].ids[i]

(* The rounds that a batch has done are rounds of its plan. *)
LEMMA RoundsDone ==
    ASSUME BatchOK, NEW d \in Procs, NEW i \in DOMAIN served[d]
    PROVE  /\ Measures(d) /\ i \in 1..Len(Plan(req[d]))
           /\ Plan(req[d])[i].image \in Images
<1>1. /\ RoundInv(d) /\ served[d] \in Seq(RecordType) /\ req[d] \in Requests
      /\ at[d] \in 1..(Len(Plan(req[d])) + 1) /\ Len(Plan(req[d])) \in Nat
  BY ProcParts
<1>2. DOMAIN served[d] = 1..Len(served[d]) /\ DOMAIN <<>> = {}
  BY <1>1, LenProperties
<1>3. Measures(d) /\ Len(served[d]) = at[d] - 1
  BY <1>1, <1>2 DEF RoundInv
<1>4. i \in 1..Len(Plan(req[d]))
  BY <1>1, <1>2, <1>3
<1>5. QED
  BY <1>1, <1>3, <1>4, PlanFacts DEF Containers

LEMMA ServesKept ==
    ASSUME BatchOK, NEW d \in Procs, req'[d] = req[d], SeenKept(d), records \subseteq records',
           NEW i \in DOMAIN served[d]
    PROVE  /\ served[d][i] \in records'
           /\ served[d][i].case = Plan(req[d])[i].case
           /\ served[d][i].of = SourceSeen(d, Plan(req[d])[i])'
           /\ served[d][i].claimed \in seen'[d].ids[Plan(req[d])[i].image] \ {0}
<1> DEFINE k == Plan(req[d])[i]
           r == served[d][i]
<1>1. RoundInv(d) /\ k.image \in Images
  BY ProcParts, RoundsDone
<1>2. Serves(d, r, k)
  BY <1>1 DEF RoundInv
<1>3. k' = k
  OBVIOUS
<1> HIDE DEF k, r
<1>4. SourceSeen(d, k)' = SourceSeen(d, k)
  BY <1>3 DEF SourceSeen, SeenKept
<1>5. /\ r \in records /\ r.case = k.case /\ r.of = SourceSeen(d, k)
      /\ r.claimed \in seen[d].ids[k.image] \ {0}
  BY <1>2 DEF Serves
<1>6. r \in records' /\ r.claimed \in seen'[d].ids[k.image] \ {0}
  BY <1>1, <1>5 DEF SeenKept
<1>7. QED
  BY <1>4, <1>5, <1>6 DEF k, r

LEMMA RoundKept ==
    ASSUME BatchOK, NEW d \in Procs, SameHost(d), SeenKept(d), records \subseteq records'
    PROVE  RoundInv(d)'
<1>1. RoundInv(d) /\ req'[d] = req[d] /\ served'[d] = served[d]
  BY ProcParts DEF SameHost
<1>2. ASSUME NEW i \in DOMAIN served[d]
      PROVE  Serves(d, served[d][i], Plan(req[d])[i])'
  <2>1. /\ served[d][i] \in records'
        /\ served[d][i].case = Plan(req[d])[i].case
        /\ served[d][i].of = SourceSeen(d, Plan(req[d])[i])'
        /\ served[d][i].claimed \in seen'[d].ids[Plan(req[d])[i].image] \ {0}
    BY <1>1, <1>2, ServesKept
  <2>2. QED
    BY <1>1, <2>1 DEF Serves
<1>3. QED
  BY <1>1, <1>2 DEF RoundInv, SameHost, Measures

(* ... and of a command that ends, or stays with its container. *)
LEMMA RoundStays ==
    ASSUME BatchOK, NEW c \in Procs, SeenKept(c), records \subseteq records',
           req'[c] = req[c], at'[c] = at[c], served'[c] = served[c],
           hpc'[c] \in {"start", "wait"} => at[c] <= Len(Plan(req[c])),
           Measures(c) /\ hpc'[c] = "ended" /\ code'[c] = 0 => at[c] > Len(Plan(req[c]))
    PROVE  RoundInv(c)'
<1>1. \A i \in DOMAIN served[c] : Serves(c, served[c][i], Plan(req[c])[i])'
  BY ServesKept DEF Serves
<1>2. RoundInv(c)
  BY ProcParts
<1>3. QED
  BY <1>1, <1>2 DEF RoundInv, Measures

LEMMA LabelKept ==
    ASSUME NEW d \in Procs, LabelInv(d), SameHost(d), UNCHANGED <<tag, builds>>
    PROVE  LabelInv(d)'
BY DEF LabelInv, SameHost, Measures, Mislabelled, Overtaken, Current

(* The history of a command that stays with its image and its sources. *)
LEMMA SeenStays ==
    ASSUME NEW d \in Procs, SeenInv(d), UNCHANGED <<tag, pom, edition>>,
           req'[d] = req[d], at'[d] = at[d], claimed'[d] = claimed[d], seen'[d] = seen[d],
           hpc'[d] # "ended" => hpc[d] # "ended",
           hpc'[d] \in {"start", "wait"} => hpc[d] \in {"start", "wait"}
    PROVE  SeenInv(d)'
BY DEF SeenInv, Measures, Current

LEMMA FoundKept ==
    ASSUME NEW d \in Procs, FoundInv(d), SameHost(d), UNCHANGED <<pom, edition>>,
           records \subseteq records'
    PROVE  FoundInv(d)'
<1>1. ASSUME Measures(d), hpc[d] = "wait", found[d] # None
      PROVE  found[d] \in Equivalent(d, Current(d))'
  BY <1>1 DEF FoundInv, Equivalent, SameHost, Current, SourceOf
<1>2. QED
  BY <1>1 DEF FoundInv, SameHost, Measures

LEMMA HistoryKept ==
    ASSUME BatchOK, NEW c \in Procs, \A d \in Procs \ {c} : SameHost(d) /\ seen'[d] = seen[d],
           UNCHANGED <<tag, pom, edition>>, records \subseteq records',
           SeenInv(c)', FoundInv(c)'
    PROVE  HistoryInv'
<1>1. ASSUME NEW d \in Procs \ {c}
      PROVE  SeenInv(d)' /\ FoundInv(d)'
  <2>1. SeenInv(d) /\ FoundInv(d) /\ SameHost(d) /\ seen'[d] = seen[d]
    BY ProcParts
  <2>2. SeenInv(d)'
    BY <2>1, SeenStays DEF SameHost
  <2>3. FoundInv(d)'
    BY <2>1, FoundKept
  <2>4. QED
    BY <2>2, <2>3
<1>2. QED
  BY <1>1 DEF HistoryInv

(* What a stage has left stays while a command is at work. *)
Lasting == /\ pom' = pom /\ edition' = edition /\ m2 \subseteq m2'
           /\ edition \in m2 \cup spoiled => edition \in m2' \cup spoiled'

LEMMA ProvidedKept ==
    ASSUME Lasting, NEW s \in Stages, Provided(s)
    PROVE  Provided(s)'
BY DEF Lasting, Provided, Stages

LEMMA PlanStages ==
    ASSUME NEW r \in Requests, NEW i \in 1..Len(Plan(r)), NEW s \in StagesOf(Plan(r)[i].stages)
    PROVE  s \in Stages
<1>1. Plan(r)[i].stages \in StageSeqs
  BY PlanFacts DEF Containers
<1>2. \A x : DOMAIN <<x>> = 1..1 /\ <<x>>[1] = x
  OBVIOUS
<1>3. \A x, y : DOMAIN <<x, y>> = 1..2 /\ <<x, y>>[1] = x /\ <<x, y>>[2] = y
  OBVIOUS
<1>4. DOMAIN <<>> = {}
  OBVIOUS
<1> DEFINE q == Plan(r)[i].stages
<1>5. s \in StagesOf(q) /\ q \in StageSeqs
  BY <1>1
<1> HIDE DEF q
<1>6. CASE q = <<>>
  BY <1>4, <1>5, <1>6 DEF StagesOf
<1>7. CASE \E x \in Stages : q = <<x>>
  BY <1>2, <1>5, <1>7 DEF StagesOf
<1>8. CASE \E x \in Stages : q = <<x, "instrument">>
  BY <1>3, <1>5, <1>8 DEF StagesOf, Stages
<1>9. QED
  BY <1>5, <1>6, <1>7, <1>8 DEF StageSeqs, Stages

LEMMA ProgressKept ==
    ASSUME BatchOK, NEW d \in Procs, ~Measures(d), SameHost(d), job'[d] = job[d], Lasting
    PROVE  ProgressInv(d)'
<1>1. /\ ProgressInv(d) /\ req[d] \in Requests /\ at[d] \in 1..(Len(Plan(req[d])) + 1)
      /\ at[d] \in Nat /\ Len(Plan(req[d])) \in Nat /\ RoundInv(d)
  BY ProcParts
<1>2. ASSUME hpc'[d] # "ended", NEW i \in 1..(at'[d] - 1),
             NEW s \in StagesOf(Plan(req'[d])[i].stages)
      PROVE  Provided(s)'
  <2>1. i \in 1..(at[d] - 1) /\ s \in StagesOf(Plan(req[d])[i].stages) /\ hpc[d] # "ended"
    BY <1>2 DEF SameHost
  <2>2. i \in 1..Len(Plan(req[d]))
    BY <1>1, <2>1
  <2>3. Provided(s) /\ s \in Stages
    BY <1>1, <2>1, <2>2, PlanStages DEF ProgressInv
  <2>4. QED
    BY <2>3, ProvidedKept
<1>3. ASSUME hpc'[d] = "wait",
             NEW s \in StagesOf(Plan(req'[d])[at'[d]].stages) \ StagesOf(job'[d].stages)
      PROVE  Provided(s)'
  <2>1. /\ hpc[d] = "wait" /\ at[d] \in 1..Len(Plan(req[d]))
        /\ s \in StagesOf(Plan(req[d])[at[d]].stages) \ StagesOf(job[d].stages)
    BY <1>1, <1>3 DEF SameHost, RoundInv
  <2>2. Provided(s) /\ s \in Stages
    BY <1>1, <2>1, PlanStages DEF ProgressInv, Current
  <2>3. QED
    BY <2>2, ProvidedKept
<1>4. QED
  BY <1>2, <1>3 DEF ProgressInv, Current

LEMMA CachesStutter ==
    ASSUME CachesOK, UNCHANGED <<disk, job>>
    PROVE  CachesOK'
<1>1. /\ CachesTypeOK /\ Positions /\ PathsInv /\ PeerInv /\ EntriesInv /\ GotInv
  BY DEF CachesOK, CachesInv
<1>2. /\ pom' = pom /\ edition' = edition /\ m2' = m2 /\ partial' = partial
      /\ pathFile' = pathFile /\ content' = content /\ peerPom' = peerPom
      /\ peerPath' = peerPath /\ entry' = entry /\ spoiled' = spoiled /\ job' = job
  BY DEF disk, sources, paths, peer
<1>3. CachesTypeOK'
  BY <1>1, <1>2 DEF CachesTypeOK
<1>4. Positions'
  BY <1>1, <1>2 DEF Positions, Position
<1>5. PathsInv'
  BY <1>1, <1>2 DEF PathsInv, OnPath, Writers
<1>6. PeerInv'
  BY <1>1, <1>2 DEF PeerInv, OnPeer
<1>7. EntriesInv' /\ GotInv'
  BY <1>1, <1>2 DEF EntriesInv, GotInv, Explained
<1>8. QED
  BY <1>3, <1>4, <1>5, <1>6, <1>7 DEF CachesOK, CachesInv

(* A container is created, or removed after its end. *)
LEMMA NewJobFacts ==
    ASSUME CachesTypeOK, NEW s \in StageSeqs, NEW net \in BOOLEAN, NEW prepare \in BOOLEAN
    PROVE  /\ NewJob(s, net, prepare) \in JobType /\ NoJob \in JobType
           /\ NewJob(s, net, prepare).stages = s
           /\ NewJob(s, net, prepare).pc = IF s = <<>> THEN "run" ELSE "stage"
           /\ NewJob(s, net, prepare).since = edition
           /\ NewJob(s, net, prepare).file = None /\ NewJob(s, net, prepare).got = None
           /\ NoJob.pc = "none" /\ NoJob.got = None
<1> DEFINE pc == IF s = <<>> THEN "run" ELSE "stage"
<1>1. NewJob(s, net, prepare) =
        [stages |-> s, net |-> net, prepare |-> prepare, since |-> edition,
         pc |-> pc, key |-> None, file |-> None, changed |-> FALSE,
         built |-> None, got |-> None]
  <2>1. NewJob(s, net, prepare) =
          [NoJob EXCEPT !.stages = s, !.net = net, !.prepare = prepare,
                        !.since = edition, !.pc = pc]
    BY Zenon DEF NewJob
  <2> HIDE DEF pc
  <2>2. QED
    BY <2>1 DEF NoJob
<1>2. pc \in Busy
  OBVIOUS
<1> HIDE DEF pc
<1>3. NewJob(s, net, prepare) \in JobType
  BY <1>1, <1>2 DEF JobType, CachesTypeOK
<1>4. NoJob \in JobType
  BY DEF NoJob, JobType, StageSeqs
<1>5. NoJob.pc = "none" /\ NoJob.got = None
  BY DEF NoJob
<1>6. QED
  BY <1>1, <1>3, <1>4, <1>5 DEF pc

LEMMA NewContainer ==
    ASSUME CachesOK, NEW c \in Procs, NEW j \in JobType, job' = [job EXCEPT ![c] = j],
           UNCHANGED disk, job[c].pc # "putPom", j.got = None,
           \/ j.pc = "none"
           \/ /\ j.pc = IF j.stages = <<>> THEN "run" ELSE "stage"
              /\ j.since = edition /\ j.file = None
    PROVE  CachesOK' /\ Others(c) /\ job'[c] = j /\ job' \in [Procs -> JobType]
<1>1. CachesTypeOK
  BY Parts
<1>2. job'[c] = j /\ Others(c) /\ job' \in [Procs -> JobType]
  BY <1>1 DEF CachesTypeOK, Others
<1>3. /\ UNCHANGED <<sources, paths, peer, entry, spoiled>> /\ m2' = m2
      /\ pom' = pom /\ edition' = edition
  BY DEF disk, sources
<1>4. Position(job[c])'
  BY <1>2, <1>3 DEF Position
<1>5. j.pc \in {"none", "run", "stage"} /\ (j.pc = "stage" => j.file = None)
  OBVIOUS
<1>6. QED
  BY <1>2, <1>3, <1>4, <1>5, QuietStep

----------------------------------------------------------------------------
(* The steps of a command *)

LEMMA Constants ==
    /\ MaxBuilds \in Nat /\ MaxCommands \in Nat /\ MaxCommands >= 1
    /\ Ids = 0..(1 + MaxBuilds) /\ "main" \in Images /\ "ruby" \in Images
    /\ RecordType = [case : Cases, of : Poms \cup Editions \cup {None},
                     claimed : Ids, ran : Ids]
BY BoundsAssumption, ImagesAssumption DEF Ids, RecordType, Cases, Works

(* A step that changes neither the files nor the containers: only the part of
   its own command is to be looked at. *)
LEMMA CommandStep ==
    ASSUME BatchOK, NEW c \in Procs, UNCHANGED <<disk, job, tag, builds, records>>,
           TypeOK', \A d \in Procs \ {c} : SameHost(d) /\ seen'[d] = seen[d],
           RoundInv(c)', SeenInv(c)', FoundInv(c)', LabelInv(c)', ~Measures(c)' => ProgressInv(c)',
           prepared' \subseteq m2
    PROVE  BatchOK'
<1>1. TypeOK /\ CachesOK /\ RoundsInv /\ ImagesInv /\ PreparedInv
  BY BatchParts
<1>2. CachesOK' /\ m2' = m2 /\ Lasting /\ UNCHANGED <<pom, edition>>
  BY <1>1, CachesStutter DEF disk, sources, Lasting
<1>3. RoundsInv'
  <2>1. \A d \in Procs \ {c} : RoundInv(d)'
    BY RoundKept DEF SeenKept
  <2>2. QED
    BY <2>1 DEF RoundsInv
<1>7. HistoryInv'
  BY <1>2, HistoryKept
<1>4. ImagesInv'
  <2>1. \A d \in Procs \ {c} : LabelInv(d)'
    BY <1>1, LabelKept DEF ImagesInv
  <2>2. QED
    BY <1>1, <2>1 DEF ImagesInv
<1>5. PreparedInv'
  <2>1. ASSUME NEW d \in Procs \ {c}, ~Measures(d)'
        PROVE  ProgressInv(d)'
    BY <1>2, <2>1, ProgressKept DEF SameHost, Measures
  <2>2. QED
    BY <1>2, <2>1 DEF PreparedInv
<1>6. QED
  BY <1>2, <1>3, <1>4, <1>5, <1>7 DEF BatchOK, BatchInv, CachesOK

(* The types of a step that changes neither the files nor the containers. *)
LEMMA CommandTypes ==
    ASSUME BatchOK, NEW c \in Procs, UNCHANGED <<disk, job>>,
           tag' \in [Images -> Ids], builds' \in 0..MaxBuilds,
           seen' \in [Procs -> SeenType], found' \in [Procs -> RecordType \cup {None}],
           req' \in [Procs -> Requests], at' \in [Procs -> Nat],
           hpc' \in [Procs -> {"next", "start", "wait", "ended"}],
           claimed' \in [Procs -> Ids], ran' \in [Procs -> Ids],
           served' \in [Procs -> Seq(RecordType)], code' \in [Procs -> 0..2],
           commands' \in [Procs -> 1..MaxCommands], records' \subseteq RecordType,
           prepared' \subseteq Artifacts,
           \A d \in Procs \ {c} : SameHost(d),
           at'[c] \in 1..(Len(Plan(req'[c])) + 1), hpc[c] # "wait"
    PROVE  TypeOK'
<1>1. CachesTypeOK' /\ job' = job
  BY BatchParts, CachesStutter DEF CachesOK
<1>2. ASSUME NEW d \in Procs
      PROVE  at'[d] \in 1..(Len(Plan(req'[d])) + 1)
  BY ProcParts DEF SameHost
<1>3. ASSUME NEW d \in Procs, job'[d] # NoJob
      PROVE  hpc'[d] = "wait"
  BY <1>1, <1>3, ProcParts DEF SameHost
<1>4. QED
  BY <1>1, <1>2, <1>3 DEF TypeOK

LEMMA InspectStep ==
    ASSUME BatchOK, NEW c \in Procs, Inspect(c)
    PROVE  BatchOK'
<1> DEFINE id == tag[Current(c).image]
           cl == IF Measures(c) THEN id ELSE 0
<1>1. /\ TypeOK /\ RoundInv(c) /\ LabelInv(c) /\ (~Measures(c) => ProgressInv(c))
      /\ SeenInv(c) /\ PreparedInv /\ ImagesInv
      /\ req[c] \in Requests /\ at[c] \in 1..(Len(Plan(req[c])) + 1) /\ at[c] \in Nat
      /\ Len(Plan(req[c])) \in Nat
  BY BatchParts, ProcParts
<1>2. /\ hpc[c] = "next" /\ at[c] <= Len(Plan(req[c]))
      /\ claimed' = [claimed EXCEPT ![c] = cl]
      /\ hpc' = [hpc EXCEPT ![c] = "start"] /\ tag[Current(c).image] # 0
      /\ UNCHANGED <<disk, job, tag, builds, seen, req, at, ran, found, served, code,
                     commands, results>>
  BY DEF Inspect, images
<1>3. Current(c).image \in Images
  BY <1>1, <1>2, PlanFacts DEF Current, Containers
<1>4. cl \in Ids /\ cl <= builds + 1 /\ (Measures(c) => cl = tag[Current(c).image])
  BY <1>1, <1>3, Constants DEF TypeOK, ImagesInv
<1> HIDE DEF cl
<1>5. /\ claimed' \in [Procs -> Ids] /\ claimed'[c] = cl
      /\ hpc' \in [Procs -> {"next", "start", "wait", "ended"}] /\ hpc'[c] = "start"
      /\ \A d \in Procs \ {c} : SameHost(d)
  BY <1>1, <1>2, <1>4 DEF TypeOK, SameHost
<1>6. /\ req' = req /\ at' = at /\ served' = served /\ ran' = ran /\ code' = code
      /\ commands' = commands /\ records' = records /\ prepared' = prepared
      /\ tag' = tag /\ builds' = builds /\ job' = job /\ seen' = seen /\ found' = found
      /\ pom' = pom /\ edition' = edition
  BY <1>2 DEF results, disk, sources
<1>7. TypeOK'
  BY <1>1, <1>2, <1>5, <1>6, CommandTypes, ZenonT(60) DEF TypeOK
<1>8. RoundInv(c)'
  <2>1. \A i \in DOMAIN served[c] : Serves(c, served[c][i], Plan(req[c])[i])'
    BY <1>6, ServesKept DEF SeenKept, Serves
  <2>2. QED
    BY <1>1, <1>2, <1>5, <1>6, <2>1 DEF RoundInv, Measures
<1>13. SeenInv(c)' /\ FoundInv(c)'
  <2>1. Measures(c) => cl \in seen[c].ids[Current(c).image] \ {0}
    BY <1>1, <1>2, <1>3, <1>4 DEF SeenInv
  <2>2. SeenInv(c)'
    BY <1>1, <1>2, <1>5, <1>6, <2>1 DEF SeenInv, Measures, Current
  <2>3. FoundInv(c)'
    BY <1>5 DEF FoundInv
  <2>4. QED
    BY <2>2, <2>3
<1>9. LabelInv(c)'
  BY <1>1, <1>4, <1>5, <1>6 DEF LabelInv, Measures, Overtaken, Mislabelled, Current
<1>10. ~Measures(c)' => ProgressInv(c)'
  <2>1. Lasting /\ (Measures(c)' <=> Measures(c))
    BY <1>2, <1>6 DEF Lasting, disk, sources, Measures
  <2>2. ASSUME ~Measures(c), NEW i \in 1..(at[c] - 1),
               NEW s \in StagesOf(Plan(req[c])[i].stages)
        PROVE  Provided(s)'
    <3>1. Provided(s) /\ s \in Stages
      BY <1>1, <1>2, <2>2, PlanStages DEF ProgressInv
    <3>2. QED
      BY <2>1, <3>1, ProvidedKept
  <2>3. QED
    BY <1>5, <1>6, <2>1, <2>2 DEF ProgressInv
<1>11. prepared' \subseteq m2
  BY <1>1, <1>6 DEF PreparedInv
<1>12. QED
  BY <1>2, <1>5, <1>6, <1>7, <1>8, <1>9, <1>10, <1>11, <1>13, CommandStep

(* A command that ends without a container: it has failed, or done all. *)
LEMMA EndStep ==
    ASSUME BatchOK, NEW c \in Procs, hpc[c] = "next", NEW n \in 0..2,
           hpc' = [hpc EXCEPT ![c] = "ended"], code' = [code EXCEPT ![c] = n],
           n = 0 /\ Measures(c) => at[c] > Len(Plan(req[c])),
           UNCHANGED <<disk, job, tag, builds, seen, req, at, claimed, ran, found, served,
                      commands, records>>,
           prepared' \subseteq m2
    PROVE  BatchOK'
<1>1. /\ TypeOK /\ RoundInv(c) /\ LabelInv(c) /\ CachesTypeOK /\ SeenInv(c)
      /\ req[c] \in Requests /\ at[c] \in 1..(Len(Plan(req[c])) + 1)
  BY BatchParts, ProcParts
<1>2. /\ hpc' \in [Procs -> {"next", "start", "wait", "ended"}] /\ hpc'[c] = "ended"
      /\ code' \in [Procs -> 0..2] /\ code'[c] = n
      /\ \A d \in Procs \ {c} : SameHost(d)
  BY <1>1 DEF TypeOK, SameHost
<1>3. prepared' \subseteq Artifacts
  BY <1>1 DEF CachesTypeOK
<1>4. TypeOK'
  BY <1>1, <1>2, <1>3, CommandTypes DEF TypeOK
<1>5. RoundInv(c)'
  BY <1>2, RoundStays DEF SeenKept
<1>6. LabelInv(c)'
  BY <1>1, <1>2 DEF LabelInv, Measures, Overtaken, Mislabelled, Current
<1>7. ProgressInv(c)'
  BY <1>2 DEF ProgressInv
<1>8. SeenInv(c)' /\ FoundInv(c)'
  <2>1. pom' = pom /\ edition' = edition
    BY DEF disk, sources
  <2>2. SeenInv(c)'
    BY <1>1, <1>2, <2>1, SeenStays
  <2>3. QED
    BY <1>2, <2>2 DEF FoundInv
<1>9. QED
  BY <1>2, <1>4, <1>5, <1>6, <1>7, <1>8, CommandStep

LEMMA ImageMissingStep ==
    ASSUME BatchOK, NEW c \in Procs, ImageMissing(c)
    PROVE  BatchOK'
<1>1. /\ hpc[c] = "next" /\ hpc' = [hpc EXCEPT ![c] = "ended"]
      /\ code' = [code EXCEPT ![c] = 2] /\ prepared' = prepared
      /\ UNCHANGED <<disk, job, tag, builds, seen, req, at, claimed, ran, found, served,
                     commands, records>>
  BY DEF ImageMissing, results, images
<1>2. prepared' \subseteq m2
  BY <1>1, BatchParts DEF PreparedInv
<1>3. 2 \in 0..2 /\ 2 # 0
  OBVIOUS
<1>4. QED
  BY <1>1, <1>2, <1>3, EndStep

LEMMA BuildFailsStep ==
    ASSUME BatchOK, NEW c \in Procs, BuildFails(c)
    PROVE  BatchOK'
<1>1. /\ hpc[c] = "next" /\ hpc' = [hpc EXCEPT ![c] = "ended"]
      /\ code' = [code EXCEPT ![c] = 1] /\ prepared' = prepared
      /\ UNCHANGED <<disk, job, tag, builds, seen, req, at, claimed, ran, found, served,
                     commands, records>>
  BY DEF BuildFails, results, images
<1>2. prepared' \subseteq m2
  BY <1>1, BatchParts DEF PreparedInv
<1>3. 1 \in 0..2 /\ 1 # 0
  OBVIOUS
<1>4. QED
  BY <1>1, <1>2, <1>3, EndStep

(* All containers of a preparation have ended well: what it reports is there. *)
LEMMA PreparedIsThere ==
    ASSUME BatchOK, NEW c \in Procs, hpc[c] = "next", at[c] > Len(Plan(req[c]))
    PROVE  Prepares(req[c]) \subseteq m2
<1>1. req[c] \in Requests /\ (~Measures(c) => ProgressInv(c)) /\ Len(Plan(req[c])) \in Nat
      /\ at[c] = Len(Plan(req[c])) + 1
  BY ProcParts
<1>2. ASSUME ~Measures(c), NEW i \in 1..Len(Plan(req[c])),
             NEW x, Plan(req[c])[i].stages = <<x>>
      PROVE  Provided(x)
  <2>1. x \in StagesOf(<<x>>)
    <3>1. DOMAIN <<x>> = 1..1 /\ <<x>>[1] = x
      OBVIOUS
    <3>2. QED
      BY <3>1 DEF StagesOf
  <2>2. QED
    BY <1>1, <1>2, <2>1 DEF ProgressInv
<1>3. CASE req[c].command = "peer-prepare"
  <2>1. Plan(req[c]) = PerLanguage(req[c], RuntimeOf, Online) /\ ~Measures(c)
    BY <1>3, Zenon DEF Plan, PeerPreparePlan, Measures
  <2>2. ASSUME NEW j \in DOMAIN req[c].langs, req[c].langs[j] = "js"
        PROVE  edition \in m2 \cup spoiled
    <3>1. Plan(req[c])[j].stages = <<"peer">> /\ DOMAIN Plan(req[c]) = DOMAIN req[c].langs
      BY <1>1, <2>1, <2>2, PerLanguageFacts, StageFacts DEF Langs
    <3>2. j \in 1..Len(Plan(req[c]))
      BY <1>1, <3>1, PlanFacts, LenProperties
    <3>3. Provided("peer")
      BY <1>2, <2>1, <3>1, <3>2
    <3>4. QED
      BY <3>3 DEF Provided
  <2>3. QED
    BY <1>3, <2>2 DEF Prepares
<1>4. CASE req[c].command = "product-prepare"
  <2>1. Plan(req[c]) = ProductPreparePlan /\ ~Measures(c)
    BY <1>4 DEF Plan, Measures
  <2>2. Len(Plan(req[c])) = 1 /\ Plan(req[c])[1] = Container("protos", <<"product">>, TRUE)
    BY <2>1 DEF ProductPreparePlan
  <2>3. Plan(req[c])[1].stages = <<"product">>
    <3> DEFINE k == Plan(req[c])[1]
               s == <<"product">>
    <3>1. k = Container("protos", s, TRUE)
      BY <2>2
    <3> HIDE DEF k, s
    <3>2. k.stages = s
      BY <3>1 DEF Container
    <3>3. QED
      BY <3>2 DEF k, s
  <2>4. Provided("product")
    <3>1. 1 \in 1..Len(Plan(req[c]))
      BY <2>2
    <3>2. QED
      BY <1>2, <2>1, <2>3, <3>1, Zenon
  <2>5. QED
    BY <1>4, <2>4 DEF Prepares, Provided
<1>5. CASE req[c].command = "bytecode-prepare"
  <2>1. Plan(req[c]) = BytecodePreparePlan /\ ~Measures(c)
    BY <1>5 DEF Plan, Measures
  <2>2. /\ Len(Plan(req[c])) = 2
        /\ Plan(req[c])[1] = Container("js", <<"processor">>, TRUE)
    BY <2>1 DEF BytecodePreparePlan
  <2>3. Plan(req[c])[1].stages = <<"processor">>
    <3> DEFINE k == Plan(req[c])[1]
               s == <<"processor">>
    <3>1. k = Container("js", s, TRUE)
      BY <2>2
    <3> HIDE DEF k, s
    <3>2. k.stages = s
      BY <3>1 DEF Container
    <3>3. QED
      BY <3>2 DEF k, s
  <2>4. Provided("processor")
    <3>1. 1 \in 1..Len(Plan(req[c]))
      BY <2>2
    <3>2. QED
      BY <1>2, <2>1, <2>3, <3>1, Zenon
  <2>5. QED
    BY <1>5, <2>4 DEF Prepares, Provided
<1>6. CASE req[c].command \notin {"peer-prepare", "product-prepare", "bytecode-prepare"}
  BY <1>6 DEF Prepares
<1>7. QED
  BY <1>3, <1>4, <1>5, <1>6

LEMMA ReturnStep ==
    ASSUME BatchOK, NEW c \in Procs, Return(c)
    PROVE  BatchOK'
<1>1. /\ hpc[c] = "next" /\ at[c] > Len(Plan(req[c]))
      /\ hpc' = [hpc EXCEPT ![c] = "ended"] /\ code' = code
      /\ prepared' = prepared \cup Prepares(req[c])
      /\ UNCHANGED <<disk, job, tag, builds, seen, req, at, claimed, ran, found, served,
                     commands, records>>
  BY DEF Return, images
<1>2. prepared' \subseteq m2
  BY <1>1, BatchParts, PreparedIsThere DEF PreparedInv
<1>3. code' = [code EXCEPT ![c] = code[c]] /\ code[c] \in 0..2
  BY <1>1, BatchParts DEF TypeOK
<1>4. QED
  BY <1>1, <1>2, <1>3, EndStep

LEMMA AgainStep ==
    ASSUME BatchOK, NEW c \in Procs, Again(c)
    PROVE  BatchOK'
<1>1. /\ TypeOK /\ LabelInv(c) /\ PreparedInv /\ CachesTypeOK
  BY BatchParts, ProcParts
<1>2. PICK r \in Requests : req' = [req EXCEPT ![c] = r]
  BY DEF Again
<1>3. /\ hpc[c] = "ended" /\ commands[c] < MaxCommands
      /\ commands' = [commands EXCEPT ![c] = commands[c] + 1]
      /\ at' = [at EXCEPT ![c] = 1] /\ hpc' = [hpc EXCEPT ![c] = "next"]
      /\ claimed' = [claimed EXCEPT ![c] = 0] /\ ran' = [ran EXCEPT ![c] = 0]
      /\ served' = [served EXCEPT ![c] = <<>>] /\ code' = [code EXCEPT ![c] = 0]
      /\ seen' = [seen EXCEPT ![c] = Beginning] /\ found' = found
      /\ UNCHANGED <<disk, job, tag, builds, results>>
  BY DEF Again
<1>4. /\ req' \in [Procs -> Requests] /\ req'[c] = r
      /\ at' \in [Procs -> Nat] /\ at'[c] = 1
      /\ hpc' \in [Procs -> {"next", "start", "wait", "ended"}] /\ hpc'[c] = "next"
      /\ claimed' \in [Procs -> Ids] /\ claimed'[c] = 0
      /\ ran' \in [Procs -> Ids] /\ ran'[c] = 0
      /\ code' \in [Procs -> 0..2] /\ code'[c] = 0
      /\ \A d \in Procs \ {c} : SameHost(d)
  BY <1>1, <1>2, <1>3, Constants DEF TypeOK, SameHost
<1>5. served' \in [Procs -> Seq(RecordType)] /\ served'[c] = <<>>
  BY <1>1, <1>3 DEF TypeOK
<1>6. commands' \in [Procs -> 1..MaxCommands]
  BY <1>1, <1>3, Constants DEF TypeOK
<1>13. /\ seen' \in [Procs -> SeenType] /\ seen'[c] = Beginning
       /\ \A d \in Procs \ {c} : seen'[d] = seen[d]
  <2>1. Beginning \in SeenType
    <3>1. [i \in Images |-> {tag[i]}] \in [Images -> SUBSET Ids]
      BY <1>1 DEF TypeOK
    <3>2. pom \in Poms /\ edition \in Editions
      BY <1>1 DEF CachesTypeOK
    <3>3. QED
      BY <3>1, <3>2 DEF Beginning, SeenType
  <2>2. seen \in [Procs -> SeenType]
    BY <1>1 DEF TypeOK
  <2> HIDE DEF Beginning
  <2>3. QED
    BY <1>3, <2>1, <2>2
<1>14. SeenInv(c)' /\ FoundInv(c)'
  <2>1. pom' = pom /\ edition' = edition /\ tag' = tag
    BY <1>3 DEF disk, sources
  <2>2. /\ Beginning.pom = pom /\ Beginning.edition = edition
        /\ \A i \in Images : tag[i] \in Beginning.ids[i]
    BY DEF Beginning
  <2>3. QED
    BY <1>4, <1>13, <2>1, <2>2 DEF SeenInv, FoundInv
<1>7. TypeOK'
  <2>1. at'[c] \in 1..(Len(Plan(req'[c])) + 1)
    BY <1>4, PlanFacts
  <2>2. QED
    BY <1>1, <1>3, <1>4, <1>5, <1>6, <1>13, <2>1, CommandTypes DEF TypeOK, results
<1>8. RoundInv(c)'
  BY <1>4, <1>5 DEF RoundInv, Measures
<1>9. LabelInv(c)'
  <2>1. Mislabelled(c)' = {} /\ builds' = builds /\ builds \in Nat
    BY <1>1, <1>3, <1>5, Constants DEF Mislabelled, TypeOK
  <2>2. Cardinality({}) = 0
    BY FS_EmptySet
  <2>3. QED
    BY <1>4, <2>1, <2>2 DEF LabelInv, Overtaken
<1>10. ProgressInv(c)'
  BY <1>4 DEF ProgressInv
<1>11. prepared' \subseteq m2
  BY <1>1, <1>3 DEF PreparedInv, results
<1>12. QED
  BY <1>3, <1>4, <1>7, <1>8, <1>9, <1>10, <1>11, <1>13, <1>14, CommandStep DEF results

(* A step that changes the images only moves a tag to an image that is new. *)
LEMMA BuildStep ==
    ASSUME BatchOK, NEW c \in Procs, Build(c)
    PROVE  BatchOK'
<1>1. /\ TypeOK /\ CachesOK /\ RoundsInv /\ ImagesInv /\ PreparedInv
      /\ RoundInv(c) /\ builds \in Nat
  <2>1. TypeOK /\ builds \in 0..MaxBuilds
    BY BatchParts DEF TypeOK
  <2>2. QED
    BY <2>1, BatchParts, ProcParts, Constants
<1>2. PICK i \in Images :
         /\ tag' = [tag EXCEPT ![i] = builds + 2]
         /\ seen' = [d \in Procs |-> [seen[d] EXCEPT !.ids[i] = @ \cup {builds + 2}]]
  BY DEF Build
<1>3. /\ hpc[c] = "next" /\ ~Measures(c) /\ builds < MaxBuilds /\ builds' = builds + 1
      /\ hpc' = [hpc EXCEPT ![c] = "ended"]
      /\ UNCHANGED <<disk, job, req, at, claimed, ran, found, served, code, commands,
                     results>>
  BY DEF Build, Measures
<1>4. /\ tag' \in [Images -> Ids] /\ builds' \in 0..MaxBuilds
      /\ \A k \in Images : tag'[k] <= builds' + 1
      /\ \A k \in Images : tag'[k] = tag[k] \/ tag'[k] = builds + 2
  BY <1>1, <1>2, <1>3, Constants DEF TypeOK, ImagesInv
<1>5. /\ hpc' \in [Procs -> {"next", "start", "wait", "ended"}] /\ hpc'[c] = "ended"
      /\ \A d \in Procs \ {c} : SameHost(d)
      /\ records' = records /\ prepared' = prepared
  BY <1>1, <1>3 DEF TypeOK, SameHost, results
<1>12. /\ seen' \in [Procs -> SeenType] /\ \A d \in Procs : SeenKept(d)
       /\ \A d \in Procs : builds + 2 \in seen'[d].ids[i]
  <2>1. builds + 2 \in Ids /\ seen \in [Procs -> SeenType]
    BY <1>1, <1>3, Constants DEF TypeOK
  <2>2. ASSUME NEW d \in Procs
        PROVE  seen'[d] \in SeenType /\ SeenKept(d) /\ builds + 2 \in seen'[d].ids[i]
    <3> DEFINE s == seen[d]
               ids == [seen[d].ids EXCEPT ![i] = seen[d].ids[i] \cup {builds + 2}]
    <3>1. s \in SeenType
      BY <2>1
    <3>2. seen'[d] = [s EXCEPT !.ids = ids]
      BY <1>2
    <3>3. ids \in [Images -> SUBSET Ids]
      BY <2>1 DEF SeenType
    <3>4. builds + 2 \in ids[i] /\ \A k \in Images : seen[d].ids[k] \subseteq ids[k]
      BY <2>1 DEF SeenType
    <3> HIDE DEF ids
    <3>5. seen'[d] = [pom |-> s.pom, edition |-> s.edition, ids |-> ids]
      BY <3>1, <3>2 DEF SeenType
    <3>6. seen'[d] \in SeenType
      BY <3>1, <3>3, <3>5 DEF SeenType
    <3>7. QED
      BY <3>4, <3>5, <3>6 DEF SeenKept
  <2>3. seen' \in [Procs -> SeenType]
    <3>1. seen' = [d \in Procs |-> seen'[d]]
      BY <1>2
    <3>2. QED
      BY <2>2, <3>1
  <2>4. QED
    BY <2>2, <2>3
<1>6. TypeOK'
  <2>1. at'[c] \in 1..(Len(Plan(req'[c])) + 1)
    BY <1>3, ProcParts
  <2>2. QED
    BY <1>1, <1>3, <1>4, <1>5, <1>12, <2>1, CommandTypes DEF TypeOK
<1>7. CachesOK' /\ Lasting /\ m2' = m2
  BY <1>1, <1>3, CachesStutter DEF disk, sources, Lasting
<1>8. RoundsInv'
  <2>1. \A d \in Procs \ {c} : RoundInv(d)'
    BY <1>5, <1>12, RoundKept
  <2>2. RoundInv(c)'
    BY <1>3, <1>5, <1>12, RoundStays
  <2>3. QED
    BY <2>1, <2>2 DEF RoundsInv
<1>13. HistoryInv'
  <2>1. ASSUME NEW d \in Procs
        PROVE  SeenInv(d)' /\ FoundInv(d)'
    <3>1. /\ SeenInv(d) /\ FoundInv(d) /\ RoundInv(d) /\ SeenKept(d)
          /\ req[d] \in Requests /\ at[d] \in 1..(Len(Plan(req[d])) + 1)
          /\ Len(Plan(req[d])) \in Nat
          /\ pom' = pom /\ edition' = edition /\ records' = records
          /\ req' = req /\ at' = at /\ claimed' = claimed /\ found' = found
      BY <1>3, <1>5, <1>12, ProcParts DEF disk, sources
    <3>2. hpc'[d] = hpc[d] \/ hpc'[d] = "ended"
      BY <1>3, <1>5 DEF SameHost
    <3>3. \A k \in Images : tag'[k] \in seen'[d].ids[k]
      <4>1. ASSUME NEW k \in Images
            PROVE  tag'[k] \in seen'[d].ids[k]
        <5>1. tag'[k] = IF k = i THEN builds + 2 ELSE tag[k]
          BY <1>1, <1>2 DEF TypeOK
        <5>2. QED
          BY <1>12, <3>1, <5>1 DEF SeenInv, SeenKept
      <4>2. QED
        BY <4>1
    <3>4. ASSUME Measures(d), hpc[d] \in {"start", "wait"}
          PROVE  claimed[d] \in seen'[d].ids[Current(d).image] \ {0}
      <4>1. Current(d).image \in Images
        BY <3>1, <3>4, PlanFacts DEF Current, Containers, RoundInv
      <4>2. QED
        BY <3>1, <3>4, <4>1 DEF SeenInv, SeenKept
    <3>5. (Measures(d)' <=> Measures(d)) /\ Current(d)' = Current(d)
      BY <3>1 DEF Measures, Current
    <3>6. SeenInv(d)'
      BY <3>1, <3>2, <3>3, <3>4, <3>5 DEF SeenInv, SeenKept
    <3>7. FoundInv(d)'
      BY <3>1, <3>2, <3>5 DEF FoundInv, Equivalent, SourceOf
    <3>8. QED
      BY <3>6, <3>7
  <2>2. QED
    BY <2>1 DEF HistoryInv
<1>9. ImagesInv'
  <2>1. ASSUME NEW d \in Procs
        PROVE  LabelInv(d)'
    <3>1. /\ LabelInv(d) /\ req' = req /\ at' = at /\ claimed' = claimed /\ ran' = ran
          /\ served' = served
          /\ claimed[d] \in Int /\ req[d] \in Requests /\ at[d] \in Nat /\ RoundInv(d)
      BY <1>1, <1>3, ProcParts, Constants DEF ImagesInv
    <3>2. hpc'[d] = hpc[d] \/ hpc'[d] = "ended"
      BY <1>3, <1>5 DEF SameHost
    <3>3. Mislabelled(d)' = Mislabelled(d) /\ (Measures(d)' <=> Measures(d))
      BY <3>1 DEF Mislabelled, Measures
    <3>4. Cardinality(Mislabelled(d)) \in Int
      <4>1. served[d] \in Seq(RecordType)
        BY ProcParts
      <4>2. IsFiniteSet(DOMAIN served[d])
        BY <4>1, LenProperties, FS_Interval
      <4>3. QED
        BY <4>2, FS_Subset, FS_CardinalityType DEF Mislabelled
    <3>5. Measures(d) /\ hpc'[d] = "wait" /\ ran'[d] # claimed'[d] => Overtaken(d)'
      <4>1. ASSUME Measures(d), hpc'[d] = "wait", ran'[d] # claimed'[d]
            PROVE  Overtaken(d)'
        <5>1. Overtaken(d) /\ hpc[d] = "wait"
          BY <3>1, <3>2, <4>1 DEF LabelInv
        <5>2. Current(d).image \in Images /\ Current(d)' = Current(d)
          BY <3>1, <5>1, ProcParts, PlanFacts DEF Current, Containers, RoundInv
        <5>3. tag'[Current(d).image] # claimed[d]
          BY <1>1, <1>4, <3>1, <5>1, <5>2 DEF Overtaken, LabelInv
        <5>4. QED
          BY <3>1, <3>3, <4>1, <5>2, <5>3 DEF Overtaken
      <4>2. QED
        BY <4>1
    <3>6. QED
      BY <1>1, <1>3, <3>1, <3>3, <3>4, <3>5 DEF LabelInv
  <2>2. ASSUME NEW r \in records
        PROVE  /\ r.claimed <= builds' + 1
               /\ r.claimed # r.ran => tag'[ImageOf(r.case[2])] # r.claimed
    <3>1. r \in RecordType /\ r.claimed \in Int /\ ImageOf(r.case[2]) \in Images
      BY <1>1, Constants DEF TypeOK, ImageOf
    <3>2. /\ r.claimed <= builds + 1
          /\ r.claimed # r.ran => tag[ImageOf(r.case[2])] # r.claimed
      BY <1>1 DEF ImagesInv
    <3>3. QED
      BY <1>1, <1>3, <1>4, <3>1, <3>2
  <2>3. QED
    BY <1>4, <1>5, <2>1, <2>2 DEF ImagesInv
<1>10. PreparedInv'
  <2>1. ASSUME NEW d \in Procs, ~Measures(d)'
        PROVE  ProgressInv(d)'
    <3>1. CASE d = c
      BY <1>5, <3>1 DEF ProgressInv
    <3>2. CASE d # c
      BY <1>3, <1>5, <1>7, <2>1, <3>2, ProgressKept DEF Measures
    <3>3. QED
      BY <3>1, <3>2
  <2>2. QED
    BY <1>1, <1>5, <1>7, <2>1 DEF PreparedInv
<1>11. QED
  BY <1>6, <1>7, <1>8, <1>9, <1>10, <1>13 DEF BatchOK, BatchInv, CachesOK

(* A step of a command and its container: only their own parts are to be
   looked at, and the records that are new. *)
LEMMA HostStep ==
    ASSUME BatchOK, NEW c \in Procs, CachesOK', Others(c), Lasting, UNCHANGED <<tag, builds>>,
           TypeOK', \A d \in Procs \ {c} : SameHost(d) /\ seen'[d] = seen[d], records \subseteq records',
           \A r \in records' \ records :
              /\ r.claimed <= builds + 1
              /\ r.claimed # r.ran => tag[ImageOf(r.case[2])] # r.claimed,
           RoundInv(c)', SeenInv(c)', FoundInv(c)', LabelInv(c)', ~Measures(c)' => ProgressInv(c)',
           prepared' \subseteq m2'
    PROVE  BatchOK'
<1>1. TypeOK /\ RoundsInv /\ ImagesInv /\ PreparedInv
  BY BatchParts
<1>2. RoundsInv'
  <2>1. \A d \in Procs \ {c} : RoundInv(d)'
    BY RoundKept DEF SeenKept
  <2>2. QED
    BY <2>1 DEF RoundsInv
<1>6. HistoryInv'
  BY HistoryKept DEF Lasting
<1>3. ImagesInv'
  <2>1. \A d \in Procs \ {c} : LabelInv(d)'
    BY <1>1, LabelKept DEF ImagesInv
  <2>2. \A d \in Procs : LabelInv(d)'
    BY <2>1
  <2>3. tag' = tag /\ builds' = builds
    OBVIOUS
  <2>4. \A r \in records' : /\ r.claimed <= builds + 1
                            /\ r.claimed # r.ran => tag[ImageOf(r.case[2])] # r.claimed
    BY <1>1 DEF ImagesInv
  <2>5. QED
    BY <1>1, <2>2, <2>3, <2>4 DEF ImagesInv
<1>4. PreparedInv'
  <2>1. ASSUME NEW d \in Procs \ {c}, ~Measures(d)'
        PROVE  ProgressInv(d)'
    BY <2>1, ProgressKept DEF SameHost, Measures, Others
  <2>2. QED
    BY <2>1 DEF PreparedInv
<1>5. QED
  BY <1>2, <1>3, <1>4, <1>6 DEF BatchOK, BatchInv, CachesOK

(* The types of a step that changes a container. *)
LEMMA HostTypes ==
    ASSUME BatchOK, NEW c \in Procs, CachesOK', Others(c), UNCHANGED <<tag, builds, seen, req, commands>>,
           found' \in [Procs -> RecordType \cup {None}], at' \in [Procs -> Nat], at'[c] \in 1..(Len(Plan(req[c])) + 1),
           hpc' \in [Procs -> {"next", "start", "wait", "ended"}],
           claimed' \in [Procs -> Ids], ran' \in [Procs -> Ids],
           served' \in [Procs -> Seq(RecordType)], code' \in [Procs -> 0..2],
           records' \subseteq RecordType, prepared' \subseteq Artifacts,
           \A d \in Procs \ {c} : SameHost(d),
           job'[c] # NoJob => hpc'[c] = "wait"
    PROVE  TypeOK'
<1>1. CachesTypeOK' /\ TypeOK
  BY BatchParts DEF CachesOK
<1>2. ASSUME NEW d \in Procs
      PROVE  at'[d] \in 1..(Len(Plan(req'[d])) + 1)
  BY ProcParts DEF SameHost
<1>3. ASSUME NEW d \in Procs, job'[d] # NoJob
      PROVE  hpc'[d] = "wait"
  BY <1>3, ProcParts DEF SameHost, Others
<1>4. /\ tag' = tag /\ builds' = builds /\ seen' = seen /\ req' = req
      /\ commands' = commands
  OBVIOUS
<1>5. QED
  BY <1>1, <1>2, <1>3, <1>4 DEF TypeOK

(* The containers to come have what the stages of the earlier ones have left. *)
LEMMA EarlierRounds ==
    ASSUME BatchOK, NEW c \in Procs, ~Measures(c), hpc[c] # "ended", Lasting,
           NEW i \in 1..(at[c] - 1), NEW s \in StagesOf(Plan(req[c])[i].stages)
    PROVE  Provided(s)'
<1>1. ProgressInv(c) /\ req[c] \in Requests /\ i \in 1..Len(Plan(req[c]))
  BY ProcParts
<1>2. Provided(s) /\ s \in Stages
  BY <1>1, PlanStages DEF ProgressInv
<1>3. QED
  BY <1>2, ProvidedKept

LEMMA StartContainerStep ==
    ASSUME BatchOK, NEW c \in Procs, StartContainer(c)
    PROVE  BatchOK'
<1> DEFINE k == Current(c)
           st == IF Equivalent(c, k) = {} THEN k.stages ELSE <<>>
           j == NewJob(st, k.net, k.prepare)
           img == tag[k.image]
<1>1. /\ TypeOK /\ CachesOK /\ CachesTypeOK /\ RoundInv(c) /\ LabelInv(c) /\ PreparedInv
      /\ (~Measures(c) => ProgressInv(c))
      /\ req[c] \in Requests /\ at[c] \in 1..(Len(Plan(req[c])) + 1) /\ at[c] \in Nat
      /\ Len(Plan(req[c])) \in Nat
  BY BatchParts, ProcParts
<1>2. /\ hpc[c] = "start" /\ ran' = [ran EXCEPT ![c] = img]
      /\ job' = [job EXCEPT ![c] = j] /\ hpc' = [hpc EXCEPT ![c] = "wait"]
      /\ UNCHANGED <<disk, tag, builds, seen, req, at, claimed, served, code, commands,
                     results>>
  BY DEF StartContainer, images
<1>18. PICK f \in IF Equivalent(c, k) = {} THEN {None} ELSE Equivalent(c, k) :
          found' = [found EXCEPT ![c] = f]
  BY DEF StartContainer
<1>19. f # None => f \in Equivalent(c, k) /\ f \in records
  BY DEF Equivalent
<1>3. at[c] \in 1..Len(Plan(req[c]))
  BY <1>1, <1>2 DEF RoundInv
<1>4. /\ k \in Containers /\ k.image \in Images /\ k.stages \in StageSeqs
      /\ k.net \in BOOLEAN /\ k.prepare \in BOOLEAN
  <2>1. k \in Containers
    BY <1>1, <1>3, PlanFacts DEF Current
  <2>2. QED
    BY <2>1 DEF Containers
<1>5. ~Measures(c) => st = k.stages
  <2>1. ASSUME ~Measures(c)
        PROVE  Equivalent(c, k) = {}
    <3>1. k.case = <<>>
      BY <1>1, <1>3, <2>1, PlainPlans DEF Measures, Current
    <3>2. \A r \in records : r.case \in Cases
      BY <1>1, Constants DEF TypeOK
    <3>3. <<>> \notin Cases
      BY DEF Cases
    <3>4. QED
      BY <3>1, <3>2, <3>3 DEF Equivalent
  <2>2. QED
    BY <2>1
<1>6. st \in StageSeqs /\ img \in Ids
  BY <1>1, <1>4 DEF StageSeqs, TypeOK
<1>20. f \in RecordType \cup {None}
  BY <1>1, <1>19 DEF TypeOK
<1> HIDE DEF k, st, img
<1>7. /\ j \in JobType /\ j.stages = st /\ j.pc = (IF st = <<>> THEN "run" ELSE "stage")
      /\ j.since = edition /\ j.file = None /\ j.got = None
  BY <1>1, <1>4, <1>6, NewJobFacts
<1>8. job[c].pc # "putPom"
  <2>1. job[c] = NoJob
    BY <1>2, ProcParts
  <2>2. QED
    BY <2>1 DEF NoJob
<1> HIDE DEF j
<1>9. CachesOK' /\ Others(c) /\ job'[c] = j
  <2>1. UNCHANGED disk
    BY <1>2
  <2>2. QED
    BY <1>1, <1>2, <1>7, <1>8, <2>1, NewContainer
<1>10. /\ hpc' \in [Procs -> {"next", "start", "wait", "ended"}] /\ hpc'[c] = "wait"
       /\ ran' \in [Procs -> Ids] /\ ran'[c] = img
       /\ found' \in [Procs -> RecordType \cup {None}] /\ found'[c] = f
       /\ \A d \in Procs \ {c} : SameHost(d)
  BY <1>1, <1>2, <1>6, <1>18, <1>20 DEF TypeOK, SameHost
<1>11. /\ req' = req /\ at' = at /\ served' = served /\ claimed' = claimed /\ code' = code
       /\ commands' = commands /\ records' = records /\ prepared' = prepared
       /\ tag' = tag /\ builds' = builds /\ seen' = seen /\ m2' = m2 /\ Lasting
       /\ pom' = pom /\ edition' = edition
  BY <1>2 DEF results, disk, sources, Lasting
<1>12. TypeOK'
  BY <1>1, <1>9, <1>10, <1>11, HostTypes DEF TypeOK
<1>13. RoundInv(c)'
  BY <1>3, <1>10, <1>11, RoundStays DEF SeenKept
<1>21. SeenInv(c)' /\ FoundInv(c)'
  <2>1. SeenInv(c)'
    BY <1>2, <1>10, <1>11, ProcParts, SeenStays
  <2>2. FoundInv(c)'
    BY <1>10, <1>11, <1>19 DEF FoundInv, Equivalent, Current, SourceOf, Measures, k
  <2>3. QED
    BY <2>1, <2>2
<1>14. LabelInv(c)'
  <2>1. /\ Mislabelled(c)' = Mislabelled(c) /\ (Measures(c)' <=> Measures(c))
        /\ Overtaken(c)' <=> Overtaken(c)
    BY <1>2, <1>10, <1>11 DEF Mislabelled, Measures, Overtaken, Current
  <2>2. Measures(c) /\ ran'[c] # claimed[c] => Overtaken(c)
    BY <1>2, <1>10 DEF Overtaken, k, img
  <2>3. QED
    BY <1>1, <1>11, <2>1, <2>2 DEF LabelInv
<1>15. ~Measures(c)' => ProgressInv(c)'
  <2>1. ASSUME ~Measures(c)
        PROVE  ProgressInv(c)'
    <3>1. \A i \in 1..(at[c] - 1) : \A s \in StagesOf(Plan(req[c])[i].stages) : Provided(s)'
      BY <1>2, <1>11, <2>1, EarlierRounds
    <3>2. job'[c].stages = Plan(req[c])[at[c]].stages
      BY <1>5, <1>7, <1>9, <2>1 DEF k, Current
    <3>3. QED
      BY <1>11, <3>1, <3>2 DEF ProgressInv, Current
  <2>2. QED
    BY <1>11, <2>1 DEF Measures
<1>16. prepared' \subseteq m2'
  BY <1>1, <1>11 DEF PreparedInv
<1>17. QED
  BY <1>9, <1>10, <1>11, <1>12, <1>13, <1>14, <1>15, <1>16, <1>21, HostStep

(* One more case of a batch: it adds to the cases that are mislabelled only if
   its image's tag has moved on since it was looked up. *)
LEMMA OneMoreCase ==
    ASSUME NEW s \in Seq(RecordType), NEW r \in RecordType, NEW n \in Nat,
           NEW b \in Nat, n = Len(s),
           Cardinality({i \in DOMAIN s : s[i].claimed # s[i].ran}) <= b,
           r.claimed # r.ran => Cardinality({i \in DOMAIN s : s[i].claimed # s[i].ran}) < b
    PROVE  /\ Append(s, r) \in Seq(RecordType) /\ Len(Append(s, r)) = n + 1
           /\ DOMAIN Append(s, r) = 1..(n + 1)
           /\ \A i \in 1..n : Append(s, r)[i] = s[i]
           /\ Append(s, r)[n + 1] = r
           /\ Cardinality({i \in DOMAIN Append(s, r) :
                              Append(s, r)[i].claimed # Append(s, r)[i].ran}) <= b
<1> DEFINE a == Append(s, r)
           M == {i \in DOMAIN s : s[i].claimed # s[i].ran}
           N == {i \in DOMAIN a : a[i].claimed # a[i].ran}
<1>1. DOMAIN s = 1..n
  BY LenProperties
<1>2. /\ a \in Seq(RecordType) /\ Len(a) = n + 1 /\ \A i \in 1..n : a[i] = s[i]
      /\ a[n + 1] = r
  BY AppendProperties
<1> HIDE DEF a
<1>3. DOMAIN a = 1..(n + 1)
  BY <1>2, LenProperties
<1>4. IsFiniteSet(M) /\ Cardinality(M) \in Nat
  <2>1. IsFiniteSet(1..n) /\ M \subseteq 1..n
    BY <1>1, FS_Interval
  <2>2. QED
    BY <2>1, FS_Subset, FS_CardinalityType
<1>5. N = IF r.claimed # r.ran THEN M \cup {n + 1} ELSE M
  <2>1. \A i \in 1..(n + 1) : i \in 1..n \/ i = n + 1
    OBVIOUS
  <2>2. 1..n \subseteq 1..(n + 1) /\ n + 1 \in 1..(n + 1)
    OBVIOUS
  <2>3. QED
    BY <1>1, <1>2, <1>3, <2>1, <2>2
<1>6. n + 1 \notin M
  BY <1>1
<1>7. Cardinality(M) <= b /\ (r.claimed # r.ran => Cardinality(M) < b)
  OBVIOUS
<1> HIDE DEF M, N
<1>8. Cardinality(M \cup {n + 1}) = Cardinality(M) + 1
  BY <1>4, <1>6, FS_AddElement
<1>9. Cardinality(N) <= b
  BY <1>4, <1>5, <1>7, <1>8
<1>10. QED
  BY <1>2, <1>3, <1>9 DEF a, N

(* What a container of a measurement leaves, or has found. *)
LEMMA DeliveredRecord ==
    ASSUME BatchOK, NEW c \in Procs, hpc[c] = "wait", Measures(c), Deliver(c)
    PROVE  \E r \in RecordType :
              /\ r.case = Current(c).case
              /\ r.of = SourceSeen(c, Current(c))
              /\ r.claimed \in seen[c].ids[Current(c).image] \ {0}
              /\ r.claimed <= builds + 1
              /\ r.claimed # r.ran => /\ tag[ImageOf(r.case[2])] # r.claimed
                                      /\ Overtaken(c)
              /\ records' = records \cup {r}
              /\ served' = [served EXCEPT ![c] = Append(served[c], r)]
<1> DEFINE k == Current(c)
           r == Delivered(c)
<1>1. /\ TypeOK /\ ImagesInv /\ RoundInv(c) /\ LabelInv(c) /\ SeenInv(c) /\ FoundInv(c)
      /\ req[c] \in Requests /\ at[c] \in 1..(Len(Plan(req[c])) + 1) /\ at[c] \in Nat
      /\ Len(Plan(req[c])) \in Nat /\ claimed[c] \in Ids /\ ran[c] \in Ids
  BY BatchParts, ProcParts
<1>2. k.case \in Cases /\ k.image = ImageOf(k.case[2])
  <2>1. at[c] \in 1..Len(Plan(req[c]))
    BY <1>1 DEF RoundInv
  <2>2. QED
    BY <1>1, <2>1, PlanFacts DEF Measures, Current
<1>3. SourceOf(k) \in Poms \cup Editions \cup {None}
  BY <1>1 DEF SourceOf, TypeOK, CachesTypeOK
<1>4. records' = records \cup {r} /\ served' = [served EXCEPT ![c] = Append(served[c], r)]
  BY DEF Deliver
<1>5. SourceOf(k) = SourceSeen(c, k) /\ claimed[c] \in seen[c].ids[k.image] \ {0}
  BY <1>1 DEF SeenInv, SourceOf, SourceSeen
<1> HIDE DEF k
<1>6. CASE found[c] = None
  <2> DEFINE sk == SourceOf(k)
             ck == k.case
  <2>1. r = [case |-> ck, of |-> sk, claimed |-> claimed[c], ran |-> ran[c]]
    BY <1>6 DEF Delivered, Measured, k
  <2>2. sk \in Poms \cup Editions \cup {None} /\ ck \in Cases
    BY <1>2, <1>3
  <2> HIDE DEF sk, ck, r
  <2>3. /\ r \in RecordType /\ r.case = ck /\ r.of = sk
        /\ r.claimed = claimed[c] /\ r.ran = ran[c]
    BY <1>1, <2>1, <2>2, Constants
  <2>4. r.claimed <= builds + 1
    BY <1>1, <2>3 DEF LabelInv
  <2>5. r.claimed # r.ran => Overtaken(c)
    BY <1>1, <2>3 DEF LabelInv
  <2>6. Overtaken(c) => tag[ImageOf(r.case[2])] # r.claimed
    BY <1>2, <2>3 DEF Overtaken, k, ck
  <2>7. QED
    BY <1>4, <1>5, <2>3, <2>4, <2>5, <2>6 DEF k, ck, sk
<1>7. CASE found[c] # None
  <2>1. r \in Equivalent(c, k)
    BY <1>1, <1>7 DEF FoundInv, Delivered, k
  <2> HIDE DEF r
  <2>2. r \in records /\ r.case = k.case /\ r.of = SourceOf(k) /\ r.claimed = claimed[c]
    BY <2>1 DEF Equivalent
  <2>3. /\ r \in RecordType /\ r.claimed <= builds + 1
        /\ r.claimed # r.ran => tag[ImageOf(r.case[2])] # r.claimed
    BY <1>1, <2>2 DEF TypeOK, ImagesInv
  <2>4. r.claimed # r.ran => Overtaken(c)
    BY <1>2, <2>2, <2>3 DEF Overtaken, k
  <2>5. QED
    BY <1>4, <1>5, <2>2, <2>3, <2>4 DEF k
<1>8. QED
  BY <1>6, <1>7

(* The parts of a command that goes on to its next container. *)
LEMMA RemoveContainer ==
    ASSUME BatchOK, NEW c \in Procs, hpc[c] = "wait", job[c].pc # "putPom",
           EndContainer(c), UNCHANGED disk
    PROVE  /\ CachesOK' /\ Others(c) /\ job'[c] = NoJob /\ Lasting /\ m2' = m2
           /\ found' \in [Procs -> RecordType \cup {None}]
           /\ \A d \in Procs \ {c} : found'[d] = found[d]
<1>1. CachesOK /\ CachesTypeOK /\ found \in [Procs -> RecordType \cup {None}]
  BY BatchParts DEF TypeOK
<1>5. job' = [job EXCEPT ![c] = NoJob] /\ found' = [found EXCEPT ![c] = None]
  BY DEF EndContainer
<1>2. NoJob \in JobType /\ NoJob.pc = "none" /\ NoJob.got = None
  BY DEF NoJob, JobType, StageSeqs
<1>3. CachesOK' /\ Others(c) /\ job'[c] = NoJob
  BY <1>1, <1>2, <1>5, NewContainer
<1>4. QED
  BY <1>1, <1>3, <1>5 DEF Lasting, disk, sources

LEMMA NextContainerStep ==
    ASSUME BatchOK, NEW c \in Procs, NextContainer(c)
    PROVE  BatchOK'
<1>1. /\ TypeOK /\ RoundInv(c) /\ LabelInv(c) /\ PreparedInv /\ Position(job[c])
      /\ (~Measures(c) => ProgressInv(c))
      /\ req[c] \in Requests /\ at[c] \in 1..(Len(Plan(req[c])) + 1) /\ at[c] \in Nat
      /\ Len(Plan(req[c])) \in Nat /\ served[c] \in Seq(RecordType)
      /\ builds \in Nat
  <2>1. builds \in 0..MaxBuilds /\ Position(job[c])
    BY BatchParts DEF TypeOK, CachesInv, Positions
  <2>2. builds \in Nat
    BY <2>1, Constants
  <2>3. QED
    BY <2>1, <2>2, BatchParts, ProcParts
<1>2. /\ hpc[c] = "wait" /\ job[c].pc = "done" /\ Deliver(c)
      /\ at' = [at EXCEPT ![c] = at[c] + 1]
      /\ EndContainer(c) /\ hpc' = [hpc EXCEPT ![c] = "next"]
      /\ UNCHANGED <<disk, tag, builds, seen, req, claimed, ran, code, commands, prepared>>
  BY DEF NextContainer, images
<1>3. at[c] \in 1..Len(Plan(req[c]))
  BY <1>1, <1>2 DEF RoundInv
<1>4. /\ CachesOK' /\ Others(c) /\ job'[c] = NoJob /\ Lasting /\ m2' = m2
      /\ found' \in [Procs -> RecordType \cup {None}]
      /\ \A d \in Procs \ {c} : found'[d] = found[d]
  BY <1>2, RemoveContainer
<1>5. /\ hpc' \in [Procs -> {"next", "start", "wait", "ended"}] /\ hpc'[c] = "next"
      /\ at' \in [Procs -> Nat] /\ at'[c] = at[c] + 1
      /\ at'[c] \in 1..(Len(Plan(req[c])) + 1)
      /\ \A d \in Procs \ {c} : hpc'[d] = hpc[d] /\ at'[d] = at[d]
  BY <1>1, <1>2, <1>3 DEF TypeOK
<1>6. /\ req' = req /\ claimed' = claimed /\ ran' = ran /\ code' = code
      /\ commands' = commands /\ prepared' = prepared /\ tag' = tag /\ builds' = builds
      /\ seen' = seen /\ pom' = pom /\ edition' = edition
      /\ prepared' \subseteq m2' /\ (Measures(c)' <=> Measures(c))
  BY <1>1, <1>2, <1>4 DEF PreparedInv, Measures, Lasting
<1>10. SeenInv(c)' /\ FoundInv(c)'
  <2>1. SeenInv(c)
    BY ProcParts
  <2>2. QED
    BY <1>2, <1>5, <1>6, <2>1 DEF SeenInv, FoundInv
<1>7. CASE Measures(c)
  <2>1. PICK r \in RecordType :
              /\ r.case = Current(c).case
              /\ r.of = SourceSeen(c, Current(c))
              /\ r.claimed \in seen[c].ids[Current(c).image] \ {0}
              /\ r.claimed <= builds + 1
              /\ r.claimed # r.ran => /\ tag[ImageOf(r.case[2])] # r.claimed
                                      /\ Overtaken(c)
              /\ records' = records \cup {r}
              /\ served' = [served EXCEPT ![c] = Append(served[c], r)]
    BY <1>2, <1>7, DeliveredRecord
  <2>2. Len(served[c]) = at[c] - 1 /\ Len(served[c]) \in Nat
    BY <1>1, <1>7 DEF RoundInv
  <2> DEFINE s == served[c]
             n == Len(served[c])
             a == Append(s, r)
  <2>3. /\ a \in Seq(RecordType) /\ Len(a) = n + 1 /\ DOMAIN a = 1..(n + 1)
        /\ \A i \in 1..n : a[i] = s[i]
        /\ a[n + 1] = r
        /\ Cardinality({i \in DOMAIN a : a[i].claimed # a[i].ran}) <= builds
    <3>1. /\ Cardinality({i \in DOMAIN s : s[i].claimed # s[i].ran}) <= builds
          /\ r.claimed # r.ran =>
                Cardinality({i \in DOMAIN s : s[i].claimed # s[i].ran}) < builds
      BY <1>1, <2>1 DEF LabelInv, Mislabelled
    <3>2. s \in Seq(RecordType) /\ n \in Nat /\ n = Len(s) /\ builds \in Nat
      BY <1>1, <2>2
    <3> HIDE DEF s, n
    <3>3. QED
      BY <3>1, <3>2, OneMoreCase
  <2> HIDE DEF a
  <2>4. /\ served' \in [Procs -> Seq(RecordType)] /\ served'[c] = a
        /\ \A d \in Procs \ {c} : served'[d] = served[d]
    BY <1>1, <2>1, <2>3 DEF TypeOK, a
  <2>5. \A d \in Procs \ {c} : SameHost(d)
    BY <1>4, <1>5, <1>6, <2>4 DEF SameHost
  <2>6. records \subseteq records' /\ records' \subseteq RecordType /\ r \in records'
    BY <1>1, <2>1 DEF TypeOK
  <2>7. TypeOK'
    <3>1. /\ claimed' \in [Procs -> Ids] /\ ran' \in [Procs -> Ids]
          /\ code' \in [Procs -> 0..2] /\ prepared' \subseteq Artifacts
      BY <1>1, <1>6 DEF TypeOK
    <3>2. UNCHANGED <<tag, builds, seen, req, commands>>
      BY <1>6
    <3>3. QED
      BY <1>4, <1>5, <2>4, <2>5, <2>6, <3>1, <3>2, HostTypes
  <2>8. RoundInv(c)'
    <3>1. ASSUME NEW i \in 1..(n + 1)
          PROVE  /\ a[i] \in records' /\ a[i].case = Plan(req[c])[i].case
                 /\ a[i].of = SourceSeen(c, Plan(req[c])[i])
                 /\ a[i].claimed \in seen[c].ids[Plan(req[c])[i].image] \ {0}
      <4>1. CASE i \in 1..n
        <5>1. i \in DOMAIN served[c] /\ a[i] = served[c][i]
          BY <1>1, <2>3, <4>1, LenProperties
        <5>2. Serves(c, served[c][i], Plan(req[c])[i])
          BY <1>1, <5>1 DEF RoundInv
        <5>3. QED
          BY <2>6, <5>1, <5>2 DEF Serves
      <4>2. CASE i = n + 1
        <5>1. a[i] = r /\ Plan(req[c])[i] = Current(c)
          BY <1>1, <2>2, <2>3, <4>2 DEF Current
        <5>2. QED
          BY <2>1, <2>6, <5>1
      <4>3. QED
        BY <2>2, <4>1, <4>2
    <3>2. Len(a) = at'[c] - 1 /\ DOMAIN a = 1..(n + 1)
      BY <1>1, <1>5, <2>2, <2>3
    <3>3. \A i \in DOMAIN served'[c] : Serves(c, served[c][i], Plan(req[c])[i])'
      <4>1. ASSUME NEW i \in DOMAIN served'[c]
            PROVE  Serves(c, served[c][i], Plan(req[c])[i])'
        <5>1. /\ a[i] \in records' /\ a[i].case = Plan(req[c])[i].case
              /\ a[i].of = SourceSeen(c, Plan(req[c])[i])
              /\ a[i].claimed \in seen[c].ids[Plan(req[c])[i].image] \ {0}
          BY <2>4, <3>1, <3>2, <4>1
        <5>2. QED
          BY <1>6, <2>4, <5>1 DEF Serves, SourceSeen
      <4>2. QED
        BY <4>1
    <3>4. QED
      BY <1>5, <1>6, <1>7, <2>4, <3>2, <3>3 DEF RoundInv
  <2>9. LabelInv(c)'
    BY <1>1, <1>5, <1>6, <2>3, <2>4 DEF LabelInv, Mislabelled, Overtaken
  <2>10. QED
    BY <1>4, <1>6, <1>7, <1>10, <2>1, <2>5, <2>6, <2>7, <2>8, <2>9, HostStep
<1>8. CASE ~Measures(c)
  <2>1. records' = records /\ served' = served
    BY <1>2, <1>8 DEF Deliver
  <2>2. \A d \in Procs \ {c} : SameHost(d)
    BY <1>4, <1>5, <1>6, <2>1 DEF SameHost
  <2>3. TypeOK'
    <3>1. /\ claimed' \in [Procs -> Ids] /\ ran' \in [Procs -> Ids]
          /\ code' \in [Procs -> 0..2] /\ prepared' \subseteq Artifacts
          /\ served' \in [Procs -> Seq(RecordType)] /\ records' \subseteq RecordType
      BY <1>1, <1>6, <2>1 DEF TypeOK
    <3>2. UNCHANGED <<tag, builds, seen, req, commands>>
      BY <1>6
    <3>3. QED
      BY <1>4, <1>5, <2>2, <3>1, <3>2, HostTypes
  <2>4. RoundInv(c)'
    <3>1. served[c] = <<>> /\ DOMAIN <<>> = {}
      BY <1>1, <1>8 DEF RoundInv
    <3>2. QED
      BY <1>1, <1>5, <1>6, <1>8, <2>1, <3>1 DEF RoundInv
  <2>5. LabelInv(c)'
    BY <1>1, <1>5, <1>6, <2>1 DEF LabelInv, Mislabelled, Overtaken
  <2>6. ProgressInv(c)'
    <3>1. job[c].stages = <<>> /\ StagesOf(<<>>) = {}
      BY <1>1, <1>2 DEF Position, StagesOf
    <3>2. ASSUME NEW i \in 1..at[c], NEW s \in StagesOf(Plan(req[c])[i].stages)
          PROVE  Provided(s)'
      <4>1. CASE i \in 1..(at[c] - 1)
        BY <1>2, <1>4, <1>8, <3>2, <4>1, EarlierRounds
      <4>2. CASE i = at[c]
        <5>1. Provided(s) /\ s \in Stages
          BY <1>1, <1>2, <1>3, <1>8, <3>1, <3>2, <4>2, PlanStages DEF ProgressInv, Current
        <5>2. QED
          BY <1>4, <5>1, ProvidedKept
      <4>3. QED
        BY <1>1, <4>1, <4>2
    <3>3. at'[c] - 1 = at[c] /\ hpc'[c] = "next" /\ req' = req
      BY <1>1, <1>5, <1>6
    <3>4. QED
      BY <3>2, <3>3 DEF ProgressInv
  <2>7. QED
    BY <1>4, <1>6, <1>10, <2>1, <2>2, <2>3, <2>4, <2>5, <2>6, HostStep
<1>9. QED
  BY <1>7, <1>8

LEMMA StopAtFailureStep ==
    ASSUME BatchOK, NEW c \in Procs, StopAtFailure(c)
    PROVE  BatchOK'
<1>1. /\ TypeOK /\ RoundInv(c) /\ LabelInv(c) /\ PreparedInv
      /\ at[c] \in 1..(Len(Plan(req[c])) + 1)
  BY BatchParts, ProcParts
<1>2. /\ hpc[c] = "wait" /\ job[c].pc # "putPom"
      /\ EndContainer(c) /\ hpc' = [hpc EXCEPT ![c] = "ended"]
      /\ code' = [code EXCEPT ![c] = 1]
      /\ UNCHANGED <<disk, tag, builds, seen, req, at, claimed, ran, served, commands, results>>
  BY DEF StopAtFailure, images
<1>3. /\ CachesOK' /\ Others(c) /\ job'[c] = NoJob /\ Lasting /\ m2' = m2
      /\ found' \in [Procs -> RecordType \cup {None}]
      /\ \A d \in Procs \ {c} : found'[d] = found[d]
  BY <1>2, RemoveContainer
<1>4. /\ hpc' \in [Procs -> {"next", "start", "wait", "ended"}] /\ hpc'[c] = "ended"
      /\ code' \in [Procs -> 0..2] /\ code'[c] = 1
      /\ \A d \in Procs \ {c} : SameHost(d)
  BY <1>1, <1>2, <1>3 DEF TypeOK, SameHost
<1>5. /\ req' = req /\ at' = at /\ served' = served /\ claimed' = claimed /\ ran' = ran
      /\ commands' = commands /\ records' = records /\ prepared' = prepared
      /\ tag' = tag /\ builds' = builds /\ seen' = seen
      /\ pom' = pom /\ edition' = edition
  BY <1>2 DEF results, disk, sources
<1>6. TypeOK'
  BY <1>1, <1>3, <1>4, <1>5, HostTypes DEF TypeOK
<1>7. RoundInv(c)'
  BY <1>4, <1>5, RoundStays DEF SeenKept
<1>12. SeenInv(c)' /\ FoundInv(c)'
  <2>1. SeenInv(c)
    BY ProcParts
  <2>2. QED
    BY <1>4, <1>5, <2>1 DEF SeenInv, FoundInv
<1>8. LabelInv(c)'
  BY <1>1, <1>4, <1>5 DEF LabelInv, Measures, Mislabelled, Overtaken
<1>9. ProgressInv(c)'
  BY <1>4 DEF ProgressInv
<1>10. prepared' \subseteq m2'
  BY <1>1, <1>3, <1>5 DEF PreparedInv
<1>11. QED
  BY <1>3, <1>4, <1>5, <1>6, <1>7, <1>8, <1>9, <1>10, <1>12, HostStep

LEMMA CachedStep ==
    ASSUME BatchOK, NEW c \in Procs, Cached(c)
    PROVE  BatchOK'
<1>1. /\ TypeOK /\ CachesOK /\ CachesTypeOK /\ RoundInv(c) /\ LabelInv(c) /\ PreparedInv
      /\ (~Measures(c) => ProgressInv(c))
      /\ req[c] \in Requests /\ at[c] \in 1..(Len(Plan(req[c])) + 1) /\ at[c] \in Nat
      /\ Len(Plan(req[c])) \in Nat /\ job[c] \in JobType
  BY BatchParts, ProcParts
<1>2. ContainerStep(c) /\ UNCHANGED <<tag, builds, seen, host, results>>
  BY DEF Cached, images
<1>3. CachesOK' /\ Onwards(c)
  BY <1>1, <1>2, ContainerKeepsCaches, ContainerOnwards
<1>4. Lasting /\ Others(c) /\ job[c].pc \in Busy /\ StageDone(c)
  BY <1>3 DEF Onwards, Lasting
<1>5. hpc[c] = "wait"
  <2>1. job[c] # NoJob
    BY <1>4 DEF NoJob
  <2>2. QED
    BY <2>1, ProcParts
<1>6. /\ req' = req /\ at' = at /\ hpc' = hpc /\ served' = served /\ claimed' = claimed
      /\ ran' = ran /\ code' = code /\ commands' = commands /\ records' = records
      /\ prepared' = prepared /\ tag' = tag /\ builds' = builds
      /\ seen' = seen /\ found' = found /\ pom' = pom /\ edition' = edition
      /\ \A d \in Procs : SameHost(d)
  BY <1>2, <1>4 DEF host, results, SameHost, Lasting
<1>7. TypeOK'
  BY <1>1, <1>3, <1>4, <1>5, <1>6, HostTypes DEF TypeOK
<1>8. RoundInv(c)'
  BY <1>6, RoundKept DEF SeenKept
<1>13. SeenInv(c)' /\ FoundInv(c)'
  <2>1. SeenInv(c) /\ FoundInv(c)
    BY ProcParts
  <2>2. SeenInv(c)'
    BY <1>6, <2>1, SeenStays
  <2>3. FoundInv(c)'
    BY <1>6, <2>1, FoundKept
  <2>4. QED
    BY <2>2, <2>3
<1>9. LabelInv(c)'
  BY <1>1, <1>6 DEF LabelInv, Measures, Mislabelled, Overtaken, Current
<1>10. ~Measures(c)' => ProgressInv(c)'
  <2>1. ASSUME ~Measures(c)
        PROVE  ProgressInv(c)'
    <3>1. \A i \in 1..(at[c] - 1) : \A s \in StagesOf(Plan(req[c])[i].stages) : Provided(s)'
      BY <1>4, <1>5, <2>1, EarlierRounds
    <3>2. at[c] \in 1..Len(Plan(req[c]))
      BY <1>1, <1>5 DEF RoundInv
    <3>3. ASSUME NEW s \in StagesOf(Plan(req[c])[at[c]].stages) \ StagesOf(job'[c].stages)
          PROVE  Provided(s)'
      <4>1. s \in Stages
        BY <1>1, <3>2, <3>3, PlanStages
      <4>2. CASE s \notin StagesOf(job[c].stages)
        <5>1. Provided(s)
          BY <1>1, <1>5, <2>1, <3>3, <4>2 DEF ProgressInv, Current
        <5>2. QED
          BY <1>4, <4>1, <5>1, ProvidedKept
      <4>3. CASE s \in StagesOf(job[c].stages)
        <5>1. job'[c].stages # job[c].stages
          BY <3>3, <4>3
        <5>2. /\ job[c].stages # <<>> /\ job'[c].stages = Tail(job[c].stages)
              /\ \E h \in Stages : h = Head(job[c].stages) /\ Provided(h)'
          BY <1>4, <5>1 DEF StageDone
        <5>3. job[c].stages \in StageSeqs
          BY <1>1 DEF JobType
        <5>4. s \in StagesOf(Tail(job[c].stages)) \cup {Head(job[c].stages)}
          BY <4>3, <5>2, <5>3, SequenceStages
        <5>5. QED
          BY <3>3, <5>2, <5>4
      <4>4. QED
        BY <4>2, <4>3
    <3>4. QED
      BY <1>6, <3>1, <3>3 DEF ProgressInv, Current
  <2>2. QED
    BY <1>6, <2>1 DEF Measures
<1>11. prepared' \subseteq m2'
  BY <1>1, <1>4, <1>6 DEF PreparedInv, Lasting
<1>12. QED
  BY <1>3, <1>4, <1>6, <1>7, <1>8, <1>9, <1>10, <1>11, <1>13, HostStep

(* The sources change, or jars are lost, while no container is there. *)
LEMMA IdleCaches ==
    ASSUME CachesOK, \A c \in Procs : job[c] = NoJob, EditPom \/ EditHarness \/ LoseJars
    PROVE  CachesOK' /\ job' = job
<1>1. /\ CachesTypeOK /\ Positions /\ PathsInv /\ PeerInv /\ EntriesInv /\ GotInv
  BY DEF CachesOK, CachesInv
<1>2. /\ pom' \in Poms /\ edition' \in Editions /\ m2' \subseteq Artifacts
      /\ partial' = partial /\ pathFile' = pathFile /\ content' = content
      /\ peerPom' = peerPom /\ peerPath' = peerPath /\ entry' = entry
      /\ job' = job /\ spoiled' = spoiled
  BY <1>1 DEF EditPom, EditHarness, LoseJars, sources, paths, peer, CachesTypeOK
<1>3. \A c \in Procs : job'[c] = NoJob /\ job[c] = NoJob
  BY <1>2
<1>4. NoJob.pc = "none" /\ NoJob.got = None
  BY DEF NoJob
<1>5. CachesTypeOK'
  BY <1>1, <1>2 DEF CachesTypeOK
<1>6. Positions'
  BY <1>3, <1>4 DEF Positions, Position
<1>7. PathsInv'
  <2>1. \A c \in Procs : OnPath(c)'
    BY <1>3, <1>4 DEF OnPath
  <2>2. QED
    BY <1>1, <1>2, <2>1 DEF PathsInv
<1>8. PeerInv'
  <2>1. \A c \in Procs : OnPeer(job[c])'
    BY <1>3, <1>4 DEF OnPeer
  <2>2. peerPom # None /\ peerPath # peerPom => peerPom \in spoiled
    BY <1>1, <1>3, <1>4 DEF PeerInv
  <2>3. QED
    BY <1>2, <2>1, <2>2 DEF PeerInv
<1>9. EntriesInv'
  BY <1>1, <1>2 DEF EntriesInv
<1>10. GotInv'
  BY <1>3, <1>4 DEF GotInv
<1>11. QED
  BY <1>2, <1>5, <1>6, <1>7, <1>8, <1>9, <1>10 DEF CachesOK, CachesInv

LEMMA EnvironmentStep ==
    ASSUME BatchOK, Environment
    PROVE  BatchOK'
<1>1. TypeOK /\ CachesOK /\ RoundsInv /\ ImagesInv /\ PreparedInv
  BY BatchParts
<1>2. \A c \in Procs : hpc[c] = "ended" /\ job[c] = NoJob
  BY ProcParts DEF Environment
<1>3. /\ EditPom \/ EditHarness \/ LoseJars
      /\ prepared' = (IF m2' = m2 THEN prepared ELSE {})
      /\ UNCHANGED <<tag, builds, seen, host, records>>
  BY DEF Environment, images
<1>4. CachesOK' /\ job' = job
  BY <1>1, <1>2, <1>3, IdleCaches
<1>5. /\ req' = req /\ at' = at /\ hpc' = hpc /\ served' = served /\ claimed' = claimed
      /\ ran' = ran /\ code' = code /\ commands' = commands /\ records' = records
      /\ tag' = tag /\ builds' = builds /\ seen' = seen /\ found' = found
      /\ \A d \in Procs : SameHost(d)
  BY <1>3 DEF host, SameHost
<1>6. prepared' \subseteq m2' /\ prepared' \subseteq prepared
  BY <1>1, <1>3 DEF PreparedInv
<1>7. TypeOK'
  BY <1>1, <1>4, <1>5, <1>6 DEF TypeOK, CachesOK
<1>8. RoundsInv'
  BY <1>5, RoundKept DEF RoundsInv, SeenKept
<1>12. HistoryInv'
  <2>1. \A d \in Procs : SeenInv(d) /\ hpc'[d] = "ended"
    BY <1>2, <1>5, ProcParts
  <2>2. QED
    BY <1>5, <2>1 DEF HistoryInv, SeenInv, FoundInv
<1>9. ImagesInv'
  <2>1. \A d \in Procs : LabelInv(d)'
    BY <1>1, <1>5, LabelKept DEF ImagesInv
  <2>2. QED
    BY <1>1, <1>5, <2>1 DEF ImagesInv
<1>10. PreparedInv'
  <2>1. \A d \in Procs : ProgressInv(d)'
    BY <1>2, <1>5 DEF ProgressInv
  <2>2. QED
    BY <1>6, <2>1 DEF PreparedInv
<1>11. QED
  BY <1>4, <1>7, <1>8, <1>9, <1>10, <1>12 DEF BatchOK, BatchInv, CachesOK

----------------------------------------------------------------------------
(* The invariant and what follows from it *)

LEMMA BatchStarts ==
    ASSUME Init
    PROVE  BatchOK
<1>1. /\ CachesInit /\ tag \in [Images -> {0, 1}] /\ builds = 0
      /\ req \in [Procs -> Requests] /\ at = [c \in Procs |-> 1]
      /\ hpc = [c \in Procs |-> "next"] /\ claimed = [c \in Procs |-> 0]
      /\ ran = [c \in Procs |-> 0] /\ served = [c \in Procs |-> <<>>]
      /\ code = [c \in Procs |-> 0] /\ commands = [c \in Procs |-> 1]
      /\ records = {} /\ prepared = {} /\ found = [c \in Procs |-> None]
      /\ seen = [c \in Procs |-> Beginning]
  BY DEF Init
<1>2. NoJob.pc = "none" /\ NoJob.got = None /\ NoJob \in JobType
  BY DEF NoJob, JobType, StageSeqs
<1>3. CachesTypeOK /\ \A c \in Procs : job[c] = NoJob
  <2>1. Files \subseteq Nat
    BY DEF Files
  <2>2. QED
    BY <1>1, <1>2 DEF CachesInit, CachesTypeOK
<1>4. CachesInv
  <2>1. Positions
    BY <1>2, <1>3 DEF Positions, Position
  <2>2. PathsInv
    BY <1>1, <1>2, <1>3 DEF PathsInv, OnPath, CachesInit
  <2>3. PeerInv
    BY <1>1, <1>2, <1>3 DEF PeerInv, OnPeer, CachesInit
  <2>4. EntriesInv /\ GotInv
    BY <1>1, <1>2, <1>3 DEF EntriesInv, GotInv, CachesInit
  <2>5. QED
    BY <2>1, <2>2, <2>3, <2>4 DEF CachesInv
<1>5. TypeOK
  <2>1. \A c \in Procs : at[c] \in 1..(Len(Plan(req[c])) + 1)
    BY <1>1, PlanFacts
  <2>2. tag \in [Images -> Ids] /\ builds \in 0..MaxBuilds
    BY <1>1, Constants
  <2>3. /\ claimed \in [Procs -> Ids] /\ ran \in [Procs -> Ids] /\ at \in [Procs -> Nat]
        /\ commands \in [Procs -> 1..MaxCommands] /\ code \in [Procs -> 0..2]
        /\ served \in [Procs -> Seq(RecordType)]
        /\ hpc \in [Procs -> {"next", "start", "wait", "ended"}]
    BY <1>1, Constants
  <2>4. seen \in [Procs -> SeenType] /\ found \in [Procs -> RecordType \cup {None}]
    <3>1. [i \in Images |-> {tag[i]}] \in [Images -> SUBSET Ids]
      BY <2>2
    <3>2. pom \in Poms /\ edition \in Editions
      BY <1>3 DEF CachesTypeOK
    <3>3. Beginning \in SeenType
      BY <3>1, <3>2 DEF Beginning, SeenType
    <3> HIDE DEF Beginning
    <3>4. QED
      BY <1>1, <3>3
  <2>5. QED
    BY <1>1, <1>3, <2>1, <2>2, <2>3, <2>4 DEF TypeOK
<1>6. RoundsInv
  BY <1>1 DEF RoundsInv, RoundInv
<1>10. HistoryInv
  <2>1. ASSUME NEW c \in Procs
        PROVE  SeenInv(c) /\ FoundInv(c)
    <3>1. seen[c] = Beginning /\ hpc[c] = "next"
      BY <1>1
    <3>2. /\ Beginning.pom = pom /\ Beginning.edition = edition
          /\ \A i \in Images : tag[i] \in Beginning.ids[i]
      BY DEF Beginning
    <3>3. QED
      BY <3>1, <3>2 DEF SeenInv, FoundInv
  <2>2. QED
    BY <2>1 DEF HistoryInv
<1>7. ImagesInv
  <2>1. ASSUME NEW c \in Procs
        PROVE  LabelInv(c)
    <3>1. Mislabelled(c) = {} /\ Cardinality({}) = 0
      BY <1>1, FS_EmptySet DEF Mislabelled
    <3>2. hpc[c] = "next" /\ claimed[c] = 0 /\ builds = 0
      BY <1>1
    <3>3. QED
      BY <3>1, <3>2 DEF LabelInv, Overtaken
  <2>2. QED
    BY <1>1, <2>1 DEF ImagesInv
<1>8. PreparedInv
  BY <1>1 DEF PreparedInv, ProgressInv
<1>9. QED
  BY <1>4, <1>5, <1>6, <1>7, <1>8, <1>10 DEF BatchOK, BatchInv

LEMMA BatchStutters ==
    ASSUME BatchOK, UNCHANGED vars
    PROVE  BatchOK'
<1>1. UNCHANGED <<disk, job, tag, builds, seen, host, results>>
  BY DEF vars, images
<1>2. CachesOK' /\ Lasting /\ m2' = m2 /\ job' = job
  BY <1>1, BatchParts, CachesStutter DEF Lasting, disk, sources
<1>3. /\ req' = req /\ at' = at /\ hpc' = hpc /\ served' = served /\ claimed' = claimed
      /\ ran' = ran /\ code' = code /\ commands' = commands /\ records' = records
      /\ prepared' = prepared /\ tag' = tag /\ builds' = builds
      /\ seen' = seen /\ found' = found /\ pom' = pom /\ edition' = edition
      /\ \A d \in Procs : SameHost(d)
  BY <1>1 DEF host, results, SameHost, disk, sources
<1>4. TypeOK /\ RoundsInv /\ ImagesInv /\ PreparedInv
  BY BatchParts
<1>5. TypeOK'
  BY <1>2, <1>3, <1>4 DEF TypeOK, CachesOK
<1>6. RoundsInv'
  BY <1>3, RoundKept DEF RoundsInv, SeenKept
<1>10. HistoryInv'
  <2>1. ASSUME NEW d \in Procs
        PROVE  SeenInv(d)' /\ FoundInv(d)'
    <3>1. SeenInv(d) /\ FoundInv(d)
      BY ProcParts
    <3>2. QED
      BY <1>3, <3>1, SeenStays, FoundKept
  <2>2. QED
    BY <2>1 DEF HistoryInv
<1>7. ImagesInv'
  <2>1. \A d \in Procs : LabelInv(d)'
    BY <1>3, <1>4, LabelKept DEF ImagesInv
  <2>2. QED
    BY <1>3, <1>4, <2>1 DEF ImagesInv
<1>8. PreparedInv'
  <2>1. ASSUME NEW d \in Procs, ~Measures(d)'
        PROVE  ProgressInv(d)'
    BY <1>2, <1>3, <2>1, ProgressKept DEF Measures
  <2>2. QED
    BY <1>2, <1>3, <1>4, <2>1 DEF PreparedInv
<1>9. QED
  BY <1>2, <1>5, <1>6, <1>7, <1>8, <1>10 DEF BatchOK, BatchInv, CachesOK

LEMMA BatchStep ==
    ASSUME BatchOK, [Next]_vars
    PROVE  BatchOK'
BY InspectStep, ImageMissingStep, StartContainerStep, CachedStep, NextContainerStep,
   StopAtFailureStep, ReturnStep, BuildStep, BuildFailsStep, AgainStep, EnvironmentStep,
   BatchStutters
   DEF Next

(* Every reachable state satisfies the inductive invariant: types, what the
   containers leave in the caches, the rounds of each command, the images of
   the records and what has been prepared (benchmark.py with
   prepare_product(), peer_classpath() and compile_instrument()). *)
THEOREM BatchInvariant == Spec => []BatchOK
<1>1. Init => BatchOK
  BY BatchStarts
<1>2. BatchOK /\ [Next]_vars => BatchOK'
  BY BatchStep
<1>3. QED
  BY <1>1, <1>2, PTL DEF Spec

(* The variables keep their types, and only a command that waits for its
   container has one (run_container() removes it in every outcome). *)
THEOREM BatchTypes == Spec => []TypeOK
<1>1. BatchOK => TypeOK
  BY DEF BatchOK
<1>2. QED
  BY <1>1, BatchInvariant, PTL

(* What a stage hands to the JVMs of its container is complete and belongs to
   what the container asked for, but for the two exceptions that are named, for
   any number of containers at once (build_product(), peer_classpath(),
   compile_instrument()). *)
THEOREM ServedExactly == Spec => []CachesServeExactly
<1>1. BatchOK => CachesServeExactly
  <2>1. ASSUME BatchOK, NEW c \in Procs
        PROVE  /\ job[c].pc # "incomplete"
               /\ job[c].got # None =>
                     (job[c].got.is = job[c].got.of \/ job[c].got.of \in spoiled)
               /\ job[c].got # None /\ job[c].got.stage = "peer" /\ job[c].pc \in Busy =>
                     job[c].got.is \in m2
    <3>1. Position(job[c]) /\ (job[c].got # None => Explained(job[c].got))
      BY <2>1, BatchParts DEF CachesInv, Positions, GotInv
    <3>2. job[c].pc # "incomplete"
      BY <3>1 DEF Position
    <3>3. QED
      BY <3>1, <3>2 DEF Explained
  <2>2. QED
    BY <2>1 DEF CachesServeExactly
<1>2. QED
  BY <1>1, BatchInvariant, PTL

(* A batch that returns 0 has a valid record of each of its cases, in the order
   of its loop, and every record it got is of the sources with which the batch
   began and of an image ID that the tag has named since (run_measurement()). *)
THEOREM BatchComplete == Spec => []BatchIsComplete
<1>1. BatchOK => BatchIsComplete
  <2>1. ASSUME BatchOK, NEW c \in Procs
        PROVE  /\ \A i \in DOMAIN served[c] : Serves(c, served[c][i], Plan(req[c])[i])
               /\ Measures(c) /\ hpc[c] = "ended" /\ code[c] = 0 =>
                     Len(served[c]) = Len(Plan(req[c]))
    <3>1. /\ RoundInv(c) /\ at[c] \in 1..(Len(Plan(req[c])) + 1) /\ at[c] \in Nat
          /\ Len(Plan(req[c])) \in Nat
      BY <2>1, ProcParts
    <3>2. QED
      BY <3>1 DEF RoundInv
  <2>2. QED
    BY <2>1 DEF BatchIsComplete
<1>2. QED
  BY <1>1, BatchInvariant, PTL

(* As many cases of a batch are attributed to an image that did not run as there
   were image builds, at most (image_identity() before run_container()). *)
THEOREM MislabelsBounded == Spec => []EachBuildMislabelsOne
<1>1. BatchOK => EachBuildMislabelsOne
  <2>1. ASSUME BatchOK, NEW c \in Procs
        PROVE  LabelInv(c)
    BY <2>1, ProcParts
  <2>2. QED
    BY <2>1 DEF EachBuildMislabelsOne, LabelInv, Mislabelled
<1>2. QED
  BY <1>1, BatchInvariant, PTL

(* No container without a network is refused for what a preparation has reported
   as ready (run_product_prepare(), run_peer_prepare(), run_bytecode_prepare()). *)
THEOREM OfflineRuns == Spec => PreparedRunsOffline
<1> DEFINE Refused(c) == job[c].pc # "unprepared" /\ job'[c].pc = "unprepared"
           Wanted(c)  == IF Head(job[c].stages) \in {"processor", "instrument"}
                         THEN Processor ELSE job'[c].key
<1>1. ASSUME BatchOK, NEW c \in Procs, [Next]_vars, Refused(c)
      PROVE  Cached(c)
  <2>1. ~(UNCHANGED job)
    BY <1>1
  <2>2. ~Environment /\ ~(UNCHANGED vars)
    BY <2>1 DEF Environment, EditPom, EditHarness, LoseJars, vars
  <2>3. PICK d \in Procs : \/ Inspect(d) \/ ImageMissing(d) \/ StartContainer(d) \/ Cached(d)
                           \/ NextContainer(d) \/ StopAtFailure(d) \/ Return(d)
                           \/ Build(d) \/ BuildFails(d) \/ Again(d)
    BY <1>1, <2>2 DEF Next
  <2>4. CASE Cached(d)
    <3>1. CachesOK /\ ContainerStep(d)
      BY <1>1, <2>4, BatchParts DEF Cached
    <3>2. Others(d)
      BY <3>1, ContainerOnwards DEF Onwards
    <3>3. QED
      BY <1>1, <2>4, <3>2 DEF Others
  <2>5. CASE StartContainer(d)
    <3> DEFINE k  == Current(d)
               st == IF Equivalent(d, k) = {} THEN k.stages ELSE <<>>
               j  == NewJob(st, k.net, k.prepare)
    <3>1. job' = [job EXCEPT ![d] = j]
      BY <2>5 DEF StartContainer
    <3>2. j.pc \in {"run", "stage"}
      <4> HIDE DEF st, k
      <4> DEFINE pc == IF st = <<>> THEN "run" ELSE "stage"
      <4>1. j = [NoJob EXCEPT !.stages = st, !.net = k.net, !.prepare = k.prepare,
                              !.since = edition, !.pc = pc]
        BY Zenon DEF NewJob
      <4>2. pc \in {"run", "stage"}
        OBVIOUS
      <4> HIDE DEF pc, j
      <4>3. j.pc = pc
        BY <4>1 DEF NoJob
      <4>4. QED
        BY <4>2, <4>3
    <3> HIDE DEF j
    <3>3. job \in [Procs -> JobType]
      BY <1>1, BatchParts DEF CachesTypeOK
    <3>4. QED
      BY <1>1, <3>1, <3>2, <3>3
  <2>6. CASE NextContainer(d) \/ StopAtFailure(d)
    <3>1. job' = [job EXCEPT ![d] = NoJob] /\ job \in [Procs -> JobType]
      BY <1>1, <2>6, BatchParts DEF NextContainer, StopAtFailure, EndContainer, CachesTypeOK
    <3>2. NoJob.pc = "none"
      BY DEF NoJob
    <3>3. QED
      BY <1>1, <3>1, <3>2
  <2>7. CASE \/ Inspect(d) \/ ImageMissing(d) \/ Return(d) \/ Build(d) \/ BuildFails(d)
             \/ Again(d)
    BY <2>1, <2>7 DEF Inspect, ImageMissing, Return, Build, BuildFails, Again
  <2>8. QED
    BY <2>3, <2>4, <2>5, <2>6, <2>7
<1>2. ASSUME BatchOK, NEW c \in Procs, [Next]_vars, Refused(c)
      PROVE  Wanted(c) \notin prepared
  <2>1. Onwards(c) /\ prepared \subseteq m2
    BY <1>1, <1>2, BatchParts, ContainerOnwards DEF Cached, PreparedInv
  <2>2. Wanted(c) \notin m2
    BY <1>2, <2>1 DEF Onwards
  <2>3. QED
    BY <2>1, <2>2
<1>3. BatchOK /\ [Next]_vars =>
        [\A c \in Procs :
            job[c].pc # "unprepared" /\ job'[c].pc = "unprepared" =>
              (IF Head(job[c].stages) \in {"processor", "instrument"} THEN Processor
               ELSE job'[c].key) \notin prepared]_vars
  BY <1>2
<1>4. QED
  BY <1>3, BatchInvariant, PTL DEF Spec, PreparedRunsOffline
=============================================================================
