------------------------- MODULE AdapterCacheProofs -------------------------
(***************************************************************************)
(* Proofs about AdapterCache, for any drivers, identities and versions of  *)
(* the adapter sources: whatever killed processes and drivers at work on   *)
(* the same entry leave there, a valid measurement ran an adapter of the   *)
(* sources and the identity it names, and a driver alone gets over it, but *)
(* for an entry whose removal was cut off before its stamp.                *)
(***************************************************************************)
EXTENDS AdapterCache, TLAPS

USE DEF Sources

(* Content of an entry, and its fields.                                    *)
LEMMA ContentType ==
    ASSUME TypeOK, NEW s \in Sources, NEW f \in Files,
           entry[s][f] \notin {None, Empty}
    PROVE  /\ entry[s][f] \in Content
           /\ entry[s][f].source \in Nat
BY SourceAssumption DEF TypeOK, Content

(* What Put changes.                                                       *)
LEMMA PutFacts ==
    ASSUME TypeOK, NEW d \in Drivers, NEW f \in Files, NEW c, Put(d, f, c)
    PROVE  /\ \A s \in Sources \ {key[d]} : entry'[s] = entry[s]
           /\ entry'[key[d]][f] = c
           /\ \A g \in Files \ {f} : entry'[key[d]][g] = entry[key[d]][g]
BY DEF TypeOK, Put

(* What the rename of classes.partial changes.                             *)
LEMMA RenameFacts ==
    ASSUME TypeOK, NEW d \in Drivers, Rename(d)
    PROVE  LET c == Classes(Own(d)["partial"]) IN
           /\ \A s \in Sources \ {key[d]} : entry'[s] = entry[s]
           /\ entry'[key[d]]["main"] = c /\ entry'[key[d]]["rest"] = c
           /\ entry'[key[d]]["partial"] = None
           /\ entry'[key[d]]["stamp"] = entry[key[d]]["stamp"]
           /\ c = None \/ (c \in Content /\ c = entry[key[d]]["partial"])
<1> DEFINE c == Classes(Own(d)["partial"])
<1>1. entry' = [entry EXCEPT ![key[d]]["main"] = c, ![key[d]]["rest"] = c,
                             ![key[d]]["partial"] = None]
  BY DEF Rename
<1>2. key[d] \in Sources /\ entry \in [Sources -> [Files -> Content \cup {None, Empty}]]
  BY DEF TypeOK
<1>3. c = None \/ (c \in Content /\ c = entry[key[d]]["partial"])
  BY <1>2 DEF Classes, Own, Files
<1> HIDE DEF c
<1>4. /\ \A s \in Sources \ {key[d]} : entry'[s] = entry[s]
      /\ entry'[key[d]]["main"] = c /\ entry'[key[d]]["rest"] = c
      /\ entry'[key[d]]["partial"] = None
      /\ entry'[key[d]]["stamp"] = entry[key[d]]["stamp"]
  BY <1>1, <1>2 DEF Files
<1>5. QED
  BY <1>3, <1>4 DEF c

(* Types. *)
LEMMA PutType ==
    ASSUME TypeOK, NEW d \in Drivers, NEW f \in Files,
           NEW c \in Content \cup {None, Empty}, Put(d, f, c)
    PROVE  entry' \in [Sources -> [Files -> Content \cup {None, Empty}]]
BY DEF TypeOK, Put

LEMMA WantedType ==
    ASSUME TypeOK, NEW d \in Drivers
    PROVE  Wanted(d) \in Content /\ [source |-> source, java |-> java[d]] \in Content
BY DEF TypeOK, Wanted, Content

(* Only classes.partial is ever an empty directory.                        *)
NoneEmpty ==
    \A s \in Sources : \A f \in Files \ {"partial"} : entry[s][f] # Empty

LEMMA NoneEmptyStep == TypeOK /\ NoneEmpty /\ [Next]_vars => NoneEmpty'
<1> SUFFICES ASSUME TypeOK, NoneEmpty, [Next]_vars PROVE NoneEmpty'
  OBVIOUS
<1>1. ASSUME NEW d \in Drivers, NEW f \in Files, NEW c, Put(d, f, c),
             f = "partial" \/ c # Empty
      PROVE  NoneEmpty'
  <2>1. /\ \A s \in Sources \ {key[d]} : entry'[s] = entry[s]
        /\ entry'[key[d]][f] = c
        /\ \A g \in Files \ {f} : entry'[key[d]][g] = entry[key[d]][g]
    BY <1>1, PutFacts
  <2>2. ASSUME NEW s \in Sources, NEW g \in Files \ {"partial"}
        PROVE  entry'[s][g] # Empty
    BY <1>1, <2>1 DEF NoneEmpty
  <2>3. QED
    BY <2>2 DEF NoneEmpty
<1>2. None # Empty /\ \A d \in Drivers : Wanted(d) # Empty
  BY FileAssumption, WantedType
<1>3. ASSUME NEW d \in Drivers,
             Remove(d) \/ MakePartial(d) \/ Javac(d) \/ Stamp(d)
      PROVE  NoneEmpty'
  <2>1. CASE Remove(d)
    <3>1. \E f \in Files : Put(d, f, None)
      BY <2>1 DEF Remove, TypeOK
    <3>2. QED
      BY <1>1, <1>2, <3>1
  <2>2. CASE MakePartial(d)
    BY <1>1, <2>2 DEF MakePartial, Files
  <2>3. CASE Javac(d)
    BY <1>1, <2>3 DEF Javac, Files
  <2>4. CASE Stamp(d)
    BY <1>1, <1>2, <2>4 DEF Stamp, Files
  <2>5. QED
    BY <1>3, <2>1, <2>2, <2>3, <2>4
<1>4. ASSUME NEW d \in Drivers, Rename(d) PROVE NoneEmpty'
  <2> DEFINE c == Classes(Own(d)["partial"])
  <2>1. key[d] \in Sources
    BY DEF TypeOK
  <2>2. c # Empty
    BY <1>2 DEF Classes
  <2>3. /\ \A s \in Sources \ {key[d]} : entry'[s] = entry[s]
        /\ entry'[key[d]]["main"] = c /\ entry'[key[d]]["rest"] = c
        /\ entry'[key[d]]["stamp"] = entry[key[d]]["stamp"]
    BY <1>4, RenameFacts
  <2> HIDE DEF c
  <2>4. ASSUME NEW s \in Sources, NEW f \in Files \ {"partial"}
        PROVE  entry'[s][f] # Empty
    BY <2>1, <2>2, <2>3 DEF NoneEmpty, Files
  <2>5. QED
    BY <2>4 DEF NoneEmpty
<1>5. ASSUME entry' = entry PROVE NoneEmpty'
  BY <1>5 DEF NoneEmpty
<1>6. QED
  BY <1>3, <1>4, <1>5
     DEF Next, Compile, Measure, Start, Locate, Hit, Miss, PartialExists,
         JavacFails, Unsupported, RenameFails, MainMissing, LoadMain, LoadRest,
         Load, Verify, Kill, Edit, AllEnded, vars

(* Every entry, version and phase keeps its type.                          *)
THEOREM TypeCorrect == Spec => []TypeOK
<1>1. Init => TypeOK /\ NoneEmpty
  BY SourceAssumption, FileAssumption DEF Init, TypeOK, NoneEmpty, Phases
<1>2. TypeOK /\ NoneEmpty /\ [Next]_vars => TypeOK'
  <2> SUFFICES ASSUME TypeOK, NoneEmpty, [Next]_vars PROVE TypeOK'
    OBVIOUS
  <2>1. ASSUME NEW d \in Drivers, Compile(d) PROVE TypeOK'
    <3> USE DEF Goto, Phases, Ends
    <3>1. CASE \/ Start(d) \/ Locate(d) \/ Hit(d) \/ PartialExists(d)
               \/ Unsupported(d) \/ RenameFails(d) \/ MainMissing(d)
      BY <3>1 DEF Start, Locate, Hit, PartialExists, Unsupported, RenameFails,
                  MainMissing, TypeOK
    <3>2. CASE Miss(d) \/ JavacFails(d)
      <4>1. Present(d) \subseteq Files
        BY DEF Present
      <4>2. QED
        BY <3>2, <4>1 DEF Miss, JavacFails, TypeOK
    <3>3. CASE Remove(d)
      <4>1. PICK f \in todo[d] : /\ Put(d, f, None)
                                 /\ todo' = [todo EXCEPT ![d] = @ \ {f}]
        BY <3>3 DEF Remove
      <4>2. f \in Files
        BY DEF TypeOK
      <4>3. QED
        BY <3>3, <4>1, <4>2, PutType DEF Remove, TypeOK
    <3>4. CASE MakePartial(d)
      BY <3>4, PutType DEF MakePartial, TypeOK, Files
    <3>5. CASE Javac(d)
      BY <3>5, PutType, WantedType DEF Javac, TypeOK, Files
    <3>6. CASE Stamp(d)
      BY <3>6, PutType, WantedType DEF Stamp, TypeOK, Files
    <3>7. CASE Rename(d)
      <4>1. entry' \in [Sources -> [Files -> Content \cup {None, Empty}]]
        <5> DEFINE c == Classes(Own(d)["partial"])
        <5>1. c \in Content \cup {None, Empty}
          BY DEF Classes, Own, TypeOK, Files
        <5>2. entry' = [entry EXCEPT ![key[d]]["main"] = c,
                                     ![key[d]]["rest"] = c,
                                     ![key[d]]["partial"] = None]
          BY <3>7 DEF Rename
        <5> HIDE DEF c
        <5>3. QED
          BY <5>1, <5>2 DEF TypeOK
      <4>2. QED
        BY <3>7, <4>1 DEF Rename, TypeOK
    <3>8. QED
      BY <2>1, <3>1, <3>2, <3>3, <3>4, <3>5, <3>6, <3>7 DEF Compile
  <2>2. ASSUME NEW d \in Drivers, Measure(d) PROVE TypeOK'
    <3>1. ASSUME NEW f \in Files \ {"partial"}, NEW from, NEW to \in Phases,
                 Load(d, f, from, to)
          PROVE  TypeOK'
      <4>1. {Own(d)[f]} \ {None} \subseteq Content
        BY DEF Own, NoneEmpty, TypeOK
      <4>2. ran' \in [Drivers -> SUBSET Content]
        BY <3>1, <4>1 DEF Load, TypeOK
      <4>3. QED
        BY <3>1, <4>2 DEF Load, Goto, Phases, Ends, TypeOK
    <3>2. CASE LoadMain(d) \/ LoadRest(d)
      BY <3>1, <3>2 DEF LoadMain, LoadRest, Files, Phases
    <3>3. CASE Verify(d)
      BY <3>3 DEF Verify, Goto, Phases, Ends, TypeOK
    <3>4. QED
      BY <2>2, <3>2, <3>3 DEF Measure
  <2>3. ASSUME NEW d \in Drivers, Kill(d) PROVE TypeOK'
    BY <2>3 DEF Kill, TypeOK, Phases, Ends
  <2>4. CASE Edit \/ UNCHANGED vars
    BY <2>4 DEF Edit, vars, TypeOK
  <2>5. QED
    BY <2>1, <2>2, <2>3, <2>4 DEF Next, AllEnded
<1>3. QED
  BY <1>1, <1>2, NoneEmptyStep, PTL DEF Spec

----------------------------------------------------------------------------
(* Exactness *)

(* A step of driver d, at work, that touches no entry but k needs a look   *)
(* at k and at d only, if it leaves no classes of another identity there.  *)
LEMMA StepKeeps ==
    ASSUME TypeOK, TypeOK', ExactInv, NEW d \in Drivers, AtWork(d),
           NEW k \in Sources, NEW j, j = java[d],
           source' = source, java' = java,
           \A e \in Drivers \ {d} :
               /\ pc'[e] = pc[e] /\ seen'[e] = seen[e] /\ key'[e] = key[e]
               /\ todo'[e] = todo[e] /\ ran'[e] = ran[e],
           \A s \in Sources \ {k} : entry'[s] = entry[s],
           Foreign(k, j)' \subseteq Foreign(k, j),
           EntryExact(k)', DriverExact(d)'
    PROVE  ExactInv'
<1>1. \A e, g \in Drivers : (AtWork(e) /\ AtWork(g))' => java'[e] = java'[g]
  BY DEF ExactInv, AtWork
<1>2. \A s \in Sources : EntryExact(s)'
  BY DEF ExactInv, EntryExact, Foreign
<1>3. ASSUME NEW e \in Drivers \ {d} PROVE DriverExact(e)'
  <2>1. PICK K \in Sources, J \in Javas : K = key[e] /\ J = java[e]
    BY DEF TypeOK
  <2>2. /\ key'[e] = K /\ java'[e] = J /\ pc'[e] = pc[e] /\ seen'[e] = seen[e]
        /\ todo'[e] = todo[e] /\ ran'[e] = ran[e]
    BY <2>1
  <2>3. AtWork(e) => Foreign(K, J)' \subseteq Foreign(K, J)
    <3>1. CASE K = k
      <4>1. AtWork(e) => J = j
        BY <2>1 DEF ExactInv
      <4>2. QED
        BY <3>1, <4>1
    <3>2. CASE K # k
      BY <3>2 DEF Foreign
    <3>3. QED
      BY <3>1, <3>2
  <2>4. pc[e] \in InUse \cup {"clearing"} => AtWork(e)
    BY DEF InUse, AtWork, Ends
  <2>5. DriverExact(e)
    BY DEF ExactInv
  <2>6. /\ pc[e] = "clearing" => Foreign(K, J) \subseteq todo[e]
        /\ pc[e] \in InUse => Foreign(K, J) = {}
    BY <2>1, <2>5 DEF DriverExact
  <2>7. /\ pc'[e] = "clearing" => Foreign(K, J)' \subseteq todo'[e]
        /\ pc'[e] \in InUse => Foreign(K, J)' = {}
    BY <2>2, <2>3, <2>4, <2>6
  <2>8. /\ pc'[e] = "clearing" => Foreign(key[e], java[e])' \subseteq todo'[e]
        /\ pc'[e] \in InUse => Foreign(key[e], java[e])' = {}
    BY <2>2, <2>7 DEF Foreign
  <2>9. QED
    BY <2>1, <2>2, <2>5, <2>8 DEF DriverExact, AtWork
<1>4. QED
  BY <1>1, <1>2, <1>3 DEF ExactInv

(* The same for a step that changes no entry.                              *)
LEMMA LookKeeps ==
    ASSUME TypeOK, TypeOK', ExactInv, NEW d \in Drivers, AtWork(d),
           UNCHANGED <<source, java, entry>>,
           \A e \in Drivers \ {d} :
               /\ pc'[e] = pc[e] /\ seen'[e] = seen[e] /\ key'[e] = key[e]
               /\ todo'[e] = todo[e] /\ ran'[e] = ran[e],
           DriverExact(d)'
    PROVE  ExactInv'
<1>1. PICK k \in Sources, j \in Javas : j = java[d]
  BY DEF TypeOK
<1>2. EntryExact(k)' /\ Foreign(k, j)' = Foreign(k, j)
  BY DEF EntryExact, Foreign, ExactInv
<1>3. QED
  BY <1>1, <1>2, StepKeeps

(* The steps that only look at the cache.                                  *)
LEMMA LocalKeeps ==
    ASSUME TypeOK, TypeOK', ExactInv, NEW d \in Drivers,
           \/ Locate(d) \/ Hit(d) \/ Miss(d) \/ PartialExists(d)
           \/ JavacFails(d) \/ Unsupported(d) \/ RenameFails(d)
           \/ MainMissing(d) \/ Verify(d) \/ Kill(d)
    PROVE  ExactInv'
<1> USE DEF DriverExact, AtWork, Ends, InUse, Goto
<1>1. DriverExact(d) /\ EntryExact(key[d])
  BY DEF ExactInv, TypeOK
<1>2. /\ source \in Nat /\ seen[d] \in Nat /\ key[d] \in Nat
      /\ \A c \in ran[d] : c.source \in Nat
  BY SourceAssumption DEF TypeOK, Content
<1>3. CASE Locate(d)
  <2>1. /\ pc[d] = "started" /\ pc'[d] = "located" /\ key'[d] = source
        /\ UNCHANGED <<source, entry, java, seen, todo, ran>>
    BY <1>3 DEF Locate, TypeOK
  <2>2. DriverExact(d)'
    BY <1>1, <1>2, <2>1
  <2>3. QED
    BY <1>3, <2>1, <2>2, LookKeeps DEF Locate, TypeOK
<1>4. CASE Hit(d)
  <2>1. /\ pc[d] = "located" /\ pc'[d] = "ready"
        /\ UNCHANGED <<source, entry, java, seen, key, todo, ran>>
    BY <1>4 DEF Hit, TypeOK
  <2>2. entry[key[d]]["stamp"] = Wanted(d)
    BY <1>4 DEF Hit, Validates, Own
  <2>3. Wanted(d) # None /\ Wanted(d).java = java[d]
    BY FileAssumption, WantedType DEF Wanted
  <2>4. Foreign(key[d], java[d]) = {}
    <3>1. \A f \in Files : entry[key[d]][f] \notin {None, Empty} =>
                             entry[key[d]][f].java = java[d]
      BY <1>1, <2>2, <2>3 DEF EntryExact
    <3>2. QED
      BY <3>1 DEF Foreign
  <2>5. Foreign(key[d], java[d])' = {}
    BY <2>1, <2>4 DEF Foreign
  <2>6. DriverExact(d)'
    BY <1>1, <2>1, <2>5
  <2>7. QED
    BY <1>4, <2>1, <2>6, LookKeeps DEF Hit, TypeOK
<1>5. CASE Miss(d)
  <2>1. /\ pc[d] = "located" /\ pc'[d] = "clearing" /\ todo'[d] = Present(d)
        /\ UNCHANGED <<source, entry, java, seen, key, ran>>
    BY <1>5 DEF Miss, TypeOK
  <2>2. Foreign(key[d], java[d])' \subseteq Present(d)
    BY <2>1 DEF Foreign, Present, Own
  <2>3. DriverExact(d)'
    BY <1>1, <2>1, <2>2
  <2>4. QED
    BY <1>5, <2>1, <2>3, LookKeeps DEF Miss, TypeOK
<1>6. CASE JavacFails(d)
  <2>1. /\ pc[d] = "building" /\ pc'[d] = "scrapping"
        /\ UNCHANGED <<source, entry, java, seen, key, ran>>
    BY <1>6 DEF JavacFails, TypeOK
  <2>2. Foreign(key[d], java[d])' = {}
    BY <1>1, <2>1 DEF Foreign
  <2>3. DriverExact(d)'
    BY <1>1, <2>1, <2>2
  <2>4. QED
    BY <1>6, <2>1, <2>3, LookKeeps DEF JavacFails, TypeOK
<1>7. CASE \/ PartialExists(d) \/ Unsupported(d) \/ RenameFails(d)
           \/ MainMissing(d) \/ Kill(d)
  <2>1. /\ AtWork(d) /\ pc'[d] \in Ends \ {"valid"}
        /\ UNCHANGED <<source, entry, java, seen, key, todo, ran>>
        /\ \A e \in Drivers \ {d} : pc'[e] = pc[e]
    BY <1>7 DEF PartialExists, Unsupported, RenameFails, MainMissing, Kill, TypeOK
  <2>2. DriverExact(d)'
    BY <2>1
  <2>3. QED
    BY <2>1, <2>2, LookKeeps
<1>8. CASE Verify(d)
  <2>1. /\ pc[d] = "measured"
        /\ pc'[d] = IF source = seen[d] THEN "valid" ELSE "invalid"
        /\ UNCHANGED <<source, entry, java, seen, key, todo, ran>>
        /\ \A e \in Drivers \ {d} : pc'[e] = pc[e]
    BY <1>8 DEF Verify, TypeOK
  <2>2. source = seen[d] => ran[d] = {[source |-> seen[d], java |-> java[d]]}
    <3>1. ASSUME source = seen[d], NEW c \in ran[d]
          PROVE  c = [source |-> seen[d], java |-> java[d]]
      <4>1. c.java = java[d] /\ c.source = seen[d]
        BY <1>1, <1>2, <2>1, <3>1
      <4>2. c \in Content
        BY DEF TypeOK
      <4>3. QED
        BY <4>1, <4>2 DEF Content
    <3>2. ran[d] # {}
      BY <1>1, <2>1
    <3>3. QED
      BY <3>1, <3>2
  <2>3. DriverExact(d)'
    BY <2>1, <2>2
  <2>4. QED
    BY <2>1, <2>3, LookKeeps
<1>9. QED
  BY <1>3, <1>4, <1>5, <1>6, <1>7, <1>8

(* A JVM loads only what is in the entry, and that is exact.               *)
LEMMA LoadKeeps ==
    ASSUME TypeOK, TypeOK', ExactInv, NEW d \in Drivers, LoadMain(d) \/ LoadRest(d)
    PROVE  ExactInv'
<1> USE DEF AtWork, Ends, InUse
<1>1. DriverExact(d) /\ EntryExact(key[d]) /\ key[d] \in Sources
  BY DEF ExactInv, TypeOK
<1>2. PICK f \in Files \ {"stamp", "partial"}, from \in {"ready", "running"},
           to \in {"running", "measured"} : Load(d, f, from, to)
  BY DEF LoadMain, LoadRest, Files
<1> DEFINE c == Own(d)[f]
<1>3. /\ pc[d] = from
      /\ pc'[d] = IF c = None THEN "broken" ELSE to
      /\ ran'[d] = ran[d] \cup ({c} \ {None})
      /\ UNCHANGED <<source, entry, java, seen, key, todo>>
      /\ \A e \in Drivers \ {d} : pc'[e] = pc[e] /\ ran'[e] = ran[e]
  BY <1>2 DEF Load, Goto, TypeOK
<1>4. c # None => /\ c.java = java[d]
                  /\ key[d] <= c.source /\ c.source <= source
  BY <1>1, <1>3 DEF DriverExact, EntryExact, Foreign, Own
<1> HIDE DEF c
<1>5. Foreign(key[d], java[d]) = {} /\ Foreign(key[d], java[d])' = Foreign(key[d], java[d])
  BY <1>1, <1>3 DEF DriverExact, Foreign
<1>6. DriverExact(d)'
  BY <1>1, <1>3, <1>4, <1>5 DEF DriverExact
<1>7. QED
  BY <1>3, <1>6, LookKeeps

(* The steps that write: rmtree(), mkdir(), javac, rename() and the stamp. *)
LEMMA WriteKeeps ==
    ASSUME TypeOK, TypeOK', ExactInv, NEW d \in Drivers,
           Remove(d) \/ MakePartial(d) \/ Javac(d) \/ Rename(d) \/ Stamp(d)
    PROVE  ExactInv'
<1> USE DEF AtWork, Ends, InUse, Goto
<1>1. PICK k \in Sources, j \in Javas : k = key[d] /\ j = java[d]
  BY DEF TypeOK
<1>2. DriverExact(d) /\ EntryExact(k)
  BY DEF ExactInv
<1>3. /\ source \in Nat /\ k \in Nat
      /\ Wanted(d) = [source |-> k, java |-> j]
      /\ Wanted(d) \notin {None, Empty} /\ Wanted(d).java = j
      /\ [source |-> source, java |-> j] \notin {None, Empty}
  <2>1. source \in Nat /\ k \in Nat /\ Wanted(d) = [source |-> k, java |-> j]
    BY <1>1, SourceAssumption DEF TypeOK, Wanted
  <2>2. [source |-> source, java |-> java[d]] \in Content /\ Wanted(d) \in Content
    BY WantedType
  <2>3. Wanted(d).java = j
    BY <2>1
  <2>4. QED
    BY <1>1, <2>1, <2>2, <2>3, FileAssumption
<1>4. CASE Remove(d)
  <2>1. PICK f \in Files : /\ Put(d, f, None)
                           /\ todo' = [todo EXCEPT ![d] = @ \ {f}]
    BY <1>4 DEF Remove, TypeOK
  <2>2. /\ \A s \in Sources \ {k} : entry'[s] = entry[s]
        /\ entry'[k][f] = None
        /\ \A g \in Files \ {f} : entry'[k][g] = entry[k][g]
    BY <1>1, <2>1, PutFacts
  <2>3. /\ pc[d] \in {"clearing", "scrapping"} /\ todo'[d] = todo[d] \ {f}
        /\ UNCHANGED <<source, pc, java, seen, key, ran>>
        /\ \A e \in Drivers \ {d} : todo'[e] = todo[e]
    BY <1>4, <2>1 DEF Remove, TypeOK
  <2>4. \A i : Foreign(k, i)' = Foreign(k, i) \ {f}
    BY <2>2 DEF Foreign
  <2>a. entry'[k]["stamp"] # None => entry'[k]["stamp"] = entry[k]["stamp"]
    BY <2>2 DEF Files
  <2>b. \A g \in Files : entry'[k][g] = None \/ entry'[k][g] = entry[k][g]
    BY <2>2
  <2>5. EntryExact(k)'
    BY <1>2, <2>3, <2>a, <2>b, FileAssumption DEF EntryExact
  <2>6. Foreign(key[d], java[d])' = Foreign(k, j)'
    BY <1>1, <2>3 DEF Foreign
  <2>7. DriverExact(d)'
    BY <1>1, <1>2, <2>3, <2>4, <2>6 DEF DriverExact
  <2>8. QED
    BY <1>1, <2>2, <2>3, <2>4, <2>5, <2>7, StepKeeps
<1>5. ASSUME NEW from \in {"clearing", "building", "renamed"},
             NEW to \in {"building", "built", "ready"},
             Goto(d, from, to), NEW f \in {"partial", "stamp"}, NEW c,
             c = Empty \/ (c.java = j /\ c # None),
             c = Empty => f = "partial",
             f = "partial" /\ c # Empty => k <= c.source /\ c.source <= source,
             Put(d, f, c), from = "clearing" => todo[d] = {},
             UNCHANGED <<source, java, seen, key, todo, ran>>
      PROVE  ExactInv'
  <2>1. /\ \A s \in Sources \ {k} : entry'[s] = entry[s]
        /\ entry'[k][f] = c
        /\ \A g \in Files \ {f} : entry'[k][g] = entry[k][g]
    BY <1>1, <1>5, PutFacts DEF Files
  <2>2. /\ pc[d] = from /\ pc'[d] = to
        /\ \A e \in Drivers \ {d} : pc'[e] = pc[e]
    BY <1>5 DEF TypeOK
  <2>3. Foreign(k, j) = {}
    BY <1>1, <1>2, <1>5, <2>2 DEF DriverExact
  <2>4. Foreign(k, j)' = {}
    BY <1>5, <2>1, <2>3 DEF Foreign
  <2>5. entry'[k]["stamp"] # None => entry'[k]["stamp"].java = j
    <3>1. CASE f = "stamp"
      BY <1>5, <2>1, <3>1
    <3>2. CASE f = "partial"
      <4>1. entry'[k]["stamp"] = entry[k]["stamp"] /\ entry[k]["stamp"] # Empty
        BY <1>2, <2>1, <3>2 DEF EntryExact, Files
      <4>2. "stamp" \in Files
        BY DEF Files
      <4>3. QED
        BY <2>3, <4>1, <4>2 DEF Foreign
    <3>3. QED
      BY <1>5, <3>1, <3>2
  <2>6. /\ \A g \in Files \ {"partial"} : entry'[k][g] # Empty
        /\ \A g \in Files \ {"stamp"} : entry'[k][g] \notin {None, Empty} =>
               k <= entry'[k][g].source /\ entry'[k][g].source <= source
    BY <1>2, <1>5, <2>1 DEF EntryExact, Files
  <2>a. \A g \in Files : entry'[k][g] \notin {None, Empty} => entry'[k][g].java = j
    BY <2>4 DEF Foreign
  <2>7. EntryExact(k)'
    BY <1>5, <2>5, <2>6, <2>a DEF EntryExact
  <2>8. Foreign(key[d], java[d])' = {}
    BY <1>1, <1>5, <2>4 DEF Foreign
  <2>9. DriverExact(d)'
    BY <1>2, <1>5, <2>2, <2>8 DEF DriverExact
  <2>10. QED
    BY <1>1, <1>5, <2>1, <2>2, <2>3, <2>4, <2>7, <2>9, StepKeeps
<1>6. CASE MakePartial(d)
  BY <1>5, <1>6 DEF MakePartial
<1>7. CASE Javac(d)
  <2>1. k <= source /\ DriverExact(d) /\ pc[d] = "building"
    BY <1>1, <1>2, <1>7 DEF Javac, DriverExact
  <2> DEFINE c == [source |-> source, java |-> j]
  <2>2. Put(d, "partial", c) /\ Goto(d, "building", "built")
        /\ UNCHANGED <<source, java, seen, key, todo, ran>>
    BY <1>1, <1>7 DEF Javac
  <2>3. c.java = j /\ c # None /\ c # Empty /\ k <= c.source /\ c.source <= source
    BY <1>3, <2>1
  <2> HIDE DEF c
  <2>4. QED
    BY <1>5, <2>2, <2>3
<1>8. CASE Stamp(d)
  <2>1. Put(d, "stamp", Wanted(d)) /\ Goto(d, "renamed", "ready")
        /\ UNCHANGED <<source, java, seen, key, todo, ran>>
    BY <1>8 DEF Stamp
  <2>2. QED
    BY <1>3, <1>5, <2>1
<1>9. CASE Rename(d)
  <2> DEFINE c == Classes(Own(d)["partial"])
  <2>1. /\ \A s \in Sources \ {k} : entry'[s] = entry[s]
        /\ entry'[k]["main"] = c /\ entry'[k]["rest"] = c
        /\ entry'[k]["partial"] = None
        /\ entry'[k]["stamp"] = entry[k]["stamp"]
        /\ c = None \/ (c \in Content /\ c = entry[k]["partial"])
    BY <1>1, <1>9, RenameFacts
  <2>2. c # Empty
    BY FileAssumption DEF Classes
  <2> HIDE DEF c
  <2>3. /\ pc[d] = "built" /\ pc'[d] = "renamed"
        /\ UNCHANGED <<source, java, seen, key, todo, ran>>
        /\ \A e \in Drivers \ {d} : pc'[e] = pc[e]
    BY <1>9 DEF Rename, TypeOK
  <2>4. Foreign(k, j) = {}
    BY <1>1, <1>2, <2>3 DEF DriverExact
  <2>5. c # None => c.java = j /\ k <= c.source /\ c.source <= source
    BY <1>2, <2>1, <2>2, <2>4 DEF Foreign, EntryExact, Files
  <2>6. Foreign(k, j)' = {}
    BY <2>1, <2>4, <2>5 DEF Foreign, Files
  <2>7. entry[k]["stamp"] # None => entry[k]["stamp"].java = j
    BY <1>2, <2>4 DEF Foreign, EntryExact, Files
  <2>8. /\ \A g \in Files \ {"partial"} : entry'[k][g] # Empty
        /\ \A g \in Files \ {"stamp"} : entry'[k][g] \notin {None, Empty} =>
               k <= entry'[k][g].source /\ entry'[k][g].source <= source
    BY <1>2, <2>1, <2>2, <2>5 DEF EntryExact, Files
  <2>a. \A g \in Files : entry'[k][g] \notin {None, Empty} => entry'[k][g].java = j
    BY <2>6 DEF Foreign
  <2>9. EntryExact(k)'
    BY <2>1, <2>3, <2>7, <2>8, <2>a DEF EntryExact
  <2>10. Foreign(key[d], java[d])' = {}
    BY <1>1, <2>3, <2>6 DEF Foreign
  <2>11. DriverExact(d)'
    BY <1>2, <2>3, <2>10 DEF DriverExact
  <2>12. QED
    BY <1>1, <2>1, <2>3, <2>4, <2>6, <2>9, <2>11, StepKeeps
<1>10. QED
  BY <1>4, <1>6, <1>7, <1>8, <1>9

(* A driver starts beside others of its own identity only.                 *)
LEMMA StartKeeps ==
    ASSUME ~Mixed, TypeOK, TypeOK', ExactInv, NEW d \in Drivers, Start(d)
    PROVE  ExactInv'
<1> USE DEF AtWork, Ends, InUse
<1>1. /\ pc[d] = "idle" /\ pc'[d] = "started" /\ seen'[d] = source
      /\ \A e \in Drivers \ {d} : pc'[e] = pc[e] /\ seen'[e] = seen[e]
      /\ UNCHANGED <<source, entry, java, key, todo, ran>>
      /\ \A e \in Drivers : AtWork(e) => java[e] = java[d]
  BY DEF Start, Goto, TypeOK
<1>2. source \in Nat
  BY SourceAssumption DEF TypeOK
<1>3. \A e \in Drivers : DriverExact(e)'
  BY <1>1, <1>2 DEF ExactInv, DriverExact, Foreign
<1>4. \A s \in Sources : EntryExact(s)'
  BY <1>1 DEF ExactInv, EntryExact, Foreign
<1>5. \A e, g \in Drivers : (AtWork(e) /\ AtWork(g))' => java'[e] = java'[g]
  BY <1>1 DEF ExactInv
<1>6. QED
  BY <1>3, <1>4, <1>5 DEF ExactInv

(* An edit makes the sources newer than all that has been compiled.        *)
LEMMA EditKeeps ==
    ASSUME ~Reverts, TypeOK, TypeOK', ExactInv, Edit
    PROVE  ExactInv'
<1>1. /\ source \in Nat /\ source' \in Nat /\ source < source'
      /\ UNCHANGED <<entry, pc, java, seen, key, todo, ran>>
  BY SourceAssumption DEF Edit, TypeOK
<1>2. ASSUME NEW d \in Drivers PROVE DriverExact(d)'
  <2>1. DriverExact(d) /\ seen[d] \in Nat /\ key[d] \in Nat
        /\ \A c \in ran[d] : c.source \in Nat
    BY SourceAssumption DEF ExactInv, TypeOK, Content
  <2>2. QED
    BY <1>1, <2>1 DEF DriverExact, AtWork, Foreign
<1>3. ASSUME NEW s \in Sources PROVE EntryExact(s)'
  <2>1. \A f \in Files : entry[s][f] \notin {None, Empty} => entry[s][f].source \in Nat
    BY ContentType
  <2>2. EntryExact(s)
    BY DEF ExactInv
  <2>3. QED
    BY <1>1, <2>1, <2>2 DEF EntryExact, Foreign
<1>4. QED
  BY <1>1, <1>2, <1>3 DEF ExactInv, AtWork

(* Whatever ran beside a driver or was killed before it, a valid           *)
(* measurement ran an adapter of exactly the sources and the identity of   *)
(* its record - where no edit brings an earlier version of the sources     *)
(* back, and no two drivers are at work for different identities.          *)
THEOREM AdapterExact ==
    ASSUME ~Reverts, ~Mixed PROVE Spec => []AdapterIsExact
<1>1. Init => ExactInv
  <2> SUFFICES ASSUME Init PROVE ExactInv
    OBVIOUS
  <2>1. \A d \in Drivers : DriverExact(d) /\ ~AtWork(d)
    BY DEF Init, DriverExact, AtWork, InUse, Ends
  <2>2. \A s \in Sources : EntryExact(s)
    BY FileAssumption DEF Init, EntryExact
  <2>3. QED
    BY <2>1, <2>2 DEF ExactInv
<1>2. TypeOK /\ TypeOK' /\ ExactInv /\ [Next]_vars => ExactInv'
  <2> SUFFICES ASSUME TypeOK, TypeOK', ExactInv, [Next]_vars PROVE ExactInv'
    OBVIOUS
  <2>1. ASSUME NEW d \in Drivers, Compile(d) \/ Measure(d) \/ Kill(d)
        PROVE  ExactInv'
    BY <2>1, StartKeeps, LocalKeeps, LoadKeeps, WriteKeeps DEF Compile, Measure
  <2>2. CASE Edit
    BY <2>2, EditKeeps
  <2>3. CASE UNCHANGED vars
    BY <2>3 DEF vars, ExactInv, EntryExact, DriverExact, Foreign, AtWork
  <2>4. QED
    BY <2>1, <2>2, <2>3 DEF Next, AllEnded
<1>3. ExactInv => AdapterIsExact
  BY DEF ExactInv, DriverExact, AdapterIsExact
<1>4. QED
  BY <1>1, <1>2, <1>3, TypeCorrect, PTL DEF Spec

----------------------------------------------------------------------------
(* Recovery *)

(* A step of the only driver at work needs a look at that driver and at    *)
(* its entry.                                                              *)
LEMMA AloneKeeps ==
    ASSUME TypeOK, AloneInv, NEW d \in Drivers, alone' = alone,
           alone => \A e \in Drivers \ {d} : ~AtWork(e),
           \A e \in Drivers \ {d} : pc'[e] = pc[e],
           alone => \A s \in Sources \ {key'[d]} :
                        /\ Half(s)' => Half(s) /\ (s \in cut => s \in cut')
                        /\ pc[d] = "clearing" => s # key[d],
           alone => /\ DriverAlone(d)'
                    /\ Half(key[d])' => key'[d] \in cut' \/ pc'[d] = "clearing"
    PROVE  AloneInv'
<1>1. alone => \A e \in Drivers \ {d} :
          ~AtWork(e)' /\ pc'[e] # "collided" /\ pc[e] # "clearing"
  BY DEF AloneInv, DriverAlone, AtWork, Ends
<1>2. alone => \A e \in Drivers \ {d} : DriverAlone(e)'
  BY <1>1 DEF DriverAlone, AtWork, Ends
<1>3. alone => \A s \in Sources \ {key'[d]} : Half(s)' => s \in cut'
  BY <1>1 DEF AloneInv
<1>4. QED
  BY <1>1, <1>2, <1>3 DEF AloneInv

(* What holds of the driver at work and of its entry after its step.       *)
LEMMA AloneOwn ==
    ASSUME TypeOK, AloneInv, alone, NEW d \in Drivers,
           \A e \in Drivers \ {d} : ~AtWork(e),
           Compile(d) \/ Measure(d) \/ Kill(d)
    PROVE  /\ DriverAlone(d)'
           /\ Half(key[d])' => key'[d] \in cut' \/ pc'[d] = "clearing"
<1> DEFINE k == key[d]
<1> USE DEF Goto, AtWork, Ends
<1>1. k \in Sources /\ DriverAlone(d)
  BY DEF AloneInv, TypeOK
<1>2. \A s \in Sources : Half(s) => s \in cut \/ (pc[d] = "clearing" /\ s = k)
  BY DEF AloneInv
<1>3. CASE Locate(d)
  <2>1. /\ pc'[d] = "located" /\ pc[d] = "started" /\ key'[d] \in Sources
        /\ UNCHANGED <<entry, cut>>
    BY <1>3 DEF Locate, TypeOK
  <2>2. QED
    BY <1>2, <2>1 DEF DriverAlone, Half
<1>4. CASE \/ Start(d) \/ Hit(d) \/ JavacFails(d) \/ Unsupported(d)
           \/ LoadMain(d) \/ LoadRest(d) \/ Verify(d) \/ Kill(d) \/ Miss(d)
           \/ PartialExists(d) \/ RenameFails(d) \/ MainMissing(d)
  <2>1. UNCHANGED <<entry, key>> /\ cut \subseteq cut' /\ pc'[d] # pc[d]
    BY <1>4
       DEF Start, Hit, JavacFails, Unsupported, LoadMain, LoadRest, Load,
           Verify, Kill, Miss, PartialExists, RenameFails, MainMissing, TypeOK
  <2>2. Half(key[d])' => key'[d] \in cut' \/ pc'[d] = "clearing"
    <3>1. CASE pc[d] = "clearing" /\ Half(k)
      <4>1. Kill(d) \/ PartialExists(d)
        BY <1>4, <3>1
           DEF Start, Hit, JavacFails, Unsupported, LoadMain, LoadRest, Load,
               Verify, Miss, RenameFails, MainMissing
      <4>2. CASE Kill(d)
        BY <3>1, <4>2, <2>1 DEF Kill
      <4>3. CASE PartialExists(d)
        BY <1>1, <3>1, <4>3 DEF PartialExists, DriverAlone, Half, Present, Files
      <4>4. QED
        BY <4>1, <4>2, <4>3
    <3>2. CASE ~(pc[d] = "clearing" /\ Half(k))
      BY <1>1, <1>2, <2>1, <3>2 DEF Half
    <3>3. QED
      BY <3>1, <3>2
  <2>3. CASE Miss(d)
    BY <2>1, <2>3 DEF Miss, DriverAlone, Present, Own, TypeOK
  <2>4. CASE Hit(d)
    <3>1. Own(d)["stamp"] # None /\ Own(d)["main"] # None
      BY <2>4, FileAssumption, WantedType DEF Hit, Validates
    <3>2. QED
      BY <2>1, <2>2, <2>4, <3>1 DEF Hit, DriverAlone, Own, TypeOK
  <2>5. CASE JavacFails(d)
    <3>1. Present(d)' = Present(d) /\ pc'[d] = "scrapping" /\ pc[d] = "building"
      BY <2>1, <2>5 DEF JavacFails, Present, Own, TypeOK
    <3>2. QED
      BY <1>1, <2>2, <3>1 DEF DriverAlone
  <2>6. CASE PartialExists(d)
    BY <1>1, <2>6 DEF PartialExists, DriverAlone, Present, Files
  <2>7. CASE RenameFails(d)
    <3>1. CanRename(d)
      BY <1>1, <2>7 DEF RenameFails, CanRename, DriverAlone, Present, Files
    <3>2. QED
      BY <2>7, <3>1 DEF RenameFails
  <2>8. CASE LoadMain(d) \/ LoadRest(d)
    <3>1. /\ pc[d] \in {"ready", "running"}
          /\ pc'[d] \in {"broken", "running", "measured"}
          /\ Own(d)' = Own(d)
      BY <2>1, <2>8 DEF LoadMain, LoadRest, Load, Own, TypeOK
    <3>2. QED
      BY <1>1, <2>2, <3>1 DEF DriverAlone
  <2>9. CASE Start(d) \/ Unsupported(d) \/ Verify(d) \/ Kill(d) \/ MainMissing(d)
    <3>1. pc'[d] \in {"started", "unsupported", "valid", "invalid", "killed",
                      "broken"}
      BY <2>9 DEF Start, Unsupported, Verify, Kill, MainMissing, TypeOK
    <3>2. QED
      BY <2>2, <3>1 DEF DriverAlone
  <2>10. QED
    BY <1>4, <2>2, <2>3, <2>4, <2>5, <2>6, <2>7, <2>8, <2>9
<1>5. CASE Remove(d)
  <2>1. PICK f \in Files : /\ Put(d, f, None)
                           /\ todo' = [todo EXCEPT ![d] = @ \ {f}]
    BY <1>5 DEF Remove, TypeOK
  <2>2. entry'[k][f] = None
        /\ \A g \in Files \ {f} : entry'[k][g] = entry[k][g]
    BY <2>1, PutFacts
  <2>3. /\ pc[d] \in {"clearing", "scrapping"} /\ todo'[d] = todo[d] \ {f}
        /\ UNCHANGED <<pc, key>>
    BY <1>5, <2>1 DEF Remove, TypeOK
  <2>4. Present(d)' = Present(d) \ {f}
    BY <2>2, <2>3 DEF Present, Own
  <2>5. DriverAlone(d)'
    BY <1>1, <2>3, <2>4 DEF DriverAlone
  <2>6. pc[d] = "scrapping" => entry'[k]["stamp"] = None
    BY <1>1, <2>2, <2>3 DEF DriverAlone, Present, Own, Files
  <2>7. QED
    BY <2>3, <2>5, <2>6 DEF Half
<1>6. CASE MakePartial(d) \/ Javac(d)
  <2>0. [source |-> source, java |-> java[d]] \notin {None, Empty} /\ Empty # None
    BY FileAssumption, WantedType
  <2>1. PICK c : /\ Put(d, "partial", c) /\ c # None
                 /\ Javac(d) => c # Empty
    <3>1. CASE Javac(d)
      BY <2>0, <3>1 DEF Javac
    <3>2. CASE MakePartial(d) /\ ~Javac(d)
      BY <2>0, <3>2 DEF MakePartial
    <3>3. QED
      BY <1>6, <3>1, <3>2
  <2>2. entry'[k]["partial"] = c
        /\ \A g \in Files \ {"partial"} : entry'[k][g] = entry[k][g]
    BY <2>1, PutFacts DEF Files
  <2>3. /\ pc'[d] = (IF Javac(d) THEN "built" ELSE "building")
        /\ UNCHANGED key /\ Present(d) \subseteq {"partial"}
    BY <1>1, <1>6 DEF MakePartial, Javac, DriverAlone, TypeOK
  <2>4. Present(d)' \subseteq {"partial"} /\ Own(d)' = entry'[k]
    BY <2>2, <2>3 DEF Present, Own, Files
  <2>5. DriverAlone(d)'
    BY <2>1, <2>2, <2>3, <2>4 DEF DriverAlone
  <2>6. entry'[k]["stamp"] = None
    BY <2>2, <2>3 DEF Present, Own, Files
  <2>7. QED
    BY <2>3, <2>5, <2>6 DEF Half
<1>7. CASE Rename(d)
  <2> DEFINE c == Classes(Own(d)["partial"])
  <2>1. /\ entry'[k]["main"] = c /\ entry'[k]["rest"] = c
        /\ UNCHANGED key /\ pc'[d] = "renamed"
    BY <1>7, RenameFacts DEF Rename, TypeOK
  <2>2. c # None
    BY <1>1, <1>7 DEF Rename, DriverAlone, Classes
  <2> HIDE DEF c
  <2>3. QED
    BY <2>1, <2>2 DEF DriverAlone, Half, Own
<1>8. CASE Stamp(d)
  <2>0. Wanted(d) # None /\ Put(d, "stamp", Wanted(d))
    BY <1>8, FileAssumption, WantedType DEF Stamp
  <2>1. /\ entry'[k]["stamp"] # None
        /\ \A g \in Files \ {"stamp"} : entry'[k][g] = entry[k][g]
    BY <2>0, PutFacts DEF Files
  <2>2. UNCHANGED key /\ pc'[d] = "ready" /\ pc[d] = "renamed"
    BY <1>8 DEF Stamp, TypeOK
  <2>3. entry'[k]["main"] # None /\ entry'[k]["rest"] # None
    BY <1>1, <2>1, <2>2 DEF DriverAlone, Own, Files
  <2>4. QED
    BY <2>1, <2>2, <2>3 DEF DriverAlone, Half, Own
<1>9. QED
  BY <1>3, <1>4, <1>5, <1>6, <1>7, <1>8 DEF Compile, Measure

(* A driver that takes a step, but the first, is at work.                  *)
LEMMA AtWorkStep ==
    ASSUME TypeOK, NEW d \in Drivers, Compile(d) \/ Measure(d) \/ Kill(d)
    PROVE  /\ alone' = alone
           /\ Start(d) \/ AtWork(d)
           /\ \A e \in Drivers \ {d} : pc'[e] = pc[e]
           /\ \A s \in Sources \ {key'[d]} :
                /\ entry'[s] = entry[s] /\ (s \in cut => s \in cut')
                /\ pc[d] = "clearing" => s # key[d]
<1> USE DEF Goto, AtWork, Ends
<1>1. CASE Remove(d) \/ MakePartial(d) \/ Javac(d) \/ Stamp(d)
  <2>1. PICK f, c : f \in Files /\ Put(d, f, c)
    BY <1>1 DEF Remove, MakePartial, Javac, Stamp, Files, TypeOK
  <2>2. \A s \in Sources \ {key[d]} : entry'[s] = entry[s]
    BY <2>1, PutFacts
  <2>3. /\ alone' = alone /\ AtWork(d) /\ UNCHANGED <<key, cut>>
        /\ \A e \in Drivers \ {d} : pc'[e] = pc[e]
    BY <1>1 DEF Remove, MakePartial, Javac, Stamp, TypeOK
  <2>4. QED
    BY <2>2, <2>3
<1>2. CASE Rename(d)
  <2>1. \A s \in Sources \ {key[d]} : entry'[s] = entry[s]
    BY <1>2, RenameFacts
  <2>2. /\ alone' = alone /\ AtWork(d) /\ UNCHANGED key /\ cut' = cut \ {key[d]}
        /\ \A e \in Drivers \ {d} : pc'[e] = pc[e]
    BY <1>2 DEF Rename, TypeOK
  <2>3. QED
    BY <2>1, <2>2
<1>3. CASE Locate(d)
  BY <1>3 DEF Locate, TypeOK
<1>4. CASE \/ Start(d) \/ Hit(d) \/ Miss(d) \/ PartialExists(d)
           \/ JavacFails(d) \/ Unsupported(d) \/ RenameFails(d)
           \/ MainMissing(d) \/ LoadMain(d) \/ LoadRest(d) \/ Verify(d)
           \/ Kill(d)
  BY <1>4
     DEF Start, Hit, Miss, PartialExists, JavacFails, Unsupported, RenameFails,
         MainMissing, LoadMain, LoadRest, Load, Verify, Kill, TypeOK
<1>5. QED
  BY <1>1, <1>2, <1>3, <1>4 DEF Compile, Measure

LEMMA AloneStep == TypeOK /\ AloneInv /\ [Next]_vars => AloneInv'
<1> SUFFICES ASSUME TypeOK, AloneInv, [Next]_vars PROVE AloneInv'
  OBVIOUS
<1>1. ASSUME NEW d \in Drivers, Compile(d) \/ Measure(d) \/ Kill(d)
      PROVE  AloneInv'
  <2>1. alone => \A e \in Drivers \ {d} : ~AtWork(e)
    BY <1>1, AtWorkStep DEF AloneInv, Start
  <2>2. alone => /\ DriverAlone(d)'
                 /\ Half(key[d])' => key'[d] \in cut' \/ pc'[d] = "clearing"
    BY <1>1, <2>1, AloneOwn
  <2>3. \A s \in Sources \ {key'[d]} :
            /\ Half(s)' => Half(s) /\ (s \in cut => s \in cut')
            /\ pc[d] = "clearing" => s # key[d]
    <3>1. ASSUME NEW s \in Sources \ {key'[d]} PROVE Half(s)' => Half(s)
      BY <1>1, AtWorkStep DEF Half
    <3>2. QED
      BY <1>1, <3>1, AtWorkStep
  <2>4. alone' = alone /\ \A e \in Drivers \ {d} : pc'[e] = pc[e]
    BY <1>1, AtWorkStep
  <2>5. QED
    BY <2>1, <2>2, <2>3, <2>4, AloneKeeps
<1>2. CASE Edit \/ UNCHANGED vars
  <2>1. UNCHANGED <<alone, entry, pc, key, todo, cut>>
    BY <1>2 DEF Edit, vars
  <2>2. \A d \in Drivers : DriverAlone(d)' = DriverAlone(d)
    BY <2>1 DEF DriverAlone, Present, Own
  <2>3. \A s \in Sources : Half(s)' = Half(s)
    BY <2>1 DEF Half
  <2>4. QED
    BY <2>1, <2>2, <2>3 DEF AloneInv, AtWork
<1>3. QED
  BY <1>1, <1>2 DEF Next, AllEnded

(* A step that breaks a driver that is alone finds classes missing in an   *)
(* entry that nobody is removing.                                          *)
LEMMA BreaksOnlyHalf ==
    ASSUME TypeOK, AloneInv, AloneInv', alone, Next, NEW d \in Drivers,
           pc[d] # "broken", pc'[d] = "broken"
    PROVE  key[d] \in cut
<1> USE DEF Goto, AtWork, Ends
<1>1. MainMissing(d) \/ LoadMain(d) \/ LoadRest(d)
  <2>1. PICK e \in Drivers : Compile(e) \/ Measure(e) \/ Kill(e)
    BY DEF Next, Edit, AllEnded, vars
  <2>2. e = d
    BY <2>1, AtWorkStep
  <2>3. QED
    BY <2>1, <2>2
       DEF Compile, Measure, Start, Locate, Hit, Miss, Remove, MakePartial,
           PartialExists, Javac, JavacFails, Unsupported, Rename, RenameFails,
           Stamp, Verify, Kill, TypeOK
<1>2. DriverAlone(d) /\ key[d] \in Sources
  BY DEF AloneInv, TypeOK
<1>3. ~MainMissing(d)
  BY <1>2 DEF MainMissing, DriverAlone
<1>4. ~LoadMain(d)
  BY <1>2 DEF LoadMain, Load, DriverAlone, TypeOK
<1>5. pc[d] = "running" /\ Half(key[d])
  BY <1>1, <1>2, <1>3, <1>4 DEF LoadRest, Load, DriverAlone, Half, Own, TypeOK
<1>6. QED
  BY <1>2, <1>5 DEF AloneInv

(* Wherever earlier processes were killed, a driver that has the cache for *)
(* itself gets over what they left, but for an entry whose removal was cut *)
(* off between the classes and the stamp.                                  *)
THEOREM Recovery == Spec => CacheRecovers
<1>1. Init => AloneInv
  <2> SUFFICES ASSUME Init PROVE AloneInv
    OBVIOUS
  <2>1. \A d \in Drivers : pc[d] = "idle"
    BY DEF Init
  <2>2. \A s \in Sources : ~Half(s)
    BY DEF Init, Half, Files
  <2>3. QED
    BY <2>1, <2>2 DEF AloneInv, DriverAlone, AtWork
<1>2. TypeOK /\ AloneInv /\ AloneInv' /\ [Next]_vars =>
          [alone => \A d \in Drivers :
              /\ pc'[d] # "collided"
              /\ pc'[d] = "broken" /\ pc[d] # "broken" => key[d] \in cut]_vars
  <2> SUFFICES ASSUME TypeOK, AloneInv, AloneInv', Next, alone, NEW d \in Drivers
               PROVE  /\ pc'[d] # "collided"
                      /\ pc'[d] = "broken" /\ pc[d] # "broken" => key[d] \in cut
    OBVIOUS
  <2>1. alone'
    BY DEF Next, Compile, Measure, Start, Locate, Hit, Miss, Remove, MakePartial,
           PartialExists, Javac, JavacFails, Unsupported, Rename, RenameFails,
           Stamp, MainMissing, LoadMain, LoadRest, Load, Verify, Kill, Edit,
           AllEnded, vars
  <2>2. QED
    BY <2>1, BreaksOnlyHalf DEF AloneInv, DriverAlone
<1>3. QED
  BY <1>1, <1>2, AloneStep, TypeCorrect, PTL DEF Spec, CacheRecovers
=============================================================================
