---------------------------- MODULE AdapterCache ----------------------------
(***************************************************************************)
(* harness/measure_protos.py, compile_adapter(): the cache of compiled     *)
(* surface adapters under .work/embedded, shared by every driver process   *)
(* of one checkout.  A driver hashes the adapter sources, reuses the entry *)
(* of that hash if its stamp is the wanted identity and the main class is  *)
(* there, and otherwise deletes the entry and compiles it again.  The      *)
(* file system is modelled call by call: rmtree() removes one file after   *)
(* the other, and a process may be killed between any two calls.           *)
(*                                                                         *)
(* The rest of the identity (Java, product classes, dependencies) is one   *)
(* value per driver; "main" is the main class, "rest" all other classes.   *)
(***************************************************************************)
EXTENDS Naturals

CONSTANTS
    Drivers,        \* driver processes
    Javas,          \* identities a driver may compile for
    MaxSource,      \* adapter source versions are 0..MaxSource
    Reverts,        \* may an edit bring an earlier version back?
    Mixed,          \* may drivers of different identities work at once?
    None,           \* no such file
    Empty           \* a directory without classes

VARIABLES
    alone,          \* is a driver started only when no other is at work?
    source,         \* version of the adapter sources
    entry,          \* files of the cache entry of each source hash
    pc,
    java,           \* the identity of each driver
    seen,           \* version that the driver's producer identity names
    key,            \* version whose hash names the driver's entry
    todo,           \* files that the driver's rmtree() has still to remove
    ran,            \* contents of the classes that the driver's JVM loaded
    cut             \* history: entries in which an rmtree() was cut off that
                    \* had removed classes, but neither stamp nor main class

vars == <<alone, source, entry, pc, java, seen, key, todo, ran, cut>>

Sources == 0..MaxSource
Content == [source : Sources, java : Javas]
Files   == {"stamp", "main", "rest", "partial"}
Ends    == {"valid", "invalid", "unsupported", "killed", "collided", "broken"}
Phases  == {"idle", "started", "located", "clearing", "cleared", "building",
            "built", "renamed", "scrapping", "ready", "running", "measured"}
           \cup Ends

ASSUME SourceAssumption == MaxSource \in Nat
ASSUME ModeAssumption == Reverts \in BOOLEAN /\ Mixed \in BOOLEAN
ASSUME FileAssumption ==
    None # Empty /\ None \notin Content /\ Empty \notin Content

TypeOK ==
    /\ alone \in BOOLEAN
    /\ source \in Sources
    /\ entry \in [Sources -> [Files -> Content \cup {None, Empty}]]
    /\ pc \in [Drivers -> Phases]
    /\ java \in [Drivers -> Javas]
    /\ seen \in [Drivers -> Sources] /\ key \in [Drivers -> Sources]
    /\ todo \in [Drivers -> SUBSET Files]
    /\ ran \in [Drivers -> SUBSET Content]
    /\ cut \subseteq Sources

Init ==
    /\ alone \in BOOLEAN
    /\ source = 0
    /\ entry = [s \in Sources |-> [f \in Files |-> None]]
    /\ pc = [d \in Drivers |-> "idle"]
    /\ java \in [Drivers -> Javas]
    /\ seen = [d \in Drivers |-> 0] /\ key = [d \in Drivers |-> 0]
    /\ todo = [d \in Drivers |-> {}]
    /\ ran = [d \in Drivers |-> {}]
    /\ cut = {}

----------------------------------------------------------------------------
Goto(d, from, to) == pc[d] = from /\ pc' = [pc EXCEPT ![d] = to]

AtWork(d) == pc[d] \notin Ends \cup {"idle"}

Wanted(d) == [source |-> key[d], java |-> java[d]]
Own(d)    == entry[key[d]]
Put(d, f, c) == entry' = [entry EXCEPT ![key[d]][f] = c]

(* The driver hashes its producer files, the adapter sources among them.   *)
Start(d) ==
    /\ \A e \in Drivers :
          AtWork(e) => ~alone /\ (Mixed \/ java[e] = java[d])
    /\ Goto(d, "idle", "started")
    /\ seen' = [seen EXCEPT ![d] = source]
    /\ UNCHANGED <<alone, source, entry, java, key, todo, ran, cut>>

(* compile_adapter() hashes the adapter sources again for the entry's name. *)
Locate(d) ==
    /\ Goto(d, "started", "located")
    /\ key' = [key EXCEPT ![d] = source]
    /\ UNCHANGED <<alone, source, entry, java, seen, todo, ran, cut>>

(* Mutant: the identity in the stamp is not compared. *)
ValidatesAnyStamp(d) == Own(d)["stamp"] # None /\ Own(d)["main"] # None

(* Mutant: the main class file is not looked for. *)
ValidatesStampOnly(d) == Own(d)["stamp"] = Wanted(d)

Validates(d) == Own(d)["stamp"] = Wanted(d) /\ Own(d)["main"] # None

Hit(d) ==
    /\ Validates(d)
    /\ Goto(d, "located", "ready")
    /\ UNCHANGED <<alone, source, entry, java, seen, key, todo, ran, cut>>

Present(d) == {f \in Files : Own(d)[f] # None}

(* rmtree() removes what it finds, one file after the other, ... *)
Miss(d) ==
    /\ ~Validates(d)
    /\ Goto(d, "located", "clearing")
    /\ todo' = [todo EXCEPT ![d] = Present(d)]
    /\ UNCHANGED <<alone, source, entry, java, seen, key, ran, cut>>

Remove(d) ==
    /\ pc[d] \in {"clearing", "scrapping"}
    /\ \E f \in todo[d] :
        /\ Put(d, f, None)
        /\ todo' = [todo EXCEPT ![d] = @ \ {f}]
    /\ UNCHANGED <<alone, source, pc, java, seen, key, ran, cut>>

(* ... and mkdir() refuses a classes.partial that is there all the same.   *)
MakePartial(d) ==
    /\ todo[d] = {} /\ Own(d)["partial"] = None
    /\ Goto(d, "clearing", "building")
    /\ Put(d, "partial", Empty)
    /\ UNCHANGED <<alone, source, java, seen, key, todo, ran, cut>>

PartialExists(d) ==
    /\ todo[d] = {} /\ Own(d)["partial"] # None
    /\ Goto(d, "clearing", "collided")
    /\ UNCHANGED <<alone, source, entry, java, seen, key, todo, ran, cut>>

(* javac reads the sources as they are now.  Should another driver have    *)
(* removed the directory, javac makes it again or fails.                   *)
Javac(d) ==
    /\ Goto(d, "building", "built")
    /\ Put(d, "partial", [source |-> source, java |-> java[d]])
    /\ UNCHANGED <<alone, source, java, seen, key, todo, ran, cut>>

JavacFails(d) ==
    /\ Goto(d, "building", "scrapping")
    /\ todo' = [todo EXCEPT ![d] = Present(d)]
    /\ UNCHANGED <<alone, source, entry, java, seen, key, ran, cut>>

Unsupported(d) ==
    /\ todo[d] = {}
    /\ Goto(d, "scrapping", "unsupported")
    /\ UNCHANGED <<alone, source, entry, java, seen, key, todo, ran, cut>>

(* classes.partial is renamed to classes, which must not hold anything.    *)
CanRename(d) ==
    Own(d)["partial"] # None /\ Own(d)["main"] = None /\ Own(d)["rest"] = None

Classes(c) == IF c = Empty THEN None ELSE c

Rename(d) ==
    /\ CanRename(d)
    /\ Goto(d, "built", "renamed")
    /\ LET c == Classes(Own(d)["partial"]) IN
       entry' = [entry EXCEPT ![key[d]]["main"] = c, ![key[d]]["rest"] = c,
                              ![key[d]]["partial"] = None]
    /\ cut' = cut \ {key[d]}
    /\ UNCHANGED <<alone, source, java, seen, key, todo, ran>>

RenameFails(d) ==
    /\ ~CanRename(d)
    /\ Goto(d, "built", "collided")
    /\ UNCHANGED <<alone, source, entry, java, seen, key, todo, ran, cut>>

(* Mutant: the identity is left out of the stamp. *)
StampSourceOnly(d) ==
    /\ Own(d)["main"] # None
    /\ Goto(d, "renamed", "ready")
    /\ Put(d, "stamp", [source |-> key[d]])
    /\ UNCHANGED <<alone, source, java, seen, key, todo, ran, cut>>

Stamp(d) ==
    /\ Own(d)["main"] # None
    /\ Goto(d, "renamed", "ready")
    /\ Put(d, "stamp", Wanted(d))
    /\ UNCHANGED <<alone, source, java, seen, key, todo, ran, cut>>

MainMissing(d) ==
    /\ Own(d)["main"] = None
    /\ Goto(d, "renamed", "broken")
    /\ UNCHANGED <<alone, source, entry, java, seen, key, todo, ran, cut>>

----------------------------------------------------------------------------
(* The measurement, as far as it depends on the entry *)

(* A JVM that misses a class fails, and the measurement with it.           *)
Load(d, f, from, to) ==
    /\ Goto(d, from, IF Own(d)[f] = None THEN "broken" ELSE to)
    /\ ran' = [ran EXCEPT ![d] = @ \cup ({Own(d)[f]} \ {None})]
    /\ UNCHANGED <<alone, source, entry, java, seen, key, todo, cut>>

LoadMain(d) == Load(d, "main", "ready", "running")
LoadRest(d) == Load(d, "rest", "running", "measured")

(* Mutant: the producer files are hashed only once. *)
VerifyNothing(d) ==
    /\ Goto(d, "measured", "valid")
    /\ UNCHANGED <<alone, source, entry, java, seen, key, todo, ran, cut>>

(* The producer files are hashed again. *)
Verify(d) ==
    /\ Goto(d, "measured", IF source = seen[d] THEN "valid" ELSE "invalid")
    /\ UNCHANGED <<alone, source, entry, java, seen, key, todo, ran, cut>>

(* The look of a complete entry, with classes missing.                     *)
Half(s) ==
    entry[s]["stamp"] # None /\ entry[s]["main"] # None /\ entry[s]["rest"] = None

Kill(d) ==
    /\ AtWork(d)
    /\ pc' = [pc EXCEPT ![d] = "killed"]
    /\ cut' = cut \cup {s \in {key[d]} : pc[d] = "clearing" /\ Half(s)}
    /\ UNCHANGED <<alone, source, entry, java, seen, key, todo, ran>>

Edit ==
    /\ source' \in Sources
    /\ source' > source \/ Reverts
    /\ UNCHANGED <<alone, entry, pc, java, seen, key, todo, ran, cut>>

Compile(d) ==
    \/ Start(d) \/ Locate(d) \/ Hit(d) \/ Miss(d) \/ Remove(d)
    \/ MakePartial(d) \/ PartialExists(d) \/ Javac(d) \/ JavacFails(d)
    \/ Unsupported(d) \/ Rename(d) \/ RenameFails(d) \/ Stamp(d)
    \/ MainMissing(d)

Measure(d) == LoadMain(d) \/ LoadRest(d) \/ Verify(d)

AllEnded == (\A d \in Drivers : pc[d] \in Ends) /\ UNCHANGED vars

Next ==
    \/ \E d \in Drivers : Compile(d) \/ Measure(d) \/ Kill(d)
    \/ Edit \/ AllEnded

Spec == Init /\ [][Next]_vars

----------------------------------------------------------------------------
(* A valid measurement ran an adapter compiled from exactly the sources    *)
(* and for exactly the identity that its record names.                     *)
AdapterIsExact ==
    \A d \in Drivers : pc[d] = "valid" =>
        ran[d] = {[source |-> seen[d], java |-> java[d]]}

(* Whatever killed processes left in the cache, a driver that has it for   *)
(* itself gets over it: no mkdir() or rename() of the cache fails, and its *)
(* JVM misses no class - with one exception.  An rmtree() killed after it  *)
(* removed classes, but before it came to the stamp and the main class,    *)
(* leaves an entry that looks complete: the drivers that want it fail      *)
(* until it is compiled again.  Nothing else breaks a driver, and never    *)
(* one that compiled the entry itself.                                     *)
CacheRecovers ==
    [][alone => \A d \in Drivers :
          /\ pc'[d] # "collided"
          /\ pc'[d] = "broken" /\ pc[d] # "broken" => key[d] \in cut]_vars

----------------------------------------------------------------------------
(* The inductive invariant behind AdapterIsExact, where versions do not    *)
(* come back and drivers of two identities are never at work at once.      *)
(* What is compiled into an entry is no older than the version it is named *)
(* after, and what another identity has left is deleted before the entry   *)
(* is used.                                                                *)
Foreign(s, j) ==
    {f \in Files : entry[s][f] \notin {None, Empty} /\ entry[s][f].java # j}

EntryExact(s) ==
    /\ \A f \in Files \ {"partial"} : entry[s][f] # Empty
    /\ \A f \in Files \ {"stamp"} : entry[s][f] \notin {None, Empty} =>
           s <= entry[s][f].source /\ entry[s][f].source <= source
    /\ \A f \in Files :
           entry[s]["stamp"] # None /\ entry[s][f] \notin {None, Empty} =>
               entry[s][f].java = entry[s]["stamp"].java

InUse == {"building", "built", "renamed", "scrapping", "ready", "running"}

DriverExact(d) ==
    /\ AtWork(d) => seen[d] <= source
    /\ AtWork(d) /\ pc[d] # "started" => seen[d] <= key[d] /\ key[d] <= source
    /\ pc[d] = "clearing" => Foreign(key[d], java[d]) \subseteq todo[d]
    /\ pc[d] \in InUse => Foreign(key[d], java[d]) = {}
    /\ pc[d] \in {"running", "measured"} => ran[d] # {}
    /\ pc[d] \notin {"running", "measured"} \cup Ends => ran[d] = {}
    /\ AtWork(d) => \A c \in ran[d] :
           c.java = java[d] /\ key[d] <= c.source /\ c.source <= source
    /\ pc[d] = "valid" => ran[d] = {[source |-> seen[d], java |-> java[d]]}

ExactInv ==
    /\ \A d, e \in Drivers : AtWork(d) /\ AtWork(e) => java[d] = java[e]
    /\ \A s \in Sources : EntryExact(s)
    /\ \A d \in Drivers : DriverExact(d)

(* What a driver that is alone finds in its entry.                         *)
DriverAlone(d) ==
    /\ pc[d] # "collided"
    /\ pc[d] = "clearing" => Present(d) \subseteq todo[d]
    /\ pc[d] \in {"building", "built", "scrapping"} =>
           Present(d) \subseteq {"partial"}
    /\ pc[d] = "built" => Own(d)["partial"] \notin {None, Empty}
    /\ pc[d] = "renamed" => Own(d)["main"] # None /\ Own(d)["rest"] # None
    /\ pc[d] \in {"ready", "running"} =>
           Own(d)["stamp"] # None /\ Own(d)["main"] # None

(* The invariant behind CacheRecovers: rmtree() of a driver that is alone  *)
(* misses nothing, and an entry with classes missing is either being       *)
(* removed or one whose removal was cut off.                               *)
AloneInv ==
    alone =>
        /\ \A d, e \in Drivers : AtWork(d) /\ AtWork(e) => d = e
        /\ \A s \in Sources : Half(s) =>
              s \in cut \/ \E d \in Drivers : pc[d] = "clearing" /\ key[d] = s
        /\ \A d \in Drivers : DriverAlone(d)
=============================================================================
