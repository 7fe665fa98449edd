-------------------------- MODULE CompilationTrace --------------------------
(***************************************************************************)
(* harness/graph_evidence.py: what the compilation trace of one run is     *)
(* read into, and the compilation units that are resolved from it.         *)
(*                                                                         *)
(* The runtime compiles call targets one at a time                         *)
(* (BackgroundCompilation=false), replaces, invalidates and fails to       *)
(* recompile them, and prints records.  The parser sees the records only.  *)
(* A call target has an identity in the records of its own life cycle, but *)
(* the inlining decisions of a compilation name their callees by label,    *)
(* and labels need not be distinct.                                        *)
(***************************************************************************)
EXTENDS Naturals, Sequences, FiniteSets

CONSTANTS
    Targets,        \* the call targets of the run
    Label, Normal,  \* label of a target; label without object identities
    Framework,      \* labels that match framework_label_patterns
    PrimaryLabels,  \* labels that match primary_label_pattern, or all of them
    Sourced,        \* targets whose Src names the workload's file, or all
    Shapes,         \* the inlining trees that a target may be compiled with
    Noise,          \* problems that a record may show by itself
    Faulty,         \* targets whose records may be incomplete
    Volatile,       \* targets that may be invalidated or fail to compile
    FinalTier,      \* final_tier of the policy
    MaxEvents,      \* bound on the compilations, invalidations and damages
    None            \* no tree, no compilation

VARIABLES
    code,           \* tier of the installed code of a target, or 0
    body,           \* tree of the compilation that code came from
    parsed          \* what parse_trace() has read so far

vars == <<code, body, parsed>>

Tiers  == {1, 2}
Labels == {Label[t] : t \in Targets}
CallVerbs == {"Cutoff", "Indirect", "BailedOut", "Expanded"}
Verbs  == CallVerbs \cup {"Inlined", "Removed"}
Trees  == UNION {Shapes[t] : t \in Targets}

ASSUME LabelAssumption ==
    /\ IsFiniteSet(Targets)
    /\ DOMAIN Label = Targets /\ DOMAIN Normal = Labels
    /\ Framework \subseteq Labels /\ PrimaryLabels \subseteq Labels
    /\ Sourced \cup Faulty \cup Volatile \subseteq Targets
(* A label without object identities has none to lose (LABEL_IDENTITY_RE). *)
ASSUME NormalAssumption ==
    \A l \in Labels : Normal[l] \in Labels => Normal[Normal[l]] = Normal[l]
ASSUME ShapeAssumption ==
    /\ DOMAIN Shapes = Targets
    /\ \A t \in Targets : Shapes[t] \subseteq
          Seq([verb : Verbs, callee : Targets, depth : Nat])
    /\ None \notin Trees
ASSUME BoundAssumption == FinalTier \in Tiers /\ MaxEvents \in Nat

----------------------------------------------------------------------------
(* parse_trace() *)

(* A callee is printed by its label. *)
Printed(tree) ==
    [i \in DOMAIN tree |-> [verb  |-> tree[i].verb,
                            label |-> Label[tree[i].callee],
                            depth |-> tree[i].depth]]

Empty == [seq |-> 0, pending |-> <<>>, compilations |-> <<>>, failures |-> {},
          invalidations |-> {}, problems |-> {}]

Blocks(p, l) == {i \in DOMAIN p.pending : p.pending[i].label = l}

(* The decisions of the last inlining block of that label, if there is one. *)
InlineTree(p, l) ==
    IF Blocks(p, l) = {} THEN None
    ELSE LET last == CHOOSE i \in Blocks(p, l) : \A j \in Blocks(p, l) : j <= i
         IN  p.pending[last].tree

Terminated(p, l) ==
    \A i \in Blocks(p, l) :
        (\A j \in Blocks(p, l) : j <= i) => p.pending[i].done

ReadInlining(p, l, tree, done) ==
    [p EXCEPT !.pending = Append(@, [label |-> l, tree |-> tree, done |-> done])]

(* INLINING_TRACE_UNTERMINATED ends the reading of the run; it is kept among
   the problems, with which no resolution is used. *)
ReadDone(p, t, k, whole) ==
    [p EXCEPT !.seq = @ + 1, !.pending = <<>>,
              !.problems = IF Terminated(p, Label[t]) THEN @
                           ELSE @ \cup {"INLINING_TRACE_UNTERMINATED"},
              !.compilations = Append(@,
                  [seq |-> p.seq + 1, target |-> t, tier |-> k,
                   tree |-> InlineTree(p, Label[t]), whole |-> whole])]

KeepPending(p, t) ==                                           \* mutant
    [p EXCEPT !.seq = @ + 1,
              !.failures = @ \cup {[seq |-> p.seq + 1, target |-> t]}]

FailedBefore(p, t) ==                                          \* mutant
    [p EXCEPT !.seq = @ + 1, !.pending = <<>>,
              !.failures = @ \cup {[seq |-> p.seq, target |-> t]}]

ReadFailed(p, t) ==
    [p EXCEPT !.seq = @ + 1, !.pending = <<>>,
              !.failures = @ \cup {[seq |-> p.seq + 1, target |-> t]}]

(* opt inval., or opt deopt with |Invalidated true. *)
ReadInvalidated(p, t) ==
    [p EXCEPT !.seq = @ + 1,
              !.invalidations = @ \cup {[seq |-> p.seq + 1, target |-> t]}]

ReadUnknown(p, n) == [p EXCEPT !.seq = @ + 1, !.problems = @ \cup {n}]

----------------------------------------------------------------------------
(* The run *)

Init ==
    /\ code = [t \in Targets |-> 0]
    /\ body = [t \in Targets |-> None]
    /\ parsed = Empty

(* From a trace with a problem nothing is resolved or selected any more. *)
Happens == parsed.seq < MaxEvents /\ parsed.problems = {}

(* Truffle prints the decisions when its tier is finished; a compilation may
   print none, and a block may have lost its last line. *)
Inlinings(t, tree) ==
    {ReadInlining(parsed, Label[t], Printed(tree), TRUE)}
    \cup {p \in {parsed, ReadInlining(parsed, Label[t], Printed(tree), FALSE)} :
              t \in Faulty}

Compile(t) ==
    /\ Happens
    /\ \E k \in Tiers, tree \in Shapes[t], whole \in BOOLEAN :
         /\ k > code[t]
         /\ whole \/ t \in Faulty
         /\ \E p \in Inlinings(t, tree) : parsed' = ReadDone(p, t, k, whole)
         /\ code' = [code EXCEPT ![t] = k]
         /\ body' = [body EXCEPT ![t] = tree]

(* Graal's tier may fail after Truffle's. *)
CompilationFails(t) ==
    /\ Happens
    /\ t \in Volatile
    /\ code[t] < FinalTier
    /\ \E tree \in Shapes[t] : \E p \in Inlinings(t, tree) \cup {parsed} :
          parsed' = ReadFailed(p, t)
    /\ UNCHANGED <<code, body>>

Invalidate(t) ==
    /\ Happens
    /\ t \in Volatile
    /\ code[t] # 0
    /\ parsed' = ReadInvalidated(parsed, t)
    /\ code' = [code EXCEPT ![t] = 0]
    /\ UNCHANGED body

(* A compilation whose "opt done" the parser cannot read; its inlining block
   stays in front of what follows. *)
CompileUnread(t) ==
    /\ Happens
    /\ t \in Faulty
    /\ \E k \in Tiers, tree \in Shapes[t], n \in Noise :
         /\ k > code[t]
         /\ \E p \in Inlinings(t, tree) : parsed' = ReadUnknown(p, n)
         /\ code' = [code EXCEPT ![t] = k]
         /\ body' = [body EXCEPT ![t] = tree]

Next == \E t \in Targets :
            \/ Compile(t) \/ CompilationFails(t)
            \/ Invalidate(t) \/ CompileUnread(t)

Spec == Init /\ [][Next]_vars

----------------------------------------------------------------------------
(* target_lifecycles() *)

Of(t)       == {i \in DOMAIN parsed.compilations :
                    parsed.compilations[i].target = t}
Compiled    == {parsed.compilations[i].target : i \in DOMAIN parsed.compilations}
Final(t)    == CHOOSE i \in Of(t) : \A j \in Of(t) : j <= i
FinalOf(t)  == parsed.compilations[Final(t)]

EarlierIn(events, t) ==                                        \* mutant
    \E e \in events : e.target = t /\ e.seq < FinalOf(t).seq

LaterIn(events, t) ==
    \E e \in events : e.target = t /\ e.seq > FinalOf(t).seq

InvalidatedAfterFinal(t) == LaterIn(parsed.invalidations, t)
FailedAfterFinal(t)      == LaterIn(parsed.failures, t)

----------------------------------------------------------------------------
(* One compilation of one root: select_tier_compilation() and              *)
(* observed_compilation_roots()                                            *)

AtTier(t, k) == {i \in Of(t) : parsed.compilations[i].tier = k}

TheOnly(S) == CHOOSE x \in S : TRUE

OneWhole(t, k) ==
    /\ Cardinality(AtTier(t, k)) = 1
    /\ parsed.compilations[TheOnly(AtTier(t, k))].whole

Rooted(root) == {t \in Compiled : Label[t] = root \/ Normal[Label[t]] = root}

SelectInvalidated(k, root) ==                                  \* mutant
    IF /\ parsed.problems = {}
       /\ Cardinality(Rooted(root)) = 1
       /\ OneWhole(TheOnly(Rooted(root)), k)
    THEN TheOnly(AtTier(TheOnly(Rooted(root)), k)) ELSE None

SelectTier(k, root) ==
    LET t == TheOnly(Rooted(root))
    IN  IF /\ parsed.problems = {}
           /\ Cardinality(Rooted(root)) = 1
           /\ OneWhole(t, k)
           /\ ~InvalidatedAfterFinal(t)
        THEN TheOnly(AtTier(t, k)) ELSE None

InventoryAvailable(t, k) ==
    /\ OneWhole(t, k)
    /\ ~InvalidatedAfterFinal(t)
    /\ ~FailedAfterFinal(t)

CrossRunUnique(t) ==
    \A u \in Compiled : Normal[Label[u]] = Normal[Label[t]] => u = t

----------------------------------------------------------------------------
(* resolve_units() and assess_run() *)

IsFramework(l) == l \in Framework
ByLabel(l)     == {t \in Compiled : Label[t] = l /\ ~IsFramework(l)}
FrameworkTargets == {t \in Compiled : IsFramework(Label[t])}

EntriesOf(i) ==
    LET tree == parsed.compilations[i].tree
    IN  {tree[j].label : j \in {n \in DOMAIN tree : tree[n].depth = 1}}

FrameworkCompilations == UNION {Of(t) : t \in FrameworkTargets}

EntryTraced == \A i \in FrameworkCompilations :
                   parsed.compilations[i].tree # None
EntryLabels == UNION {EntriesOf(i) : i \in FrameworkCompilations}

PrimaryLabel == TheOnly(EntryLabels)
Primary      == TheOnly(ByLabel(PrimaryLabel))

AnyEdge(t) ==                                                  \* mutant
    LET tree == FinalOf(t).tree
    IN  {tree[i].label : i \in DOMAIN tree} \ Framework

(* Labels of the calls that remain in the final compilation of a target. *)
CallLabels(t) ==
    LET tree  == FinalOf(t).tree
        calls == {i \in DOMAIN tree : tree[i].verb \in CallVerbs}
    IN  {tree[i].label : i \in calls} \ Framework

Callees(t) == UNION {ByLabel(l) : l \in CallLabels(t)}

Traced(S) == \A u \in S : FinalOf(u).tree # None

(* The breadth-first search from the primary unit, layer by layer. *)
Layer(S) == IF Traced(S) THEN S \cup UNION {Callees(u) : u \in S} ELSE S

Units ==
    LET reach[n \in 0..Cardinality(Targets)] ==
            IF n = 0 THEN {Primary} ELSE Layer(reach[n - 1])
    IN  reach[Cardinality(Targets)]

PrimaryVerified ==
    /\ FrameworkTargets # {}
    /\ EntryTraced
    /\ Cardinality(EntryLabels) = 1
    /\ Cardinality(ByLabel(PrimaryLabel)) = 1
    /\ PrimaryLabel \in PrimaryLabels
    /\ Primary \in Sourced

Resolvable ==
    /\ PrimaryVerified
    /\ Traced(Units)
    /\ \A u \in Units : \A l \in CallLabels(u) : Cardinality(ByLabel(l)) <= 1

UncompiledCallees ==
    {l \in UNION {CallLabels(u) : u \in Units} : ByLabel(l) = {}}

StableCandidate ==
    /\ parsed.problems = {}
    /\ Resolvable
    /\ \A u \in Units : /\ FinalOf(u).tier = FinalTier
                        /\ ~InvalidatedAfterFinal(u)
                        /\ ~FailedAfterFinal(u)
    /\ UncompiledCallees = {}

----------------------------------------------------------------------------
(* Properties *)

PrintedTrees == {Printed(tree) : tree \in Trees}

Compilations == [seq : 1..MaxEvents, target : Targets, tier : Tiers,
                 tree : {None} \cup PrintedTrees, whole : BOOLEAN]
Events == [seq : 1..MaxEvents, target : Targets]
Inlined == [label : Labels, tree : PrintedTrees, done : BOOLEAN]

Traces == [seq : 0..MaxEvents, pending : Seq(Inlined),
           compilations : Seq(Compilations),
           failures : SUBSET Events, invalidations : SUBSET Events,
           problems : SUBSET (Noise \cup {"INLINING_TRACE_UNTERMINATED"})]

TypeOK ==
    /\ code \in [Targets -> {0} \cup Tiers]
    /\ body \in [Targets -> {None} \cup Trees]
    /\ parsed \in Traces

(* A run that assess_run() calls a stable candidate ended with every unit it
   resolved running final-tier code, and the tree from which the unit's
   callees were taken is the tree of that code and of no other compilation:
   parse_trace() attributes blocks by their place in front of "opt done", and
   target_lifecycles() judges a target by records that may come much later. *)
StableUnitsAreInstalled ==
    StableCandidate =>
        \A u \in Units : /\ code[u] = FinalTier
                         /\ FinalOf(u).tree = Printed(body[u])

(* Calls that remain in installed code, by the targets that are called. *)
TrueCallees(t) ==
    {body[t][i].callee : i \in {j \in DOMAIN body[t] :
                                   body[t][j].verb \in CallVerbs}}
        \ {f \in Targets : IsFramework(Label[f])}

ClosedUnderCalls(S) == \A u \in S : TrueCallees(u) \subseteq S

UnitsAreTheCallees ==
    /\ ClosedUnderCalls(Units)
    /\ \A S \in SUBSET Units :
          Primary \in S /\ ClosedUnderCalls(S) => S = Units

(* resolve_units() counts the primary unit and exactly what its installed
   code calls, transitively, although it follows labels: so long as every
   target that a counted unit calls was compiled (the labels of two compiled
   targets make the resolution fail). *)
UnitsAreCallees ==
    /\ StableCandidate
    /\ \A u \in Units : TrueCallees(u) \subseteq Compiled
    => UnitsAreTheCallees

(* The same with no condition: "the separately compiled language-owned callees
   that remain calls" (graph_evidence.py:1119-1122). *)
UnitsAreAlwaysCallees == StableCandidate => UnitsAreTheCallees

(* What the inventory of a finished trace offers as the compilation of a root
   at a tier is the code that is installed, and the decisions it shows are
   those of that code; or it is listed beside a later compilation at the other
   tier (other_compilation_ids), and then it is that tier's code which is
   installed, also where the offered one was invalidated before it.  A target
   without installed code is never offered. *)
InventoryIsLive ==
    parsed.problems = {} =>
        \A t \in Compiled, k \in Tiers :
            LET i == TheOnly(AtTier(t, k)) IN
            InventoryAvailable(t, k) =>
                IF i = Final(t)
                THEN /\ code[t] = k
                     /\ parsed.compilations[i].tree \in {None, Printed(body[t])}
                ELSE code[t] \notin {0, k}

(* The inventory and the selection of one root are written twice and agree: a
   root that the inventory offers under a name of its own is the one that the
   selection finds by that name, with the same compilation; and a selected
   compilation is missing in the inventory only if a later recompilation
   failed. *)
InventoryAgrees ==
    parsed.problems = {} => \A k \in Tiers :
        /\ \A t \in Compiled :
              InventoryAvailable(t, k) /\ CrossRunUnique(t)
              => SelectTier(k, Normal[Label[t]]) = TheOnly(AtTier(t, k))
        /\ \A l \in Labels :
              LET i == SelectTier(k, l)
                  t == parsed.compilations[i].target
              IN  i # None => InventoryAvailable(t, k) \/ FailedAfterFinal(t)

----------------------------------------------------------------------------
(* The inductive invariant behind these properties: while a trace shows no
   problem, no inlining block is left in front of what comes, and the final
   compilation of a target, unless invalidated, is the code that runs. *)
Known(t) ==
    /\ Final(t) \in Of(t) /\ \A j \in Of(t) : j <= Final(t)
    /\ ~InvalidatedAfterFinal(t) =>
          /\ code[t] = FinalOf(t).tier
          /\ FinalOf(t).tree \in {None, Printed(body[t])}

TraceInv ==
    /\ \A i \in DOMAIN parsed.compilations :
          parsed.compilations[i].seq <= parsed.seq
    /\ parsed.problems = {} =>
          /\ parsed.pending = <<>>
          /\ \A t \in Compiled : Known(t)
=============================================================================
