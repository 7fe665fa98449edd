----------------------- MODULE CompilationTraceProofs -----------------------
(***************************************************************************)
(* Proofs about CompilationTrace, for any call targets, labels, trees and  *)
(* lengths of the run: what parse_trace() takes for the final compilation  *)
(* of a target is, unless it was invalidated, the code that runs; and the  *)
(* units that resolve_units() finds are the callees of the primary unit.   *)
(***************************************************************************)
EXTENDS CompilationTrace, FiniteSetTheorems, WellFoundedInduction, TLAPS

(* The blocks that a compilation prints are the only ones in front of it.  *)
LEMMA InliningFacts ==
    ASSUME parsed \in Traces, parsed.pending = <<>>,
           NEW t \in Targets, NEW tree \in Shapes[t],
           NEW q \in Inlinings(t, tree) \cup {parsed}
    PROVE  /\ q \in Traces
           /\ q.seq = parsed.seq /\ q.compilations = parsed.compilations
           /\ q.failures = parsed.failures
           /\ q.invalidations = parsed.invalidations
           /\ q.problems = parsed.problems
           /\ InlineTree(q, Label[t]) \in {None, Printed(tree)}
<1>1. Label[t] \in Labels /\ Printed(tree) \in PrintedTrees
  BY ShapeAssumption DEF Labels, PrintedTrees, Trees
<1>2. ASSUME NEW done \in BOOLEAN, q = ReadInlining(parsed, Label[t], Printed(tree), done)
      PROVE  /\ q \in Traces
             /\ q.seq = parsed.seq /\ q.compilations = parsed.compilations
             /\ q.failures = parsed.failures
             /\ q.invalidations = parsed.invalidations
             /\ q.problems = parsed.problems
             /\ InlineTree(q, Label[t]) \in {None, Printed(tree)}
  <2> DEFINE b == [label |-> Label[t], tree |-> Printed(tree), done |-> done]
  <2>1. b \in Inlined /\ b.tree = Printed(tree)
    BY <1>1 DEF Inlined
  <2>2. q = [parsed EXCEPT !.pending = Append(parsed.pending, b)]
    BY <1>2 DEF ReadInlining, Traces
  <2> HIDE DEF b
  <2>3. Append(parsed.pending, b) = <<b>> /\ <<b>> \in Seq(Inlined)
    BY <2>1
  <2>4. /\ q \in Traces /\ q.pending = <<b>>
        /\ q.seq = parsed.seq /\ q.compilations = parsed.compilations
        /\ q.failures = parsed.failures
        /\ q.invalidations = parsed.invalidations
        /\ q.problems = parsed.problems
    BY <2>2, <2>3 DEF Traces
  <2>5. \A i \in DOMAIN q.pending : q.pending[i].tree = Printed(tree)
    BY <2>1, <2>4
  <2>6. Blocks(q, Label[t]) \subseteq {1} /\ DOMAIN q.pending = {1}
    BY <2>4 DEF Blocks
  <2>7. InlineTree(q, Label[t]) \in {None, Printed(tree)}
    BY <2>5, <2>6 DEF InlineTree
  <2>8. QED
    BY <2>4, <2>7
<1>3. CASE q = parsed
  <2>1. Blocks(q, Label[t]) = {}
    BY <1>3 DEF Blocks
  <2>2. QED
    BY <1>3, <2>1 DEF InlineTree
<1>4. QED
  BY <1>2, <1>3 DEF Inlinings

(* What a step reads. *)
LEMMA CompileFacts ==
    ASSUME TypeOK, TraceInv, NEW t \in Targets, Compile(t)
    PROVE  \E k \in Tiers, tree \in Shapes[t], c \in Compilations :
             /\ c.seq = parsed.seq + 1 /\ c.target = t /\ c.tier = k
             /\ c.tree \in {None, Printed(tree)}
             /\ parsed' \in Traces /\ parsed'.pending = <<>>
             /\ parsed'.seq = parsed.seq + 1
             /\ parsed'.compilations = Append(parsed.compilations, c)
             /\ parsed'.invalidations = parsed.invalidations
             /\ code' = [code EXCEPT ![t] = k] /\ body' = [body EXCEPT ![t] = tree]
<1>1. /\ parsed \in Traces /\ parsed.pending = <<>> /\ parsed.problems = {}
      /\ parsed.seq + 1 \in 1..MaxEvents
  BY BoundAssumption DEF TypeOK, TraceInv, Compile, Happens, Traces
<1>2. PICK k \in Tiers, tree \in Shapes[t], whole \in BOOLEAN :
        /\ \E q \in Inlinings(t, tree) : parsed' = ReadDone(q, t, k, whole)
        /\ code' = [code EXCEPT ![t] = k] /\ body' = [body EXCEPT ![t] = tree]
  BY DEF Compile
<1>0. PICK q \in Inlinings(t, tree) : parsed' = ReadDone(q, t, k, whole)
  BY <1>2
<1> DEFINE c == [seq |-> q.seq + 1, target |-> t, tier |-> k,
                 tree |-> InlineTree(q, Label[t]), whole |-> whole]
           P == IF Terminated(q, Label[t]) THEN q.problems
                ELSE q.problems \cup {"INLINING_TRACE_UNTERMINATED"}
<1>3. /\ q \in Traces /\ q.seq = parsed.seq /\ q.compilations = parsed.compilations
      /\ q.invalidations = parsed.invalidations
      /\ InlineTree(q, Label[t]) \in {None, Printed(tree)}
  BY <1>1, InliningFacts
<1>4. c \in Compilations /\ c.seq = parsed.seq + 1 /\ c.target = t /\ c.tier = k
      /\ c.tree \in {None, Printed(tree)}
  <2>1. InlineTree(q, Label[t]) \in {None} \cup PrintedTrees
    BY <1>3, ShapeAssumption DEF PrintedTrees, Trees
  <2>2. QED
    BY <1>1, <1>3, <2>1 DEF Compilations
<1>5. P \in SUBSET (Noise \cup {"INLINING_TRACE_UNTERMINATED"})
  BY <1>3 DEF Traces
<1>6. parsed' = [q EXCEPT !.seq = q.seq + 1, !.pending = <<>>, !.problems = P,
                          !.compilations = Append(q.compilations, c)]
  BY <1>0, <1>3 DEF ReadDone, Traces
<1> HIDE DEF c, P
<1>7. Append(q.compilations, c) \in Seq(Compilations) /\ <<>> \in Seq(Inlined)
      /\ q.seq + 1 \in 0..MaxEvents
  BY <1>1, <1>3, <1>4 DEF Traces
<1>8. /\ parsed' \in Traces /\ parsed'.pending = <<>> /\ parsed'.seq = q.seq + 1
      /\ parsed'.compilations = Append(q.compilations, c)
      /\ parsed'.invalidations = q.invalidations
  BY <1>3, <1>5, <1>6, <1>7 DEF Traces
<1>9. QED
  BY <1>2, <1>3, <1>4, <1>8

(* The other records leave the compilations and what ran as they were, but *)
(* for an invalidation, which is the latest record, and the unread one,    *)
(* which shows a problem.                                                  *)
LEMMA OtherFacts ==
    ASSUME TypeOK, TraceInv, NEW t \in Targets,
           CompilationFails(t) \/ Invalidate(t) \/ CompileUnread(t)
    PROVE  /\ parsed' \in Traces
           /\ parsed'.seq = parsed.seq + 1
           /\ parsed'.compilations = parsed.compilations
           /\ parsed.problems = {} /\ parsed.pending = <<>>
           /\ \/ /\ parsed'.problems = {} /\ parsed'.pending = <<>>
                 /\ parsed'.invalidations = parsed.invalidations
                 /\ UNCHANGED <<code, body>>
              \/ /\ parsed'.problems = {} /\ parsed'.pending = <<>>
                 /\ parsed'.invalidations = parsed.invalidations
                        \cup {[seq |-> parsed.seq + 1, target |-> t]}
                 /\ code' = [code EXCEPT ![t] = 0] /\ UNCHANGED body
              \/ /\ parsed'.problems # {}
                 /\ \E k \in Tiers, tree \in Shapes[t] :
                       /\ code' = [code EXCEPT ![t] = k]
                       /\ body' = [body EXCEPT ![t] = tree]
<1> DEFINE e == [seq |-> parsed.seq + 1, target |-> t]
<1>1. /\ parsed \in Traces /\ parsed.pending = <<>> /\ parsed.problems = {}
      /\ parsed.seq + 1 \in 1..MaxEvents
  BY BoundAssumption DEF TypeOK, TraceInv, CompilationFails, Invalidate,
    CompileUnread, Happens, Traces
<1>2. e \in Events /\ <<>> \in Seq(Inlined) /\ parsed.seq + 1 \in 0..MaxEvents
  BY <1>1, BoundAssumption DEF Events
<1>3. CASE CompilationFails(t)
  <2>1. PICK tree \in Shapes[t] : \E q \in Inlinings(t, tree) \cup {parsed} :
          parsed' = ReadFailed(q, t)
    BY <1>3 DEF CompilationFails
  <2>2. PICK q \in Inlinings(t, tree) \cup {parsed} : parsed' = ReadFailed(q, t)
    BY <2>1
  <2>3. /\ q \in Traces /\ q.seq = parsed.seq /\ q.compilations = parsed.compilations
        /\ q.invalidations = parsed.invalidations /\ q.problems = parsed.problems
    BY <1>1, InliningFacts
  <2>4. parsed' = [q EXCEPT !.seq = q.seq + 1, !.pending = <<>>,
                            !.failures = q.failures \cup {e}]
    BY <2>2, <2>3 DEF ReadFailed, Traces
  <2> DEFINE F == q.failures \cup {e}
  <2>5. F \in SUBSET Events /\ q.seq + 1 \in 0..MaxEvents
    BY <1>2, <2>3 DEF Traces
  <2> HIDE DEF e, F
  <2>6. /\ parsed' \in Traces /\ parsed'.seq = q.seq + 1 /\ parsed'.pending = <<>>
        /\ parsed'.compilations = q.compilations
        /\ parsed'.invalidations = q.invalidations
        /\ parsed'.problems = q.problems
    <3>1. parsed' = [q EXCEPT !.seq = q.seq + 1, !.pending = <<>>, !.failures = F]
      BY <2>4 DEF F
    <3>2. QED
      BY <1>2, <2>3, <2>5, <3>1 DEF Traces
  <2>7. UNCHANGED <<code, body>>
    BY <1>3 DEF CompilationFails
  <2>8. QED
    BY <1>1, <2>3, <2>6, <2>7
<1>4. CASE Invalidate(t)
  <2>1. parsed' = [parsed EXCEPT !.seq = parsed.seq + 1,
                                 !.invalidations = parsed.invalidations \cup {e}]
    BY <1>1, <1>4 DEF Invalidate, ReadInvalidated, Traces
  <2>2. code' = [code EXCEPT ![t] = 0] /\ UNCHANGED body
    BY <1>4 DEF Invalidate
  <2>3. /\ parsed' \in Traces /\ parsed'.seq = parsed.seq + 1
        /\ parsed'.compilations = parsed.compilations
        /\ parsed'.problems = {} /\ parsed'.pending = <<>>
        /\ parsed'.invalidations = parsed.invalidations \cup {e}
    <3> DEFINE I == parsed.invalidations \cup {e}
    <3>1. I \in SUBSET Events
      BY <1>1, <1>2 DEF Traces
    <3>2. parsed' = [parsed EXCEPT !.seq = parsed.seq + 1, !.invalidations = I]
      BY <2>1
    <3> HIDE DEF e, I
    <3>3. /\ parsed' \in Traces /\ parsed'.seq = parsed.seq + 1
          /\ parsed'.compilations = parsed.compilations
          /\ parsed'.problems = {} /\ parsed'.pending = <<>>
          /\ parsed'.invalidations = I
      BY <1>1, <1>2, <3>1, <3>2 DEF Traces
    <3>4. QED
      BY <3>3 DEF I
  <2>4. QED
    BY <1>1, <2>2, <2>3
<1>5. CASE CompileUnread(t)
  <2>1. PICK k \in Tiers, tree \in Shapes[t], n \in Noise :
          /\ \E q \in Inlinings(t, tree) : parsed' = ReadUnknown(q, n)
          /\ code' = [code EXCEPT ![t] = k]
          /\ body' = [body EXCEPT ![t] = tree]
    BY <1>5 DEF CompileUnread
  <2>2. PICK q \in Inlinings(t, tree) : parsed' = ReadUnknown(q, n)
    BY <2>1
  <2>3. /\ q \in Traces /\ q.seq = parsed.seq /\ q.compilations = parsed.compilations
        /\ q.problems = parsed.problems
    BY <1>1, InliningFacts
  <2>4. parsed' = [q EXCEPT !.seq = q.seq + 1, !.problems = q.problems \cup {n}]
    BY <2>2, <2>3 DEF ReadUnknown, Traces
  <2> DEFINE P == q.problems \cup {n}
  <2>5. P \in SUBSET (Noise \cup {"INLINING_TRACE_UNTERMINATED"}) /\ P # {}
    BY <2>3 DEF Traces
  <2>6. parsed' = [q EXCEPT !.seq = q.seq + 1, !.problems = P]
    BY <2>4
  <2> HIDE DEF P
  <2>7. /\ parsed' \in Traces /\ parsed'.seq = q.seq + 1
        /\ parsed'.compilations = q.compilations /\ parsed'.problems # {}
    BY <1>2, <2>3, <2>5, <2>6 DEF Traces
  <2>8. QED
    BY <1>1, <2>1, <2>3, <2>7
<1>6. QED
  BY <1>3, <1>4, <1>5

LEMMA TypeStep == TypeOK /\ TraceInv /\ [Next]_vars => TypeOK'
<1> SUFFICES ASSUME TypeOK, TraceInv, [Next]_vars PROVE TypeOK'
  OBVIOUS
<1>1. /\ code \in [Targets -> {0} \cup Tiers] /\ body \in [Targets -> {None} \cup Trees]
      /\ \A t \in Targets : Shapes[t] \subseteq Trees
  BY ShapeAssumption DEF TypeOK, Trees
<1>2. ASSUME NEW t \in Targets, Compile(t) PROVE TypeOK'
  BY <1>1, <1>2, CompileFacts DEF TypeOK
<1>3. ASSUME NEW t \in Targets, CompilationFails(t) \/ Invalidate(t) \/ CompileUnread(t)
      PROVE  TypeOK'
  BY <1>1, <1>3, OtherFacts DEF TypeOK
<1>4. CASE UNCHANGED vars
  BY <1>4 DEF TypeOK, vars
<1>5. QED
  BY <1>2, <1>3, <1>4 DEF Next

(* A record that leaves a target's compilations and code keeps it known,   *)
(* whatever is invalidated.                                                *)
LEMMA KnownStays ==
    ASSUME NEW t \in Targets, Of(t)' = Of(t), Known(t),
           parsed'.compilations[Final(t)] = parsed.compilations[Final(t)],
           parsed.invalidations \subseteq parsed'.invalidations,
           InvalidatedAfterFinal(t)'
               \/ (code'[t] = code[t] /\ body'[t] = body[t])
    PROVE  Known(t)'
<1>1. Final(t)' = Final(t)
  BY DEF Final
<1>2. FinalOf(t)' = FinalOf(t)
  BY <1>1 DEF FinalOf
<1>3. InvalidatedAfterFinal(t) => InvalidatedAfterFinal(t)'
  BY <1>2 DEF InvalidatedAfterFinal, LaterIn
<1>4. QED
  BY <1>1, <1>2, <1>3 DEF Known

(* Only call targets of the run are compiled.                              *)
LEMMA CompiledTargets == TypeOK => Compiled \subseteq Targets
<1> SUFFICES ASSUME TypeOK, NEW i \in DOMAIN parsed.compilations
             PROVE  parsed.compilations[i].target \in Targets
  BY DEF Compiled
<1>1. parsed.compilations \in Seq(Compilations)
  BY DEF TypeOK, Traces
<1>2. parsed.compilations[i] \in Compilations
  BY <1>1
<1>3. QED
  BY <1>2 DEF Compilations

LEMMA CompileKnown ==
    ASSUME TypeOK, TraceInv, NEW t \in Targets, Compile(t)
    PROVE  TraceInv'
<1>1. PICK k \in Tiers, tree \in Shapes[t], c \in Compilations :
             /\ c.seq = parsed.seq + 1 /\ c.target = t /\ c.tier = k
             /\ c.tree \in {None, Printed(tree)}
             /\ parsed' \in Traces /\ parsed'.pending = <<>>
             /\ parsed'.seq = parsed.seq + 1
             /\ parsed'.compilations = Append(parsed.compilations, c)
             /\ parsed'.invalidations = parsed.invalidations
             /\ code' = [code EXCEPT ![t] = k] /\ body' = [body EXCEPT ![t] = tree]
  BY CompileFacts
<1> DEFINE n == Len(parsed.compilations)
<1>2. /\ n \in Nat /\ DOMAIN parsed.compilations = 1..n /\ parsed.seq \in Nat
      /\ \A i \in 1..n : parsed.compilations[i].seq \in Nat
  <2>1. parsed.compilations \in Seq(Compilations) /\ parsed.seq \in Nat
    BY DEF TypeOK, Traces
  <2>2. \A c0 \in Compilations : c0.seq \in Nat
    BY DEF Compilations
  <2>3. QED
    BY <2>1, <2>2
<1>3. /\ DOMAIN parsed'.compilations = 1..(n + 1)
      /\ \A i \in 1..n : parsed'.compilations[i] = parsed.compilations[i]
      /\ parsed'.compilations[n + 1] = c
  BY <1>1 DEF TypeOK, Traces
<1>4. parsed.problems = {} /\ \A u \in Compiled : Known(u)
  BY DEF TraceInv, Compile, Happens
<1> HIDE DEF n
<1>5. \A i \in DOMAIN parsed'.compilations : parsed'.compilations[i].seq <= parsed'.seq
  <2>1. \A i \in 1..n : parsed.compilations[i].seq <= parsed.seq
    BY <1>2 DEF TraceInv
  <2>2. \A i \in 1..n : parsed'.compilations[i].seq <= parsed.seq + 1
    BY <1>2, <1>3, <2>1
  <2>3. parsed'.compilations[n + 1].seq <= parsed.seq + 1
    BY <1>1, <1>2, <1>3
  <2>4. QED
    BY <1>1, <1>2, <1>3, <2>2, <2>3
<1>6. \A u \in Targets \ {t} : Of(u)' = Of(u)
  BY <1>1, <1>2, <1>3 DEF Of
<1>7. Of(t)' = Of(t) \cup {n + 1} /\ Of(t) \subseteq 1..n
  BY <1>1, <1>2, <1>3 DEF Of
<1>8. ASSUME NEW u \in Targets, u # t, Of(u)' # {}
      PROVE  Known(u)'
  <2>1. Of(u)' = Of(u) /\ Of(u) # {}
    BY <1>6, <1>8
  <2> u \in Compiled /\ Known(u)
    BY <1>4, <2>1 DEF Compiled, Of
  <2>2. Final(u) \in 1..n
    BY <1>2, <2>1 DEF Known, Of
  <2>3. parsed'.compilations[Final(u)] = parsed.compilations[Final(u)]
    BY <1>3, <2>2
  <2>4. code'[u] = code[u] /\ body'[u] = body[u]
    BY <1>1, <1>8 DEF TypeOK
  <2>5. QED
    BY <1>1, <2>1, <2>3, <2>4, KnownStays
<1>9. Known(t)'
  <2>1. ASSUME NEW i \in Of(t)'
        PROVE  (\A j \in Of(t)' : j <= i) <=> i = n + 1
    <3>1. \A j \in Of(t)' : j \in 1..(n + 1)
      BY <1>2, <1>7
    <3>2. n + 1 \in Of(t)'
      BY <1>7
    <3>3. QED
      BY <1>2, <3>1, <3>2
  <2>2. Final(t)' = n + 1
    BY <1>7, <2>1 DEF Final
  <2>3. FinalOf(t)' = c
    BY <1>3, <2>2 DEF FinalOf
  <2>4. code'[t] = c.tier /\ c.tree \in {None, Printed(body'[t])}
    BY <1>1 DEF TypeOK
  <2>5. Printed(body[t])' = Printed(body'[t])
    BY DEF Printed
  <2>6. QED
    BY <1>2, <1>7, <2>2, <2>3, <2>4, <2>5 DEF Known
<1>10. \A u \in Compiled' : Known(u)'
  <2> SUFFICES ASSUME NEW u \in Compiled' PROVE Known(u)'
    OBVIOUS
  <2>1. PICK i \in 1..(n + 1) : parsed'.compilations[i].target = u
    BY <1>3 DEF Compiled
  <2>2. u \in Targets
    <3>1. CASE i = n + 1
      BY <1>1, <1>3, <2>1, <3>1
    <3>2. CASE i \in 1..n
      <4>1. u \in Compiled
        BY <1>2, <1>3, <2>1, <3>2 DEF Compiled
      <4>2. QED
        BY <4>1, CompiledTargets
    <3>3. QED
      BY <1>2, <2>1, <3>1, <3>2
  <2>3. i \in Of(u)'
    BY <1>3, <2>1 DEF Of
  <2>4. QED
    BY <1>8, <1>9, <2>2, <2>3
<1>11. QED
  BY <1>1, <1>5, <1>10 DEF TraceInv

LEMMA OtherKnown ==
    ASSUME TypeOK, TraceInv, NEW t \in Targets,
           CompilationFails(t) \/ Invalidate(t) \/ CompileUnread(t)
    PROVE  TraceInv'
<1>1. /\ parsed'.seq = parsed.seq + 1
      /\ parsed'.compilations = parsed.compilations
      /\ parsed.problems = {} /\ \A u \in Compiled : Known(u)
  BY OtherFacts DEF TraceInv
<1>2. /\ parsed.seq \in Nat
      /\ \A i \in DOMAIN parsed.compilations :
            parsed.compilations[i].seq \in Nat /\ parsed.compilations[i].seq <= parsed.seq
  <2>1. parsed.compilations \in Seq(Compilations) /\ parsed.seq \in Nat
    BY DEF TypeOK, Traces
  <2>2. \A c \in Compilations : c.seq \in Nat
    BY DEF Compilations
  <2>3. QED
    BY <2>1, <2>2 DEF TraceInv
<1>3. \A i \in DOMAIN parsed'.compilations : parsed'.compilations[i].seq <= parsed'.seq
  BY <1>1, <1>2
<1>4. \A u \in Targets : Of(u)' = Of(u)
  BY <1>1 DEF Of
<1>5. Compiled' = Compiled /\ Compiled \subseteq Targets
  BY <1>1, CompiledTargets DEF Compiled
<1>6. CASE parsed'.problems # {}
  BY <1>3, <1>6 DEF TraceInv
<1>7. ASSUME parsed'.problems = {}, NEW u \in Compiled
      PROVE  parsed'.pending = <<>> /\ Known(u)'
  <2>1. u \in Targets /\ Known(u)
    BY <1>1, <1>5, <1>7
  <2>2. CASE parsed'.invalidations = parsed.invalidations /\ UNCHANGED <<code, body>>
               /\ parsed'.pending = <<>>
    BY <1>1, <1>4, <2>1, <2>2, KnownStays
  <2>3. CASE /\ parsed'.invalidations = parsed.invalidations
                      \cup {[seq |-> parsed.seq + 1, target |-> t]}
             /\ code' = [code EXCEPT ![t] = 0] /\ UNCHANGED body
             /\ parsed'.pending = <<>>
    <3>1. u # t => code'[u] = code[u]
      BY <2>1, <2>3 DEF TypeOK
    <3>2. u = t => InvalidatedAfterFinal(u)'
      <4>1. Final(u)' = Final(u)
        BY <1>4, <2>1 DEF Final
      <4>2. FinalOf(u)' = FinalOf(u)
        BY <1>1, <4>1 DEF FinalOf
      <4>3. FinalOf(u).seq \in Nat /\ FinalOf(u).seq <= parsed.seq
        BY <1>2, <2>1 DEF Known, Of, FinalOf
      <4>4. parsed.seq + 1 > FinalOf(u).seq
        BY <1>2, <4>3
      <4> DEFINE e == [seq |-> parsed.seq + 1, target |-> t]
      <4>5. e \in parsed'.invalidations /\ e.target = t /\ e.seq > FinalOf(u).seq
        BY <2>3, <4>4
      <4>6. QED
        BY <4>2, <4>5 DEF InvalidatedAfterFinal, LaterIn
    <3>3. QED
      BY <1>1, <1>4, <2>1, <2>3, <3>1, <3>2, KnownStays
  <2>4. QED
    BY <1>7, <2>2, <2>3, OtherFacts
<1>8. parsed'.problems = {} => parsed'.pending = <<>>
  BY OtherFacts
<1>9. QED
  BY <1>3, <1>5, <1>6, <1>7, <1>8 DEF TraceInv

LEMMA TraceStep == TypeOK /\ TraceInv /\ [Next]_vars => TraceInv'
<1>1. ASSUME TypeOK, TraceInv, UNCHANGED vars PROVE TraceInv'
  <2>1. parsed' = parsed /\ code' = code /\ body' = body
    BY <1>1 DEF vars
  <2>2. \A t \in Targets : Of(t)' = Of(t)
    BY <2>1 DEF Of
  <2>3. Compiled' = Compiled
    BY <2>1 DEF Compiled
  <2>4. \A t \in Targets : Known(t) => Known(t)'
    <3> SUFFICES ASSUME NEW t \in Targets, Known(t) PROVE Known(t)'
      OBVIOUS
    <3>1. QED
      BY <2>1, <2>2, KnownStays
  <2>5. Compiled \subseteq Targets
    BY <1>1, CompiledTargets
  <2>6. QED
    BY <1>1, <2>1, <2>3, <2>4, <2>5 DEF TraceInv
<1>2. QED
  BY <1>1, CompileKnown, OtherKnown DEF Next

LEMMA TraceInit == Init => TypeOK /\ TraceInv
<1> SUFFICES ASSUME Init PROVE TypeOK /\ TraceInv
  OBVIOUS
<1>1. Empty \in Traces
  BY BoundAssumption DEF Empty, Traces
<1>2. parsed.compilations = <<>> /\ parsed.pending = <<>> /\ parsed.problems = {}
  BY DEF Init, Empty
<1>3. DOMAIN parsed.compilations = {} /\ Compiled = {}
  BY <1>2 DEF Compiled, Of
<1>4. QED
  BY <1>1, <1>2, <1>3 DEF Init, TypeOK, TraceInv

LEMMA TraceCorrect == Spec => [](TypeOK /\ TraceInv)
BY TraceInit, TypeStep, TraceStep, PTL DEF Spec

(* Every run's trace and code are well typed: every tree that is read is   *)
(* one that a target was compiled with.                                    *)
THEOREM TypeCorrect == Spec => []TypeOK
BY TraceCorrect, PTL

(* target_lifecycles(): the final compilation of a target, unless it was   *)
(* invalidated after it, is the code that runs, and the inlining tree that *)
(* was attributed to it is the tree of that code.                          *)
THEOREM FinalIsInstalled ==
    Spec => [](parsed.problems = {} =>
                  \A t \in Compiled : ~InvalidatedAfterFinal(t) =>
                      /\ code[t] = FinalOf(t).tier
                      /\ FinalOf(t).tree \in {None, Printed(body[t])})
<1>1. TypeOK /\ TraceInv =>
        (parsed.problems = {} =>
            \A t \in Compiled : ~InvalidatedAfterFinal(t) =>
                /\ code[t] = FinalOf(t).tier
                /\ FinalOf(t).tree \in {None, Printed(body[t])})
  BY DEF TraceInv, Known
<1>2. QED
  BY <1>1, TraceCorrect, PTL

----------------------------------------------------------------------------
(* The units: resolve_units() as a search of the graph of calls              *)

LEMMA LeastExists ==
    ASSUME NEW T, T \subseteq Nat, T # {}
    PROVE  \E m \in T : \A n \in T : m <= n
<1>1. PICK m \in T : \A n \in T : ~(<<n, m>> \in OpToRel(<, Nat))
  BY NatLessThanWellFounded, WFMin
<1>2. \A n \in T : n < m => <<n, m>> \in OpToRel(<, Nat)
  BY DEF OpToRel
<1>3. \A n \in T : ~(n < m)
  BY <1>1, <1>2, Zenon
<1>4. \A n \in T : m <= n
  BY <1>3
<1>5. QED
  BY <1>4

(* A set of natural numbers that has 0 and, with each n below m, n + 1 too. *)
LEMMA Induct ==
    ASSUME NEW m \in Nat, NEW T, 0 \in T, \A n \in 0..m : n \in T /\ n < m => n + 1 \in T
    PROVE  0..m \subseteq T
<1> DEFINE B == {n \in 0..m : n \notin T}
<1>1. SUFFICES ASSUME B # {} PROVE FALSE
  OBVIOUS
<1>2. B \subseteq Nat
  OBVIOUS
<1>3. PICK n \in B : \A k \in B : n <= k
  <2> HIDE DEF B
  <2> QED BY <1>1, <1>2, LeastExists
<1>4. n - 1 \in 0..m /\ n - 1 < m /\ n - 1 + 1 = n
  BY <1>3
<1>5. n - 1 \in T
  BY <1>3, <1>4
<1>6. QED
  BY <1>3, <1>4, <1>5

(* The layers of the search exist, as many as wanted. *)
Layers(f, m) == f = [n \in 0..m |-> IF n = 0 THEN {Primary} ELSE Layer(f[n - 1])]

LEMMA LayersExist ==
    ASSUME NEW m \in Nat
    PROVE  \E f : Layers(f, m)
<1> DEFINE T == {k \in 0..m : \E f : Layers(f, k)}
<1>1. 0 \in T
  <2> DEFINE f == [n \in 0..0 |-> {Primary}]
  <2>1. Layers(f, 0)
    BY DEF Layers
  <2> HIDE DEF f
  <2>2. QED
    BY <2>1
<1>2. ASSUME NEW k \in 0..m, k \in T, k < m
      PROVE  k + 1 \in T
  <2>1. PICK f : Layers(f, k)
    BY <1>2
  <2> DEFINE g == [n \in 0..(k + 1) |-> IF n = 0 THEN {Primary} ELSE Layer(f[n - 1])]
  <2>2. \A n \in 0..k : g[n] = f[n]
    <3>1. \A n \in 0..k : f[n] = IF n = 0 THEN {Primary} ELSE Layer(f[n - 1])
      BY <2>1, Zenon DEF Layers
    <3>2. \A n \in 0..k : n \in 0..(k + 1)
      OBVIOUS
    <3>3. \A n \in 0..(k + 1) : g[n] = IF n = 0 THEN {Primary} ELSE Layer(f[n - 1])
      OBVIOUS
    <3> HIDE DEF g
    <3>4. QED
      BY <3>1, <3>2, <3>3, Zenon
  <2>3. \A n \in 0..(k + 1) : n # 0 => n - 1 \in 0..k
    OBVIOUS
  <2>4. \A n \in 0..(k + 1) : g[n] = IF n = 0 THEN {Primary} ELSE Layer(g[n - 1])
    <3>1. \A n \in 0..(k + 1) : g[n] = IF n = 0 THEN {Primary} ELSE Layer(f[n - 1])
      OBVIOUS
    <3> HIDE DEF g
    <3>2. QED
      BY <2>2, <2>3, <3>1
  <2>5. DOMAIN g = 0..(k + 1) /\ g = [n \in 0..(k + 1) |-> g[n]]
    OBVIOUS
  <2> HIDE DEF g
  <2>6. Layers(g, k + 1)
    BY <2>4, <2>5, Zenon DEF Layers
  <2>7. k + 1 \in 0..m
    BY <1>2
  <2>8. QED
    BY <2>6, <2>7
<1> HIDE DEF T
<1>3. 0..m \subseteq T
  BY <1>1, <1>2, Induct
<1>4. m \in T
  BY <1>3
<1>5. QED
  BY <1>4 DEF T

(* What the recursion of resolve_units() computes. *)
LEMMA LayersOfUnits ==
    \E f : /\ f[0] = {Primary}
           /\ \A n \in 0..Cardinality(Targets) : n # 0 => f[n] = Layer(f[n - 1])
           /\ Units = f[Cardinality(Targets)]
<1> DEFINE N == Cardinality(Targets)
           reach == CHOOSE f : f = [n \in 0..N |-> IF n = 0 THEN {Primary}
                                                   ELSE Layer(f[n - 1])]
<1>1. N \in Nat
  BY LabelAssumption, FS_CardinalityType
<1>2. Units = reach[N]
  BY DEF Units
<1> HIDE DEF N
<1>3. \E f : f = [n \in 0..N |-> IF n = 0 THEN {Primary} ELSE Layer(f[n - 1])]
  BY <1>1, LayersExist DEF Layers
<1>4. reach = [n \in 0..N |-> IF n = 0 THEN {Primary} ELSE Layer(reach[n - 1])]
  BY <1>3, Zenon
<1> HIDE DEF reach
<1>5. /\ reach[0] = {Primary}
      /\ \A n \in 0..N : n # 0 => reach[n] = Layer(reach[n - 1])
  <2>1. \A n \in 0..N : reach[n] = IF n = 0 THEN {Primary} ELSE Layer(reach[n - 1])
    BY <1>4, Zenon
  <2>2. 0 \in 0..N
    BY <1>1
  <2>3. QED
    BY <2>1, <2>2, Zenon
<1>6. QED
  BY <1>2, <1>5 DEF N

(* A call target of the run that compiled. *)
LEMMA CompiledFacts ==
    ASSUME TypeOK
    PROVE  /\ IsFiniteSet(Compiled) /\ Compiled \subseteq Targets
           /\ \A t \in Targets : Callees(t) \subseteq Compiled
           /\ \A l : ByLabel(l) \subseteq Compiled
<1>1. Compiled \subseteq Targets
  BY CompiledTargets
<1>2. IsFiniteSet(Compiled)
  BY <1>1, LabelAssumption, FS_Subset
<1>3. \A l : ByLabel(l) \subseteq Compiled
  BY DEF ByLabel
<1>4. QED
  BY <1>1, <1>2, <1>3 DEF Callees

LEMMA LayerGrows ==
    ASSUME NEW S
    PROVE  S \subseteq Layer(S) /\ Layer(S) \subseteq S \cup UNION {Callees(u) : u \in S}
BY DEF Layer

LEMMA UnitsReached ==
    ASSUME TypeOK, Primary \in Compiled
    PROVE  Units \subseteq Compiled /\ Primary \in Units
<1> DEFINE N == Cardinality(Targets)
<1>1. PICK f : /\ f[0] = {Primary}
               /\ \A n \in 0..N : n # 0 => f[n] = Layer(f[n - 1])
               /\ Units = f[N]
  BY LayersOfUnits
<1>2. N \in Nat
  BY LabelAssumption, FS_CardinalityType
<1> HIDE DEF N
<1> DEFINE T == {n \in 0..N : f[n] \subseteq Compiled /\ Primary \in f[n]}
<1>3. 0 \in T
  BY <1>1, <1>2
<1>4. ASSUME NEW n \in 0..N, n \in T, n < N
      PROVE  n + 1 \in T
  <2>1. n + 1 \in 0..N /\ n + 1 # 0 /\ n + 1 - 1 = n
    BY <1>2, <1>4
  <2>2. f[n + 1] = Layer(f[n])
    BY <1>1, <2>1
  <2>3. f[n] \subseteq Compiled /\ Primary \in f[n]
    BY <1>4
  <2>4. UNION {Callees(u) : u \in f[n]} \subseteq Compiled
    BY <2>3, CompiledFacts
  <2>5. QED
    BY <2>1, <2>2, <2>3, <2>4, LayerGrows
<1> HIDE DEF T
<1>5. 0..N \subseteq T
  BY <1>2, <1>3, <1>4, Induct
<1>6. N \in T
  BY <1>2, <1>5
<1>7. QED
  BY <1>1, <1>6 DEF T

(* No set that has the primary unit and its callees is smaller. *)
LEMMA UnitsLeast ==
    ASSUME NEW S, Primary \in S, \A u \in S : Callees(u) \subseteq S
    PROVE  Units \subseteq S
<1> DEFINE N == Cardinality(Targets)
<1>1. PICK f : /\ f[0] = {Primary}
               /\ \A n \in 0..N : n # 0 => f[n] = Layer(f[n - 1])
               /\ Units = f[N]
  BY LayersOfUnits
<1>2. N \in Nat
  BY LabelAssumption, FS_CardinalityType
<1> HIDE DEF N
<1> DEFINE T == {n \in 0..N : f[n] \subseteq S}
<1>3. 0 \in T
  BY <1>1, <1>2
<1>4. ASSUME NEW n \in 0..N, n \in T, n < N
      PROVE  n + 1 \in T
  <2>1. n + 1 \in 0..N /\ n + 1 # 0 /\ n + 1 - 1 = n
    BY <1>2, <1>4
  <2>2. f[n + 1] = Layer(f[n]) /\ f[n] \subseteq S
    BY <1>1, <1>4, <2>1
  <2>3. UNION {Callees(u) : u \in f[n]} \subseteq S
    BY <2>2
  <2>4. QED
    BY <2>1, <2>2, <2>3, LayerGrows
<1> HIDE DEF T
<1>5. 0..N \subseteq T
  BY <1>2, <1>3, <1>4, Induct
<1>6. N \in T
  BY <1>2, <1>5
<1>7. QED
  BY <1>1, <1>6 DEF T

(* As many layers as there are call targets are enough: a layer that adds no
   target adds none any more. *)
Closed(S) == \A u \in S : Callees(u) \subseteq S

LEMMA UnitsClosed ==
    ASSUME TypeOK, Primary \in Compiled, Traced(Units)
    PROVE  Closed(Units)
<1> DEFINE N == Cardinality(Targets)
<1>1. PICK f : /\ f[0] = {Primary}
               /\ \A n \in 0..N : n # 0 => f[n] = Layer(f[n - 1])
               /\ Units = f[N]
  BY LayersOfUnits
<1>2. N \in Nat /\ IsFiniteSet(Targets)
  BY LabelAssumption, FS_CardinalityType
<1>3. \A S \in SUBSET Targets : IsFiniteSet(S) /\ Cardinality(S) \in Nat /\ Cardinality(S) <= N
  BY <1>2, FS_Subset, FS_CardinalityType
<1>4. Primary \in Targets /\ \A t \in Targets : Callees(t) \subseteq Targets
  BY CompiledFacts
<1> HIDE DEF N
<1>5. \A n \in 0..N : f[n] \subseteq f[N]
  <2> DEFINE T == {n \in 0..N : f[N - n] \subseteq f[N]}
  <2>1. 0 \in T
    BY <1>2
  <2>2. ASSUME NEW n \in 0..N, n \in T, n < N
        PROVE  n + 1 \in T
    <3>1. N - n \in 0..N /\ N - n # 0 /\ N - n - 1 = N - (n + 1) /\ n + 1 \in 0..N
      BY <1>2, <2>2
    <3>2. f[N - n] = Layer(f[N - (n + 1)]) /\ f[N - n] \subseteq f[N]
      BY <1>1, <2>2, <3>1
    <3>3. QED
      BY <3>1, <3>2, LayerGrows
  <2> HIDE DEF T
  <2>3. 0..N \subseteq T
    BY <1>2, <2>1, <2>2, Induct
  <2>4. ASSUME NEW n \in 0..N
        PROVE  f[n] \subseteq f[N]
    <3>1. N - n \in 0..N /\ N - (N - n) = n
      BY <1>2
    <3>2. N - n \in T
      BY <2>3, <3>1
    <3>3. QED
      BY <3>1, <3>2 DEF T
  <2>5. QED
    BY <2>4
<1>6. \A n \in 0..N : Traced(f[n])
  BY <1>1, <1>5 DEF Traced
<1> DEFINE T == {n \in 0..N : f[n] \subseteq Targets
                              /\ (Closed(f[n]) \/ Cardinality(f[n]) >= n + 1)}
<1>7. 0 \in T
  <2>1. f[0] = {Primary} /\ Cardinality({Primary}) = 1
    BY <1>1, FS_Singleton
  <2>2. QED
    BY <1>2, <1>4, <2>1
<1>8. ASSUME NEW n \in 0..N, n \in T, n < N
      PROVE  n + 1 \in T
  <2>1. n + 1 \in 0..N /\ n + 1 # 0 /\ n + 1 - 1 = n /\ n \in Nat
    BY <1>2, <1>8
  <2> DEFINE S == f[n]
             C == UNION {Callees(u) : u \in S}
  <2>2. f[n + 1] = S \cup C
    <3>1. f[n + 1] = Layer(f[n])
      BY <1>1, <2>1
    <3>2. Traced(f[n])
      BY <1>6
    <3>3. Layer(f[n]) = f[n] \cup UNION {Callees(u) : u \in f[n]}
      BY <3>2, Zenon DEF Layer
    <3>4. QED
      BY <3>1, <3>3, Zenon
  <2>3. S \subseteq Targets /\ (Closed(S) \/ Cardinality(S) >= n + 1)
    BY <1>8
  <2>4. C \subseteq Targets
    BY <1>4, <2>3
  <2>5. Closed(S) <=> C \subseteq S
    BY DEF Closed
  <2> HIDE DEF S, C
  <2>6. CASE C \subseteq S
    <3>1. f[n + 1] = S
      BY <2>2, <2>6
    <3>2. QED
      BY <2>1, <2>3, <2>5, <2>6, <3>1
  <2>7. CASE ~(C \subseteq S)
    <3>1. PICK x \in C : x \notin S
      BY <2>7
    <3> DEFINE Q == S \cup {x}
    <3>2. S \cup C \in SUBSET Targets /\ Q \subseteq S \cup C
      BY <2>3, <2>4, <3>1
    <3>3. Cardinality(Q) = Cardinality(S) + 1
      BY <1>3, <2>3, <3>1, FS_AddElement
    <3> HIDE DEF Q
    <3>4. Cardinality(Q) <= Cardinality(S \cup C)
      BY <1>3, <3>2, FS_Subset
    <3>5. Cardinality(S) >= n + 1 /\ Cardinality(S) \in Nat /\ Cardinality(S \cup C) \in Nat
      BY <1>3, <2>3, <2>5, <2>7, <3>2
    <3>6. Cardinality(S \cup C) >= n + 1 + 1
      BY <2>1, <3>3, <3>4, <3>5
    <3>7. QED
      BY <2>1, <2>2, <3>2, <3>6
  <2>8. QED
    BY <2>6, <2>7
<1> HIDE DEF T
<1>9. 0..N \subseteq T
  BY <1>2, <1>7, <1>8, Induct
<1>10. f[N] \subseteq Targets /\ (Closed(f[N]) \/ Cardinality(f[N]) >= N + 1)
  <2>1. N \in T
    BY <1>2, <1>9
  <2>2. QED
    BY <2>1 DEF T
<1>11. Cardinality(f[N]) \in Nat /\ Cardinality(f[N]) <= N
  BY <1>3, <1>10
<1>12. QED
  BY <1>1, <1>2, <1>10, <1>11

(* A finite set of one element is that of its only element.                *)
LEMMA OnlyOne ==
    ASSUME NEW S, IsFiniteSet(S), Cardinality(S) = 1
    PROVE  S = {TheOnly(S)}
<1>1. \E x : S = {x}
  BY FS_Singleton
<1>2. QED
  BY <1>1 DEF TheOnly

(* With more than one element left out, two elements are the same.         *)
LEMMA AtMostOne ==
    ASSUME NEW S, IsFiniteSet(S), Cardinality(S) <= 1, NEW x \in S, NEW y \in S
    PROVE  x = y
<1>1. Cardinality(S) \in Nat /\ Cardinality(S) # 0
  BY FS_CardinalityType, FS_EmptySet
<1>2. Cardinality(S) = 1
  BY <1>1
<1>3. QED
  BY <1>2, OnlyOne

(* The units of a stable candidate were compiled, and their final trees    *)
(* are those of the code that runs.                                        *)
LEMMA StableFacts ==
    ASSUME TypeOK, TraceInv, StableCandidate
    PROVE  /\ Primary \in Compiled /\ Primary \in Units /\ Units \subseteq Compiled
           /\ \A u \in Units : /\ code[u] = FinalTier
                               /\ FinalOf(u).tree = Printed(body[u])
<1>1. /\ parsed.problems = {} /\ Traced(Units)
      /\ Cardinality(ByLabel(PrimaryLabel)) = 1
      /\ \A u \in Units : FinalOf(u).tier = FinalTier /\ ~InvalidatedAfterFinal(u)
  BY DEF StableCandidate, Resolvable, PrimaryVerified
<1>2. IsFiniteSet(ByLabel(PrimaryLabel)) /\ ByLabel(PrimaryLabel) \subseteq Compiled
  BY CompiledFacts, FS_Subset
<1>3. Primary \in ByLabel(PrimaryLabel)
  <2> DEFINE S == ByLabel(PrimaryLabel)
  <2> HIDE DEF S
  <2>1. S = {TheOnly(S)}
    BY <1>1, <1>2, OnlyOne DEF S
  <2>2. TheOnly(S) \in S
    BY <2>1
  <2>3. QED
    BY <2>2 DEF S, Primary
<1>4. Primary \in Compiled
  BY <1>2, <1>3
<1>5. Units \subseteq Compiled /\ Primary \in Units
  BY <1>4, UnitsReached
<1>6. ASSUME NEW u \in Units
      PROVE  code[u] = FinalTier /\ FinalOf(u).tree = Printed(body[u])
  <2>1. Known(u)
    BY <1>1, <1>5 DEF TraceInv
  <2>2. FinalOf(u).tree # None
    BY <1>1 DEF Traced
  <2>3. QED
    BY <1>1, <2>1, <2>2 DEF Known
<1>7. QED
  BY <1>4, <1>5, <1>6

(* assess_run(): the units of a stable candidate all run final-tier code   *)
(* at the end of the run, and the tree from which resolve_units() took the *)
(* callees of a unit is the tree of that code, whatever blocks and records *)
(* of other compilations are printed in between.                           *)
THEOREM UnitsInstalled == Spec => []StableUnitsAreInstalled
<1>1. TypeOK /\ TraceInv => StableUnitsAreInstalled
  BY StableFacts DEF StableUnitsAreInstalled
<1>2. QED
  BY <1>1, TraceCorrect, PTL

(* A target that was compiled has code to be called from. *)
Ran == \A t \in Compiled : body[t] \in Trees

LEMMA RanStep == TypeOK /\ TraceInv /\ Ran /\ [Next]_vars => Ran'
<1> SUFFICES ASSUME TypeOK, TraceInv, Ran, [Next]_vars PROVE Ran'
  OBVIOUS
<1>1. /\ body \in [Targets -> {None} \cup Trees] /\ Compiled \subseteq Targets
      /\ parsed.compilations \in Seq(Compilations)
      /\ \A t \in Targets : Shapes[t] \subseteq Trees
  BY ShapeAssumption, CompiledTargets DEF TypeOK, Trees, Traces
<1>2. ASSUME NEW t \in Targets, Compile(t) PROVE Ran'
  <2>1. PICK tree \in Shapes[t], c \in Compilations :
          /\ c.target = t /\ body' = [body EXCEPT ![t] = tree]
          /\ parsed'.compilations = Append(parsed.compilations, c)
    BY <1>2, CompileFacts
  <2>2. Compiled' \subseteq Compiled \cup {t}
    <3>1. \A i \in DOMAIN parsed'.compilations :
            \/ parsed'.compilations[i] = c
            \/ /\ i \in DOMAIN parsed.compilations
               /\ parsed'.compilations[i] = parsed.compilations[i]
      BY <1>1, <2>1
    <3>2. QED
      BY <2>1, <3>1 DEF Compiled
  <2>3. \A u \in Compiled : body'[u] \in Trees
    BY <1>1, <2>1 DEF Ran
  <2>4. body'[t] \in Trees
    BY <1>1, <2>1
  <2>5. QED
    BY <2>2, <2>3, <2>4 DEF Ran
<1>3. ASSUME NEW t \in Targets, CompilationFails(t) \/ Invalidate(t) \/ CompileUnread(t)
      PROVE  Ran'
  <2>1. parsed'.compilations = parsed.compilations
    BY <1>3, OtherFacts
  <2>2. body' = body \/ \E tree \in Shapes[t] : body' = [body EXCEPT ![t] = tree]
    BY <1>3, OtherFacts
  <2>3. Compiled' = Compiled
    BY <2>1 DEF Compiled
  <2>4. \A u \in Compiled : body'[u] \in Trees
    BY <1>1, <2>2 DEF Ran
  <2>5. QED
    BY <2>3, <2>4 DEF Ran
<1>4. CASE UNCHANGED vars
  BY <1>4 DEF Ran, Compiled, vars
<1>5. QED
  BY <1>2, <1>3, <1>4 DEF Next

LEMMA RanCorrect == Spec => []Ran
<1>1. Init => Ran
  <2> SUFFICES ASSUME Init PROVE Ran
    OBVIOUS
  <2>1. DOMAIN parsed.compilations = {}
    BY DEF Init, Empty
  <2>2. QED
    BY <2>1 DEF Ran, Compiled
<1>2. QED
  BY <1>1, RanStep, TraceCorrect, PTL DEF Spec

LEMMA EdgesOfTrees ==
    ASSUME NEW tree \in Trees
    PROVE  \A i \in DOMAIN tree : tree[i].callee \in Targets
<1> DEFINE Edge == [verb : Verbs, callee : Targets, depth : Nat]
<1>1. PICK t \in Targets : tree \in Shapes[t]
  BY DEF Trees
<1>2. tree \in Seq(Edge)
  BY <1>1, ShapeAssumption
<1>3. \A e \in Edge : e.callee \in Targets
  OBVIOUS
<1> HIDE DEF Edge
<1>4. QED
  BY <1>2, <1>3

(* The labels that resolve_units() follows from a unit are those of the    *)
(* targets that its code calls.                                            *)
LEMMA LabelsOfCalls ==
    ASSUME NEW u, body[u] \in Trees, FinalOf(u).tree = Printed(body[u])
    PROVE  /\ TrueCallees(u) \subseteq Targets
           /\ \A c \in TrueCallees(u) : ~IsFramework(Label[c])
           /\ CallLabels(u) = {Label[c] : c \in TrueCallees(u)}
<1> DEFINE b == body[u]
           calls == {i \in DOMAIN b : b[i].verb \in CallVerbs}
<1>1. \A i \in DOMAIN b : b[i].callee \in Targets
  BY EdgesOfTrees
<1>2. /\ DOMAIN FinalOf(u).tree = DOMAIN b
      /\ \A i \in DOMAIN b : /\ FinalOf(u).tree[i].verb = b[i].verb
                             /\ FinalOf(u).tree[i].label = Label[b[i].callee]
  BY DEF Printed
<1>3. CallLabels(u) = {Label[b[i].callee] : i \in calls} \ Framework
  <2>1. {i \in DOMAIN FinalOf(u).tree : FinalOf(u).tree[i].verb \in CallVerbs} = calls
    BY <1>2
  <2>2. {FinalOf(u).tree[i].label : i \in calls} = {Label[b[i].callee] : i \in calls}
    BY <1>2
  <2> HIDE DEF calls, b
  <2>3. QED
    BY <2>1, <2>2 DEF CallLabels
<1>4. TrueCallees(u) = {b[i].callee : i \in calls} \ {f \in Targets : IsFramework(Label[f])}
  BY DEF TrueCallees
<1> HIDE DEF b
<1>5. QED
  BY <1>1, <1>3, <1>4 DEF IsFramework

(* Where no label that a unit calls is that of two compiled targets, the   *)
(* compiled targets of those labels are the targets that it calls.         *)
LEMMA CalleesAreTrue ==
    ASSUME TypeOK, TraceInv, Ran, StableCandidate, NEW u \in Units,
           TrueCallees(u) \subseteq Compiled
    PROVE  Callees(u) = TrueCallees(u)
<1>1. u \in Compiled /\ FinalOf(u).tree = Printed(body[u]) /\ body[u] \in Trees
  BY StableFacts DEF Ran
<1>2. /\ TrueCallees(u) \subseteq Targets
      /\ \A c \in TrueCallees(u) : ~IsFramework(Label[c])
      /\ CallLabels(u) = {Label[c] : c \in TrueCallees(u)}
  BY <1>1, LabelsOfCalls
<1>3. \A c \in TrueCallees(u) : c \in ByLabel(Label[c])
  BY <1>2 DEF ByLabel
<1>4. \A l \in CallLabels(u) : IsFiniteSet(ByLabel(l)) /\ Cardinality(ByLabel(l)) <= 1
  BY CompiledFacts, FS_Subset DEF StableCandidate, Resolvable
<1>5. ASSUME NEW l \in CallLabels(u), NEW c \in ByLabel(l)
      PROVE  c \in TrueCallees(u)
  <2>1. PICK d \in TrueCallees(u) : l = Label[d]
    BY <1>2
  <2>2. d \in ByLabel(l)
    BY <1>3, <2>1
  <2>3. c = d
    BY <1>4, <2>2, AtMostOne
  <2>4. QED
    BY <2>3
<1>6. QED
  BY <1>2, <1>3, <1>5 DEF Callees

(* resolve_units() counts the primary unit and exactly the targets that    *)
(* its installed code calls, transitively: a search by label that visits   *)
(* no target twice, and that ends within as many layers as there are call  *)
(* targets, finds them all and no other, so long as every target that a    *)
(* counted unit calls was compiled.                                        *)
THEOREM UnitsExact == Spec => []UnitsAreCallees
<1>1. ASSUME TypeOK, TraceInv, Ran, StableCandidate,
             \A u \in Units : TrueCallees(u) \subseteq Compiled
      PROVE  UnitsAreTheCallees
  <2>1. Primary \in Compiled /\ Primary \in Units /\ Traced(Units)
    BY <1>1, StableFacts DEF StableCandidate, Resolvable
  <2>2. \A u \in Units : Callees(u) = TrueCallees(u)
    BY <1>1, CalleesAreTrue
  <2>3. ClosedUnderCalls(Units)
    BY <1>1, <2>1, <2>2, UnitsClosed DEF Closed, ClosedUnderCalls
  <2>4. ASSUME NEW S \in SUBSET Units, Primary \in S, ClosedUnderCalls(S)
        PROVE  S = Units
    <3>1. \A u \in S : Callees(u) \subseteq S
      BY <2>2, <2>4 DEF ClosedUnderCalls
    <3>2. Units \subseteq S
      BY <2>4, <3>1, UnitsLeast
    <3>3. QED
      BY <3>2
  <2>5. QED
    BY <2>3, <2>4 DEF UnitsAreTheCallees
<1>2. TypeOK /\ TraceInv /\ Ran => UnitsAreCallees
  BY <1>1 DEF UnitsAreCallees
<1>3. QED
  BY <1>2, TraceCorrect, RanCorrect, PTL

(* The only compilation of a target at a tier, and no other is there.      *)
LEMMA OnlyAtTier ==
    ASSUME TypeOK, NEW t, NEW k, OneWhole(t, k)
    PROVE  AtTier(t, k) = {TheOnly(AtTier(t, k))}
<1> DEFINE S == AtTier(t, k)
<1>1. IsFiniteSet(DOMAIN parsed.compilations)
  <2>1. parsed.compilations \in Seq(Compilations)
    BY DEF TypeOK, Traces
  <2>2. Len(parsed.compilations) \in Nat
        /\ DOMAIN parsed.compilations = 1..Len(parsed.compilations)
    BY <2>1
  <2>3. QED
    BY <2>2, FS_Interval
<1>2. S \subseteq DOMAIN parsed.compilations
  BY DEF AtTier, Of
<1>3. IsFiniteSet(S) /\ Cardinality(S) = 1
  BY <1>1, <1>2, FS_Subset DEF OneWhole
<1> HIDE DEF S
<1>4. S = {TheOnly(S)}
  BY <1>3, OnlyOne
<1>5. QED
  BY <1>4 DEF S

LEMMA OneOfTier ==
    ASSUME TypeOK, NEW t, NEW k, OneWhole(t, k)
    PROVE  /\ TheOnly(AtTier(t, k)) \in DOMAIN parsed.compilations
           /\ parsed.compilations[TheOnly(AtTier(t, k))].target = t
           /\ parsed.compilations[TheOnly(AtTier(t, k))].tier = k
<1>1. TheOnly(AtTier(t, k)) \in AtTier(t, k)
  BY OnlyAtTier
<1>2. QED
  BY <1>1 DEF AtTier, Of

(* What the inventory of a finished trace offers is the compilation of the *)
(* installed code, or stands beside the one that is.                       *)
THEOREM InventoryLive == Spec => []InventoryIsLive
<1>1. ASSUME TypeOK, TraceInv, parsed.problems = {}, NEW t \in Compiled,
             NEW k \in Tiers, InventoryAvailable(t, k)
      PROVE  LET i == TheOnly(AtTier(t, k)) IN
             IF i = Final(t)
             THEN /\ code[t] = k
                  /\ parsed.compilations[i].tree \in {None, Printed(body[t])}
             ELSE code[t] \notin {0, k}
  <2> DEFINE i == TheOnly(AtTier(t, k))
  <2>1. /\ Known(t) /\ ~InvalidatedAfterFinal(t) /\ OneWhole(t, k)
        /\ FinalOf(t) = parsed.compilations[Final(t)]
    BY <1>1 DEF TraceInv, InventoryAvailable, FinalOf
  <2>2. /\ Final(t) \in Of(t) /\ code[t] = FinalOf(t).tier
        /\ FinalOf(t).tree \in {None, Printed(body[t])}
    BY <2>1 DEF Known
  <2>3. FinalOf(t) \in Compilations
    BY <1>1, <2>1, <2>2 DEF TypeOK, Traces, Of
  <2>4. parsed.compilations[i].tier = k /\ AtTier(t, k) = {i}
    BY <1>1, <2>1, OnlyAtTier, OneOfTier
  <2> HIDE DEF i
  <2>5. CASE i = Final(t)
    BY <2>1, <2>2, <2>4, <2>5 DEF i
  <2>6. CASE i # Final(t)
    <3>1. FinalOf(t).tier # k
      BY <2>1, <2>2, <2>4, <2>6 DEF AtTier
    <3>2. code[t] \notin {0, k}
      BY <2>2, <2>3, <3>1 DEF Compilations, Tiers
    <3>3. QED
      BY <2>6, <3>2 DEF i
  <2>7. QED
    BY <2>5, <2>6
<1>2. TypeOK /\ TraceInv => InventoryIsLive
  BY <1>1 DEF InventoryIsLive
<1>3. QED
  BY <1>2, TraceCorrect, PTL

(* A root with a name of its own is the only one that is found by it.      *)
LEMMA RootedByName ==
    ASSUME TypeOK, NEW t \in Compiled, CrossRunUnique(t)
    PROVE  Rooted(Normal[Label[t]]) = {t}
<1> DEFINE root == Normal[Label[t]]
<1>1. \A u \in Compiled : Label[u] \in Labels
  BY CompiledTargets DEF Labels
<1>2. ASSUME NEW u \in Compiled, Label[u] = root
      PROVE  Normal[Label[u]] = root
  BY <1>1, <1>2, NormalAssumption
<1>3. \A u \in Compiled : Normal[Label[u]] = root => u = t
  BY DEF CrossRunUnique
<1> HIDE DEF root
<1>4. Normal[Label[t]] = root
  BY DEF root
<1>5. Rooted(root) = {t}
  BY <1>2, <1>3, <1>4 DEF Rooted
<1>6. QED
  BY <1>5 DEF root

(* select_tier_compilation() and observed_compilation_roots(): a root that *)
(* the inventory offers under a name of its own is the one that the        *)
(* selection finds by that name, with the same compilation, although one   *)
(* compares labels with and the other without object identities; and what  *)
(* the selection returns is missing in the inventory only if a later       *)
(* recompilation of that target failed.                                    *)
THEOREM InventorySelects == Spec => []InventoryAgrees
<1>1. ASSUME TypeOK, parsed.problems = {}, NEW k \in Tiers, NEW t \in Compiled,
             InventoryAvailable(t, k), CrossRunUnique(t)
      PROVE  SelectTier(k, Normal[Label[t]]) = TheOnly(AtTier(t, k))
  <2>1. Rooted(Normal[Label[t]]) = {t}
    BY <1>1, RootedByName
  <2>2. Cardinality({t}) = 1 /\ TheOnly({t}) = t
    BY FS_Singleton DEF TheOnly
  <2>3. QED
    BY <1>1, <2>1, <2>2 DEF SelectTier, InventoryAvailable
<1>2. ASSUME TypeOK, NEW k \in Tiers, NEW l \in Labels, SelectTier(k, l) # None
      PROVE  LET t == parsed.compilations[SelectTier(k, l)].target
             IN  InventoryAvailable(t, k) \/ FailedAfterFinal(t)
  <2> DEFINE r == TheOnly(Rooted(l))
  <2>1. /\ OneWhole(r, k) /\ ~InvalidatedAfterFinal(r)
        /\ SelectTier(k, l) = TheOnly(AtTier(r, k))
    BY <1>2 DEF SelectTier
  <2>2. parsed.compilations[SelectTier(k, l)].target = r
    <3> HIDE DEF r
    <3>1. QED
      BY <1>2, <2>1, OneOfTier
  <2>3. InventoryAvailable(r, k) \/ FailedAfterFinal(r)
    BY <2>1 DEF InventoryAvailable
  <2>4. QED
    BY <2>2, <2>3
<1>3. TypeOK => InventoryAgrees
  BY <1>1, <1>2 DEF InventoryAgrees
<1>4. QED
  BY <1>3, TypeCorrect, PTL
=============================================================================
