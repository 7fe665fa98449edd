---------------------- MODULE MeasurementEngineProofs ----------------------
(***************************************************************************)
(* Proofs about MeasurementEngine, for any policy, any results and any     *)
(* threads.                                                                *)
(***************************************************************************)
EXTENDS MeasurementEngine, TLAPS, FiniteSetTheorems, SequenceTheorems,
        WellFoundedInduction

Items == {"cold", "warmup", "steady"} \X Nat

(* The samples of one phase, in order.                                     *)
LEMMA NumberedFacts ==
    ASSUME NEW phase \in {"cold", "warmup", "steady"}, NEW n \in Nat
    PROVE  /\ Numbered(phase, n) \in Seq(Items)
           /\ Len(Numbered(phase, n)) = n
           /\ \A i \in 1..n : Numbered(phase, n)[i] = <<phase, i>>
<1>1. \A i \in 1..n : <<phase, i>> \in Items
  BY DEF Items
<1>2. Numbered(phase, n) \in [1..n -> Items]
  BY <1>1 DEF Numbered
<1>3. Numbered(phase, n) \in Seq(Items)
  BY <1>2, SeqDef
<1>4. DOMAIN Numbered(phase, n) = 1..n
  BY DEF Numbered
<1>5. Len(Numbered(phase, n)) = n
  BY <1>3, <1>4, LenProperties
<1>6. \A i \in 1..n : Numbered(phase, n)[i] = <<phase, i>>
  BY DEF Numbered
<1>7. QED
  BY <1>3, <1>5, <1>6

(* The plan is the cold sample, the warmup samples, the steady samples.    *)
LEMMA PlanFacts ==
    /\ Plan \in Seq(Items) /\ Len(Plan) = 1 + Warmup + Steady
    /\ Plan[1] = <<"cold", 1>>
    /\ \A i \in 2..(1 + Warmup) : Plan[i] = <<"warmup", i - 1>>
    /\ \A i \in (2 + Warmup)..(1 + Warmup + Steady) :
          Plan[i] = <<"steady", i - 1 - Warmup>>
<1> DEFINE c == Numbered("cold", 1)
           w == Numbered("warmup", Warmup)
           s == Numbered("steady", Steady)
           f == c \o w
<1>1. c \in Seq(Items) /\ Len(c) = 1 /\ c[1] = <<"cold", 1>>
  <2>1. 1 \in Nat /\ 1 \in 1..1
    OBVIOUS
  <2>2. QED
    BY <2>1, NumberedFacts
<1>2. w \in Seq(Items) /\ Len(w) = Warmup /\ \A i \in 1..Warmup : w[i] = <<"warmup", i>>
  BY NumberedFacts, PolicyAssumption
<1>3. s \in Seq(Items) /\ Len(s) = Steady /\ \A i \in 1..Steady : s[i] = <<"steady", i>>
  BY NumberedFacts, PolicyAssumption
<1>4. Plan = f \o s
  BY DEF Plan
<1> HIDE DEF c, w, s
<1>5. /\ f \in Seq(Items) /\ Len(f) = 1 + Warmup
      /\ \A i \in 1..(1 + Warmup) : f[i] = IF i <= 1 THEN c[i] ELSE w[i - 1]
  <2>1. /\ f \in Seq(Items) /\ Len(f) = Len(c) + Len(w)
        /\ \A i \in 1..(Len(c) + Len(w)) :
              f[i] = IF i <= Len(c) THEN c[i] ELSE w[i - Len(c)]
    BY <1>1, <1>2, ConcatProperties
  <2>2. QED
    BY <2>1, <1>1, <1>2
<1>6. f[1] = <<"cold", 1>>
  BY <1>1, <1>5, PolicyAssumption
<1>7. \A i \in 2..(1 + Warmup) : f[i] = <<"warmup", i - 1>>
  <2>1. TAKE i \in 2..(1 + Warmup)
  <2>2. f[i] = w[i - 1] /\ i - 1 \in 1..Warmup
    BY <1>5, PolicyAssumption
  <2>3. QED
    BY <2>2, <1>2
<1> HIDE DEF f
<1>8. /\ Plan \in Seq(Items) /\ Len(Plan) = 1 + Warmup + Steady
      /\ \A i \in 1..(1 + Warmup + Steady) :
            Plan[i] = IF i <= 1 + Warmup THEN f[i] ELSE s[i - (1 + Warmup)]
  <2>1. /\ Plan \in Seq(Items) /\ Len(Plan) = Len(f) + Len(s)
        /\ \A i \in 1..(Len(f) + Len(s)) :
              Plan[i] = IF i <= Len(f) THEN f[i] ELSE s[i - Len(f)]
    BY <1>3, <1>4, <1>5, ConcatProperties
  <2>2. QED
    BY <2>1, <1>3, <1>5, PolicyAssumption
<1>9. Plan[1] = <<"cold", 1>>
  BY <1>6, <1>8, PolicyAssumption
<1>10. \A i \in 2..(1 + Warmup) : Plan[i] = <<"warmup", i - 1>>
  BY <1>7, <1>8, PolicyAssumption
<1>11. \A i \in (2 + Warmup)..(1 + Warmup + Steady) :
          Plan[i] = <<"steady", i - 1 - Warmup>>
  <2>1. TAKE i \in (2 + Warmup)..(1 + Warmup + Steady)
  <2>2. /\ Plan[i] = s[i - (1 + Warmup)] /\ i - (1 + Warmup) \in 1..Steady
        /\ i - (1 + Warmup) = i - 1 - Warmup
    BY <1>8, PolicyAssumption
  <2>3. QED
    BY <2>2, <1>3
<1>12. QED
  BY <1>8, <1>9, <1>10, <1>11

(* More samples take more calls, a sample at a time.                       *)
LEMMA CallsGrow ==
    /\ \A k \in Nat : k * Calls \in Nat /\ (k + 1) * Calls = k * Calls + Calls
    /\ \A k, m \in Nat : k <= m => k * Calls <= m * Calls
<1>1. Calls \in Nat
  BY PolicyAssumption
<1>2. ASSUME NEW k \in Nat
      PROVE  k * Calls \in Nat /\ (k + 1) * Calls = k * Calls + Calls
  BY <1>1
<1>3. ASSUME NEW k \in Nat, NEW m \in Nat, k <= m
      PROVE  k * Calls <= m * Calls
  <2>1. PICK d \in Nat : m = k + d
    <3>1. m - k \in Nat /\ m = k + (m - k)
      BY <1>3
    <3>2. QED
      BY <3>1
  <2>2. m * Calls = k * Calls + d * Calls /\ d * Calls \in Nat /\ k * Calls \in Nat
    BY <2>1, <1>1
  <2>3. QED
    BY <2>2
<1>4. QED
  BY <1>2, <1>3

(* A sample takes its quota of calls, and there is room for all of them.    *)
LEMMA CallsBeforeFacts ==
    ASSUME NEW n \in 1..Len(Plan)
    PROVE  /\ CallsBefore(n) \in Nat /\ Quota(n) \in Nat /\ 1 <= Quota(n)
           /\ Quota(n) <= Calls
           /\ CallsBefore(n + 1) = CallsBefore(n) + Quota(n)
           /\ CallsBefore(n + 1) <= 1 + (Warmup + Steady) * Calls
           /\ (CallsBefore(n) = 0) = (n = 1)
<1>1. CASE n = 1
  <2>1. Warmup + Steady \in Nat /\ (Warmup + Steady) * Calls \in Nat
    BY PolicyAssumption, CallsGrow
  <2>2. CallsBefore(2) = 1
    BY PolicyAssumption DEF CallsBefore
  <2>3. QED
    BY <1>1, <2>1, <2>2, PolicyAssumption DEF CallsBefore, Quota
<1>2. CASE n # 1
  <2>1. n - 2 \in Nat /\ n - 1 \in Nat /\ n - 1 <= Warmup + Steady /\ n \in Nat
    BY <1>2, PlanFacts, PolicyAssumption
  <2>2. (n - 1) * Calls = (n - 2) * Calls + Calls /\ (n - 2) * Calls \in Nat
    <3>1. (n - 2) + 1 = n - 1
      BY <2>1
    <3>2. QED
      BY <2>1, <3>1, CallsGrow
  <2>3. (n - 1) * Calls <= (Warmup + Steady) * Calls
    BY <2>1, CallsGrow, PolicyAssumption
  <2>4. CallsBefore(n) = 1 + (n - 2) * Calls /\ CallsBefore(n + 1) = 1 + (n - 1) * Calls
    <3>1. n + 1 # 1 /\ (n + 1) - 2 = n - 1
      BY <2>1
    <3>2. QED
      BY <1>2, <3>1 DEF CallsBefore
  <2>5. Quota(n) = Calls /\ Calls \in Nat /\ Calls >= 1
    BY <1>2, PolicyAssumption DEF Quota
  <2> HIDE DEF CallsBefore
  <2>6. (Warmup + Steady) * Calls \in Nat /\ (n - 1) * Calls \in Nat
    BY CallsGrow, <2>1, PolicyAssumption
  <2>7. QED
    BY <1>2, <2>2, <2>3, <2>4, <2>5, <2>6
<1>3. QED
  BY <1>1, <1>2

(* A sequence of one line. *)
LEMMA One ==
    ASSUME NEW S, NEW x \in S
    PROVE  <<x>> \in Seq(S) /\ Len(<<x>>) = 1 /\ <<x>>[1] = x
OBVIOUS

(* A call without events records four lines, an event two. *)
LEMMA Four ==
    ASSUME NEW S, NEW w \in S, NEW x \in S, NEW y \in S, NEW z \in S
    PROVE  <<w, x, y, z>> \in Seq(S) /\ Len(<<w, x, y, z>>) = 4
OBVIOUS

(* The two lines of an event. *)
LEMMA TwoLines ==
    ASSUME NEW S, NEW x \in S, NEW y \in S
    PROVE  /\ <<x, y>> \in Seq(S) /\ Len(<<x, y>>) = 2
           /\ <<x, y>>[1] = x /\ <<x, y>>[2] = y
OBVIOUS

(* What is printed is a line of the output.                                *)
LEMMA LineTypes ==
    /\ \A m \in Texts : Mark(m) \in Lines
    /\ Broken \in Lines
    /\ Declared \in Seq(Lines) /\ Len(Declared) = 4
    /\ \A i \in 1..4 : Declared[i].kind \in {"setup", "calls", "declared"}
    /\ \A r \in Results : Line("result", r, 0) \in Lines
    /\ \A i \in 1..Len(Plan) : Line("sample", Plan[i][1], Plan[i][2]) \in Lines
<1>1. \A m \in Texts : Mark(m) \in Lines
  BY DEF Mark, Line, Lines
<1>2. Broken \in Lines
  BY DEF Broken, Line, Lines, Texts
<1>3. /\ Line("setup", "", 0) \in Lines /\ Line("calls", "", Calls) \in Lines
      /\ Line("declared", "warmup", Warmup) \in Lines
      /\ Line("declared", "steady", Steady) \in Lines
  BY PolicyAssumption DEF Line, Lines, Texts
<1>4. Declared \in Seq(Lines) /\ Len(Declared) = 4
  BY <1>3, Four DEF Declared
<1>5. \A i \in 1..4 : Declared[i].kind \in {"setup", "calls", "declared"}
  <2>1. TAKE i \in 1..4
  <2>2. CASE i = 1
    BY <2>2 DEF Declared, Line
  <2>3. CASE i = 2
    BY <2>3 DEF Declared, Line
  <2>4. CASE i = 3
    BY <2>4 DEF Declared, Line
  <2>5. CASE i = 4
    BY <2>5 DEF Declared, Line
  <2>6. QED
    BY <2>2, <2>3, <2>4, <2>5
<1>6. \A r \in Results : Line("result", r, 0) \in Lines
  <2>1. \A r \in Results : r \in Texts
    BY DEF Texts
  <2>2. QED
    BY <2>1 DEF Line, Lines
<1>7. \A i \in 1..Len(Plan) : Line("sample", Plan[i][1], Plan[i][2]) \in Lines
  <2>1. TAKE i \in 1..Len(Plan)
  <2>2. Plan[i] \in Items
    BY PlanFacts
  <2>3. Plan[i][1] \in Texts /\ Plan[i][2] \in Nat
    BY <2>2 DEF Items, Texts
  <2>4. QED
    BY <2>3 DEF Line, Lines
<1>8. QED
  BY <1>1, <1>2, <1>4, <1>5, <1>6, <1>7

(* An output to which lines were appended, some of them perhaps broken.    *)
Appended(after, before, lines) ==
    /\ after \in Seq(Lines) /\ Len(after) = Len(before) + Len(lines)
    /\ \A i \in 1..Len(before) : after[i] = before[i]
    /\ \A i \in 1..Len(lines) :
          \/ after[Len(before) + i] = lines[i]
          \/ Noisy /\ after[Len(before) + i] = Broken

(* The same, with none of them broken.                                     *)
Exactly(after, before, lines) ==
    /\ after \in Seq(Lines) /\ Len(after) = Len(before) + Len(lines)
    /\ \A i \in 1..Len(before) : after[i] = before[i]
    /\ \A i \in 1..Len(lines) : after[Len(before) + i] = lines[i]

(* To append lines to the file is to append exactly those.                  *)
LEMMA ConcatAppends ==
    ASSUME NEW before \in Seq(Lines), NEW lines \in Seq(Lines)
    PROVE  /\ Appended(before \o lines, before, lines)
           /\ Exactly(before \o lines, before, lines)
<1>1. /\ before \o lines \in Seq(Lines)
      /\ Len(before \o lines) = Len(before) + Len(lines)
      /\ \A i \in 1..(Len(before) + Len(lines)) :
            (before \o lines)[i] = IF i <= Len(before) THEN before[i]
                                   ELSE lines[i - Len(before)]
  BY ConcatProperties
<1>2. Len(before) \in Nat /\ Len(lines) \in Nat
  OBVIOUS
<1> DEFINE all == before \o lines
<1> HIDE DEF all
<1>3. \A i \in 1..Len(before) : all[i] = before[i]
  BY <1>1, <1>2 DEF all
<1>4. \A i \in 1..Len(lines) : all[Len(before) + i] = lines[i]
  BY <1>1, <1>2 DEF all
<1>5. QED
  BY <1>1, <1>3, <1>4 DEF Appended, Exactly, all

(* What Emit() prints is appended, lines of it perhaps broken.              *)
LEMMA EmitAppends ==
    ASSUME TypeOK, NEW lines \in Seq(Lines), Emit(lines)
    PROVE  Appended(out', out, lines)
<1>1. out \in Seq(Lines)
  BY DEF TypeOK
<1>2. PICK lost \in SUBSET DOMAIN lines :
        /\ lost # {} => Noisy
        /\ out' = out \o [i \in DOMAIN lines |-> IF i \in lost THEN Broken ELSE lines[i]]
  BY DEF Emit
<1> DEFINE b == [i \in DOMAIN lines |-> IF i \in lost THEN Broken ELSE lines[i]]
<1>3. DOMAIN lines = 1..Len(lines) /\ Len(lines) \in Nat
      /\ \A i \in 1..Len(lines) : lines[i] \in Lines
  OBVIOUS
<1>4. b \in [1..Len(lines) -> Lines]
  BY <1>3, LineTypes
<1>5. b \in Seq(Lines) /\ Len(b) = Len(lines)
  BY <1>3, <1>4, SeqDef, LenProperties
<1>6. \A i \in 1..Len(lines) : b[i] = lines[i] \/ (Noisy /\ b[i] = Broken)
  BY <1>2, <1>3
<1>7. out' = out \o b
  BY <1>2
<1> HIDE DEF b
<1>8. Appended(out', out, b)
  BY <1>1, <1>5, <1>7, ConcatAppends
<1>9. QED
  BY <1>5, <1>6, <1>8 DEF Appended

(* Where Write() puts its lines: writeLine() of the engine.                 *)
LEMMA WriteAppends ==
    ASSUME TypeOK, NEW lines \in Seq(Lines), Write(lines)
    PROVE  \/ Diagnostic /\ Appended(file', file, lines)
              /\ Exactly(file', file, lines) /\ out' = out
           \/ ~Diagnostic /\ Appended(out', out, lines) /\ file' = file
<1>1. file \in Seq(Lines)
  BY DEF TypeOK
<1>2. CASE Diagnostic
  BY <1>1, <1>2, ConcatAppends DEF Write, Sink
<1>3. CASE ~Diagnostic
  BY <1>3, EmitAppends DEF Write, Sink
<1>4. QED
  BY <1>2, <1>3

(* The initial states are well typed.                                      *)
LEMMA InitType == Init => TypeOK
<1> SUFFICES ASSUME Init PROVE TypeOK
  OBVIOUS
<1>1. InitialMask \in {Narrow, Wide}
  BY DEF InitialMask
<1>2. threads \in [Threads -> {None} \cup Tasks]
  <2> DEFINE born == {[role |-> r, mask |-> InitialMask] : r \in {"compiler", "auxiliary"}}
  <2>1. ASSUME NEW r \in {"compiler", "auxiliary"}
        PROVE  [role |-> r, mask |-> InitialMask] \in Tasks
    BY <1>1 DEF Tasks
  <2>2. born \subseteq Tasks
    BY <2>1
  <2>3. threads \in [Threads -> {None} \cup born]
    BY DEF Init
  <2> HIDE DEF born
  <2>4. QED
    BY <2>2, <2>3
<1>3. /\ Len(Plan) \in Nat /\ Len(Plan) >= 1
      /\ 1 + (Warmup + Steady) * Calls \in Nat
  <2> DEFINE steady == (Warmup + Steady) * Calls
  <2>1. steady \in Nat
    BY CallsGrow, PolicyAssumption
  <2> HIDE DEF steady
  <2>2. 1 + steady \in Nat
    BY <2>1
  <2>3. Len(Plan) \in Nat /\ Len(Plan) >= 1
    BY PlanFacts, PolicyAssumption
  <2>4. QED
    BY <2>2, <2>3 DEF steady
<1>4. /\ <<>> \in Seq(Lines) /\ <<>> \in Seq(Windows)
  BY EmptySeq
<1>5. /\ job \in Jobs /\ pc \in Preparing /\ at = 1 /\ done = 0
      /\ expected = None /\ returned = {} /\ made = 0 /\ out = <<>> /\ file = <<>>
      /\ recorded = None /\ clock = 0 /\ windows = <<>>
      /\ listed = {} /\ since = {} /\ code = None /\ events = {}
  BY DEF Init, Preparing
<1>6. at \in 1..(Len(Plan) + 1) /\ done \in 0..Calls /\ clock \in 0..MaxClock
      /\ made \in 0..(1 + (Warmup + Steady) * Calls)
  BY <1>3, <1>5, PolicyAssumption, NoneAssumption
<1>7. QED
  BY <1>2, <1>4, <1>5, <1>6 DEF TypeOK

(* What the type invariant says of the state that only the engine's own
   progress changes. *)
LEMMA TypeFacts ==
    ASSUME TypeOK
    PROVE  /\ job \in JobSet
           /\ Len(Plan) \in Nat /\ Len(Plan) >= 2 /\ Len(Plan) = 1 + Warmup + Steady
           /\ Warmup \in Nat /\ Steady \in Nat /\ Steady >= 1
           /\ Calls \in Nat /\ Calls >= 1 /\ MaxClock \in Nat
           /\ at \in Nat /\ 1 <= at /\ at <= Len(Plan) + 1
           /\ done \in Nat /\ done <= Calls /\ made \in Nat
           /\ clock \in Nat /\ clock <= MaxClock
           /\ Len(windows) \in Nat /\ DOMAIN windows = 1..Len(windows)
           /\ \A i \in 1..Len(windows) :
                 /\ windows[i] \in Windows
                 /\ windows[i].start \in Nat /\ windows[i].end \in Int
<1>1. /\ Len(Plan) \in Nat /\ Len(Plan) >= 2 /\ Len(Plan) = 1 + Warmup + Steady
      /\ Warmup \in Nat /\ Steady \in Nat /\ Steady >= 1
      /\ Calls \in Nat /\ Calls >= 1 /\ MaxClock \in Nat
  BY PolicyAssumption, NoneAssumption, PlanFacts
<1>2. /\ job \in JobSet /\ at \in 1..(Len(Plan) + 1) /\ done \in 0..Calls
      /\ made \in 0..(1 + (Warmup + Steady) * Calls) /\ clock \in 0..MaxClock
      /\ windows \in Seq(Windows)
  BY JobAssumption DEF TypeOK
<1>3. Len(windows) \in Nat /\ DOMAIN windows = 1..Len(windows)
  BY <1>2
<1>4. \A i \in 1..Len(windows) : windows[i] \in Windows
  BY <1>2
<1>5. \A w \in Windows : w.start \in Nat /\ w.end \in Int
  BY <1>1 DEF Windows
<1>6. made \in Nat
  BY <1>2
<1>7. /\ at \in Nat /\ 1 <= at /\ at <= Len(Plan) + 1
      /\ done \in Nat /\ done <= Calls /\ clock \in Nat /\ clock <= MaxClock
  BY <1>1, <1>2
<1>8. QED
  BY <1>1, <1>2, <1>3, <1>4, <1>5, <1>6, <1>7

(* A short report of the engine.                                           *)
LEMMA Reported ==
    /\ \A m \in Texts : <<Mark(m)>> \in Seq(Lines) /\ Len(<<Mark(m)>>) = 1
    /\ \A m, n \in Texts : /\ <<Mark(m), Mark(n)>> \in Seq(Lines)
                           /\ Len(<<Mark(m), Mark(n)>>) = 2
    /\ \A r \in Results : /\ <<Line("result", r, 0)>> \in Seq(Lines)
                          /\ Len(<<Line("result", r, 0)>>) = 1
                          /\ <<Line("result", r, 0)>>[1] = Line("result", r, 0)
    /\ \A i \in 1..Len(Plan) :
          LET l == Line("sample", Plan[i][1], Plan[i][2])
          IN  <<l>> \in Seq(Lines) /\ Len(<<l>>) = 1 /\ <<l>>[1] = l
    /\ \A r \in Results :
          LET l == <<Mark("jfr_scope")>> \o <<Line("result", r, 0)>>
          IN  /\ l \in Seq(Lines) /\ Len(l) = 2 /\ l[1] = Mark("jfr_scope")
              /\ l[2] = Line("result", r, 0)
<1>1. \A r \in Results :
        LET l == <<Mark("jfr_scope")>> \o <<Line("result", r, 0)>>
        IN  /\ l \in Seq(Lines) /\ Len(l) = 2 /\ l[1] = Mark("jfr_scope")
            /\ l[2] = Line("result", r, 0)
  <2>1. TAKE r \in Results
  <2> DEFINE a == Mark("jfr_scope")
             b == Line("result", r, 0)
  <2>2. a \in Lines /\ b \in Lines
    BY LineTypes DEF Texts
  <2> HIDE DEF a, b
  <2>3. /\ <<a>> \in Seq(Lines) /\ <<b>> \in Seq(Lines)
        /\ Len(<<a>>) = 1 /\ Len(<<b>>) = 1 /\ <<a>>[1] = a /\ <<b>>[1] = b
    BY <2>2, One
  <2> DEFINE l == <<a>> \o <<b>>
  <2>4. /\ l \in Seq(Lines) /\ Len(l) = Len(<<a>>) + Len(<<b>>)
        /\ \A i \in 1..(Len(<<a>>) + Len(<<b>>)) :
              l[i] = IF i <= Len(<<a>>) THEN <<a>>[i] ELSE <<b>>[i - Len(<<a>>)]
    BY <2>3, ConcatProperties
  <2> HIDE DEF l
  <2>5. l \in Seq(Lines) /\ Len(l) = 2 /\ l[1] = a /\ l[2] = b
    BY <2>3, <2>4
  <2>6. QED
    BY <2>5 DEF a, b, l
<1>2. \A m, n \in Texts : /\ <<Mark(m), Mark(n)>> \in Seq(Lines)
                          /\ Len(<<Mark(m), Mark(n)>>) = 2
  BY LineTypes, TwoLines
<1>3. QED
  BY <1>1, <1>2, LineTypes, One

(* The marks that the engine prints are texts.                              *)
LEMMA MarkTexts == {"initial", "pinned", "before", "after", "diagnostic_mode",
                    "diagnostic_jfr_scope", "jfr_scope"} \subseteq Texts
BY DEF Texts

(* To change the last element of a sequence leaves a sequence.              *)
LEMMA SeqUpdate ==
    ASSUME NEW S, NEW s \in Seq(S), NEW e, Len(s) > 0 => e \in S
    PROVE  /\ [s EXCEPT ![Len(s)] = e] \in Seq(S)
           /\ DOMAIN [s EXCEPT ![Len(s)] = e] = 1..Len(s)
           /\ Len([s EXCEPT ![Len(s)] = e]) = Len(s)
           /\ \A i \in 1..Len(s) :
                 [s EXCEPT ![Len(s)] = e][i] = IF i = Len(s) THEN e ELSE s[i]
<1> DEFINE t == [s EXCEPT ![Len(s)] = e]
<1>1. t \in [1..Len(s) -> S] /\ Len(s) \in Nat
  <2>1. /\ s \in [1..Len(s) -> S] /\ Len(s) \in Nat /\ DOMAIN s = 1..Len(s)
        /\ \A i \in 1..Len(s) : s[i] \in S
    BY LenProperties
  <2>2. t = [i \in 1..Len(s) |-> IF i = Len(s) THEN e ELSE s[i]]
    BY <2>1
  <2>3. ASSUME NEW i \in 1..Len(s) PROVE (IF i = Len(s) THEN e ELSE s[i]) \in S
    <3>1. Len(s) > 0
      BY <2>1
    <3>2. QED
      BY <2>1, <3>1
  <2>4. QED
    BY <2>1, <2>2, <2>3
<1>2. t \in Seq(S)
  BY <1>1, SeqDef
<1>3. DOMAIN t = 1..Len(s) /\ Len(t) = Len(s)
  BY <1>1, <1>2, LenProperties
<1>4. \A i \in 1..Len(s) : t[i] = IF i = Len(s) THEN e ELSE s[i]
  BY <1>1
<1>5. QED
  BY <1>2, <1>3, <1>4

(* There is room for a call.                                               *)
LEMMA MadeBound == /\ 1 + (Warmup + Steady) * Calls \in Nat
                   /\ 1 \in 0..(1 + (Warmup + Steady) * Calls)
<1> DEFINE steady == (Warmup + Steady) * Calls
<1>1. steady \in Nat
  BY CallsGrow, PolicyAssumption
<1> HIDE DEF steady
<1>2. 1 + steady \in Nat /\ 1 \in 0..(1 + steady)
  BY <1>1
<1>3. QED
  BY <1>2 DEF steady

(* After the last sample there is a result, the expected one.              *)
LEMMA ResultKnown ==
    ASSUME TypeOK, CallsInv, AtWork, at > 1
    PROVE  returned = {expected} /\ expected \in Results
<1>1. made = CallsBefore(at) + (IF pc = "calling" THEN done ELSE 0)
  BY DEF CallsInv
<1>2. at - 1 \in 1..Len(Plan) /\ at = (at - 1) + 1 /\ done \in Nat
  BY TypeFacts
<1>3. CallsBefore(at) >= 1 /\ CallsBefore(at) \in Nat
  BY <1>2, CallsBeforeFacts
<1>4. made # 0
  BY <1>1, <1>2, <1>3
<1>5. returned = {expected}
  BY <1>4 DEF CallsInv
<1>6. QED
  BY <1>5 DEF TypeOK

(* Every step leaves the state well typed.                                 *)
LEMMA NextType == TypeOK /\ CallsInv /\ [Next]_vars => TypeOK'
<1> SUFFICES ASSUME TypeOK, CallsInv, [Next]_vars PROVE TypeOK'
  OBVIOUS
<1> USE DEF Exit, Goto, Preparing, Finishing, calls, timeline, affinity
<1>0. /\ Len(Plan) \in Nat /\ Len(Plan) >= 2 /\ Calls \in Nat /\ MaxClock \in Nat
      /\ at \in Nat /\ 1 <= at /\ at <= Len(Plan) + 1
      /\ done \in Nat /\ done <= Calls /\ made \in Nat
      /\ clock \in Nat /\ clock <= MaxClock
  BY TypeFacts
<1>1. CASE Correctness
  <2>1. out' \in Seq(Lines) /\ returned' \subseteq Results /\ expected' \in Results
    BY <1>1, Reported DEF Correctness
  <2>2. made' \in 0..(1 + (Warmup + Steady) * Calls)
    BY <1>1, MadeBound DEF Correctness
  <2>3. QED
    BY <1>1, <2>1, <2>2 DEF Correctness, TypeOK, Alive
<1>2. CASE StartTiming
  <2>1. out' \in Seq(Lines)
    BY <1>2, EmitAppends, LineTypes DEF StartTiming, Appended
  <2>2. QED
    BY <1>2, <2>1 DEF StartTiming, TypeOK, Alive
<1>3. CASE StartDiagnostic
  BY <1>3 DEF StartDiagnostic, TypeOK, Alive
<1>4. CASE Pin
  <2>1. out' \in Seq(Lines)
    BY <1>4, EmitAppends, Reported, MarkTexts DEF Pin, Appended
  <2>2. QED
    BY <1>4, <2>1 DEF Pin, TypeOK, Alive
<1>5. CASE List
  BY <1>5 DEF List, TypeOK, Alive
<1>6. CASE Verify
  <2>1. out' \in Seq(Lines)
    <3>1. CASE \E m \in {"before", "after"} : Emit(<<Mark(m)>>)
      BY <3>1, EmitAppends, Reported, MarkTexts DEF Appended
    <3>2. QED
      BY <1>6, <3>1 DEF Verify, TypeOK
  <2>2. QED
    BY <1>6, <2>1 DEF Verify, TypeOK, Alive
<1>7. CASE Open
  <2>1. out' \in Seq(Lines) /\ file' \in Seq(Lines)
    BY <1>7, WriteAppends, LineTypes DEF Open, Appended, TypeOK
  <2>2. QED
    BY <1>7, <2>1 DEF Open, TypeOK, Alive
<1>8. CASE StartSampler
  <2>1. out' \in Seq(Lines)
    BY <1>8, EmitAppends, Reported, MarkTexts DEF StartSampler, Appended
  <2>2. QED
    BY <1>8, <2>1 DEF StartSampler, TypeOK, Alive
<1>9. CASE Begin
  <2>1. clock' \in 0..MaxClock /\ windows' \in Seq(Windows)
    <3>1. CASE job.jit
      <4>1. clock' \in 0..MaxClock
        BY <1>0, <1>9, <3>1 DEF Begin, Ticks
      <4>2. [sample |-> Plan[at], calls |-> 0, start |-> clock', end |-> -1] \in Windows
        <5>1. clock' \in 0..MaxClock /\ -1 \in -1..MaxClock /\ 0 \in 0..Calls
          BY <1>0, <4>1
        <5>2. Plan[at] \in {Plan[i] : i \in 1..Len(Plan)}
          BY <1>0, <1>9 DEF Begin
        <5>3. QED
          BY <5>1, <5>2 DEF Windows
      <4>3. windows' = Append(windows, [sample |-> Plan[at], calls |-> 0,
                                        start |-> clock', end |-> -1])
        BY <1>9, <3>1 DEF Begin
      <4>4. windows' \in Seq(Windows)
        BY <4>2, <4>3, AppendProperties DEF TypeOK
      <4>5. QED
        BY <4>1, <4>4
    <3>2. CASE ~job.jit
      BY <1>9, <3>2 DEF Begin, TypeOK
    <3>3. QED
      BY <3>1, <3>2
  <2>2. events' \subseteq JvmEvents
    <3>1. at \in 1..Len(Plan)
      BY <1>0, <1>9 DEF Begin
    <3>2. \A e \in JvmEvents : [e EXCEPT !.during = @ \cup {at}] \in JvmEvents
      BY <3>1 DEF JvmEvents
    <3>3. QED
      BY <1>9, <3>2 DEF Begin, TypeOK
  <2>3. recorded' \in {None} \cup SUBSET (1..Len(Plan)) /\ done' \in 0..Calls
    BY <1>0, <1>9 DEF Begin, TypeOK
  <2>4. /\ UNCHANGED <<job, at, expected, returned, made, out, file, affinity, code>>
        /\ pc' = "calling"
    BY <1>9 DEF Begin
  <2>5. QED
    BY <1>0, <2>1, <2>2, <2>3, <2>4 DEF TypeOK, Alive
<1>10. CASE Call
  <2>1. at \in 1..Len(Plan) /\ done < Quota(at) /\ made = CallsBefore(at) + done
    BY <1>0, <1>10 DEF Call, CallsInv, AtWork
  <2>2. /\ CallsBefore(at) + Quota(at) <= 1 + (Warmup + Steady) * Calls
        /\ Quota(at) \in Nat /\ Quota(at) <= Calls /\ CallsBefore(at) \in Nat
    BY <2>1, CallsBeforeFacts
  <2>3. made' \in 0..(1 + (Warmup + Steady) * Calls)
    <3> DEFINE all == 1 + (Warmup + Steady) * Calls
    <3>1. all \in Nat /\ CallsBefore(at) + Quota(at) <= all
      BY <2>2, MadeBound
    <3> HIDE DEF all
    <3>2. made' = made + 1
      BY <1>10 DEF Call
    <3>3. made' \in 0..all
      BY <1>0, <2>1, <2>2, <3>1, <3>2
    <3>4. QED
      BY <3>3 DEF all
  <2>4. done' \in 0..Calls
    BY <1>0, <1>10, <2>1, <2>2 DEF Call
  <2>5. /\ returned' \subseteq Results /\ expected' \in Results \cup {None}
        /\ recorded' \in {None} \cup SUBSET (1..Len(Plan))
    BY <1>10, <2>1 DEF Call, TypeOK
  <2>6. pc' \in {"calling", "exited"} /\ code' \in {None, 0, 1}
    BY <1>10 DEF Call, TypeOK
  <2>7. QED
    BY <1>10, <2>3, <2>4, <2>5, <2>6 DEF Call, TypeOK, Alive
<1>11. CASE End
  <2>1. at \in 1..Len(Plan)
    BY <1>0, <1>11 DEF End, CallsInv, AtWork
  <2>2. out' \in Seq(Lines) /\ file' \in Seq(Lines)
    <3>1. <<Line("sample", Plan[at][1], Plan[at][2])>> \in Seq(Lines)
      BY <2>1, Reported
    <3>2. QED
      BY <1>11, <3>1, WriteAppends DEF End, Appended, TypeOK
  <2>3. clock' \in 0..MaxClock /\ windows' \in Seq(Windows)
    <3>1. CASE job.jit
      <4>1. clock' \in 0..MaxClock
        BY <1>0, <1>11, <3>1 DEF End, Ticks
      <4>2. \A w \in Windows : [w EXCEPT !.calls = done, !.end = clock'] \in Windows
        <5>1. clock' \in -1..MaxClock /\ done \in 0..Calls
          BY <1>0, <4>1
        <5>2. QED
          BY <5>1 DEF Windows
      <4>3. windows' = [windows EXCEPT ![Len(windows)] =
                            [@ EXCEPT !.calls = done, !.end = clock']]
        BY <1>11, <3>1 DEF End
      <4>4. windows' \in Seq(Windows)
        <5> DEFINE last == windows[Len(windows)]
                   closed == [last EXCEPT !.calls = done, !.end = clock']
        <5>1. Len(windows) > 0 => last \in Windows
          BY TypeFacts
        <5>2. Len(windows) > 0 => closed \in Windows
          BY <4>2, <5>1
        <5>3. windows' = [windows EXCEPT ![Len(windows)] = closed]
          BY <4>3
        <5> HIDE DEF closed
        <5>4. QED
          BY <5>2, <5>3, SeqUpdate DEF TypeOK
      <4>5. QED
        BY <4>1, <4>4
    <3>2. CASE ~job.jit
      BY <1>11, <3>2 DEF End, TypeOK
    <3>3. QED
      BY <3>1, <3>2
  <2>4. at' \in 1..(Len(Plan) + 1)
    BY <1>0, <1>11, <2>1 DEF End
  <2>5. QED
    BY <1>11, <2>2, <2>3, <2>4 DEF End, TypeOK, Alive
<1>12. CASE FinishTiming
  <2>1. expected \in Results
    BY <1>0, <1>12, ResultKnown DEF FinishTiming, AtWork
  <2>2. out' \in Seq(Lines)
    <3> DEFINE l == (IF job.jfr THEN <<Mark("jfr_scope")>> ELSE <<>>)
                      \o <<Line("result", expected, 0)>>
    <3>1. l \in Seq(Lines)
      <4>1. CASE job.jfr
        BY <2>1, <4>1, Reported
      <4>2. CASE ~job.jfr
        <5>1. <<Line("result", expected, 0)>> \in Seq(Lines)
          BY <2>1, Reported
        <5>2. QED
          BY <4>2, <5>1, ConcatEmptySeq
      <4>3. QED
        BY <4>1, <4>2
    <3>2. Emit(l)
      BY <1>12 DEF FinishTiming
    <3> HIDE DEF l
    <3>3. QED
      BY <3>1, <3>2, EmitAppends DEF Appended
  <2>3. QED
    BY <1>12, <2>2 DEF FinishTiming, TypeOK, Alive
<1>13. CASE FinishDiagnostic
  <2>1. expected \in Results
    BY <1>0, <1>13, ResultKnown DEF FinishDiagnostic, AtWork
  <2>2. out' \in Seq(Lines) /\ file' \in Seq(Lines)
    <3>1. <<Line("result", expected, 0)>> \in Seq(Lines)
      BY <2>1, Reported
    <3>2. QED
      BY <1>13, <3>1, WriteAppends DEF FinishDiagnostic, Appended, TypeOK
  <2>3. QED
    BY <1>13, <2>2 DEF FinishDiagnostic, TypeOK, Alive
<1>14. CASE StopDiagnostic
  <2>1. out' \in Seq(Lines)
    <3>1. CASE Emit(<<Mark("diagnostic_jfr_scope")>>)
      BY <3>1, EmitAppends, Reported, MarkTexts DEF Appended
    <3>2. QED
      BY <1>14, <3>1 DEF StopDiagnostic, TypeOK
  <2>2. QED
    BY <1>14, <2>1 DEF StopDiagnostic, TypeOK, Alive
<1>15. CASE Fail
  BY <1>15 DEF Fail, TypeOK, Alive
<1>16. CASE Spawn
  <2>1. PICK t \in Threads \ Alive, r \in {"compiler", "auxiliary"} :
          \E m \in {threads[u].mask : u \in Alive}
                   \cup {IF pc \in {"start", "pin"} THEN InitialMask ELSE Narrow} :
             threads' = [threads EXCEPT ![t] = [role |-> r, mask |-> m]]
    BY <1>16 DEF Spawn
  <2>2. PICK m \in {threads[u].mask : u \in Alive}
                   \cup {IF pc \in {"start", "pin"} THEN InitialMask ELSE Narrow} :
             threads' = [threads EXCEPT ![t] = [role |-> r, mask |-> m]]
    BY <2>1
  <2>3. \A u \in Alive : threads[u].mask \in {Narrow, Wide}
    BY DEF TypeOK, Alive, Tasks
  <2>4. m \in {Narrow, Wide}
    BY <2>3 DEF InitialMask
  <2>5. threads' \in [Threads -> {None} \cup Tasks]
    BY <2>2, <2>4 DEF TypeOK, Tasks
  <2>6. since \subseteq Alive'
    BY <2>1, <2>2, <2>5 DEF TypeOK, Alive
  <2>7. QED
    BY <1>16, <2>5, <2>6 DEF Spawn, TypeOK
<1>17. CASE Vanish
  BY <1>17 DEF Vanish, TypeOK, Alive
<1>18. CASE Deoptimize \/ EventBegins \/ EventEnds
  <2>1. clock' \in 0..MaxClock /\ -1 \in -1..MaxClock /\ clock' \in -1..MaxClock
    BY <1>0, <1>18 DEF Deoptimize, EventBegins, EventEnds, Happens, Ticks
  <2>2. events' \subseteq JvmEvents
    <3>1. CASE EventEnds
      <4>1. \A e \in JvmEvents : [e EXCEPT !.end = clock'] \in JvmEvents
        BY <2>1 DEF JvmEvents
      <4>2. QED
        BY <3>1, <4>1 DEF EventEnds, TypeOK
    <3>2. CASE Deoptimize \/ EventBegins
      <4>1. PICK end \in -1..MaxClock : Happens(end)
        BY <2>1, <3>2 DEF Deoptimize, EventBegins
      <4>2. pc = "calling" => at \in 1..Len(Plan)
        BY <1>0 DEF CallsInv, AtWork
      <4>3. [start |-> clock', end |-> end,
             during |-> IF pc = "calling" THEN {at} ELSE {}] \in JvmEvents
        BY <2>1, <4>2 DEF JvmEvents
      <4>4. QED
        BY <4>1, <4>3 DEF Happens
    <3>3. QED
      BY <1>18, <3>1, <3>2
  <2>3. QED
    BY <1>18, <2>1, <2>2 DEF Deoptimize, EventBegins, EventEnds, Happens, TypeOK, Alive
<1>19. CASE UNCHANGED vars
  BY <1>19 DEF vars, TypeOK, Alive
<1>20. QED
  BY <1>1, <1>2, <1>3, <1>4, <1>5, <1>6, <1>7, <1>8, <1>9, <1>10, <1>11, <1>12, <1>13, <1>14, <1>15, <1>16, <1>17, <1>18, <1>19 DEF Next

(* Every step keeps the count of the calls and their results.              *)
LEMMA NextCalls == TypeOK /\ CallsInv /\ [Next]_vars => CallsInv'
<1> SUFFICES ASSUME TypeOK, CallsInv, [Next]_vars PROVE CallsInv'
  OBVIOUS
<1> USE DEF Exit, Goto, Preparing, Finishing, calls, timeline, affinity, Diagnostic
<1>0. /\ job \in JobSet /\ Len(Plan) \in Nat /\ Len(Plan) >= 2
      /\ at \in Nat /\ 1 <= at /\ at <= Len(Plan) + 1
      /\ done \in Nat /\ done <= Calls /\ made \in Nat
      /\ code \in {None, 0, 1} /\ None \notin {0, 1}
  BY TypeFacts, NoneAssumption DEF TypeOK
<1>b. CallsBefore(1) = 0
  BY DEF CallsBefore
<1>1. CASE Correctness
  BY <1>0, <1>b, <1>1 DEF Correctness, CallsInv, AtWork, JobSet
<1>2. CASE StartTiming
  BY <1>0, <1>b, <1>2 DEF StartTiming, CallsInv, AtWork, JobSet
<1>3. CASE StartDiagnostic
  BY <1>0, <1>b, <1>3 DEF StartDiagnostic, CallsInv, AtWork, JobSet
<1>4. CASE Pin
  BY <1>0, <1>b, <1>4 DEF Pin, CallsInv, AtWork, JobSet
<1>5. CASE List
  BY <1>0, <1>b, <1>5 DEF List, CallsInv, AtWork, JobSet
<1>6. CASE Verify
  BY <1>0, <1>b, <1>6 DEF Verify, CallsInv, AtWork, JobSet
<1>7. CASE Open
  BY <1>0, <1>b, <1>7 DEF Open, CallsInv, AtWork, JobSet
<1>8. CASE StartSampler
  BY <1>0, <1>b, <1>8 DEF StartSampler, CallsInv, AtWork, JobSet
<1>9. CASE Begin
  <2>1. /\ pc = "begin" /\ pc' = "calling" /\ done' = 0 /\ at <= Len(Plan)
        /\ UNCHANGED <<job, at, expected, returned, made, code>>
    BY <1>9 DEF Begin
  <2>2. Quota(at) >= 0
    BY <1>0, <2>1, CallsBeforeFacts
  <2>3. made = CallsBefore(at) + 0
    BY <2>1 DEF CallsInv, AtWork
  <2>4. QED
    BY <1>0, <2>1, <2>2, <2>3 DEF CallsInv, AtWork
<1>10. CASE Call
  <2>1. at \in 1..Len(Plan) /\ done < Quota(at) /\ made = CallsBefore(at) + done
    BY <1>0, <1>10 DEF Call, CallsInv, AtWork
  <2>2. /\ CallsBefore(at) \in Nat /\ Quota(at) \in Nat
        /\ (CallsBefore(at) = 0) = (at = 1)
    BY <2>1, CallsBeforeFacts
  <2>3. made' = CallsBefore(at) + done' /\ done' <= Quota(at) /\ made' # 0
    BY <1>0, <1>10, <2>1, <2>2 DEF Call
  <2>4. at = 1 => made = 0
    BY <1>0, <2>1, <2>2 DEF Quota
  <2>5. IF made = 0 THEN returned = {} ELSE returned = {expected}
    BY <1>10 DEF Call, CallsInv, AtWork
  <2>6. at > 1 => returned = {expected}
    BY <1>0, <2>1, <2>2, <2>5
  <2>7. pc' = "calling" => returned' = {expected'}
    BY <1>0, <1>10, <2>4, <2>5, <2>6 DEF Call, Drifts
  <2>8. /\ job' = job /\ at' = at /\ job.mode # "correctness"
        /\ \/ pc' = "calling" /\ code' = None
           \/ pc' = "exited" /\ code' = 1
    BY <1>10 DEF Call, CallsInv
  <2>9. CASE pc' = "calling"
    BY <1>0, <2>1, <2>3, <2>7, <2>8, <2>9 DEF CallsInv, AtWork
  <2>10. CASE pc' = "exited"
    BY <1>0, <2>8, <2>10 DEF CallsInv, AtWork
  <2>11. QED
    BY <2>8, <2>9, <2>10
<1>11. CASE End
  <2>1. at \in 1..Len(Plan) /\ made = CallsBefore(at) + Quota(at)
    BY <1>0, <1>11 DEF End, CallsInv, AtWork
  <2>2. made' = CallsBefore(at')
    BY <1>11, <2>1, CallsBeforeFacts DEF End
  <2>3. IF made = 0 THEN returned = {} ELSE returned = {expected}
    BY <1>11 DEF End, CallsInv, AtWork
  <2>4. /\ pc' = "begin" /\ code' = code /\ code = None /\ job.mode # "correctness"
        /\ UNCHANGED <<job, returned, expected, made>>
    BY <1>11 DEF End, CallsInv
  <2>5. made' = made' + 0
    BY <1>0, <2>4
  <2>6. QED
    BY <2>2, <2>3, <2>4, <2>5 DEF CallsInv, AtWork
<1>12. CASE FinishTiming
  BY <1>0, <1>b, <1>12 DEF FinishTiming, CallsInv, AtWork, JobSet
<1>13. CASE FinishDiagnostic
  BY <1>0, <1>b, <1>13 DEF FinishDiagnostic, CallsInv, AtWork, JobSet
<1>14. CASE StopDiagnostic
  BY <1>0, <1>b, <1>14 DEF StopDiagnostic, CallsInv, AtWork, JobSet
<1>15. CASE Fail
  BY <1>0, <1>15 DEF Fail, CallsInv, AtWork
<1>16. CASE Spawn
  BY <1>0, <1>b, <1>16 DEF Spawn, CallsInv, AtWork, JobSet
<1>17. CASE Vanish
  BY <1>0, <1>b, <1>17 DEF Vanish, CallsInv, AtWork, JobSet
<1>18. CASE Deoptimize \/ EventBegins \/ EventEnds
  BY <1>0, <1>b, <1>18 DEF Deoptimize, EventBegins, EventEnds, Happens, CallsInv, AtWork, JobSet
<1>19. CASE UNCHANGED vars
  BY <1>19 DEF vars, CallsInv, AtWork
<1>20. QED
  BY <1>1, <1>2, <1>3, <1>4, <1>5, <1>6, <1>7, <1>8, <1>9, <1>10, <1>11, <1>12, <1>13, <1>14, <1>15, <1>16, <1>17, <1>18, <1>19 DEF Next

(* Without the compiler's lines nothing is broken.                         *)
LEMMA NothingBroken ==
    ASSUME NEW after, NEW before, NEW lines, Appended(after, before, lines), ~Noisy
    PROVE  Exactly(after, before, lines)
BY DEF Appended, Exactly

(* A line of a kind that is in the output after it was appended to, was there
   before or is one of the lines appended. *)
LEMMA KindsAfter ==
    ASSUME NEW after, NEW before \in Seq(Lines), NEW lines \in Seq(Lines),
           Appended(after, before, lines) \/ Exactly(after, before, lines),
           NEW kind, kind # "broken", NEW i \in Of(after, kind)
    PROVE  \/ i \in Of(before, kind) /\ after[i] = before[i]
           \/ \E j \in 1..Len(lines) : after[i] = lines[j] /\ lines[j].kind = kind
<1>1. /\ after \in Seq(Lines) /\ Len(after) = Len(before) + Len(lines)
      /\ \A k \in 1..Len(before) : after[k] = before[k]
      /\ \A k \in 1..Len(lines) : \/ after[Len(before) + k] = lines[k]
                                  \/ after[Len(before) + k] = Broken
      /\ Len(before) \in Nat /\ Len(lines) \in Nat
  BY DEF Appended, Exactly
<1>2. i \in 1..(Len(before) + Len(lines)) /\ after[i].kind = kind
  BY <1>1 DEF Of
<1>3. CASE i <= Len(before)
  <2>1. i \in 1..Len(before) /\ after[i] = before[i]
    BY <1>1, <1>2, <1>3
  <2>2. i \in Of(before, kind)
    BY <1>2, <2>1 DEF Of
  <2>3. QED
    BY <2>1, <2>2
<1>4. CASE i > Len(before)
  <2> DEFINE j == i - Len(before)
  <2>1. j \in 1..Len(lines) /\ i = Len(before) + j
    BY <1>1, <1>2, <1>4
  <2> HIDE DEF j
  <2>2. after[i] = lines[j] \/ after[i] = Broken
    BY <1>1, <2>1
  <2>3. Broken.kind = "broken"
    BY DEF Broken, Line
  <2>4. QED
    BY <1>2, <2>1, <2>2, <2>3
<1>5. QED
  BY <1>1, <1>2, <1>3, <1>4

(* A report stays one when something other than a sample follows it.       *)
LEMMA ReportsGrow ==
    ASSUME NEW after, NEW before \in Seq(Lines), NEW lines \in Seq(Lines),
           Exactly(after, before, lines), NEW n \in Nat, Reports(before, n),
           \A j \in 1..Len(lines) : lines[j].kind \in {"mark", "result"}
    PROVE  Reports(after, n)
<1>1. /\ Len(before) \in Nat /\ Len(lines) \in Nat /\ Len(before) >= 4 + n
      /\ Len(after) = Len(before) + Len(lines)
  BY DEF Exactly, Reports
<1>2. ASSUME NEW i \in 1..(4 + n) PROVE after[i] = before[i]
  BY <1>1 DEF Exactly
<1>3. ASSUME NEW i \in (5 + n)..Len(after) PROVE after[i].kind \in {"mark", "result"}
  <2>1. CASE i <= Len(before)
    <3>1. i \in (5 + n)..Len(before) /\ i \in 1..Len(before)
      BY <1>1, <2>1
    <3>2. after[i] = before[i]
      BY <3>1 DEF Exactly
    <3>3. QED
      BY <3>1, <3>2 DEF Reports
  <2>2. CASE i > Len(before)
    <3> DEFINE j == i - Len(before)
    <3>1. j \in 1..Len(lines) /\ i = Len(before) + j
      BY <1>1, <2>2
    <3> HIDE DEF j
    <3>2. QED
      BY <3>1 DEF Exactly
  <2>3. QED
    BY <1>1, <2>1, <2>2
<1>4. /\ \A i \in 1..4 : after[i] = Declared[i]
      /\ \A i \in 1..n : after[4 + i] = Line("sample", Plan[i][1], Plan[i][2])
  <2>1. \A i \in 1..4 : i \in 1..(4 + n)
    OBVIOUS
  <2>2. \A i \in 1..n : 4 + i \in 1..(4 + n)
    OBVIOUS
  <2>3. QED
    BY <1>2, <2>1, <2>2 DEF Reports
<1>5. QED
  BY <1>1, <1>3, <1>4 DEF Reports

(* The next sample of the plan makes it a report on one more.              *)
LEMMA ReportsNext ==
    ASSUME NEW after, NEW before \in Seq(Lines), NEW n \in Nat, Reports(before, n),
           Len(before) = 4 + n, NEW line \in Lines,
           line = Line("sample", Plan[n + 1][1], Plan[n + 1][2]),
           Exactly(after, before, <<line>>)
    PROVE  Reports(after, n + 1) /\ Len(after) = 5 + n
<1>1. Len(after) = 5 + n /\ after[5 + n] = line
  <2>1. Len(<<line>>) = 1 /\ <<line>>[1] = line
    OBVIOUS
  <2>2. Len(after) = Len(before) + 1 /\ after[Len(before) + 1] = line
    BY <2>1 DEF Exactly
  <2>3. QED
    BY <2>2
<1>2. \A i \in 1..(4 + n) : after[i] = before[i]
  BY DEF Exactly
<1>3. \A i \in 1..4 : after[i] = Declared[i]
  BY <1>2 DEF Reports
<1>4. ASSUME NEW i \in 1..(n + 1)
      PROVE  after[4 + i] = Line("sample", Plan[i][1], Plan[i][2])
  <2>1. CASE i = n + 1
    BY <1>1, <2>1
  <2>2. CASE i \in 1..n
    <3>1. 4 + i \in 1..(4 + n)
      BY <2>2
    <3>2. QED
      BY <1>2, <2>2, <3>1 DEF Reports
  <2>3. QED
    BY <2>1, <2>2
<1>5. QED
  BY <1>1, <1>3, <1>4 DEF Reports

(* The declarations are a report on no sample.                             *)
LEMMA ReportsNone ==
    ASSUME NEW after \in Seq(Lines), Len(after) = 4,
           \A i \in 1..4 : after[i] = Declared[i]
    PROVE  Reports(after, 0)
BY DEF Reports

(* No line of a kind was added to an output.                               *)
Keeps(after, before, kind) ==
    \A i \in Of(after, kind) : i \in Of(before, kind) /\ after[i] = before[i]

(* An output that did not change has no new lines.                          *)
LEMMA KeepsSame == \A lines, kind : Keeps(lines, lines, kind)
BY DEF Keeps

(* Lines of other kinds add none of this one.                               *)
LEMMA KeepsAppended ==
    ASSUME NEW after, NEW before \in Seq(Lines), NEW lines \in Seq(Lines),
           Appended(after, before, lines) \/ Exactly(after, before, lines),
           NEW kind, kind # "broken", \A j \in 1..Len(lines) : lines[j].kind # kind
    PROVE  Keeps(after, before, kind)
<1>1. ASSUME NEW i \in Of(after, kind)
      PROVE  i \in Of(before, kind) /\ after[i] = before[i]
  <2>1. \/ i \in Of(before, kind) /\ after[i] = before[i]
        \/ \E j \in 1..Len(lines) : after[i] = lines[j] /\ lines[j].kind = kind
    BY KindsAfter
  <2>2. QED
    BY <2>1
<1>2. QED
  BY <1>1 DEF Keeps

(* What kinds of lines the steps add.                                      *)
LEMMA Kinds ==
    /\ \A m : Mark(m).kind = "mark" /\ Mark(m).of = m
    /\ \A r : Line("result", r, 0).kind = "result" /\ Line("result", r, 0).of = r
    /\ \A x, n : Line("sample", x, n).kind = "sample"
    /\ \A i \in 1..Len(Declared) : Declared[i].kind \in {"setup", "calls", "declared"}
<1>1. \A m : Mark(m).kind = "mark" /\ Mark(m).of = m
  BY DEF Mark, Line
<1>2. \A r : Line("result", r, 0).kind = "result" /\ Line("result", r, 0).of = r
  BY DEF Line
<1>3. \A x, n : Line("sample", x, n).kind = "sample"
  BY DEF Line
<1>4. QED
  BY <1>1, <1>2, <1>3, LineTypes

(* A mark is no result.                                                     *)
LEMMA MarksKeep ==
    ASSUME TypeOK, NEW m \in Texts, Emit(<<Mark(m)>>)
    PROVE  Keeps(out', out, "result")
<1>1. <<Mark(m)>> \in Seq(Lines) /\ Len(<<Mark(m)>>) = 1 /\ <<Mark(m)>>[1] = Mark(m)
  BY Reported
<1>2. \A j \in 1..Len(<<Mark(m)>>) : <<Mark(m)>>[j].kind # "result"
  BY <1>1, Kinds
<1>3. QED
  BY <1>1, <1>2, EmitAppends, KeepsAppended DEF TypeOK

(* Two marks are no result.                                                 *)
LEMMA TwoMarksKeep ==
    ASSUME TypeOK, NEW m \in Texts, NEW n \in Texts, Emit(<<Mark(m), Mark(n)>>)
    PROVE  Keeps(out', out, "result")
<1> DEFINE l == <<Mark(m), Mark(n)>>
<1>1. l \in Seq(Lines) /\ Len(l) = 2 /\ l[1] = Mark(m) /\ l[2] = Mark(n)
  BY Reported
<1>2. Emit(l)
  OBVIOUS
<1> HIDE DEF l
<1>3. \A j \in 1..Len(l) : l[j].kind # "result"
  BY <1>1, Kinds
<1>4. QED
  BY <1>1, <1>2, <1>3, EmitAppends, KeepsAppended DEF TypeOK

(* A declaration or a sample is no result.                                  *)
LEMMA WriteKeeps ==
    ASSUME TypeOK, NEW lines \in Seq(Lines), Write(lines),
           \A j \in 1..Len(lines) : lines[j].kind # "result"
    PROVE  Keeps(out', out, "result") /\ Keeps(file', file, "result")
BY WriteAppends, KeepsAppended, KeepsSame DEF TypeOK

(* A step that adds no result, and does not return from the end.           *)
LEMMA ResultsKept ==
    ASSUME ResultsInv, expected' = expected,
           Keeps(out', out, "result"), Keeps(file', file, "result"),
           pc' # "exited" => pc # "exited",
           pc' \notin Finishing \cup {"exited"} => pc \notin Finishing \cup {"exited"}
    PROVE  ResultsInv'
<1>1. \A i \in Of(out, "result") \cup Of(file, "result") :
        /\ i \in Of(out, "result") => out[i].of = expected
        /\ i \in Of(file, "result") => file[i].of = expected
  BY DEF ResultsInv
<1>2. \A i \in Of(out', "result") : i \in Of(out, "result") /\ out'[i] = out[i]
  BY DEF Keeps
<1>3. \A i \in Of(file', "result") : i \in Of(file, "result") /\ file'[i] = file[i]
  BY DEF Keeps
<1>4. (pc # "exited" => Of(out, "result") = {})'
  BY <1>2 DEF ResultsInv
<1>5. (pc \notin Finishing \cup {"exited"} => Of(file, "result") = {})'
  BY <1>3 DEF ResultsInv, Finishing
<1>6. (\A i \in Of(out, "result") : out[i].of = expected)'
  BY <1>1, <1>2
<1>7. (\A i \in Of(file, "result") : file[i].of = expected)'
  BY <1>1, <1>3
<1>8. QED
  BY <1>4, <1>5, <1>6, <1>7 DEF ResultsInv

(* A result is reported at the end, and it is the expected one.            *)
LEMMA ResultsAdded ==
    ASSUME NEW after, NEW before \in Seq(Lines), NEW lines \in Seq(Lines),
           Appended(after, before, lines), Of(before, "result") = {},
           NEW r, \A j \in 1..Len(lines) : lines[j].kind = "result" => lines[j].of = r
    PROVE  \A i \in Of(after, "result") : after[i].of = r
BY KindsAfter

(* What a timing run prints last.                                          *)
LEMMA FinalLines ==
    ASSUME NEW r \in Results
    PROVE  LET l == (IF job.jfr THEN <<Mark("jfr_scope")>> ELSE <<>>)
                       \o <<Line("result", r, 0)>>
           IN  /\ l \in Seq(Lines)
               /\ \A j \in 1..Len(l) :
                     /\ l[j].kind \in {"mark", "result"}
                     /\ l[j].kind = "result" => l[j].of = r
                     /\ l[j].kind = "mark" => l[j].of = "jfr_scope"
               /\ Len(l) >= 1 /\ l[Len(l)] = Line("result", r, 0)
<1>1. CASE job.jfr
  <2> DEFINE l == <<Mark("jfr_scope")>> \o <<Line("result", r, 0)>>
  <2>1. /\ l \in Seq(Lines) /\ Len(l) = 2 /\ l[1] = Mark("jfr_scope")
        /\ l[2] = Line("result", r, 0)
    BY Reported
  <2> HIDE DEF l
  <2>2. /\ \A j \in 1..Len(l) :
              /\ l[j].kind \in {"mark", "result"}
              /\ l[j].kind = "result" => l[j].of = r
              /\ l[j].kind = "mark" => l[j].of = "jfr_scope"
        /\ l[Len(l)] = Line("result", r, 0)
    BY <2>1, Kinds
  <2>3. QED
    BY <1>1, <2>1, <2>2 DEF l
<1>2. CASE ~job.jfr
  <2> DEFINE l == <<Line("result", r, 0)>>
  <2>1. l \in Seq(Lines) /\ Len(l) = 1 /\ l[1] = Line("result", r, 0)
    BY Reported
  <2>2. <<>> \o l = l
    BY <2>1, ConcatEmptySeq
  <2> HIDE DEF l
  <2>3. /\ \A j \in 1..Len(l) :
              /\ l[j].kind \in {"mark", "result"}
              /\ l[j].kind = "result" => l[j].of = r
              /\ l[j].kind = "mark" => l[j].of = "jfr_scope"
        /\ l[Len(l)] = Line("result", r, 0)
    BY <2>1, Kinds
  <2>4. QED
    BY <1>2, <2>1, <2>2, <2>3 DEF l
<1>3. QED
  BY <1>1, <1>2

(* Every step keeps results at the end, and true.                          *)
LEMMA NextResults == TypeOK /\ CallsInv /\ ResultsInv /\ [Next]_vars => ResultsInv'
<1> SUFFICES ASSUME TypeOK, CallsInv, ResultsInv, [Next]_vars PROVE ResultsInv'
  OBVIOUS
<1> USE DEF Exit, Goto, calls, timeline, affinity
<1>a. out \in Seq(Lines) /\ file \in Seq(Lines)
  BY DEF TypeOK
<1>b. Keeps(out, out, "result") /\ Keeps(file, file, "result")
  BY KeepsSame
<1>1. CASE Correctness
  <2>1. PICK r \in Results : expected' = r /\ out' = <<Line("result", r, 0)>>
    BY <1>1 DEF Correctness
  <2>2. \A i \in Of(out', "result") : out'[i].of = r
    BY <2>1, Kinds, Reported DEF Of
  <2>3. file' = file /\ Of(file, "result") = {} /\ pc' = "exited"
    BY <1>1 DEF Correctness, ResultsInv, Finishing
  <2>4. QED
    BY <2>1, <2>2, <2>3 DEF ResultsInv
<1>2. CASE StartTiming
  <2>1. Appended(out', out, Declared) /\ Declared \in Seq(Lines) /\ out \in Seq(Lines)
    BY <1>2, EmitAppends, LineTypes DEF StartTiming, TypeOK
  <2>2. Keeps(out', out, "result")
    <3>1. \A j \in 1..Len(Declared) : Declared[j].kind # "result"
      BY Kinds
    <3>2. QED
      BY <2>1, <3>1, KeepsAppended
  <2>3. QED
    BY <1>2, <1>b, <2>2, ResultsKept DEF StartTiming, Finishing
<1>3. CASE StartDiagnostic
  BY <1>3, <1>b, ResultsKept DEF StartDiagnostic, Finishing
<1>4. CASE Pin
  <2>1. Keeps(out', out, "result")
    BY <1>4, TwoMarksKeep, MarkTexts DEF Pin
  <2>2. QED
    BY <1>4, <1>b, <2>1, ResultsKept DEF Pin, Finishing
<1>5. CASE List
  BY <1>5, <1>b, ResultsKept DEF List, Finishing
<1>6. CASE Verify
  <2>1. Keeps(out', out, "result")
    BY <1>6, <1>b, MarksKeep, MarkTexts DEF Verify
  <2>2. QED
    BY <1>6, <1>b, <2>1, ResultsKept DEF Verify, Finishing
<1>7. CASE Open
  <2>1. \A j \in 1..Len(Declared) : Declared[j].kind # "result"
    BY Kinds
  <2>2. Keeps(out', out, "result") /\ Keeps(file', file, "result")
    BY <1>7, <2>1, WriteKeeps, LineTypes DEF Open
  <2>3. QED
    BY <1>7, <2>2, ResultsKept DEF Open, Finishing
<1>8. CASE StartSampler
  <2>1. Keeps(out', out, "result")
    BY <1>8, MarksKeep, MarkTexts DEF StartSampler
  <2>2. QED
    BY <1>8, <1>b, <2>1, ResultsKept DEF StartSampler, Finishing
<1>9. CASE Begin
  BY <1>9, <1>b, ResultsKept DEF Begin, Finishing
<1>10. CASE Call
  <2>1. Of(out, "result") = {} /\ Of(file, "result") = {} /\ UNCHANGED <<out, file>>
    BY <1>10 DEF Call, ResultsInv, Finishing
  <2>2. QED
    BY <2>1 DEF ResultsInv
<1>11. CASE End
  <2>1. at \in 1..Len(Plan)
    BY <1>11, TypeFacts DEF End, CallsInv, AtWork
  <2> DEFINE l == <<Line("sample", Plan[at][1], Plan[at][2])>>
  <2>2. l \in Seq(Lines) /\ Len(l) = 1 /\ l[1] = Line("sample", Plan[at][1], Plan[at][2])
    BY <2>1, Reported
  <2>3. Write(l)
    BY <1>11 DEF End
  <2> HIDE DEF l
  <2>4. \A j \in 1..Len(l) : l[j].kind # "result"
    BY <2>2, Kinds
  <2>5. QED
    BY <1>11, <2>2, <2>3, <2>4, WriteKeeps, ResultsKept DEF End, Finishing
<1>12. CASE FinishTiming
  <2>1. expected \in Results /\ Of(out, "result") = {} /\ Of(file, "result") = {}
    BY <1>12, TypeFacts, ResultKnown DEF FinishTiming, AtWork, ResultsInv, Finishing
  <2> DEFINE l == (IF job.jfr THEN <<Mark("jfr_scope")>> ELSE <<>>)
                     \o <<Line("result", expected, 0)>>
  <2>2. l \in Seq(Lines) /\ \A j \in 1..Len(l) : l[j].kind = "result" => l[j].of = expected
    BY <2>1, FinalLines
  <2>3. Emit(l) /\ pc' = "exited" /\ UNCHANGED <<expected, file>>
    BY <1>12 DEF FinishTiming
  <2> HIDE DEF l
  <2>4. \A i \in Of(out', "result") : out'[i].of = expected
    BY <1>a, <2>1, <2>2, <2>3, EmitAppends, ResultsAdded
  <2>5. QED
    BY <2>1, <2>3, <2>4 DEF ResultsInv, Of
<1>13. CASE FinishDiagnostic
  <2>1. expected \in Results /\ Of(out, "result") = {} /\ Of(file, "result") = {}
    BY <1>13, TypeFacts, ResultKnown DEF FinishDiagnostic, AtWork, ResultsInv, Finishing
  <2> DEFINE l == <<Line("result", expected, 0)>>
  <2>2. /\ l \in Seq(Lines) /\ \A j \in 1..Len(l) : l[j].kind = "result" => l[j].of = expected
    BY <2>1, Reported, Kinds
  <2>3. Write(l) /\ pc' = "stopping" /\ UNCHANGED expected
    BY <1>13 DEF FinishDiagnostic
  <2> HIDE DEF l
  <2>4. Diagnostic
    BY <1>13 DEF FinishDiagnostic
  <2>5. Appended(file', file, l) /\ out' = out
    BY <2>2, <2>3, <2>4, WriteAppends
  <2>6. \A i \in Of(file', "result") : file'[i].of = expected
    BY <1>a, <2>1, <2>2, <2>5, ResultsAdded
  <2>7. QED
    BY <2>1, <2>3, <2>5, <2>6 DEF ResultsInv, Finishing
<1>14. CASE StopDiagnostic
  <2>1. Keeps(out', out, "result")
    BY <1>14, <1>b, MarksKeep, MarkTexts DEF StopDiagnostic
  <2>2. QED
    BY <1>14, <1>b, <2>1, ResultsKept DEF StopDiagnostic, Finishing
<1>15. CASE Fail
  BY <1>15, <1>b, ResultsKept DEF Fail, Finishing
<1>16. CASE Spawn
  BY <1>16, <1>b, ResultsKept DEF Spawn, Finishing
<1>17. CASE Vanish
  BY <1>17, <1>b, ResultsKept DEF Vanish, Finishing
<1>18. CASE Deoptimize \/ EventBegins \/ EventEnds
  BY <1>18, <1>b, ResultsKept DEF Deoptimize, EventBegins, EventEnds, Happens, Finishing
<1>19. CASE UNCHANGED vars
  BY <1>19, <1>b, ResultsKept DEF vars, Finishing
<1>20. QED
  BY <1>1, <1>2, <1>3, <1>4, <1>5, <1>6, <1>7, <1>8, <1>9, <1>10, <1>11, <1>12,
     <1>13, <1>14, <1>15, <1>16, <1>17, <1>18, <1>19 DEF Next

(* A process does one job.                                                 *)
LEMMA JobKept == [Next]_vars => job' = job
BY DEF Next, Correctness, StartTiming, StartDiagnostic, Pin, List, Verify, Open,
       StartSampler, Begin, Call, End, FinishTiming, FinishDiagnostic,
       StopDiagnostic, Fail, Spawn, Vanish, Deoptimize, EventBegins, EventEnds, Happens, vars

(* Only a diagnostic run takes the steps of one.                           *)
LEMMA DiagnosticSteps ==
    ASSUME CallsInv,
           StartDiagnostic \/ Pin \/ List \/ Verify \/ Open \/ StartSampler
           \/ FinishDiagnostic \/ StopDiagnostic
    PROVE  Diagnostic /\ job' = job
<1>1. \A p \in {"pin", "before", "after", "verify_before", "verify_after", "open",
                "sampler", "stopping"} : pc = p => Diagnostic
  BY DEF CallsInv, Preparing, Finishing
<1>2. QED
  BY <1>1 DEF StartDiagnostic, Pin, List, Verify, Open, StartSampler,
              FinishDiagnostic, StopDiagnostic

(* Every step of a timing run keeps its output a report of its samples.    *)
LEMMA NextTiming ==
    TypeOK /\ CallsInv /\ TimingInv /\ LostInv /\ [Next]_vars => TimingInv'
<1> SUFFICES ASSUME TypeOK, CallsInv, TimingInv, LostInv, [Next]_vars, ~Diagnostic,
                    job' = job
             PROVE  TimingInv'
  BY JobKept DEF TimingInv, Diagnostic
<1> USE DEF Exit, Goto, calls, timeline, affinity
<1>a. /\ out \in Seq(Lines) /\ at \in Nat /\ 1 <= at
      /\ Len(Plan) \in Nat /\ None # 0 /\ (pc # "exited" => code = None)
  BY TypeFacts, NoneAssumption DEF TypeOK, CallsInv
<1>b. \A i \in Of(out, "mark") : out[i].of = "jfr_scope"
  BY DEF TimingInv
<1>1. CASE Correctness
  <2>1. PICK r \in Results : out' = <<Line("result", r, 0)>>
    BY <1>1 DEF Correctness
  <2>2. Of(out', "mark") = {}
    BY <2>1, Kinds, Reported DEF Of
  <2>3. job.mode = "correctness"
    BY <1>1 DEF Correctness
  <2>4. QED
    BY <2>2, <2>3 DEF TimingInv
<1>2. CASE StartTiming
  <2>1. pc' = "begin" /\ at' = at /\ at = 1 /\ code' = None
    BY <1>a, <1>2 DEF StartTiming, CallsInv, Preparing
  <2>2. Declared \in Seq(Lines) /\ Len(Declared) = 4 /\ Appended(out', out, Declared)
    BY <1>2, EmitAppends, LineTypes DEF StartTiming
  <2>3. Keeps(out', out, "mark")
    <3>1. \A j \in 1..Len(Declared) : Declared[j].kind # "mark"
      BY Kinds
    <3>2. QED
      BY <1>a, <2>2, <3>1, KeepsAppended
  <2>4. ASSUME job.mode = "timing", ~Noisy
        PROVE  Reports(out', 0) /\ Len(out') = 4
    <3>1. Exactly(out', out, Declared) /\ Len(out) = 0
      BY <1>2, <2>2, <2>4, NothingBroken DEF StartTiming, LostInv
    <3>2. Len(out') = 4 /\ \A i \in 1..4 : out'[i] = Declared[i]
      BY <2>2, <3>1 DEF Exactly
    <3>3. QED
      BY <3>2 DEF Reports
  <2>5. at' - 1 = 0 /\ 3 + at' = 4
    BY <2>1
  <2>6. QED
    BY <1>a, <1>b, <2>1, <2>3, <2>4, <2>5 DEF TimingInv, Keeps, Noisy
<1>3. CASE Begin \/ Call
  <2>1. out' = out /\ at' = at /\ pc \in {"begin", "calling"} /\ code = None
    BY <1>a, <1>3 DEF Begin, Call
  <2>2. code' # 0
    BY <1>a, <1>3, <2>1 DEF Begin, Call
  <2>3. QED
    BY <2>1, <2>2 DEF TimingInv, Noisy
<1>4. CASE End
  <2>1. at \in 1..Len(Plan) /\ pc = "calling" /\ pc' = "begin" /\ at' = at + 1 /\ code' = None
    BY <1>a, <1>4 DEF End, CallsInv, AtWork
  <2> DEFINE x == Line("sample", Plan[at][1], Plan[at][2])
             l == <<x>>
  <2>2. x \in Lines /\ l \in Seq(Lines) /\ Len(l) = 1 /\ l[1] = x
    BY <2>1, Reported, LineTypes
  <2>3. Appended(out', out, l)
    BY <1>4, <2>2, WriteAppends DEF End
  <2>4. x.kind # "mark"
    BY Kinds
  <2>5. x = Line("sample", Plan[(at - 1) + 1][1], Plan[(at - 1) + 1][2])
    BY <1>a
  <2> HIDE DEF x
  <2>6. \A j \in 1..Len(l) : l[j].kind # "mark"
    BY <2>2, <2>4
  <2>7. Keeps(out', out, "mark")
    BY <1>a, <2>2, <2>3, <2>6, KeepsAppended
  <2>8. \A i \in Of(out', "mark") : out'[i].of = "jfr_scope"
    BY <1>b, <2>7 DEF Keeps
  <2>9. ASSUME job.mode = "timing", ~Noisy
        PROVE  Reports(out', at' - 1) /\ Len(out') = 3 + at'
    <3>1. Exactly(out', out, l)
      BY <2>3, <2>9, NothingBroken
    <3>2. Reports(out, at - 1) /\ Len(out) = 3 + at
      BY <2>1, <2>9 DEF TimingInv
    <3>3. at - 1 \in Nat /\ Len(out) = 4 + (at - 1) /\ at' - 1 = (at - 1) + 1
          /\ 3 + at' = 5 + (at - 1)
      BY <1>a, <2>1, <3>2
    <3>4. Reports(out', (at - 1) + 1) /\ Len(out') = 5 + (at - 1)
      BY <1>a, <2>2, <2>5, <3>1, <3>2, <3>3, ReportsNext
    <3>5. QED
      BY <3>3, <3>4
  <2>10. QED
    BY <1>a, <2>1, <2>8, <2>9 DEF TimingInv, Noisy
<1>5. CASE FinishTiming
  <2>1. /\ expected \in Results /\ pc = "begin" /\ at = Len(Plan) + 1 /\ pc' = "exited"
    BY <1>a, <1>5, TypeFacts, ResultKnown DEF FinishTiming, AtWork
  <2> DEFINE l == (IF job.jfr THEN <<Mark("jfr_scope")>> ELSE <<>>)
                     \o <<Line("result", expected, 0)>>
  <2>2. /\ l \in Seq(Lines)
        /\ \A j \in 1..Len(l) : /\ l[j].kind \in {"mark", "result"}
                                /\ l[j].kind = "mark" => l[j].of = "jfr_scope"
    BY <2>1, FinalLines
  <2>3. Appended(out', out, l)
    <3>1. Emit(l)
      BY <1>5 DEF FinishTiming
    <3> HIDE DEF l
    <3>2. QED
      BY <2>2, <3>1, EmitAppends
  <2> HIDE DEF l
  <2>4. ASSUME NEW i \in Of(out', "mark") PROVE out'[i].of = "jfr_scope"
    <3>1. \/ i \in Of(out, "mark") /\ out'[i] = out[i]
          \/ \E j \in 1..Len(l) : out'[i] = l[j] /\ l[j].kind = "mark"
      BY <1>a, <2>2, <2>3, KindsAfter
    <3>2. QED
      BY <1>b, <2>2, <3>1
  <2>5. ASSUME job.mode = "timing", ~Noisy PROVE Reports(out', Len(Plan))
    <3>1. Exactly(out', out, l)
      BY <2>3, <2>5, NothingBroken
    <3>2. Reports(out, at - 1)
      BY <2>1, <2>5 DEF TimingInv
    <3>3. at - 1 = Len(Plan)
      BY <1>a, <2>1
    <3>4. Reports(out, Len(Plan))
      BY <3>2, <3>3
    <3>5. \A j \in 1..Len(l) : l[j].kind \in {"mark", "result"}
      BY <2>2
    <3>6. QED
      BY <1>a, <2>2, <3>1, <3>4, <3>5, ReportsGrow
  <2>6. QED
    BY <2>1, <2>4, <2>5 DEF TimingInv, Noisy
<1>6. CASE Fail
  BY <1>6, <1>b DEF Fail, TimingInv
<1>7. CASE Spawn \/ Vanish \/ Deoptimize \/ EventBegins \/ EventEnds \/ UNCHANGED vars
  <2>1. UNCHANGED <<out, pc, at, code>>
    BY <1>7 DEF Spawn, Vanish, Deoptimize, EventBegins, EventEnds, Happens, vars
  <2>2. QED
    BY <2>1 DEF TimingInv, Noisy
<1>8. CASE StartDiagnostic \/ Pin \/ List \/ Verify \/ Open \/ StartSampler
           \/ FinishDiagnostic \/ StopDiagnostic
  BY <1>8, DiagnosticSteps
<1>9. QED
  BY <1>1, <1>2, <1>3, <1>4, <1>5, <1>6, <1>7, <1>8 DEF Next

(* Whatever lines a timing run loses, its samples stay where they belong.  *)
LEMMA NextLost == TypeOK /\ CallsInv /\ LostInv /\ [Next]_vars => LostInv'
<1> SUFFICES ASSUME TypeOK, CallsInv, LostInv, [Next]_vars, job.mode = "timing",
                    job' = job
             PROVE  LostInv'
  BY JobKept DEF LostInv
<1> USE DEF Exit, Goto, calls, timeline, affinity
<1>a. /\ out \in Seq(Lines) /\ at \in Nat /\ 1 <= at /\ Len(Plan) \in Nat
      /\ ~Diagnostic
  BY TypeFacts DEF TypeOK, Diagnostic
<1>b. \A i \in Of(out, "sample") :
          /\ i - 4 \in 1..Len(Plan)
          /\ out[i] = Line("sample", Plan[i - 4][1], Plan[i - 4][2])
  BY DEF LostInv
<1>1. CASE StartTiming
  <2>1. Declared \in Seq(Lines) /\ Len(Declared) = 4 /\ Appended(out', out, Declared)
    BY <1>1, EmitAppends, LineTypes DEF StartTiming
  <2>2. \A j \in 1..Len(Declared) : Declared[j].kind # "sample"
    BY Kinds
  <2>3. Keeps(out', out, "sample")
    BY <1>a, <2>1, <2>2, KeepsAppended
  <2>4. Len(out') = 4 /\ at' = 1 /\ pc' = "begin"
    BY <1>1, <2>1 DEF StartTiming, LostInv, CallsInv, Preparing, Appended
  <2>5. QED
    BY <1>b, <2>3, <2>4 DEF LostInv, Keeps
<1>2. CASE End
  <2>1. at \in 1..Len(Plan) /\ pc = "calling" /\ pc' = "begin" /\ at' = at + 1
    BY <1>a, <1>2 DEF End, CallsInv, AtWork
  <2> DEFINE x == Line("sample", Plan[at][1], Plan[at][2])
             l == <<x>>
  <2>2. l \in Seq(Lines) /\ Len(l) = 1 /\ l[1] = x
    BY <2>1, Reported
  <2>3. Appended(out', out, l)
    BY <1>2, <1>a, <2>2, WriteAppends DEF End
  <2> HIDE DEF l
  <2>4. Len(out) = 3 + at /\ Len(out') = 4 + at
    BY <1>a, <2>1, <2>2, <2>3 DEF LostInv, Appended
  <2>5. out'[4 + at] = x \/ out'[4 + at] = Broken
    BY <1>a, <2>2, <2>3, <2>4 DEF Appended
  <2> HIDE DEF x
  <2>6. ASSUME NEW i \in Of(out', "sample")
        PROVE  /\ i - 4 \in 1..Len(Plan)
               /\ out'[i] = Line("sample", Plan[i - 4][1], Plan[i - 4][2])
    <3>1. i \in 1..(4 + at) /\ out'[i].kind = "sample"
      BY <2>3, <2>4 DEF Of, Appended
    <3>2. CASE i = 4 + at
      <4>1. Broken.kind # "sample" /\ i - 4 = at
        BY <1>a, <3>2 DEF Broken, Line
      <4>2. out'[i] = x
        BY <2>5, <3>1, <3>2, <4>1
      <4>3. QED
        BY <2>1, <4>1, <4>2 DEF x
    <3>3. CASE i # 4 + at
      <4>1. i \in 1..Len(out) /\ out'[i] = out[i]
        BY <1>a, <2>3, <2>4, <3>1, <3>3 DEF Appended
      <4>2. i \in Of(out, "sample")
        BY <1>a, <3>1, <4>1 DEF Of
      <4>3. QED
        BY <1>b, <4>1, <4>2
    <3>4. QED
      BY <3>2, <3>3
  <2>7. QED
    BY <1>a, <2>1, <2>4, <2>6 DEF LostInv
<1>3. CASE FinishTiming
  <2>1. /\ expected \in Results /\ pc' = "exited"
    BY <1>a, <1>3, TypeFacts, ResultKnown DEF FinishTiming, AtWork
  <2> DEFINE l == (IF job.jfr THEN <<Mark("jfr_scope")>> ELSE <<>>)
                     \o <<Line("result", expected, 0)>>
  <2>2. /\ l \in Seq(Lines)
        /\ \A j \in 1..Len(l) : l[j].kind \in {"mark", "result"}
    BY <2>1, FinalLines
  <2>3. Emit(l)
    BY <1>3 DEF FinishTiming
  <2> HIDE DEF l
  <2>4. Keeps(out', out, "sample")
    BY <1>a, <2>2, <2>3, EmitAppends, KeepsAppended
  <2>5. QED
    BY <1>b, <2>1, <2>4 DEF LostInv, Keeps
<1>4. CASE Begin \/ Call \/ Fail \/ Spawn \/ Vanish \/ Deoptimize
           \/ EventBegins \/ EventEnds \/ UNCHANGED vars
  <2>1. /\ UNCHANGED <<out, at>>
        /\ \/ pc' = pc \/ pc' = "exited"
           \/ pc = "begin" /\ pc' = "calling"
    BY <1>4 DEF Begin, Call, Fail, Spawn, Vanish, Deoptimize, EventBegins,
                EventEnds, Happens, vars
  <2>2. QED
    BY <1>b, <2>1 DEF LostInv
<1>5. CASE \/ Correctness \/ StartDiagnostic \/ Pin \/ List \/ Verify \/ Open
           \/ StartSampler \/ FinishDiagnostic \/ StopDiagnostic
  BY <1>a, <1>5, DiagnosticSteps DEF Correctness
<1>6. QED
  BY <1>1, <1>2, <1>3, <1>4, <1>5 DEF Next

(* Every step of a diagnostic run keeps its file a report of its samples.  *)
LEMMA NextDiagnostic == TypeOK /\ CallsInv /\ DiagnosticInv /\ [Next]_vars => DiagnosticInv'
<1> SUFFICES ASSUME TypeOK, CallsInv, DiagnosticInv, [Next]_vars, Diagnostic, job' = job
             PROVE  DiagnosticInv'
  BY JobKept DEF DiagnosticInv, Diagnostic
<1> USE DEF Exit, Goto, calls, timeline, affinity
<1>a. /\ file \in Seq(Lines) /\ at \in Nat /\ 1 <= at
      /\ Len(Plan) \in Nat /\ None # 0 /\ (pc # "exited" => code = None)
  BY TypeFacts, NoneAssumption DEF TypeOK, CallsInv
<1>1. CASE Correctness \/ StartTiming \/ FinishTiming
  BY <1>1 DEF Correctness, StartTiming, FinishTiming, Diagnostic
<1>2. CASE StartDiagnostic
  BY <1>a, <1>2 DEF StartDiagnostic, DiagnosticInv, Preparing, Finishing
<1>3. CASE Pin
  BY <1>a, <1>3 DEF Pin, DiagnosticInv, Preparing, Finishing
<1>4. CASE List
  BY <1>a, <1>4 DEF List, DiagnosticInv, Preparing, Finishing
<1>5. CASE Verify
  <2>1. /\ pc \in {"verify_before", "verify_after"} /\ file' = file /\ UNCHANGED <<at, expected>>
        /\ \/ pc = "verify_before" /\ pc' = "open" /\ code' = code
           \/ pc = "verify_after" /\ pc' = "exited"
           \/ pc' = "exited" /\ code' = 1
    BY <1>5 DEF Verify
  <2>2. QED
    BY <1>a, <2>1 DEF DiagnosticInv, Preparing, Finishing
<1>6. CASE Open
  <2>1. /\ pc = "open" /\ pc' = "sampler" /\ at' = at /\ at = 1 /\ code' = None
        /\ file = <<>>
    BY <1>a, <1>6 DEF Open, CallsInv, DiagnosticInv, Preparing
  <2>2. Exactly(file', file, Declared)
    BY <1>6, LineTypes, WriteAppends DEF Open
  <2>3. /\ Len(file') = 4 /\ file' \in Seq(Lines)
        /\ \A i \in 1..4 : file'[i] = Declared[i]
    BY <2>1, <2>2, LineTypes DEF Exactly
  <2>4. Reports(file', 0)
    BY <2>3, ReportsNone
  <2>5. at' - 1 = 0 /\ 3 + at' = 4
    BY <2>1
  <2>6. QED
    BY <1>a, <2>1, <2>3, <2>4, <2>5 DEF DiagnosticInv, Preparing, Finishing
<1>7. CASE StartSampler
  BY <1>a, <1>7 DEF StartSampler, DiagnosticInv, Preparing, Finishing
<1>8. CASE Begin \/ Call
  <2>1. file' = file /\ at' = at /\ pc \in {"begin", "calling"} /\ code = None
    BY <1>a, <1>8 DEF Begin, Call
  <2>2. code' # 0 /\ pc' \in {"calling", "exited"}
    BY <1>a, <1>8, <2>1 DEF Begin, Call
  <2>3. QED
    BY <2>1, <2>2 DEF DiagnosticInv, Preparing, Finishing
<1>9. CASE End
  <2>1. at \in 1..Len(Plan) /\ pc = "calling" /\ pc' = "begin" /\ at' = at + 1 /\ code' = None
    BY <1>a, <1>9 DEF End, CallsInv, AtWork
  <2> DEFINE x == Line("sample", Plan[at][1], Plan[at][2])
  <2>2. x \in Lines /\ <<x>> \in Seq(Lines)
    BY <2>1, Reported, LineTypes
  <2>3. Exactly(file', file, <<x>>)
    BY <1>9, <2>2, WriteAppends DEF End
  <2>4. x = Line("sample", Plan[(at - 1) + 1][1], Plan[(at - 1) + 1][2])
    BY <1>a
  <2> HIDE DEF x
  <2>5. Reports(file, at - 1) /\ Len(file) = 3 + at
    BY <2>1 DEF DiagnosticInv
  <2>6. at - 1 \in Nat /\ Len(file) = 4 + (at - 1) /\ at' - 1 = (at - 1) + 1
        /\ 3 + at' = 5 + (at - 1)
    BY <1>a, <2>1, <2>5
  <2>7. Reports(file', (at - 1) + 1) /\ Len(file') = 5 + (at - 1)
    BY <1>a, <2>2, <2>3, <2>4, <2>5, <2>6, ReportsNext
  <2>8. QED
    BY <1>a, <2>1, <2>6, <2>7 DEF DiagnosticInv, Preparing, Finishing
<1>10. CASE FinishDiagnostic
  <2>1. /\ expected \in Results /\ pc = "begin" /\ at = Len(Plan) + 1
        /\ pc' = "stopping" /\ code' = None /\ expected' = expected
    BY <1>a, <1>10, TypeFacts, ResultKnown DEF FinishDiagnostic, AtWork
  <2> DEFINE x == Line("result", expected, 0)
             l == <<x>>
  <2>2. l \in Seq(Lines) /\ Len(l) = 1 /\ l[1] = x /\ x.kind = "result"
    BY <2>1, Reported, Kinds
  <2>3. Exactly(file', file, l)
    BY <1>10, <2>2, WriteAppends DEF FinishDiagnostic
  <2>4. Reports(file, at - 1) /\ Len(file) = 3 + at
    BY <2>1 DEF DiagnosticInv
  <2>5. at - 1 = Len(Plan) /\ Len(file) = 4 + Len(Plan)
    BY <1>a, <2>1, <2>4
  <2> HIDE DEF x
  <2>6. \A j \in 1..Len(l) : l[j].kind \in {"mark", "result"}
    BY <2>2
  <2>7. Reports(file', Len(Plan))
    BY <1>a, <2>2, <2>3, <2>4, <2>5, <2>6, ReportsGrow
  <2>8. Len(file') = 5 + Len(Plan) /\ file'[5 + Len(Plan)] = x
    <3>1. Len(file') = Len(file) + 1 /\ file'[Len(file) + 1] = x
      BY <2>2, <2>3 DEF Exactly
    <3>2. QED
      BY <1>a, <2>5, <3>1
  <2>9. QED
    BY <1>a, <2>1, <2>7, <2>8 DEF DiagnosticInv, Preparing, Finishing, x
<1>11. CASE StopDiagnostic
  <2>1. UNCHANGED <<file, at, expected>> /\ pc = "stopping" /\ pc' \in {"after", "exited"}
    BY <1>11 DEF StopDiagnostic
  <2>2. QED
    BY <2>1 DEF DiagnosticInv, Preparing, Finishing
<1>12. CASE Fail
  BY <1>12 DEF Fail, DiagnosticInv, Preparing, Finishing
<1>13. CASE Spawn \/ Vanish \/ Deoptimize \/ EventBegins \/ EventEnds \/ UNCHANGED vars
  <2>1. UNCHANGED <<file, pc, at, code, expected>>
    BY <1>13 DEF Spawn, Vanish, Deoptimize, EventBegins, EventEnds, Happens, vars
  <2>2. QED
    BY <2>1 DEF DiagnosticInv
<1>14. QED
  BY <1>1, <1>2, <1>3, <1>4, <1>5, <1>6, <1>7, <1>8, <1>9, <1>10, <1>11, <1>12,
     <1>13 DEF Next

(* Every step keeps the recording one of the steady samples so far.        *)
LEMMA NextRecording ==
    TypeOK /\ CallsInv /\ RecordingInv /\ [Next]_vars => RecordingInv'
<1> SUFFICES ASSUME TypeOK, CallsInv, RecordingInv, [Next]_vars PROVE RecordingInv'
  OBVIOUS
<1> USE DEF Exit, Goto, calls, timeline, affinity
<1>0. /\ at \in Nat /\ 1 <= at /\ done \in Nat /\ Warmup \in Nat /\ None # 0
      /\ (pc # "exited" => code = None) /\ (pc \in Preparing => recorded = None)
  BY TypeFacts, NoneAssumption DEF CallsInv, RecordingInv
<1>1. CASE /\ UNCHANGED <<recorded, at, done>>
           /\ \/ pc = "start" /\ pc' = "exited"
              \/ pc' \in Preparing /\ pc \in Preparing
              \/ pc' = "begin" /\ pc \in Preparing
              \/ pc' = "exited" /\ code' # 0
              \/ AtWork /\ pc # "calling" /\ pc' # "calling" /\ pc' \notin Preparing
              \/ UNCHANGED <<pc, code, job>>
  BY <1>0, <1>1 DEF RecordingInv, AtWork, Preparing, Finishing
<1>2. CASE Correctness
  <2>1. UNCHANGED <<recorded, at, done>> /\ pc = "start" /\ pc' = "exited"
    BY <1>2 DEF Correctness
  <2>2. QED
    BY <1>1, <2>1
<1>3. CASE StartTiming \/ StartDiagnostic
  BY <1>0, <1>1, <1>3, NoneAssumption DEF StartTiming, StartDiagnostic, Preparing
<1>4. CASE Pin \/ List \/ Open \/ StartSampler
  <2>1. UNCHANGED <<recorded, at, done>>
    BY <1>4 DEF Pin, List, Open, StartSampler
  <2>2. \/ pc' \in Preparing /\ pc \in Preparing
        \/ pc' = "begin" /\ pc \in Preparing
        \/ pc = "after" /\ pc' = "verify_after"
    BY <1>4 DEF Pin, List, Open, StartSampler, Preparing
  <2>3. QED
    BY <1>1, <2>1, <2>2 DEF AtWork, Preparing, Finishing
<1>5. CASE Verify
  <2>1. UNCHANGED <<recorded, at, done>>
    BY <1>5 DEF Verify
  <2>2. \/ pc = "verify_before" /\ pc' = "open"
        \/ pc = "verify_after" /\ pc' = "exited"
        \/ pc' = "exited" /\ code' = 1
    BY <1>5 DEF Verify
  <2>3. QED
    BY <1>1, <2>1, <2>2 DEF AtWork, Preparing, Finishing
<1>6. CASE Begin
  <2>1. /\ pc = "begin" /\ pc' = "calling" /\ done' = 0 /\ at' = at /\ code' = code
        /\ job' = job
    BY <1>6 DEF Begin
  <2>2. (recorded' = {} /\ at = 2 + Warmup) \/ recorded' = recorded
    BY <1>6 DEF Begin, StartsRecording
  <2>3. AtWork /\ pc' \notin Preparing
    BY <2>1 DEF AtWork, Preparing
  <2>4. CASE recorded' = {} /\ at = 2 + Warmup
    BY <1>0, <2>1, <2>3, <2>4 DEF RecordingInv
  <2>5. CASE recorded' = recorded
    BY <1>0, <2>1, <2>3, <2>5 DEF RecordingInv
  <2>6. QED
    BY <2>2, <2>4, <2>5
<1>7. CASE Call
  <2>1. /\ pc = "calling" /\ at' = at /\ done' = done + 1 /\ job' = job
        /\ recorded' = IF recorded = None THEN None ELSE recorded \cup {at}
        /\ \/ pc' = "exited" /\ code' = 1
           \/ pc' = "calling" /\ code' = code
    BY <1>7 DEF Call
  <2>2. AtWork /\ pc' \notin Preparing
    BY <2>1 DEF AtWork, Preparing
  <2>3. CASE pc' = "exited" /\ code' = 1
    BY <2>2, <2>3 DEF RecordingInv, AtWork, Finishing
  <2>4. CASE pc' = "calling" /\ recorded # None
    <3>1. /\ at >= 2 + Warmup
          /\ recorded = {i \in (2 + Warmup)..at : i < at \/ (pc = "calling" /\ done > 0)}
      BY <2>2, <2>4 DEF RecordingInv
    <3>2. recorded' = {i \in (2 + Warmup)..at' : i < at' \/ (pc' = "calling" /\ done' > 0)}
      BY <1>0, <2>1, <2>4, <3>1
    <3>3. QED
      BY <2>1, <2>2, <3>1, <3>2 DEF RecordingInv
  <2>5. CASE recorded = None
    BY <2>1, <2>2, <2>5 DEF RecordingInv
  <2>6. QED
    BY <2>1, <2>3, <2>4, <2>5
<1>8. CASE End
  <2>1. /\ pc = "calling" /\ pc' = "begin" /\ at' = at + 1 /\ recorded' = recorded
        /\ done = Quota(at) /\ job' = job /\ code' = code
    BY <1>8 DEF End
  <2>2. AtWork /\ pc' \notin Preparing /\ at <= Len(Plan)
    BY <2>1 DEF AtWork, Preparing, CallsInv
  <2>3. done > 0
    BY <1>0, <2>1, <2>2, TypeFacts, CallsBeforeFacts
  <2>4. QED
    BY <1>0, <2>1, <2>2, <2>3 DEF RecordingInv
<1>9. CASE FinishTiming \/ FinishDiagnostic \/ StopDiagnostic
  <2>1. /\ UNCHANGED <<recorded, at, done>> /\ pc \in {"begin", "stopping"}
        /\ pc' \in {"exited", "stopping", "after"}
    BY <1>9 DEF FinishTiming, FinishDiagnostic, StopDiagnostic
  <2>2. AtWork /\ pc # "calling" /\ pc' # "calling" /\ pc' \notin Preparing
    BY <2>1 DEF AtWork, Preparing, Finishing
  <2>3. QED
    BY <1>1, <2>1, <2>2
<1>10. CASE Fail
  BY <1>1, <1>10 DEF Fail
<1>11. CASE Spawn \/ Vanish \/ Deoptimize \/ EventBegins \/ EventEnds \/ UNCHANGED vars
  BY <1>1, <1>11 DEF Spawn, Vanish, Deoptimize, EventBegins, EventEnds, Happens, vars
<1>12. QED
  BY <1>2, <1>3, <1>4, <1>5, <1>6, <1>7, <1>8, <1>9, <1>10, <1>11 DEF Next

(* Every step keeps who lived through both snapshots verified.             *)
LEMMA NextAffinity ==
    TypeOK /\ CallsInv /\ AffinityInv /\ [Next]_vars => AffinityInv'
<1> SUFFICES ASSUME TypeOK, CallsInv, AffinityInv, [Next]_vars PROVE AffinityInv'
  OBVIOUS
<1> USE DEF Exit, Goto, calls, timeline, affinity, Diagnostic
<1>0. /\ None # 0 /\ (pc # "exited" => code = None) /\ since \subseteq Alive
      /\ threads \in [Threads -> {None} \cup Tasks] /\ job' = job
  BY NoneAssumption, JobKept DEF CallsInv, TypeOK
<1>1. CASE /\ UNCHANGED <<threads, listed, since>>
           /\ (pc' # "verify_after" \/ pc' = pc)
           /\ \/ code' # 0
              \/ code' = code
              \/ job.mode # "diagnostic"
              \/ job.profile = None
  BY <1>0, <1>1 DEF AffinityInv
<1>2. CASE Correctness \/ StartTiming \/ StartDiagnostic \/ Pin \/ Open \/ StartSampler
           \/ Begin \/ Call \/ End \/ FinishTiming \/ FinishDiagnostic \/ StopDiagnostic
           \/ Fail \/ Deoptimize \/ EventBegins \/ EventEnds \/ UNCHANGED vars
  <2>1. UNCHANGED <<threads, listed, since>>
    BY <1>2 DEF Correctness, StartTiming, StartDiagnostic, Pin, Open, StartSampler, Begin,
                Call, End, FinishTiming, FinishDiagnostic, StopDiagnostic, Fail,
                Deoptimize, EventBegins, EventEnds, Happens, vars
  <2>2. pc' # "verify_after" \/ pc' = pc
    BY <1>2 DEF Correctness, StartTiming, StartDiagnostic, Pin, Open, StartSampler, Begin,
                Call, End, FinishTiming, FinishDiagnostic, StopDiagnostic, Fail,
                Deoptimize, EventBegins, EventEnds, Happens, vars
  <2>3. code' # 0 \/ code' = code \/ job.mode # "diagnostic" \/ job.profile = None
    BY <1>2 DEF Correctness, StartTiming, StartDiagnostic, Pin, Open, StartSampler, Begin,
                Call, End, FinishTiming, FinishDiagnostic, StopDiagnostic, Fail,
                Deoptimize, EventBegins, EventEnds, Happens, vars
  <2>4. QED
    BY <1>1, <2>1, <2>2, <2>3
<1>3. CASE List
  <2>1. /\ pc' = "verify_after" => since' = since /\ listed' = Alive
        /\ code' = None
    BY <1>0, <1>3 DEF List
  <2>2. QED
    BY <1>0, <2>1 DEF AffinityInv
<1>4. CASE Verify
  <2>1. UNCHANGED <<threads, listed, since>> /\ pc' # "verify_after"
    BY <1>4 DEF Verify
  <2>2. CASE code' = 0
    <3>1. pc = "verify_after" /\ MasksHold(listed \cap Alive)
      BY <1>0, <1>4, <2>2 DEF Verify
    <3>2. since \subseteq listed \cap Alive
      BY <1>0, <3>1 DEF AffinityInv
    <3>3. QED
      BY <1>0, <2>1, <3>1, <3>2 DEF AffinityInv, MasksHold, Compilers
  <2>3. CASE code' # 0
    BY <2>1, <2>3 DEF AffinityInv
  <2>4. QED
    BY <2>2, <2>3
<1>5. CASE Spawn
  <2>1. code' = None /\ UNCHANGED <<pc, listed, since>>
    BY <1>0, <1>5 DEF Spawn
  <2>2. QED
    BY <1>0, <2>1 DEF AffinityInv
<1>6. CASE Vanish
  <2>1. /\ code' = None /\ pc' = pc
        /\ \E t \in Alive : since' = since \ {t} /\ listed' = listed \ {t}
    BY <1>0, <1>6 DEF Vanish
  <2>2. QED
    BY <1>0, <2>1 DEF AffinityInv
<1>7. QED
  BY <1>2, <1>3, <1>4, <1>5, <1>6 DEF Next

(* A step that leaves the timeline alone leaves it in order.               *)
LEMMA TimelineKept ==
    ASSUME TypeOK, TimelineInv, UNCHANGED <<job, clock, windows, events>>,
           \/ UNCHANGED <<pc, at>>
           \/ pc' = "exited"
           \/ at' = at /\ pc # "calling" /\ pc # "exited" /\ pc' \notin {"begin", "calling"}
           \/ at' = at /\ pc' = "begin" /\ at = 1 /\ pc # "calling" /\ pc # "exited"
    PROVE  TimelineInv'
<1>1. \/ pc' = pc /\ at' = at
      \/ pc' = "exited"
      \/ /\ at' = at /\ pc # "calling" /\ pc # "exited" /\ pc' # "calling"
         /\ pc' = "begin" => at = 1
  OBVIOUS
<1>2. Len(windows) \in Nat /\ DOMAIN windows = 1..Len(windows) /\ at \in Nat
  BY TypeFacts
<1>3. (pc = "begin" => \A i \in DOMAIN windows : windows[i].end # -1)'
  <2>1. CASE pc' = "begin" /\ at = 1 /\ pc # "calling" /\ pc # "exited"
    <3>1. Len(windows) = 0
      <4>1. CASE job.jit
        BY <1>2, <2>1, <4>1 DEF TimelineInv
      <4>2. CASE ~job.jit
        <5>1. windows = <<>>
          BY <4>2 DEF TimelineInv
        <5>2. QED
          BY <5>1
      <4>3. QED
        BY <4>1, <4>2
    <3>2. DOMAIN windows = {}
      BY <1>2, <3>1
    <3>3. QED
      BY <3>2
  <2>2. QED
    BY <1>1, <2>1 DEF TimelineInv
<1>4. QED
  BY <1>1, <1>3 DEF TimelineInv, EventKept, UnderWay

(* Every step keeps the windows in order and the events in their windows.  *)
LEMMA NextTimeline ==
    TypeOK /\ CallsInv /\ TimelineInv /\ [Next]_vars => TimelineInv'
<1> SUFFICES ASSUME TypeOK, CallsInv, TimelineInv, [Next]_vars PROVE TimelineInv'
  OBVIOUS
<1> USE DEF Exit, Goto, calls, timeline, affinity
<1>0. /\ at \in Nat /\ 1 <= at /\ clock \in Nat /\ Len(windows) \in Nat
      /\ DOMAIN windows = 1..Len(windows) /\ windows \in Seq(Windows)
      /\ \A i \in 1..Len(windows) :
            windows[i].start \in Nat /\ windows[i].end \in Int
      /\ job' = job
  BY TypeFacts, JobKept DEF TypeOK
<1>p. pc \in Preparing => at = 1
  BY DEF CallsInv
<1>w. /\ \A i \in 1..Len(windows) :
            /\ windows[i].start <= clock /\ windows[i].end <= clock
            /\ \A j \in 1..Len(windows) :
                  i < j => windows[i].end # -1 /\ windows[i].end <= windows[j].start
  BY <1>0 DEF TimelineInv
<1>e. ASSUME NEW e \in events
      PROVE  /\ job.jit /\ e \in JvmEvents
             /\ e.start \in Nat /\ e.end \in Int
             /\ e.start <= clock /\ e.end <= clock
             /\ (e.end # -1 => e.start <= e.end)
             /\ e.during \subseteq 1..Len(windows)
             /\ \A i \in e.during : /\ windows[i].end # -1 => e.start <= windows[i].end
                                    /\ e.end # -1 => windows[i].start <= e.end
             /\ \A i \in (1..Len(windows)) \ e.during :
                   \/ e.end # -1 /\ e.end <= windows[i].start
                   \/ windows[i].end # -1 /\ windows[i].end <= e.start
  <2>1. EventKept(e) /\ job.jit
    BY <1>e DEF TimelineInv
  <2>2. e \in JvmEvents /\ MaxClock \in Nat
    BY <1>e, NoneAssumption DEF TypeOK
  <2>3. e.start \in Nat /\ e.end \in Int
    BY <2>2 DEF JvmEvents
  <2>4. QED
    BY <1>0, <2>1, <2>2, <2>3 DEF EventKept, UnderWay
<1>1. CASE Correctness \/ StartTiming \/ StartDiagnostic \/ Pin \/ List \/ Verify \/ Open
           \/ StartSampler \/ FinishTiming \/ FinishDiagnostic \/ StopDiagnostic \/ Fail
           \/ Spawn \/ Vanish \/ UNCHANGED vars
  <2>1. UNCHANGED <<job, at, clock, windows, events>>
    BY <1>1 DEF Correctness, StartTiming, StartDiagnostic, Pin, List, Verify, Open,
                StartSampler, FinishTiming, FinishDiagnostic, StopDiagnostic, Fail,
                Spawn, Vanish, vars
  <2>2. \/ pc' = pc
        \/ pc' = "exited"
        \/ pc # "calling" /\ pc # "exited" /\ pc' \notin {"begin", "calling"}
        \/ pc' = "begin" /\ pc \in {"start", "sampler"}
    BY <1>1 DEF Correctness, StartTiming, StartDiagnostic, Pin, List, Verify, Open,
                StartSampler, FinishTiming, FinishDiagnostic, StopDiagnostic, Fail,
                Spawn, Vanish, vars
  <2>3. QED
    BY <1>p, <2>1, <2>2, TimelineKept DEF Preparing
<1>2. CASE Begin
  <2>1. /\ pc = "begin" /\ pc' = "calling" /\ at' = at
    BY <1>2 DEF Begin
  <2>2. CASE ~job.jit
    <3>1. events = {} /\ windows' = windows /\ windows = <<>>
      BY <1>2, <2>2 DEF Begin, TimelineInv
    <3>2. events' = {}
      BY <1>2, <3>1 DEF Begin
    <3>3. QED
      BY <1>0, <2>1, <2>2, <3>1, <3>2 DEF TimelineInv
  <2>3. CASE job.jit
    <3> DEFINE w == [sample |-> Plan[at], calls |-> 0, start |-> clock', end |-> -1]
    <3>1. /\ windows' = Append(windows, w) /\ clock' \in {clock, clock + 1}
      BY <1>2, <2>3 DEF Begin, Ticks
    <3>2. w.start = clock' /\ w.end = -1
      OBVIOUS
    <3>3. /\ Len(windows') = Len(windows) + 1 /\ windows'[Len(windows) + 1] = w
          /\ DOMAIN windows' = 1..(Len(windows) + 1)
          /\ \A i \in 1..Len(windows) : windows'[i] = windows[i]
      <4> HIDE DEF w
      <4>1. QED
        BY <1>0, <3>1
    <3>4. Len(windows) = at - 1
      BY <2>1, <2>3 DEF TimelineInv
    <3>5. \A i \in 1..Len(windows) : windows[i].end # -1
      BY <1>0, <2>1 DEF TimelineInv
    <3> HIDE DEF w
    <3>6. \A i \in 1..(Len(windows) + 1) :
            /\ windows'[i].start <= clock' /\ windows'[i].end <= clock'
            /\ \A j \in 1..(Len(windows) + 1) :
                  i < j => windows'[i].end # -1 /\ windows'[i].end <= windows'[j].start
      <4>1. TAKE i \in 1..(Len(windows) + 1)
      <4>2. CASE i = Len(windows) + 1
        BY <1>0, <3>1, <3>2, <3>3, <4>2
      <4>3. CASE i \in 1..Len(windows)
        <5>1. /\ windows'[i] = windows[i] /\ windows[i].start <= clock
              /\ windows[i].end <= clock /\ windows[i].end # -1
              /\ windows[i].start \in Nat /\ windows[i].end \in Int
          BY <1>0, <1>w, <3>3, <3>5, <4>3
        <5>2. ASSUME NEW j \in 1..Len(windows), i < j
              PROVE  windows'[i].end <= windows'[j].start
          BY <1>w, <3>3, <4>3, <5>1, <5>2
        <5>3. windows'[i].end <= windows'[Len(windows) + 1].start
          BY <1>0, <3>1, <3>2, <3>3, <5>1
        <5>4. \A j \in 1..(Len(windows) + 1) : j \in 1..Len(windows) \/ j = Len(windows) + 1
          BY <1>0
        <5>5. QED
          BY <1>0, <3>1, <5>1, <5>2, <5>3, <5>4
      <4>4. QED
        BY <1>0, <4>2, <4>3
    <3>7. ASSUME NEW f \in events' PROVE EventKept(f)'
      <4>1. PICK e \in events :
              f = IF UnderWay(e) THEN [e EXCEPT !.during = @ \cup {at}] ELSE e
        BY <1>2, <3>7 DEF Begin
      <4>2. e \in JvmEvents
        BY <1>e
      <4>3. /\ f.start = e.start /\ f.end = e.end
            /\ f.during = IF e.end = -1 THEN e.during \cup {at} ELSE e.during
        BY <4>1, <4>2 DEF UnderWay, JvmEvents
      <4>4. DOMAIN windows' = 1..at /\ at - 1 = Len(windows)
        BY <1>0, <3>3, <3>4
      <4>5. /\ f.start <= clock' /\ f.end <= clock' /\ (f.end # -1 => f.start <= f.end)
            /\ f.during \subseteq 1..at
        BY <1>0, <1>e, <3>1, <4>3, <4>4
      <4>6. ASSUME NEW i \in 1..at
            PROVE  IF i \in f.during
                   THEN /\ windows'[i].end # -1 => f.start <= windows'[i].end
                        /\ f.end # -1 => windows'[i].start <= f.end
                   ELSE \/ f.end # -1 /\ f.end <= windows'[i].start
                        \/ windows'[i].end # -1 /\ windows'[i].end <= f.start
        <5>1. CASE i = at
          <6>1. windows'[i].start = clock' /\ windows'[i].end = -1
            BY <1>0, <3>2, <3>3, <3>4, <5>1
          <6>2. at \notin e.during
            BY <1>0, <1>e, <4>4
          <6>3. CASE e.end = -1
            BY <4>3, <5>1, <6>1, <6>3
          <6>4. CASE e.end # -1
            BY <1>0, <1>e, <3>1, <4>3, <5>1, <6>1, <6>2, <6>4
          <6>5. QED
            BY <6>3, <6>4
        <5>2. CASE i # at
          <6>1. i \in 1..Len(windows) /\ windows'[i] = windows[i]
            BY <1>0, <3>3, <4>4, <5>2
          <6>2. (i \in f.during) = (i \in e.during)
            BY <4>3, <5>2
          <6>3. QED
            BY <1>e, <4>3, <6>1, <6>2
        <5>3. QED
          BY <5>1, <5>2
      <4>7. QED
        BY <4>4, <4>5, <4>6 DEF EventKept, UnderWay
    <3>8. windows'[at].end = -1 /\ Len(windows') = at
      BY <1>0, <3>2, <3>3, <3>4
    <3>9. QED
      BY <1>0, <2>1, <2>3, <3>3, <3>6, <3>7, <3>8 DEF TimelineInv
  <2>4. QED
    BY <2>2, <2>3
<1>3. CASE Call
  <2>1. /\ UNCHANGED <<at, clock, windows, events>> /\ pc = "calling"
        /\ pc' \in {"calling", "exited"}
    BY <1>3 DEF Call
  <2>2. QED
    BY <1>0, <2>1, TimelineKept
<1>4. CASE End
  <2>1. /\ pc = "calling" /\ pc' = "begin" /\ at' = at + 1 /\ events' = events
    BY <1>4 DEF End
  <2>2. CASE ~job.jit
    BY <1>0, <1>4, <2>1, <2>2 DEF End, TimelineInv
  <2>3. CASE job.jit
    <3> DEFINE w == [windows[at] EXCEPT !.calls = done, !.end = clock']
    <3>1. Len(windows) = at /\ windows[at].end = -1 /\ windows[at] \in Windows
      BY <1>0, <2>1, <2>3 DEF TimelineInv
    <3>2. /\ windows' = [windows EXCEPT ![Len(windows)] = w]
          /\ clock' \in {clock, clock + 1}
      BY <1>4, <2>3, <3>1 DEF End, Ticks
    <3>3. w.start = windows[at].start /\ w.end = clock'
      BY <3>1 DEF Windows
    <3> HIDE DEF w
    <3>4. /\ Len(windows') = at /\ DOMAIN windows' = 1..at
          /\ \A i \in 1..at : windows'[i] = IF i = at THEN w ELSE windows[i]
      BY <1>0, <3>1, <3>2
    <3>5. \A i \in 1..at : /\ windows'[i].start = windows[i].start
                           /\ windows'[i].end = IF i = at THEN clock' ELSE windows[i].end
      BY <3>3, <3>4
    <3>6. \A i \in 1..at :
            /\ windows'[i].start <= clock' /\ windows'[i].end <= clock'
            /\ windows'[i].end # -1
            /\ \A j \in 1..at :
                  i < j => windows'[i].end # -1 /\ windows'[i].end <= windows'[j].start
      <4>1. TAKE i \in 1..at
      <4>2. at \in 1..at
        BY <1>0
      <4>3. CASE i = at
        BY <1>0, <1>w, <3>1, <3>2, <3>5, <4>3
      <4>4. CASE i # at
        <5>1. i < at /\ windows[i].end # -1
          BY <1>0, <1>w, <3>1, <4>2, <4>4
        <5>2. QED
          BY <1>0, <1>w, <3>1, <3>2, <3>5, <4>4, <5>1
      <4>5. QED
        BY <4>3, <4>4
    <3>7. ASSUME NEW e \in events' PROVE EventKept(e)'
      <4>1. e \in events
        BY <2>1, <3>7
      <4>2. /\ e.start <= clock' /\ e.end <= clock' /\ (e.end # -1 => e.start <= e.end)
            /\ e.during \subseteq 1..at
        BY <1>0, <1>e, <3>1, <3>2, <4>1
      <4>3. ASSUME NEW i \in 1..at
            PROVE  IF i \in e.during
                   THEN /\ windows'[i].end # -1 => e.start <= windows'[i].end
                        /\ e.end # -1 => windows'[i].start <= e.end
                   ELSE \/ e.end # -1 /\ e.end <= windows'[i].start
                        \/ windows'[i].end # -1 /\ windows'[i].end <= e.start
        <5>1. CASE i = at
          <6>1. windows'[i].start = windows[i].start /\ windows'[i].end = clock'
            BY <3>5, <5>1
          <6>2. QED
            BY <1>0, <1>e, <3>1, <3>2, <4>1, <5>1, <6>1
        <5>2. CASE i # at
          <6>1. windows'[i].start = windows[i].start /\ windows'[i].end = windows[i].end
            BY <3>5, <5>2
          <6>2. QED
            BY <1>e, <3>1, <4>1, <6>1
        <5>3. QED
          BY <5>1, <5>2
      <4>4. QED
        BY <3>4, <4>2, <4>3 DEF EventKept, UnderWay
    <3>8. Len(windows') = at' - 1
      BY <1>0, <2>1, <3>4
    <3>9. QED
      BY <1>0, <2>1, <2>3, <3>4, <3>6, <3>7, <3>8 DEF TimelineInv
  <2>4. QED
    BY <2>2, <2>3
<1>5. CASE Deoptimize \/ EventBegins
  <2>1. PICK end \in {clock', -1} : Happens(end)
    BY <1>5 DEF Deoptimize, EventBegins
  <2>p. PICK d : d = [start |-> clock', end |-> end,
                      during |-> IF pc = "calling" THEN {at} ELSE {}]
    OBVIOUS
  <2>2. /\ UNCHANGED <<job, pc, at, windows>> /\ job.jit /\ clock' \in {clock, clock + 1}
        /\ pc \in {"begin", "calling"} /\ events' = {d}
    BY <2>1, <2>p DEF Happens, Ticks
  <2>3. /\ d.start = clock' /\ d.end = end
        /\ d.during = IF pc = "calling" THEN {at} ELSE {}
    BY <2>p
  <2>4. pc = "calling" => Len(windows) = at /\ windows[at].end = -1
    BY <2>2 DEF TimelineInv
  <2>5. /\ d.start <= clock' /\ d.end <= clock' /\ (d.end # -1 => d.start <= d.end)
        /\ d.during \subseteq 1..Len(windows)
    <3>1. d.during \subseteq 1..Len(windows)
      <4>1. pc = "calling" => at \in 1..Len(windows)
        BY <1>0, <2>4
      <4>2. QED
        BY <2>3, <4>1
    <3>2. end \in {clock', -1} /\ clock' \in Nat
      BY <1>0, <2>2
    <3>3. QED
      BY <2>3, <3>1, <3>2
  <2>6. ASSUME NEW i \in 1..Len(windows)
        PROVE  IF i \in d.during
               THEN /\ windows[i].end # -1 => d.start <= windows[i].end
                    /\ d.end # -1 => windows[i].start <= d.end
               ELSE windows[i].end # -1 /\ windows[i].end <= d.start
    <3>1. windows[i].start <= clock' /\ windows[i].end <= clock'
      BY <1>0, <1>w, <2>2
    <3>2. CASE pc = "begin"
      <4>1. windows[i].end # -1
        BY <1>0, <3>2 DEF TimelineInv
      <4>2. QED
        BY <2>3, <3>1, <3>2, <4>1
    <3>3. CASE pc = "calling" /\ i # at
      <4>1. at \in 1..Len(windows) /\ i < at
        BY <1>0, <2>4, <3>3
      <4>2. windows[i].end # -1
        BY <1>w, <4>1
      <4>3. QED
        BY <2>3, <3>1, <3>3, <4>2
    <3>4. CASE pc = "calling" /\ i = at
      BY <2>3, <2>4, <3>1, <3>4
    <3>5. QED
      BY <2>2, <3>2, <3>3, <3>4
  <2>7. EventKept(d)'
    <3>1. windows' = windows /\ DOMAIN windows = 1..Len(windows)
      BY <1>0, <2>2
    <3>2. QED
      BY <2>5, <2>6, <3>1 DEF EventKept, UnderWay
  <2>8. \A i \in 1..Len(windows) : windows[i].start <= clock' /\ windows[i].end <= clock'
    BY <1>0, <1>w, <2>2
  <2>9. QED
    BY <1>0, <1>w, <2>2, <2>7, <2>8 DEF TimelineInv
<1>6. CASE EventEnds
  <2>1. PICK e \in events : UnderWay(e) /\ events' = {[e EXCEPT !.end = clock']}
    BY <1>6 DEF EventEnds
  <2>p. PICK f : f = [e EXCEPT !.end = clock']
    OBVIOUS
  <2>2. UNCHANGED <<job, pc, at, windows>> /\ clock' \in {clock, clock + 1} /\ job.jit
    BY <1>6, <1>e DEF EventEnds, Ticks
  <2>3. f.start = e.start /\ f.end = clock' /\ f.during = e.during /\ e.end = -1
    BY <1>e, <2>1, <2>p DEF UnderWay, JvmEvents
  <2>4. events' = {f}
    BY <2>1, <2>p
  <2>5. \A i \in 1..Len(windows) : windows[i].start <= clock' /\ windows[i].end <= clock'
    BY <1>0, <1>w, <2>2
  <2>6. EventKept(f)'
    <3>1. windows' = windows /\ DOMAIN windows = 1..Len(windows)
      BY <1>0, <2>2
    <3>2. /\ f.start <= clock' /\ f.end <= clock' /\ f.start <= f.end
          /\ f.during \subseteq 1..Len(windows)
      BY <1>0, <1>e, <2>2, <2>3
    <3>3. \A i \in f.during : /\ windows[i].end # -1 => f.start <= windows[i].end
                              /\ windows[i].start <= f.end
      BY <1>e, <2>3, <2>5
    <3>4. \A i \in (1..Len(windows)) \ f.during :
            windows[i].end # -1 /\ windows[i].end <= f.start
      BY <1>e, <2>3
    <3>5. QED
      BY <3>1, <3>2, <3>3, <3>4 DEF EventKept, UnderWay
  <2>7. QED
    BY <1>0, <1>w, <2>2, <2>4, <2>5, <2>6 DEF TimelineInv
<1>7. QED
  BY <1>1, <1>2, <1>3, <1>4, <1>5, <1>6 DEF Next

(* The initial states satisfy the invariant.                               *)
LEMMA InitInv == Init => EngineInv
<1> SUFFICES ASSUME Init PROVE EngineInv
  OBVIOUS
<1>1. /\ job \in JobSet /\ pc = "start" /\ at = 1 /\ done = 0 /\ made = 0 /\ returned = {}
      /\ out = <<>> /\ file = <<>> /\ recorded = None /\ windows = <<>> /\ events = {}
      /\ since = {} /\ code = None /\ None # 0
  BY JobAssumption, NoneAssumption DEF Init
<1>2. CallsInv
  BY <1>1 DEF CallsInv, AtWork, Preparing, Finishing
<1>3. Of(<<>>, "result") = {} /\ Of(<<>>, "mark") = {} /\ DOMAIN windows = {}
  BY <1>1 DEF Of
<1>4. ResultsInv
  BY <1>1, <1>3 DEF ResultsInv
<1>5. TimingInv
  BY <1>1, <1>3 DEF TimingInv
<1>6. DiagnosticInv
  BY <1>1 DEF DiagnosticInv, Preparing, Finishing
<1>l. LostInv
  BY <1>1 DEF LostInv, Of
<1>7. RecordingInv
  BY <1>1 DEF RecordingInv, AtWork
<1>8. TimelineInv
  <2>1. Len(windows) = 0
    BY <1>1
  <2>2. QED
    BY <1>1, <1>3, <2>1 DEF TimelineInv
<1>9. AffinityInv
  BY <1>1 DEF AffinityInv
<1>10. QED
  BY <1>2, <1>4, <1>5, <1>6, <1>l, <1>7, <1>8, <1>9 DEF EngineInv, LinesInv

(* The types and the invariant are kept together.                          *)
LEMMA Inductive == TypeOK /\ EngineInv /\ [Next]_vars => (TypeOK /\ EngineInv)'
BY NextType, NextCalls, NextResults, NextTiming, NextLost, NextDiagnostic, NextRecording,
   NextTimeline, NextAffinity DEF EngineInv, LinesInv

(* In every reachable state of the engine the variables have their types and
   the invariant holds: MeasurementEngine.java and the parts of measure_protos.py
   that start it. *)
THEOREM EngineInvariant == Spec => [](TypeOK /\ EngineInv)
<1>1. Init => TypeOK /\ EngineInv
  BY InitType, InitInv
<1>2. TypeOK /\ EngineInv /\ [Next]_vars => (TypeOK /\ EngineInv)'
  BY Inductive
<1>3. QED
  BY <1>1, <1>2, PTL DEF Spec

(* Type correctness of the engine's variables.                             *)
THEOREM EngineTypes == Spec => []TypeOK
BY EngineInvariant, PTL

----------------------------------------------------------------------------
(* A set of numbers has a least one.                                       *)
LEMMA LeastExists ==
    ASSUME NEW T, T \subseteq Nat, T # {}
    PROVE  \E m \in T : \A n \in T : m <= n
<1>1. PICK m \in T : \A n \in T : ~(<<n, m>> \in OpToRel(<, Nat))
  BY NatLessThanWellFounded, WFMin
<1>2. \A n \in T : n < m => <<n, m>> \in OpToRel(<, Nat)
  BY DEF OpToRel
<1>3. \A n \in T : ~(n < m)
  BY <1>1, <1>2, Zenon
<1>4. \A n \in T : m <= n
  BY <1>3
<1>5. QED
  BY <1>4

(* A set of positions of an output has a last one.                         *)
LEMMA LastExists ==
    ASSUME NEW n \in Nat, NEW r, r \subseteq 1..n, r # {}
    PROVE  \E i \in r : \A j \in r : j <= i
<1> DEFINE T == {k \in Nat : n - k \in r}
<1>1. ASSUME NEW j \in r PROVE n - j \in T /\ n - (n - j) = j /\ j \in Nat
  <2>1. n - j \in Nat /\ n - (n - j) = j /\ j \in Nat
    OBVIOUS
  <2>2. QED
    BY <2>1
<1>2. T # {} /\ T \subseteq Nat
  BY <1>1
<1>3. PICK k \in T : \A y \in T : k <= y
  <2> HIDE DEF T
  <2>1. QED
    BY <1>2, LeastExists
<1>4. k \in Nat /\ n - k \in r
  OBVIOUS
<1> HIDE DEF T
<1>5. \A j \in r : j <= n - k
  BY <1>1, <1>3, <1>4
<1>6. QED
  BY <1>4, <1>5

(* A result that is read is the one that was expected of the calls.        *)
LEMMA ResultRead ==
    ASSUME NEW lines \in Seq(Lines), NEW r,
           \A i \in Of(lines, "result") : lines[i].of = r,
           ResultOf(lines) = Expected
    PROVE  r = Expected
<1> DEFINE R == Of(lines, "result")
<1>1. R # {}
  BY JobAssumption, NoneAssumption DEF ResultOf
<1>2. R \subseteq 1..Len(lines) /\ Len(lines) \in Nat
  BY DEF Of
<1>3. \E i \in R : \A j \in R : j <= i
  <2> HIDE DEF R
  <2>1. QED
    BY <1>1, <1>2, LastExists
<1>4. ResultOf(lines) = lines[CHOOSE i \in R : \A j \in R : j <= i].of
  BY <1>1 DEF ResultOf
<1> HIDE DEF R
<1>5. (CHOOSE i \in R : \A j \in R : j <= i) \in R
  BY <1>3
<1>6. QED
  BY <1>4, <1>5 DEF R

(* What the driver accepts of a timed run is a run that ended well.        *)
LEMMA AcceptedEnded ==
    ASSUME TypeOK, EngineInv, JfrAccepted \/ TimingAccepted
    PROVE  /\ pc = "exited" /\ code = 0 /\ AtWork /\ at = Len(Plan) + 1
           /\ job.mode # "correctness" /\ expected = Expected
<1>1. code = 0 /\ job.mode # "correctness" /\ None # 0
  BY NoneAssumption DEF JfrAccepted, TimingAccepted
<1>2. pc = "exited"
  BY <1>1 DEF EngineInv, CallsInv
<1>3. AtWork
  BY <1>1, <1>2 DEF AtWork
<1>4. at = Len(Plan) + 1
  BY <1>2, <1>3 DEF EngineInv, CallsInv
<1>5. PICK lines \in {out, file} : ResultOf(lines) = Expected
  BY DEF JfrAccepted, TimingAccepted, Source
<1>6. \A i \in Of(lines, "result") : lines[i].of = expected
  BY DEF EngineInv, LinesInv, ResultsInv
<1>7. expected = Expected
  BY <1>5, <1>6, ResultRead DEF TypeOK
<1>8. QED
  BY <1>1, <1>2, <1>3, <1>4, <1>7

(* A run with a mark that only diagnostics make is diagnostic.             *)
LEMMA MarkedDiagnostic ==
    ASSUME TypeOK, EngineInv, NEW m, m # "jfr_scope", Marked(m)
    PROVE  Diagnostic
<1>1. PICK i \in DOMAIN out : out[i] = Mark(m)
  BY DEF Marked
<1>2. i \in Of(out, "mark") /\ out[i].of = m
  BY <1>1, Kinds DEF Of
<1>3. QED
  BY <1>2 DEF EngineInv, LinesInv, TimingInv

(* What was accepted is a report on the whole plan, unless the compilers may
   have printed into it. *)
LEMMA AcceptedReport ==
    ASSUME TypeOK, EngineInv, TimingAccepted, Diagnostic \/ ~job.prints
    PROVE  Reports(Source, Len(Plan)) /\ Source \in Seq(Lines)
<1>1. code = 0 /\ job.mode # "correctness"
  BY AcceptedEnded
<1>2. CASE Diagnostic
  BY <1>1, <1>2 DEF Source, Sink, EngineInv, LinesInv, DiagnosticInv, TypeOK
<1>3. CASE ~Diagnostic
  <2>1. ~job.jit
    <3>1. job.jit => Marked("diagnostic_jfr_scope")
      BY DEF TimingAccepted
    <3>2. QED
      BY <1>3, <3>1, MarkedDiagnostic
  <2>2. job.mode = "timing"
    BY <1>1, <1>3, TypeFacts DEF Diagnostic, JobSet
  <2>3. ~Noisy
    BY <1>3, <2>1 DEF Noisy
  <2>4. QED
    BY <1>1, <1>3, <2>2, <2>3 DEF Source, Sink, EngineInv, LinesInv, TimingInv, TypeOK
<1>4. QED
  BY <1>2, <1>3

(* Whatever the driver accepts was made in full and agreed throughout, although
   the engine prints one result: correctness(), timing() and jfr_profile(). *)
THEOREM AcceptedCalls == Spec => []AcceptedCallsAgree
<1>1. ASSUME TypeOK, EngineInv PROVE AcceptedCallsAgree
  <2>1. ASSUME CorrectnessPasses PROVE returned = {Expected}
    <3>1. returned = {expected}
      BY <1>1, <2>1 DEF CorrectnessPasses, EngineInv, CallsInv
    <3>2. \A i \in Of(out, "result") : out[i].of = expected
      BY <1>1 DEF EngineInv, LinesInv, ResultsInv
    <3>3. expected = Expected
      BY <1>1, <2>1, <3>2, ResultRead DEF CorrectnessPasses, TypeOK
    <3>4. QED
      BY <3>1, <3>3
  <2>2. ASSUME JfrAccepted \/ TimingAccepted
        PROVE  returned = {Expected} /\ made = 1 + (Warmup + Steady) * Calls
    <3>1. /\ pc = "exited" /\ AtWork /\ at = Len(Plan) + 1 /\ expected = Expected
      BY <1>1, <2>2, AcceptedEnded
    <3>2. /\ made = CallsBefore(Len(Plan) + 1) + 0
          /\ IF made = 0 THEN returned = {} ELSE returned = {expected}
      BY <1>1, <3>1 DEF EngineInv, CallsInv
    <3>3. /\ Len(Plan) \in 1..Len(Plan) /\ Len(Plan) + 1 # 1
          /\ (Len(Plan) + 1) - 2 = Warmup + Steady
      BY PlanFacts, PolicyAssumption
    <3>4. CallsBefore(Len(Plan) + 1) = 1 + (Warmup + Steady) * Calls
      BY <3>3 DEF CallsBefore
    <3>5. /\ CallsBefore(Len(Plan) + 1) = CallsBefore(Len(Plan)) + Quota(Len(Plan))
          /\ CallsBefore(Len(Plan)) \in Nat /\ Quota(Len(Plan)) \in Nat
          /\ 1 <= Quota(Len(Plan))
      BY <3>3, CallsBeforeFacts
    <3> HIDE DEF CallsBefore
    <3>6. CallsBefore(Len(Plan) + 1) \in Nat /\ CallsBefore(Len(Plan) + 1) # 0
      BY <3>5
    <3>7. made = CallsBefore(Len(Plan) + 1) /\ made # 0
      BY <3>2, <3>6
    <3>8. QED
      BY <3>1, <3>2, <3>4, <3>7
  <2>3. QED
    BY <2>1, <2>2 DEF AcceptedCallsAgree
<1>2. QED
  BY <1>1, EngineInvariant, PTL

(* An accepted JFR profile saw the steady samples and nothing else:
   jfr_profile() and its scope "steady". *)
THEOREM RecordingSteady == Spec => []RecordingIsSteady
<1>1. ASSUME TypeOK, EngineInv PROVE RecordingIsSteady
  <2> SUFFICES ASSUME JfrAccepted
               PROVE  recorded = {i \in 1..Len(Plan) : Plan[i][1] = "steady"}
    BY DEF RecordingIsSteady
  <2>1. pc = "exited" /\ AtWork /\ at = Len(Plan) + 1 /\ recorded # None
    BY <1>1, AcceptedEnded DEF JfrAccepted
  <2>2. recorded = {i \in (2 + Warmup)..(Len(Plan) + 1) : i < Len(Plan) + 1}
    BY <1>1, <2>1 DEF EngineInv, RecordingInv
  <2>3. Len(Plan) = 1 + Warmup + Steady /\ Warmup \in Nat /\ Steady \in Nat
    BY <1>1, TypeFacts
  <2>4. ASSUME NEW i \in 1..Len(Plan)
        PROVE  (Plan[i][1] = "steady") = (i >= 2 + Warmup)
    <3>1. CASE i = 1
      BY <2>3, <3>1, PlanFacts
    <3>2. CASE i \in 2..(1 + Warmup)
      <4>1. Plan[i] = <<"warmup", i - 1>>
        BY <3>2, PlanFacts
      <4>2. QED
        BY <2>3, <3>2, <4>1
    <3>3. CASE i \in (2 + Warmup)..(1 + Warmup + Steady)
      <4>1. Plan[i] = <<"steady", i - 1 - Warmup>>
        BY <3>3, PlanFacts
      <4>2. QED
        BY <2>3, <3>3, <4>1
    <3>4. QED
      BY <2>3, <3>1, <3>2, <3>3
  <2>5. QED
    BY <2>2, <2>3, <2>4
<1>2. QED
  BY <1>1, EngineInvariant, PTL

(* An event of an accepted timeline counts in the windows of the samples that
   were being made while it lasted: relation() and analyze_jfr() in
   jit_timeline.py. *)
THEOREM EventsInWindows == Spec => []EventsBelongToWindows
<1>1. ASSUME TypeOK, EngineInv PROVE EventsBelongToWindows
  <2> SUFFICES ASSUME TimelinePasses, NEW e \in events, ~UnderWay(e)
               PROVE  LET hit == {i \in DOMAIN windows : Relation(e, windows[i]) = "overlap"}
                      IN  /\ \A i \in hit \ e.during :
                                e.start = e.end /\ e.start = windows[i].start
                          /\ \A i \in e.during \ hit :
                                e.end = windows[i].start \/ e.start = windows[i].end
                          /\ e.start = e.end => Cardinality(hit) <= 1
    BY DEF EventsBelongToWindows
  <2> DEFINE hit == {i \in DOMAIN windows : Relation(e, windows[i]) = "overlap"}
  <2>1. /\ DOMAIN windows = 1..Len(windows) /\ Len(windows) \in Nat
        /\ \A i \in DOMAIN windows : windows[i].start \in Nat /\ windows[i].end \in Int
    BY <1>1, TypeFacts
  <2>2. e.start \in Nat /\ e.end \in Int
    BY <1>1, NoneAssumption DEF TypeOK, JvmEvents
  <2>3. \A i \in DOMAIN windows : windows[i].end > windows[i].start
    BY DEF TimelinePasses
  <2>4. \A i \in DOMAIN windows :
          i \in hit <=> /\ windows[i].start <= e.end /\ e.start < windows[i].end
                        /\ e.end = windows[i].start => e.start = e.end
    <3>1. TAKE i \in DOMAIN windows
    <3> DEFINE a == windows[i].start
               b == windows[i].end
               c == e.start
               d == e.end
    <3>2. i \in hit <=> Relation(e, windows[i]) = "overlap"
      OBVIOUS
    <3>3. Relation(e, windows[i]) = "overlap"
            <=> ~(d < a \/ (d = a /\ c # d)) /\ ~(c >= b)
      BY DEF Relation
    <3>4. a \in Nat /\ b \in Int /\ c \in Nat /\ d \in Int
      BY <2>1, <2>2
    <3> HIDE DEF a, b, c, d, hit
    <3>5. ~(d < a \/ (d = a /\ c # d)) /\ ~(c >= b) <=> a <= d /\ c < b /\ (d = a => c = d)
      BY <3>4
    <3>6. i \in hit <=> a <= d /\ c < b /\ (d = a => c = d)
      BY <3>2, <3>3, <3>5
    <3>7. QED
      BY <3>6 DEF a, b, c, d
  <2>5. e.during \subseteq DOMAIN windows /\ hit \subseteq DOMAIN windows
    BY <1>1 DEF EngineInv, TimelineInv, EventKept
  <2>6. \A i \in DOMAIN windows :
          IF i \in e.during
          THEN /\ windows[i].end # -1 => e.start <= windows[i].end
               /\ windows[i].start <= e.end
          ELSE \/ e.end <= windows[i].start
               \/ windows[i].end # -1 /\ windows[i].end <= e.start
    BY <1>1 DEF EngineInv, TimelineInv, EventKept
  <2> HIDE DEF hit
  <2>7. ASSUME NEW i \in hit \ e.during
        PROVE  e.start = e.end /\ e.start = windows[i].start
    <3>1. i \in DOMAIN windows /\ i \in hit /\ i \notin e.during
      BY <2>5
    <3>2. QED
      BY <2>1, <2>2, <2>4, <2>6, <3>1
  <2>8. ASSUME NEW i \in e.during \ hit
        PROVE  e.end = windows[i].start \/ e.start = windows[i].end
    <3>1. i \in DOMAIN windows /\ i \notin hit /\ i \in e.during
      BY <2>5
    <3>2. QED
      BY <2>1, <2>2, <2>3, <2>4, <2>6, <3>1
  <2>9. ASSUME e.start = e.end PROVE Cardinality(hit) <= 1
    <3>1. ASSUME NEW i \in hit, NEW j \in hit, i < j PROVE FALSE
      <4>1. i \in DOMAIN windows /\ j \in DOMAIN windows
        BY <2>5
      <4>2. windows[i].end <= windows[j].start
        BY <1>1, <3>1, <4>1 DEF EngineInv, TimelineInv
      <4>3. QED
        BY <2>1, <2>2, <2>4, <2>9, <4>1, <4>2
    <3>2. \A i, j \in hit : i = j
      BY <2>1, <2>5, <3>1
    <3>3. CASE hit = {}
      BY <3>3, FS_EmptySet
    <3>4. CASE hit # {}
      <4>1. PICK i : hit = {i}
        BY <3>2, <3>4
      <4>2. Cardinality({i}) = 1
        BY FS_Singleton
      <4>3. QED
        BY <4>1, <4>2
    <3>5. QED
      BY <3>3, <3>4
  <2>10. QED
    BY <2>7, <2>8, <2>9 DEF hit
<1>2. QED
  BY <1>1, EngineInvariant, PTL

(* An accepted affinity profile held for the threads that lived through both
   snapshots: verifyThreads() of the engine, timing() of the driver. *)
THEOREM AffinityProved == Spec => []AffinityIsProved
<1>1. ASSUME TypeOK, EngineInv PROVE AffinityIsProved
  <2> SUFFICES ASSUME TimingAccepted, job.profile \in {"A", "C"}
               PROVE  \A t \in since :
                        /\ job.profile = "A" => threads[t].mask = Narrow
                        /\ job.profile = "C" /\ threads[t].role = "compiler"
                              => threads[t].mask = Wide
    BY DEF AffinityIsProved
  <2>1. job.profile # None /\ code = 0
    BY NoneAssumption DEF TimingAccepted
  <2>2. Marked("initial")
    BY <2>1 DEF TimingAccepted, AffinityMarked
  <2>3. Diagnostic
    BY <1>1, <2>2, MarkedDiagnostic
  <2>4. QED
    BY <1>1, <2>1, <2>3 DEF EngineInv, AffinityInv
<1>2. QED
  BY <1>1, EngineInvariant, PTL

----------------------------------------------------------------------------
(* What a report on the whole plan says.                                   *)

(* The lines that declare the plan.                                         *)
LEMMA DeclaredLines ==
    /\ Declared[1] = Line("setup", "", 0) /\ Declared[2] = Line("calls", "", Calls)
    /\ Declared[3] = Line("declared", "warmup", Warmup)
    /\ Declared[4] = Line("declared", "steady", Steady)
BY DEF Declared

(* Its samples are on consecutive lines, each that of its place in the plan. *)
LEMMA ReportSamples ==
    ASSUME NEW lines \in Seq(Lines), Reports(lines, Len(Plan))
    PROVE  /\ Of(lines, "sample") = 5..(4 + Len(Plan))
           /\ \A i \in 1..Len(Plan) :
                 lines[4 + i].of = Plan[i][1] /\ lines[4 + i].number = Plan[i][2]
           /\ \A i \in 5..(4 + Len(Plan)) :
                 /\ i - 4 \in 1..Len(Plan)
                 /\ lines[i].of = Plan[i - 4][1] /\ lines[i].number = Plan[i - 4][2]
<1>1. Len(Plan) \in Nat
  BY PlanFacts, PolicyAssumption
<1>2. \A i \in 1..Len(Plan) :
        /\ lines[4 + i].kind = "sample"
        /\ lines[4 + i].of = Plan[i][1] /\ lines[4 + i].number = Plan[i][2]
  <2>1. \A i \in 1..Len(Plan) : lines[4 + i] = Line("sample", Plan[i][1], Plan[i][2])
    BY DEF Reports
  <2>2. \A x, n : LET l == Line("sample", x, n)
                 IN  l.kind = "sample" /\ l.of = x /\ l.number = n
    BY DEF Line
  <2>3. QED
    BY <2>1, <2>2
<1>3. \A i \in 5..(4 + Len(Plan)) : i - 4 \in 1..Len(Plan) /\ 4 + (i - 4) = i
  BY <1>1
<1>4. \A i \in 5..(4 + Len(Plan)) :
        /\ i - 4 \in 1..Len(Plan) /\ lines[i].kind = "sample"
        /\ lines[i].of = Plan[i - 4][1] /\ lines[i].number = Plan[i - 4][2]
  BY <1>2, <1>3
<1>5. \A i \in 1..4 : lines[i].kind # "sample"
  BY LineTypes DEF Reports
<1>6. \A i \in (5 + Len(Plan))..Len(lines) : lines[i].kind # "sample"
  BY DEF Reports
<1>7. DOMAIN lines = 1..Len(lines) /\ Len(lines) \in Nat /\ Len(lines) >= 4 + Len(Plan)
  BY DEF Reports
<1>8. ASSUME NEW i \in Of(lines, "sample") PROVE i \in 5..(4 + Len(Plan))
  <2>1. i \in 1..Len(lines) /\ lines[i].kind = "sample"
    BY <1>7 DEF Of
  <2>2. i \notin 1..4 /\ i \notin (5 + Len(Plan))..Len(lines)
    BY <1>5, <1>6, <2>1
  <2>3. QED
    BY <1>1, <1>7, <2>1, <2>2
<1>9. ASSUME NEW i \in 5..(4 + Len(Plan)) PROVE i \in Of(lines, "sample")
  <2>1. i \in DOMAIN lines
    BY <1>1, <1>7
  <2>2. QED
    BY <1>4, <2>1 DEF Of
<1>10. QED
  BY <1>2, <1>4, <1>8, <1>9

(* Its samples by phase.                                                   *)
LEMMA ReportPhases ==
    ASSUME NEW lines \in Seq(Lines), Reports(lines, Len(Plan))
    PROVE  /\ SamplesOf(lines, "cold") = 5..5 /\ lines[5].number = 1
           /\ SamplesOf(lines, "warmup") = 6..(5 + Warmup)
           /\ \A k \in 1..Warmup : lines[5 + k].number = k
           /\ SamplesOf(lines, "steady") = (6 + Warmup)..(5 + Warmup + Steady)
           /\ \A k \in 1..Steady : lines[5 + Warmup + k].number = k
<1>1. /\ Len(Plan) = 1 + Warmup + Steady /\ Warmup \in Nat /\ Steady \in Nat
  BY PlanFacts, PolicyAssumption
<1>2. lines[5].of = "cold" /\ lines[5].number = 1
  <2>1. 5 \in 5..(4 + Len(Plan)) /\ 5 - 4 = 1
    BY <1>1
  <2>2. lines[5].of = Plan[1][1] /\ lines[5].number = Plan[1][2]
    BY <2>1, ReportSamples
  <2>3. QED
    BY <2>2, PlanFacts
<1>3. ASSUME NEW k \in 1..Warmup
      PROVE  lines[5 + k].of = "warmup" /\ lines[5 + k].number = k
  <2>1. /\ 5 + k \in 5..(4 + Len(Plan)) /\ (5 + k) - 4 = k + 1
        /\ k + 1 \in 2..(1 + Warmup) /\ (k + 1) - 1 = k
    BY <1>1
  <2>2. lines[5 + k].of = Plan[k + 1][1] /\ lines[5 + k].number = Plan[k + 1][2]
    BY <2>1, ReportSamples
  <2>3. Plan[k + 1] = <<"warmup", k>>
    BY <2>1, PlanFacts
  <2>4. QED
    BY <2>2, <2>3
<1>4. ASSUME NEW k \in 1..Steady
      PROVE  /\ lines[5 + Warmup + k].of = "steady"
             /\ lines[5 + Warmup + k].number = k
  <2> DEFINE i == 1 + Warmup + k
  <2>1. /\ 5 + Warmup + k \in 5..(4 + Len(Plan)) /\ (5 + Warmup + k) - 4 = i
        /\ i \in (2 + Warmup)..(1 + Warmup + Steady) /\ i - 1 - Warmup = k
    BY <1>1
  <2> HIDE DEF i
  <2>2. /\ lines[5 + Warmup + k].of = Plan[i][1]
        /\ lines[5 + Warmup + k].number = Plan[i][2]
    BY <2>1, ReportSamples
  <2>3. Plan[i] = <<"steady", i - 1 - Warmup>>
    BY <2>1, PlanFacts
  <2>4. QED
    BY <2>1, <2>2, <2>3
<1>5. Of(lines, "sample") = 5..(5 + Warmup + Steady)
  <2>1. 4 + Len(Plan) = 5 + Warmup + Steady
    BY <1>1
  <2>2. QED
    BY <2>1, ReportSamples
<1>6. \A i \in 6..(5 + Warmup) : lines[i].of = "warmup"
  <2>1. \A i \in 6..(5 + Warmup) : i - 5 \in 1..Warmup /\ 5 + (i - 5) = i
    BY <1>1
  <2>2. QED
    BY <1>3, <2>1
<1>7. \A i \in (6 + Warmup)..(5 + Warmup + Steady) : lines[i].of = "steady"
  <2>1. \A i \in (6 + Warmup)..(5 + Warmup + Steady) :
           i - 5 - Warmup \in 1..Steady /\ 5 + Warmup + (i - 5 - Warmup) = i
    BY <1>1
  <2>2. QED
    BY <1>4, <2>1
<1>8. \A i \in 5..(5 + Warmup + Steady) :
        \/ i \in 5..5 /\ lines[i].of = "cold"
        \/ i \in 6..(5 + Warmup) /\ lines[i].of = "warmup"
        \/ i \in (6 + Warmup)..(5 + Warmup + Steady) /\ lines[i].of = "steady"
  <2>1. TAKE i \in 5..(5 + Warmup + Steady)
  <2>2. \/ i = 5
        \/ i \in 6..(5 + Warmup)
        \/ i \in (6 + Warmup)..(5 + Warmup + Steady)
    BY <1>1
  <2>3. QED
    BY <1>2, <1>6, <1>7, <2>2
<1>9. /\ 5..5 \subseteq 5..(5 + Warmup + Steady)
      /\ 6..(5 + Warmup) \subseteq 5..(5 + Warmup + Steady)
      /\ (6 + Warmup)..(5 + Warmup + Steady) \subseteq 5..(5 + Warmup + Steady)
  BY <1>1
<1>10. /\ SamplesOf(lines, "cold") = 5..5
       /\ SamplesOf(lines, "warmup") = 6..(5 + Warmup)
       /\ SamplesOf(lines, "steady") = (6 + Warmup)..(5 + Warmup + Steady)
  <2>1. \A i \in 5..5 : lines[i].of = "cold"
    BY <1>2
  <2>2. QED
    BY <1>5, <1>6, <1>7, <1>8, <1>9, <2>1 DEF SamplesOf
<1>11. QED
  BY <1>2, <1>3, <1>4, <1>10

(* The analysis of a diagnostic run finds nothing to reject in it.         *)
LEMMA ReportAnalysed ==
    ASSUME file \in Seq(Lines), Reports(file, Len(Plan)), Len(file) = 5 + Len(Plan),
           file[5 + Len(Plan)] = Line("result", Expected, 0)
    PROVE  AnalysisPasses
<1>1. /\ Len(Plan) = 1 + Warmup + Steady /\ Warmup \in Nat
      /\ Steady \in Nat /\ Steady >= 1 /\ DOMAIN file = 1..(5 + Len(Plan))
  BY PlanFacts, PolicyAssumption
<1>2. \A i \in 1..4 : file[i] = Declared[i]
  BY DEF Reports
<1>3. /\ file[1].kind = "setup" /\ file[2].kind = "calls"
      /\ file[3] = Line("declared", "warmup", Warmup)
      /\ file[4] = Line("declared", "steady", Steady)
      /\ file[3].kind = "declared" /\ file[4].kind = "declared"
  <2>1. /\ file[1] = Declared[1] /\ file[2] = Declared[2]
        /\ file[3] = Declared[3] /\ file[4] = Declared[4]
    BY <1>2
  <2>2. /\ Declared[1].kind = "setup" /\ Declared[2].kind = "calls"
        /\ Declared[3].kind = "declared" /\ Declared[4].kind = "declared"
    BY DEF Declared, Line
  <2>3. QED
    BY <2>1, <2>2, DeclaredLines
<1>4. \A i \in 5..(4 + Len(Plan)) : file[i].kind = "sample"
  <2>1. 5..(4 + Len(Plan)) = Of(file, "sample")
    BY ReportSamples
  <2>2. QED
    BY <2>1 DEF Of
<1>5. file[5 + Len(Plan)].kind = "result"
  BY Kinds
<1>6. \A i \in DOMAIN file : \/ i \in {1, 2, 3, 4}
                             \/ i \in 5..(4 + Len(Plan))
                             \/ i = 5 + Len(Plan)
  BY <1>1
<1>7. Of(file, "calls") # {}
  BY <1>1, <1>3 DEF Of
<1>8. Of(file, "result") = {5 + Len(Plan)}
  <2>1. 5 + Len(Plan) \in DOMAIN file
    BY <1>1
  <2>2. QED
    BY <1>3, <1>4, <1>5, <1>6, <2>1 DEF Of
<1>9. Of(file, "declared") \subseteq {3, 4}
  BY <1>3, <1>4, <1>5, <1>6 DEF Of
<1>10. NoDuplicates(file)
  <2> SUFFICES ASSUME NEW i \in Of(file, "sample"), NEW j \in Of(file, "sample"),
                      file[i] = file[j]
               PROVE  i = j
    BY DEF NoDuplicates
  <2>1. /\ i \in 5..5 \/ i \in 6..(5 + Warmup) \/ i \in (6 + Warmup)..(5 + Warmup + Steady)
        /\ j \in 5..5 \/ j \in 6..(5 + Warmup) \/ j \in (6 + Warmup)..(5 + Warmup + Steady)
    BY <1>1, ReportSamples
  <2>2. \/ i \in SamplesOf(file, "cold") /\ j \in SamplesOf(file, "cold")
        \/ i \in SamplesOf(file, "warmup") /\ j \in SamplesOf(file, "warmup")
        \/ i \in SamplesOf(file, "steady") /\ j \in SamplesOf(file, "steady")
    <3>1. \A k \in Of(file, "sample") :
            k \in SamplesOf(file, "cold") \cup SamplesOf(file, "warmup")
                    \cup SamplesOf(file, "steady")
      <4>1. \A k \in 5..(4 + Len(Plan)) :
              k \in 5..5 \/ k \in 6..(5 + Warmup) \/ k \in (6 + Warmup)..(5 + Warmup + Steady)
        BY <1>1
      <4>2. QED
        BY <4>1, ReportSamples, ReportPhases
    <3>2. QED
      BY <3>1 DEF SamplesOf
  <2>3. ASSUME NEW k \in SamplesOf(file, "warmup") PROVE file[k].number = k - 5
    <3> DEFINE n == k - 5
    <3>1. k \in 6..(5 + Warmup)
      BY ReportPhases
    <3>2. n \in 1..Warmup /\ 5 + n = k
      BY <1>1, <3>1
    <3> HIDE DEF n
    <3>3. file[5 + n].number = n
      BY <3>2, ReportPhases
    <3>4. QED
      BY <3>2, <3>3 DEF n
  <2>4. ASSUME NEW k \in SamplesOf(file, "steady")
        PROVE  file[k].number = k - 5 - Warmup
    <3> DEFINE n == k - 5 - Warmup
    <3>1. k \in (6 + Warmup)..(5 + Warmup + Steady)
      BY ReportPhases
    <3>2. n \in 1..Steady /\ 5 + Warmup + n = k
      BY <1>1, <3>1
    <3> HIDE DEF n
    <3>3. file[5 + Warmup + n].number = n
      BY <3>2, ReportPhases
    <3>4. QED
      BY <3>2, <3>3 DEF n
  <2>5. CASE i \in SamplesOf(file, "cold") /\ j \in SamplesOf(file, "cold")
    BY <2>5, ReportPhases
  <2>6. CASE i \in SamplesOf(file, "warmup") /\ j \in SamplesOf(file, "warmup")
    <3>1. i - 5 = j - 5 /\ i \in Int /\ j \in Int
      BY <2>1, <2>3, <2>6
    <3>2. QED
      BY <3>1
  <2>7. CASE i \in SamplesOf(file, "steady") /\ j \in SamplesOf(file, "steady")
    <3>1. i - 5 - Warmup = j - 5 - Warmup /\ i \in Int /\ j \in Int
      BY <2>1, <2>4, <2>7
    <3>2. QED
      BY <1>1, <3>1
  <2>8. QED
    BY <2>2, <2>5, <2>6, <2>7
<1>11. /\ Cardinality(SamplesOf(file, "cold")) = 1
       /\ Cardinality(SamplesOf(file, "warmup")) = Warmup
       /\ Cardinality(SamplesOf(file, "steady")) = Steady
  <2>1. /\ Cardinality(5..5) = 1
        /\ Cardinality(6..(5 + Warmup)) = Warmup
        /\ Cardinality((6 + Warmup)..(5 + Warmup + Steady)) = Steady
    <3>1. Cardinality(5..5) = 1
      <4>1. 5..5 = {5}
        OBVIOUS
      <4>2. QED
        BY <4>1, FS_Singleton
    <3>2. Cardinality(6..(5 + Warmup)) = Warmup
      BY <1>1, FS_Interval
    <3>3. Cardinality((6 + Warmup)..(5 + Warmup + Steady)) = Steady
      BY <1>1, FS_Interval
    <3>4. QED
      BY <3>1, <3>2, <3>3
  <2>2. QED
    BY <2>1, ReportPhases
<1>12. /\ Contiguous(file, "cold") /\ Contiguous(file, "warmup")
       /\ Contiguous(file, "steady")
  <2>1. 1..1 \subseteq {file[i].number : i \in SamplesOf(file, "cold")}
    BY ReportPhases
  <2>2. 1..Warmup \subseteq {file[i].number : i \in SamplesOf(file, "warmup")}
    <3>1. \A k \in 1..Warmup : 5 + k \in 6..(5 + Warmup)
      BY <1>1
    <3>2. QED
      BY <3>1, ReportPhases
  <2>3. 1..Steady \subseteq {file[i].number : i \in SamplesOf(file, "steady")}
    <3>1. \A k \in 1..Steady : 5 + Warmup + k \in (6 + Warmup)..(5 + Warmup + Steady)
      BY <1>1
    <3>2. QED
      BY <3>1, ReportPhases
  <2>4. QED
    BY <1>11, <2>1, <2>2, <2>3 DEF Contiguous
<1>13. /\ Complete(file, "cold") /\ Complete(file, "warmup") /\ Complete(file, "steady")
  BY <1>3, <1>9, <1>11 DEF Complete, Line
<1>14. SamplesOf(file, "steady") # {}
  <2>1. 6 + Warmup \in (6 + Warmup)..(5 + Warmup + Steady)
    BY <1>1
  <2>2. QED
    BY <2>1, ReportPhases
<1>15. QED
  BY <1>1, <1>7, <1>8, <1>10, <1>12, <1>13, <1>14 DEF AnalysisPasses

(* It names the calls of a sample. *)
LEMMA ReportCalls ==
    ASSUME NEW lines \in Seq(Lines), Reports(lines, Len(Plan))
    PROVE  CallsOf(lines) = Calls
<1>1. /\ DOMAIN lines = 1..Len(lines) /\ Len(lines) \in Nat /\ Len(Plan) \in Nat
      /\ Len(lines) >= 4 + Len(Plan)
  BY PlanFacts, PolicyAssumption DEF Reports
<1>2. /\ lines[1] = Declared[1] /\ lines[2] = Declared[2]
      /\ lines[3] = Declared[3] /\ lines[4] = Declared[4]
  BY DEF Reports
<1>3. /\ lines[1].kind # "calls" /\ lines[3].kind # "calls" /\ lines[4].kind # "calls"
      /\ lines[2].kind = "calls" /\ lines[2].number = Calls
  <2>1. /\ Line("setup", "", 0).kind = "setup"
        /\ Line("calls", "", Calls).kind = "calls"
        /\ Line("calls", "", Calls).number = Calls
        /\ Line("declared", "warmup", Warmup).kind = "declared"
        /\ Line("declared", "steady", Steady).kind = "declared"
    BY DEF Line
  <2>2. /\ lines[1] = Line("setup", "", 0) /\ lines[2] = Line("calls", "", Calls)
        /\ lines[3] = Line("declared", "warmup", Warmup)
        /\ lines[4] = Line("declared", "steady", Steady)
    BY <1>2, DeclaredLines
  <2>3. QED
    BY <2>1, <2>2
<1>4. \A i \in Of(lines, "sample") : lines[i].kind # "calls"
  BY DEF Of
<1>5. \A i \in 5..(4 + Len(Plan)) : lines[i].kind # "calls"
  BY <1>4, ReportSamples
<1>6. \A i \in (5 + Len(Plan))..Len(lines) : lines[i].kind # "calls"
  BY DEF Reports
<1>7. \A i \in 1..Len(lines) : \/ i \in {1, 2, 3, 4} \/ i \in 5..(4 + Len(Plan))
                                \/ i \in (5 + Len(Plan))..Len(lines)
  BY <1>1
<1>8. Of(lines, "calls") = {2}
  <2>1. 2 \in DOMAIN lines
    BY <1>1
  <2>2. QED
    BY <1>1, <1>3, <1>5, <1>6, <1>7, <2>1 DEF Of
<1>9. (CHOOSE i \in {2} : \A j \in {2} : j <= i) = 2
  OBVIOUS
<1>10. QED
  BY <1>3, <1>8, <1>9 DEF CallsOf

(* The samples of an accepted run are those of the plan, which nobody counts
   in a timing run: parse_output(), timing() and measure_diagnostics.analyze(). *)
THEOREM AcceptedSamples == Spec => []AcceptedSamplesAreThePlan
<1>1. ASSUME TypeOK, EngineInv PROVE AcceptedSamplesAreThePlan
  <2> SUFFICES ASSUME TimingAccepted
               PROVE  LET samples == Of(Source, "sample")
                      IN  /\ Diagnostic \/ ~job.prints =>
                                /\ Cardinality(samples) = Len(Plan)
                                /\ \A i \in samples :
                                      Plan[Nth(Source, i)]
                                        = <<Source[i].of, Source[i].number>>
                                /\ CallsOf(Source) = Calls
                          /\ \E place \in [samples -> 1..Len(Plan)] :
                                /\ \A i \in samples :
                                      Plan[place[i]] = <<Source[i].of, Source[i].number>>
                                /\ \A i, j \in samples : i < j => place[i] < place[j]
                          /\ Diagnostic => AnalysisPasses
    BY DEF AcceptedSamplesAreThePlan
  <2> DEFINE lines == Source
             samples == Of(lines, "sample")
  <2>1. Len(Plan) \in Nat /\ \A i \in 1..Len(Plan) : Plan[i] \in Items
    BY PlanFacts, PolicyAssumption
  <2>2. \A i \in 1..Len(Plan) : Plan[i] = <<Plan[i][1], Plan[i][2]>>
    BY <2>1 DEF Items
  <2>3. lines \in Seq(Lines) /\ samples \subseteq Int
    <3>1. lines \in Seq(Lines)
      BY <1>1 DEF Source, TypeOK
    <3> HIDE DEF lines
    <3>2. QED
      BY <3>1 DEF Of
  <2> HIDE DEF lines
  <2>4. ASSUME Diagnostic \/ ~job.prints
        PROVE  /\ Cardinality(samples) = Len(Plan)
               /\ \A i \in samples : /\ i - 4 \in 1..Len(Plan) /\ Nth(lines, i) = i - 4
                                     /\ Plan[i - 4] = <<lines[i].of, lines[i].number>>
               /\ CallsOf(lines) = Calls
    <3>1. Reports(lines, Len(Plan))
      BY <1>1, <2>4, AcceptedReport DEF lines
    <3>2. /\ samples = 5..(4 + Len(Plan))
          /\ \A i \in 5..(4 + Len(Plan)) :
                /\ i - 4 \in 1..Len(Plan)
                /\ lines[i].of = Plan[i - 4][1] /\ lines[i].number = Plan[i - 4][2]
      BY <2>3, <3>1, ReportSamples
    <3>3. Cardinality(samples) = Len(Plan)
      <4> DEFINE b == 4 + Len(Plan)
      <4>1. b \in Int /\ (IF 5 > b THEN 0 ELSE b - 5 + 1) = Len(Plan)
        BY <2>1
      <4>2. samples = 5..b
        BY <3>2
      <4> HIDE DEF b, samples
      <4>3. Cardinality(5..b) = IF 5 > b THEN 0 ELSE b - 5 + 1
        BY <4>1, FS_Interval
      <4>4. QED
        BY <4>1, <4>2, <4>3
    <3>4. ASSUME NEW i \in samples
          PROVE  /\ i - 4 \in 1..Len(Plan) /\ Nth(lines, i) = i - 4
                 /\ Plan[i - 4] = <<lines[i].of, lines[i].number>>
      <4>1. i \in 5..(4 + Len(Plan)) /\ i \in Int
        BY <3>2
      <4>2. {j \in samples : j <= i} = 5..i
        BY <2>1, <3>2, <4>1
      <4>3. Cardinality(5..i) = i - 4
        BY <4>1, FS_Interval
      <4>4. Nth(lines, i) = i - 4
        BY <4>2, <4>3 DEF Nth
      <4>5. QED
        BY <2>2, <3>2, <4>1, <4>4
    <3>5. CallsOf(lines) = Calls
      BY <2>3, <3>1, ReportCalls
    <3>6. QED
      BY <3>3, <3>4, <3>5
  <2>5. \A i \in samples : /\ i - 4 \in 1..Len(Plan)
                           /\ Plan[i - 4] = <<lines[i].of, lines[i].number>>
    <3>1. CASE Diagnostic
      BY <2>4, <3>1
    <3>2. CASE ~Diagnostic
      <4>1. job.mode = "timing" /\ lines = out
        BY <1>1, <3>2, AcceptedEnded, TypeFacts
           DEF Diagnostic, JobSet, Source, Sink, lines
      <4>2. \A i \in samples : /\ i - 4 \in 1..Len(Plan)
                               /\ lines[i] = Line("sample", Plan[i - 4][1], Plan[i - 4][2])
        BY <1>1, <4>1 DEF EngineInv, LinesInv, LostInv
      <4>3. \A x, n : Line("sample", x, n).of = x /\ Line("sample", x, n).number = n
        BY DEF Line
      <4> HIDE DEF samples
      <4>4. QED
        BY <2>2, <4>2, <4>3
    <3>3. QED
      BY <3>1, <3>2
  <2>6. \E place \in [samples -> 1..Len(Plan)] :
           /\ \A i \in samples : Plan[place[i]] = <<lines[i].of, lines[i].number>>
           /\ \A i, j \in samples : i < j => place[i] < place[j]
    <3> DEFINE place == [i \in samples |-> i - 4]
    <3> HIDE DEF samples
    <3>1. place \in [samples -> 1..Len(Plan)]
      BY <2>5
    <3>2. \A i \in samples : Plan[place[i]] = <<lines[i].of, lines[i].number>>
      BY <2>5
    <3>3. \A i, j \in samples : i < j => place[i] < place[j]
      BY <2>3
    <3> HIDE DEF place
    <3>4. QED
      BY <3>1, <3>2, <3>3
  <2>7. ASSUME Diagnostic PROVE AnalysisPasses
    <3>1. code = 0 /\ expected = Expected
      BY <1>1, AcceptedEnded
    <3>2. /\ Reports(file, Len(Plan)) /\ Len(file) = 5 + Len(Plan)
          /\ file[5 + Len(Plan)] = Line("result", Expected, 0)
      BY <1>1, <2>7, <3>1 DEF EngineInv, LinesInv, DiagnosticInv
    <3>3. QED
      BY <1>1, <3>2, ReportAnalysed DEF TypeOK
  <2>8. Diagnostic \/ ~job.prints =>
          /\ Cardinality(samples) = Len(Plan)
          /\ \A i \in samples : Plan[Nth(lines, i)] = <<lines[i].of, lines[i].number>>
          /\ CallsOf(lines) = Calls
    BY <2>4
  <2>9. QED
    BY <2>6, <2>7, <2>8 DEF lines
<1>2. QED
  BY <1>1, EngineInvariant, PTL
=============================================================================
