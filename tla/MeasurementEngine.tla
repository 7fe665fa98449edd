------------------------- MODULE MeasurementEngine -------------------------
(***************************************************************************)
(* MeasurementEngine.java, the JVM that makes the calls of one case, and   *)
(* what the driver (measure_protos.py) and its parsers accept of it.       *)
(*                                                                         *)
(* The engine makes one cold call, then samples of several calls, and      *)
(* prints a line per sample.  The driver reads the merged output of the    *)
(* process; a diagnostic run also writes a file of its own, because the    *)
(* compilers print to the same stream.  Meanwhile threads of the JVM are   *)
(* born and die, code is compiled and deoptimized, and garbage collected.  *)
(***************************************************************************)
EXTENDS Integers, Sequences, FiniteSets

CONSTANTS
    Jobs,               \* what the driver may start the engine for
    Warmup, Steady, Calls,  \* the timing policy
    Results, Expected,  \* what a call may return; what the catalog expects
    Threads,            \* identities of threads other than the measured one
    MaxClock,           \* bound on the ticks of the JFR clock
    None

VARIABLES
    job,        \* mode, JFR request and affinity profile of this process
    pc, at, done,   \* step; sample of the plan; calls made in the sample
    expected,   \* result of the cold call
    returned, made, \* history: results of the calls, number of calls
    out, file,  \* lines of the output, and of the samples file
    recorded,   \* samples whose calls a steady recording saw, or None
    clock, windows, events, \* the JFR timeline of a diagnostic run
    threads, listed, since, \* masks; tids of a listing; alive since "before"
    code        \* exit code, or None

calls    == <<at, done, expected, returned, made>>
timeline == <<clock, windows, events>>
affinity == <<threads, listed, since>>
vars == <<job, pc, calls, out, file, recorded, timeline, affinity, code>>

(* prints: a --jvm-option made the compilers print, which only keeps the run
   from being reference-eligible. *)
JobSet == [mode : {"correctness", "timing", "diagnostic"}, prints : BOOLEAN,
           jfr : BOOLEAN, jit : BOOLEAN, profile : {None, "A", "C"}]
ASSUME JobAssumption == Jobs \subseteq JobSet /\ Expected \in Results
ASSUME PolicyAssumption ==
    Warmup \in Nat /\ Steady \in Nat \ {0} /\ Calls \in Nat \ {0}
ASSUME NoneAssumption ==
    /\ None \notin Results /\ None \notin {0, 1} /\ None \notin {"A", "C"}
    /\ MaxClock \in Nat

Numbered(phase, n) == [i \in 1..n |-> <<phase, i>>]
Plan == Numbered("cold", 1) \o Numbered("warmup", Warmup)
                            \o Numbered("steady", Steady)

OneMore(n) == IF n = 1 THEN 1 ELSE Calls + 1                   \* mutant
Quota(n) == IF n = 1 THEN 1 ELSE Calls

Diagnostic == job.mode = "diagnostic"
Noisy      == job.jit \/ job.prints

Narrow == "0"
Wide   == "0-1"
InitialMask == IF job.profile = "C" THEN Wide ELSE Narrow

Line(kind, x, i) == [kind |-> kind, of |-> x, number |-> i]
Broken == Line("broken", "", 0)
Mark(m) == Line("mark", m, 0)
Declared == <<Line("setup", "", 0), Line("calls", "", Calls),
              Line("declared", "warmup", Warmup),
              Line("declared", "steady", Steady)>>

Init ==
    /\ job \in Jobs
    /\ pc = "start" /\ at = 1 /\ done = 0
    /\ expected = None /\ returned = {} /\ made = 0
    /\ out = <<>> /\ file = <<>> /\ recorded = None
    /\ clock = 0 /\ windows = <<>> /\ events = {}
    /\ threads \in [Threads -> {None} \cup
                        {[role |-> r, mask |-> InitialMask] :
                            r \in {"compiler", "auxiliary"}}]
    /\ job.profile = None => threads = [t \in Threads |-> None]
    /\ listed = {} /\ since = {}
    /\ code = None

----------------------------------------------------------------------------
(* The engine *)

(* Where compilers print to the output too, any line of it may be lost: it
   has become a part of one of theirs. *)
Emit(lines) ==
    \E lost \in SUBSET DOMAIN lines :
        /\ lost # {} => Noisy
        /\ out' = out \o [i \in DOMAIN lines |->
                               IF i \in lost THEN Broken ELSE lines[i]]

Exit(c) == pc' = "exited" /\ code' = c
Goto(p) == pc' = p /\ UNCHANGED code

Correctness ==
    /\ pc = "start" /\ job.mode = "correctness"
    /\ \E r \in Results : /\ returned' = {r} /\ expected' = r
                          /\ out' = <<Line("result", r, 0)>>
    /\ made' = 1
    /\ Exit(0)
    /\ UNCHANGED <<job, at, done, file, recorded, timeline, affinity>>

StartTiming ==
    /\ pc = "start" /\ job.mode = "timing"
    /\ Emit(Declared)
    /\ Goto("begin")
    /\ UNCHANGED <<job, calls, file, recorded, timeline, affinity>>

StartDiagnostic ==
    /\ pc = "start" /\ Diagnostic
    /\ CASE job.jfr               -> Exit(1)
         [] job.profile # None    -> Goto("pin")
         [] OTHER                 -> Goto("open")
    /\ UNCHANGED <<job, calls, out, file, recorded, timeline, affinity>>

(* taskset on the thread that is going to call; the others keep the mask
   they were born with. *)
Pin ==
    /\ pc = "pin"
    /\ Emit(<<Mark("initial"), Mark("pinned")>>)
    /\ Goto("before")
    /\ UNCHANGED <<job, calls, file, recorded, timeline, affinity>>

Alive == {t \in Threads : threads[t] # None}

(* Files.list: the threads of that moment. *)
List ==
    /\ pc \in {"before", "after"}
    /\ listed' = Alive
    /\ since' = IF pc = "before" THEN Alive ELSE since
    /\ Goto(IF pc = "before" THEN "verify_before" ELSE "verify_after")
    /\ UNCHANGED <<job, calls, out, file, recorded, timeline, threads>>

Compilers(S) == {t \in S : threads[t].role = "compiler"}

AnyMask(S) ==                                                  \* mutant
    /\ S # {}
    /\ job.profile = "A" => \A t \in S : threads[t].mask = Narrow
    /\ job.profile = "C" => Compilers(S) # {}

MasksHold(S) ==
    /\ S # {}
    /\ job.profile = "A" => \A t \in S : threads[t].mask = Narrow
    /\ job.profile = "C" => /\ Compilers(S) # {}
                            /\ \A t \in Compilers(S) : threads[t].mask = Wide

(* A thread may have ended since it was listed. *)
Verify ==
    /\ pc \in {"verify_before", "verify_after"}
    /\ IF MasksHold(listed \cap Alive)
       THEN IF pc = "verify_before"
            THEN Emit(<<Mark("before")>>) /\ Goto("open")
            ELSE Emit(<<Mark("after")>>) /\ Exit(0)
       ELSE Exit(1) /\ UNCHANGED out
    /\ UNCHANGED <<job, calls, file, recorded, timeline, affinity>>

TimelineSink == IF job.jit THEN "file" ELSE "out"               \* mutant
Sink == IF Diagnostic THEN "file" ELSE "out"

Write(lines) ==
    IF Sink = "file" THEN file' = file \o lines /\ UNCHANGED out
    ELSE Emit(lines) /\ UNCHANGED file

(* CREATE_NEW in a directory of the driver's own. *)
Open ==
    /\ pc = "open"
    /\ Write(Declared)
    /\ Goto("sampler")
    /\ UNCHANGED <<job, calls, recorded, timeline, affinity>>

StartSampler ==
    /\ pc = "sampler"
    /\ Emit(<<Mark("diagnostic_mode")>>)
    /\ Goto("begin")
    /\ UNCHANGED <<job, calls, file, recorded, timeline, affinity>>

Ticks == clock' \in {c \in {clock, clock + 1} : c <= MaxClock}

UnderWay(e) == e.end = -1

StartsWarm == at = 2                                           \* mutant
StartsRecording == at = 2 + Warmup

Begin ==
    /\ pc = "begin" /\ at <= Len(Plan)
    /\ done' = 0
    /\ IF job.jit
       THEN Ticks /\ windows' = Append(windows, [sample |-> Plan[at], calls |-> 0,
                                                 start |-> clock', end |-> -1])
       ELSE UNCHANGED <<clock, windows>>
    /\ events' = {IF UnderWay(e) THEN [e EXCEPT !.during = @ \cup {at}] ELSE e :
                      e \in events}
    /\ IF job.mode = "timing" /\ job.jfr /\ StartsRecording
       THEN recorded' = {} ELSE UNCHANGED recorded
    /\ Goto("calling")
    /\ UNCHANGED <<job, at, expected, returned, made, out, file, affinity>>

FirstCallDrifts(r) == at > 1 /\ done = 0 /\ r # expected       \* mutant
Drifts(r) == at > 1 /\ r # expected

(* One invocation; a result other than the first one ends the process. *)
Call ==
    /\ pc = "calling" /\ done < Quota(at)
    /\ \E r \in Results :
         /\ returned' = returned \cup {r}
         /\ expected' = IF at = 1 THEN r ELSE expected
         /\ IF Drifts(r) THEN Exit(1) ELSE Goto("calling")
    /\ made' = made + 1 /\ done' = done + 1
    /\ recorded' = IF recorded = None THEN None ELSE recorded \cup {at}
    /\ UNCHANGED <<job, at, out, file, timeline, affinity>>

End ==
    /\ pc = "calling" /\ done = Quota(at)
    /\ Write(<<Line("sample", Plan[at][1], Plan[at][2])>>)
    /\ IF job.jit
       THEN Ticks /\ windows' = [windows EXCEPT ![Len(windows)] =
                                    [@ EXCEPT !.calls = done, !.end = clock']]
       ELSE UNCHANGED <<clock, windows>>
    /\ at' = at + 1
    /\ Goto("begin")
    /\ UNCHANGED <<job, done, expected, returned, made, recorded, events, affinity>>

FinishTiming ==
    /\ pc = "begin" /\ at > Len(Plan) /\ job.mode = "timing"
    /\ Emit((IF job.jfr THEN <<Mark("jfr_scope")>> ELSE <<>>)
             \o <<Line("result", expected, 0)>>)
    /\ Exit(0)
    /\ UNCHANGED <<job, calls, file, recorded, timeline, affinity>>

FinishDiagnostic ==
    /\ pc = "begin" /\ at > Len(Plan) /\ Diagnostic
    /\ Write(<<Line("result", expected, 0)>>)
    /\ pc' = "stopping"
    /\ UNCHANGED <<job, calls, recorded, timeline, affinity, code>>

(* The end of the timeline, then the second snapshot. *)
StopDiagnostic ==
    /\ pc = "stopping"
    /\ IF job.jit THEN Emit(<<Mark("diagnostic_jfr_scope")>>) ELSE UNCHANGED out
    /\ IF job.profile # None THEN Goto("after") ELSE Exit(0)
    /\ UNCHANGED <<job, calls, file, recorded, timeline, affinity>>

(* An exception of the guest program, or the end of the process. *)
Fail ==
    /\ pc # "exited"
    /\ Exit(1)
    /\ UNCHANGED <<job, calls, out, file, recorded, timeline, affinity>>

----------------------------------------------------------------------------
(* The rest of the JVM *)

(* A thread is born with the mask of the thread that starts it: the measured
   one, or another one. *)
Spawn ==
    /\ job.profile # None /\ pc # "exited"
    /\ \E t \in Threads \ Alive, r \in {"compiler", "auxiliary"} :
       \E m \in {threads[u].mask : u \in Alive}
                \cup {IF pc \in {"start", "pin"} THEN InitialMask ELSE Narrow} :
          threads' = [threads EXCEPT ![t] = [role |-> r, mask |-> m]]
    /\ UNCHANGED <<job, pc, calls, out, file, recorded, timeline, listed, since,
                   code>>

Vanish ==
    /\ job.profile # None /\ pc # "exited"
    /\ \E t \in Alive : /\ threads' = [threads EXCEPT ![t] = None]
                        /\ since' = since \ {t} /\ listed' = listed \ {t}
    /\ UNCHANGED <<job, pc, calls, out, file, recorded, timeline, code>>

(* One event of the JVM, with the samples that were being made meanwhile: a
   deoptimization is a moment, a compilation or collection has a duration. *)
Happens(end) ==
    /\ job.jit /\ events = {} /\ pc \in {"begin", "calling"}
    /\ Ticks
    /\ events' = {[start |-> clock', end |-> end,
                   during |-> IF pc = "calling" THEN {at} ELSE {}]}
    /\ UNCHANGED <<job, pc, calls, out, file, recorded, windows, affinity, code>>

Deoptimize  == Happens(clock')
EventBegins == Happens(-1)

EventEnds ==
    /\ pc \in {"begin", "calling", "stopping"}
    /\ Ticks
    /\ \E e \in events : /\ UnderWay(e)
                         /\ events' = {[e EXCEPT !.end = clock']}
    /\ UNCHANGED <<job, pc, calls, out, file, recorded, windows, affinity, code>>

Next == \/ Correctness \/ StartTiming \/ StartDiagnostic \/ Pin \/ List
        \/ Verify \/ Open \/ StartSampler \/ Begin \/ Call \/ End \/ FinishTiming
        \/ FinishDiagnostic \/ StopDiagnostic \/ Fail
        \/ Spawn \/ Vanish \/ Deoptimize \/ EventBegins \/ EventEnds

Spec == Init /\ [][Next]_vars

----------------------------------------------------------------------------
(* What the driver accepts *)

Of(lines, kind) == {i \in DOMAIN lines : lines[i].kind = kind}
Marked(m) == \E i \in DOMAIN out : out[i] = Mark(m)

(* parse_output(): the samples in the order of their lines. *)
Source == IF Sink = "file" THEN file ELSE out

SamplesOf(lines, phase) == {i \in Of(lines, "sample") : lines[i].of = phase}

Parses(lines) ==
    /\ Of(lines, "setup") # {}
    /\ SamplesOf(lines, "cold") # {}
    /\ SamplesOf(lines, "steady") # {}
    /\ Of(lines, "result") # {}

(* The last line counts. *)
ResultOf(lines) ==
    LET r == Of(lines, "result")
    IN  IF r = {} THEN None ELSE lines[CHOOSE i \in r : \A j \in r : j <= i].of

(* "sample_calls=", or one call if that line is lost. *)
CallsOf(lines) ==
    LET c == Of(lines, "calls")
    IN  IF c = {} THEN 1
        ELSE lines[CHOOSE i \in c : \A j \in c : j <= i].number

CorrectnessPasses ==
    job.mode = "correctness" /\ code = 0 /\ ResultOf(out) = Expected

JfrAccepted ==
    /\ job.mode = "timing" /\ job.jfr /\ code = 0
    /\ ResultOf(out) = Expected
    /\ Marked("jfr_scope") /\ recorded # None

AffinityMarked == \A m \in {"initial", "pinned", "before", "after"} : Marked(m)

TimingAccepted ==
    /\ job.mode # "correctness" /\ code = 0
    /\ Parses(Source) /\ ResultOf(Source) = Expected
    /\ job.jit => Marked("diagnostic_jfr_scope")
    /\ job.profile # None => AffinityMarked
    /\ Diagnostic => Marked("diagnostic_mode")

(* measure_diagnostics.analyze() on the samples file. *)
Contiguous(lines, phase) ==
    1..Cardinality(SamplesOf(lines, phase))
        \subseteq {lines[i].number : i \in SamplesOf(lines, phase)}

Complete(lines, phase) ==
    \A i \in Of(lines, "declared") :
        lines[i].of = phase
        => Cardinality(SamplesOf(lines, phase)) = lines[i].number

NoDuplicates(lines) ==
    \A i, j \in Of(lines, "sample") : lines[i] = lines[j] => i = j

AnalysisPasses ==
    /\ Of(file, "calls") # {}
    /\ \E i \in DOMAIN file : /\ Of(file, "result") = {i}
                              /\ file[i] = Line("result", Expected, 0)
    /\ NoDuplicates(file)
    /\ \A phase \in {"cold", "warmup", "steady"} :
          Contiguous(file, phase) /\ Complete(file, phase)
    /\ SamplesOf(file, "steady") # {}

(* jit_timeline.analyze_jfr() on the recording. *)
TimelinePasses ==
    /\ [i \in DOMAIN windows |-> windows[i].sample] = Plan
    /\ \A i \in DOMAIN windows :
          /\ windows[i].end > windows[i].start
          /\ windows[i].calls = Quota(i)
          /\ i > 1 => windows[i - 1].end <= windows[i].start

ClosedRelation(e, w) ==                                        \* mutant
    CASE e.end < w.start   -> "before"
      [] e.start > w.end   -> "after"
      [] OTHER             -> "overlap"

(* Of an event to a window.  An interval that ends where the window starts is
   before it; a moment there is in it. *)
Relation(e, w) ==
    CASE e.end < w.start \/ (e.end = w.start /\ e.start # e.end) -> "before"
      [] e.start >= w.end                                         -> "after"
      [] OTHER                                                    -> "overlap"

----------------------------------------------------------------------------
(* Properties *)

Texts == {"", "warmup", "steady", "cold", "initial", "pinned", "before", "after",
          "diagnostic_mode", "diagnostic_jfr_scope", "jfr_scope"} \cup Results
Lines == [kind : {"broken", "mark", "setup", "calls", "declared", "sample",
                  "result"}, of : Texts, number : Nat]

Windows == [sample : {Plan[i] : i \in 1..Len(Plan)}, calls : 0..Calls,
            start : 0..MaxClock, end : -1..MaxClock]
JvmEvents == [start : 0..MaxClock, end : -1..MaxClock,
              during : SUBSET (1..Len(Plan))]
Tasks == [role : {"compiler", "auxiliary"}, mask : {Narrow, Wide}]

Preparing == {"start", "pin", "before", "verify_before", "open", "sampler"}
Finishing == {"stopping", "after", "verify_after"}

TypeOK ==
    /\ job \in Jobs /\ pc \in Preparing \cup {"begin", "calling", "exited"} \cup Finishing
    /\ at \in 1..(Len(Plan) + 1) /\ done \in 0..Calls
    /\ expected \in Results \cup {None} /\ returned \subseteq Results
    /\ made \in 0..(1 + (Warmup + Steady) * Calls)
    /\ out \in Seq(Lines) /\ file \in Seq(Lines)
    /\ recorded \in {None} \cup SUBSET (1..Len(Plan))
    /\ clock \in 0..MaxClock /\ events \subseteq JvmEvents
    /\ windows \in Seq(Windows) /\ threads \in [Threads -> {None} \cup Tasks]
    /\ listed \subseteq Threads /\ since \subseteq Alive /\ code \in {None, 0, 1}

(* Whatever the driver accepts was made in full and agreed throughout: every
   call that the policy asks for returned, and returned the expected result,
   although the result is printed once. *)
AcceptedCallsAgree ==
    /\ CorrectnessPasses \/ JfrAccepted \/ TimingAccepted => returned = {Expected}
    /\ JfrAccepted \/ TimingAccepted => made = 1 + (Warmup + Steady) * Calls

(* The place of a line among the samples. *)
Nth(lines, i) == Cardinality({j \in Of(lines, "sample") : j <= i})

(* The samples that a run is accepted with are those of the plan, none lost and
   none twice, counted with the calls that each took, although parse_output()
   checks none of this, and the analysis of a diagnostic run finds nothing more
   to reject.  An ordinary timing whose --jvm-option makes the compilers print
   may lose lines; those that are left are samples of the plan in its order. *)
AcceptedSamplesAreThePlan ==
    LET samples == Of(Source, "sample") IN
    TimingAccepted =>
        /\ Diagnostic \/ ~job.prints =>
              /\ Cardinality(samples) = Len(Plan)
              /\ \A i \in samples :
                    Plan[Nth(Source, i)] = <<Source[i].of, Source[i].number>>
              /\ CallsOf(Source) = Calls
        /\ \E place \in [samples -> 1..Len(Plan)] :
              /\ \A i \in samples :
                    Plan[place[i]] = <<Source[i].of, Source[i].number>>
              /\ \A i, j \in samples : i < j => place[i] < place[j]
        /\ Diagnostic => AnalysisPasses

(* An accepted JFR profile saw the calls of the steady samples, all of them and
   no others ("jfr_scope=steady"). *)
RecordingIsSteady ==
    JfrAccepted => recorded = {i \in 1..Len(Plan) : Plan[i][1] = "steady"}

(* In an accepted timeline an event counts in the windows of the samples that
   were being made while it lasted, up to the tick of the clock in which both
   happen.  No other window is hit, except that a moment counts in the window
   that starts in its tick, though it was before it, and perhaps in the sample
   before; and a moment is never counted twice.  A window is missed only if the
   event ended in the tick where the window starts, or began where it ends. *)
EventsBelongToWindows ==
    TimingAccepted /\ TimelinePasses =>
        \A e \in {x \in events : ~UnderWay(x)} :
            LET hit == {i \in DOMAIN windows : Relation(e, windows[i]) = "overlap"}
            IN  /\ \A i \in hit \ e.during :
                      e.start = e.end /\ e.start = windows[i].start
                /\ \A i \in e.during \ hit :
                      e.end = windows[i].start \/ e.start = windows[i].end
                /\ e.start = e.end => Cardinality(hit) <= 1

(* An accepted affinity profile held: a compiler thread that lived from the first
   snapshot to the end could use both processors in profile C, and no thread
   that did could leave the first in profile A. *)
AffinityIsProved ==
    TimingAccepted =>
        /\ job.profile = "A" => \A t \in since : threads[t].mask = Narrow
        /\ job.profile = "C" => \A t \in since \cap Alive :
              threads[t].role = "compiler" => threads[t].mask = Wide

----------------------------------------------------------------------------
(* The inductive invariant behind these properties, in parts. *)

(* At work on the plan, or through with it in good order. *)
AtWork == \/ pc \in {"begin", "calling"} \cup Finishing
          \/ pc = "exited" /\ code = 0 /\ job.mode # "correctness"

CallsBefore(n) == IF n = 1 THEN 0 ELSE 1 + (n - 2) * Calls

(* Every call was counted, and returned what the cold call returned. *)
CallsInv ==
    /\ pc \in Preparing => at = 1 /\ done = 0 /\ made = 0 /\ returned = {}
    /\ pc # "exited" => code = None
    /\ pc = "exited" => code \in {0, 1}
    /\ pc \notin {"start", "exited"} => job.mode # "correctness"
    /\ job.mode = "correctness" /\ code = 0 => returned = {expected}
    /\ AtWork =>
          /\ made = CallsBefore(at) + (IF pc = "calling" THEN done ELSE 0)
          /\ IF made = 0 THEN returned = {} ELSE returned = {expected}
          /\ pc = "calling" => at <= Len(Plan) /\ done <= Quota(at)
          /\ pc \in Finishing \cup {"exited"} => at = Len(Plan) + 1
    /\ pc \in Finishing \cup (Preparing \ {"start"}) => Diagnostic

(* Lines of a report on the first n samples, with what came after them. *)
Reports(lines, n) ==
    /\ Len(lines) >= 4 + n
    /\ \A i \in 1..4 : lines[i] = Declared[i]
    /\ \A i \in 1..n : lines[4 + i] = Line("sample", Plan[i][1], Plan[i][2])
    /\ \A i \in (5 + n)..Len(lines) : lines[i].kind \in {"mark", "result"}

(* Results are the last lines, and name what the calls returned. *)
ResultsInv ==
    /\ pc # "exited" => Of(out, "result") = {}
    /\ pc \notin Finishing \cup {"exited"} => Of(file, "result") = {}
    /\ \A lines \in {out, file} : \A i \in Of(lines, "result") : lines[i].of = expected

TimingInv ==
    ~Diagnostic =>
        /\ \A i \in Of(out, "mark") : out[i].of = "jfr_scope"
        /\ job.mode = "timing" /\ ~Noisy =>
              /\ pc \in {"begin", "calling"} => Reports(out, at - 1) /\ Len(out) = 3 + at
              /\ code = 0 => Reports(out, Len(Plan))

(* Whatever was lost, a sample of a timing is in its own line. *)
LostInv ==
    job.mode = "timing" =>
        /\ pc = "start" => out = <<>>
        /\ pc \in {"begin", "calling"} => Len(out) = 3 + at
        /\ \A i \in Of(out, "sample") :
              /\ i - 4 \in 1..Len(Plan)
              /\ out[i] = Line("sample", Plan[i - 4][1], Plan[i - 4][2])

DiagnosticInv ==
    Diagnostic =>
        /\ pc \in Preparing \ {"sampler"} => file = <<>>
        /\ pc \in {"sampler", "begin", "calling"} =>
              Reports(file, at - 1) /\ Len(file) = 3 + at
        /\ pc \in Finishing \/ code = 0 =>
              /\ Reports(file, Len(Plan)) /\ Len(file) = 5 + Len(Plan)
              /\ file[5 + Len(Plan)] = Line("result", expected, 0)

LinesInv == ResultsInv /\ TimingInv /\ LostInv /\ DiagnosticInv

(* A recording that has begun saw the steady samples so far. *)
RecordingInv ==
    /\ pc \in Preparing => recorded = None
    /\ recorded # None /\ AtWork =>
          /\ at >= 2 + Warmup
          /\ recorded = {i \in (2 + Warmup)..at :
                            i < at \/ (pc = "calling" /\ done > 0)}

(* An event lasted while a sample was made, or was over before it began, or
   began after it was over. *)
EventKept(e) ==
    /\ e.start <= clock /\ e.end <= clock /\ (~UnderWay(e) => e.start <= e.end)
    /\ e.during \subseteq DOMAIN windows
    /\ \A i \in DOMAIN windows :
          LET w == windows[i] IN
          IF i \in e.during
          THEN /\ w.end # -1 => e.start <= w.end
               /\ ~UnderWay(e) => w.start <= e.end
          ELSE \/ ~UnderWay(e) /\ e.end <= w.start
               \/ w.end # -1 /\ w.end <= e.start

(* Windows follow each other, and events keep their relations to them.    *)
TimelineInv ==
    /\ ~job.jit => windows = <<>> /\ events = {}
    /\ job.jit /\ pc # "exited" => Len(windows) = IF pc = "calling" THEN at ELSE at - 1
    /\ pc = "begin" => \A i \in DOMAIN windows : windows[i].end # -1
    /\ job.jit /\ pc = "calling" => windows[at].end = -1
    /\ \A i \in DOMAIN windows :
          /\ windows[i].start <= clock /\ windows[i].end <= clock
          /\ \A j \in DOMAIN windows :
                i < j => windows[i].end # -1 /\ windows[i].end <= windows[j].start
    /\ \A e \in events : EventKept(e)

(* The threads that lived through both snapshots were in the second. *)
AffinityInv ==
    /\ pc = "verify_after" => since \subseteq listed
    /\ Diagnostic /\ job.profile # None /\ code = 0 =>
          \A t \in since :
              /\ job.profile = "A" => threads[t].mask = Narrow
              /\ job.profile = "C" /\ threads[t].role = "compiler"
                    => threads[t].mask = Wide

EngineInv == CallsInv /\ LinesInv /\ RecordingInv /\ TimelineInv /\ AffinityInv
=============================================================================
