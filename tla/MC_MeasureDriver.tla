------------------------- MODULE MC_MeasureDriver -------------------------
(***************************************************************************)
(* Two drivers at work on one checkout and one output directory.           *)
(***************************************************************************)
EXTENDS MeasureDriver, TLC
CONSTANTS d1, d2, h1, h2, t1, t2, none

Request(lang, mode) ==
    [lang |-> lang, stage |-> "reference", mode |-> mode, extras |-> {},
     tuned |-> FALSE, dir |-> lang = "protos", pins |-> Products,
     allowDirty |-> FALSE, remeasure |-> FALSE, host |-> h1]

Timing == Request("protos", "timing")

(* A timing, and one that is repeated and admits a dirty checkout. *)
TimingRequests ==
    {Timing, [Timing EXCEPT !.remeasure = TRUE, !.allowDirty = TRUE]}

(* The same case under another identity of the machine or the policy. *)
IdentityRequests ==
    {Timing, [Timing EXCEPT !.host = h2], [Timing EXCEPT !.tuned = TRUE],
     [Timing EXCEPT !.pins = {0}]}

(* The other kinds of Protos batches, and peers without and with --dir. *)
ModeRequests ==
    {Request("protos", "correctness"), Request("protos", "jfr"),
     [Request("protos", "diagnostic") EXCEPT !.extras = {"jit"}],
     [Request("peer", "correctness") EXCEPT !.tuned = TRUE],
     [Request("peer", "timing") EXCEPT !.dir = TRUE]}

BatchRequests == IdentityRequests \cup ModeRequests

(* Two drivers that ask for the same kind of batch. *)
BatchInit ==
    /\ Init
    /\ \E R \in {IdentityRequests, ModeRequests} : \A d \in Drivers : req[d] \in R
BatchSpec == BatchInit /\ [][Next]_vars

(* A diagnostic that pins the measured thread. *)
AffinityRequests ==
    {[Request("protos", "diagnostic") EXCEPT !.extras = {"affinity"}]}

(* Every edit of the producer files changes the timing policy. *)
EachEdit == [v \in Producers |-> v]

Symmetry == Permutations(Drivers) \cup Permutations(RunIds)
=============================================================================
