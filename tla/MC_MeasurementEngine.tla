------------------------ MODULE MC_MeasurementEngine ------------------------
(***************************************************************************)
(* One process of each kind that the driver starts.                        *)
(***************************************************************************)
EXTENDS MeasurementEngine, TLC
CONSTANTS t1, t2, t3, none

Job(mode, jfr, jit, profile) ==
    [mode |-> mode, jfr |-> jfr, jit |-> jit, profile |-> profile,
     prints |-> FALSE]

MCJobs == {Job("correctness", FALSE, FALSE, none),
           Job("timing", FALSE, FALSE, none),
           [Job("timing", FALSE, FALSE, none) EXCEPT !.prints = TRUE],
           Job("timing", TRUE, FALSE, none),
           [Job("diagnostic", FALSE, FALSE, none) EXCEPT !.prints = TRUE],
           Job("diagnostic", FALSE, TRUE, none),
           Job("diagnostic", TRUE, FALSE, none),
           Job("diagnostic", FALSE, FALSE, "A"),
           Job("diagnostic", FALSE, FALSE, "C")}

Symmetry == Permutations({t1, t2, t3})
=============================================================================
