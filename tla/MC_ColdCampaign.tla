--------------------------- MODULE MC_ColdCampaign ---------------------------
(***************************************************************************)
(* One case: two captures into the Tier 1 output, the second told Tier 2   *)
(* by mistake, one of Tier 2 and a bytecode diagnostic, with the analyses, *)
(* summaries and the report that work on them.                             *)
(***************************************************************************)
EXTENDS ColdCampaign, TLC
CONSTANTS c1, c2, c3, c4, a1, a2, a3, s1, s2, r1, r2, t1, t2, f, g, none, torn

CapturesOf ==
    [c \in {c1, c2, c3, c4} |-> CASE c = c1 -> "tier1" [] c = c4 -> "bytecode"
                                  [] OTHER -> "tier2"]
OutputOf ==
    [p \in Procs \ Reports |-> CASE p \in {c1, c2, a1, a2, s1} -> "tier1"
                                  [] p \in {c3, a3, s2} -> "tier2"
                                  [] OTHER -> "bytecode"]

Root(l, fate) == [label |-> l, fate |-> fate]

(* One root; two of one label, one without its dump; one beside another    *)
(* that was recompiled.                                                    *)
Lone == [t \in Targets |-> IF t = t1 THEN Root(f, "available") ELSE None]
Twins == [t \in Targets |-> Root(f, IF t = t1 THEN "available" ELSE "undumped")]
Beside == [t \in Targets |-> IF t = t1 THEN Root(f, "available") ELSE Root(g, "recompiled")]

ShowsOf ==
    [c \in {c1, c2, c3, c4} |-> CASE c = c1 -> {Lone, Twins, Beside}
                                  [] c = c4 -> {Lone, Twins}
                                  [] OTHER -> {Lone}]

(* Behaviours begin where Tier 2 has been captured, analyzed and           *)
(* summarized, and either the diagnostic too or the capture that was told  *)
(* the wrong tier has ended.                                               *)
Analyzed == [t \in Targets |-> IF t = t1 THEN a3 ELSE None]
Uncaptured == [producer |-> 0, shown |-> [t \in Targets |-> None],
               kept |-> {}, valid |-> FALSE]

PreparedInit ==
    /\ producer = 0
    /\ \E ended \in {c4, c2} :
        /\ dest = [tier1    |-> None,
                   tier2    |-> [capture |-> c3, filter |-> Analyzed, summary |-> Analyzed],
                   bytecode |-> IF ended = c4 THEN Captured(c4) ELSE None]
        /\ meta = [c \in Captures |->
                      CASE c = c3 -> [Uncaptured EXCEPT !.shown = Lone, !.kept = {t1},
                                                       !.valid = TRUE]
                        [] c = c4 /\ ended = c4 ->
                               [Uncaptured EXCEPT !.shown = Lone, !.valid = TRUE]
                        [] OTHER -> Uncaptured]
        /\ pc = [p \in Procs |-> IF p \in {a3, s2, c3} THEN "ok"
                                 ELSE IF p = ended THEN IF p = c4 THEN "ok" ELSE "usage"
                                 ELSE "idle"]
    /\ at = [p \in Procs |-> Nothing]
    /\ report = None

(* The second report is asked for when the first has ended. *)
CampaignNext == Next /\ (pc'[r2] # "idle" => pc'[r1] \in Ends)

CampaignSpec == PreparedInit /\ [][CampaignNext]_vars
=============================================================================
