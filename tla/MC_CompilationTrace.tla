------------------------ MODULE MC_CompilationTrace ------------------------
(***************************************************************************)
(* The framework's entry e, the workload's root r and the functions that   *)
(* it calls: f, and g by f.  The labels of r and f differ in an object     *)
(* identity only; h has the label of g.                                    *)
(***************************************************************************)
EXTENDS CompilationTrace, TLC
CONSTANTS e, r, f, g, h, none

MCLabel == e :> "execute" @@ r :> "f@2" @@ f :> "f@1" @@ g :> "g" @@ h :> "g"
MCNormal == "execute" :> "execute" @@ "f@1" :> "f@*" @@ "f@2" :> "f@*"
                                   @@ "g" :> "g"

Edge(v, t, d) == [verb |-> v, callee |-> t, depth |-> d]

MCShapes == e :> {<<Edge("Inlined", r, 1)>>}
         @@ r :> {<<Edge("Expanded", f, 1)>>,
                  <<Edge("Inlined", f, 1), Edge("Cutoff", r, 2)>>}
         @@ f :> {<<Edge("Indirect", g, 1)>>}
         @@ g :> {<<Edge("Cutoff", r, 1)>>}
         @@ h :> {<<>>}
=============================================================================
