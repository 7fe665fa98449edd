---------------------------- MODULE MC_HostBatch ----------------------------
(***************************************************************************)
(* Two processes that call host commands on one checkout, one command      *)
(* after the other.                                                        *)
(***************************************************************************)
EXTENDS HostBatch, TLC
CONSTANTS c1, c2, p1, p2, e1, e2, processor, cut, none, w1, w2

Request(command, langs, works) == [command |-> command, langs |-> langs, works |-> works]

(* What depends on the harness: a peer's preparation, batches and diagnostics. *)
PeerCommands ==
    {Request("measure", <<"js">>, <<w1>>),
     Request("peer-prepare", <<"js">>, <<>>),
     Request("bytecode-prepare", <<"js">>, <<>>),
     Request("bytecode-capture", <<"js">>, <<>>)}

(* What depends on the checkout and the images, with batches of three cases. *)
ProductCommands ==
    {Request("measure", <<"protos", "ruby">>, <<w1, w2>>),
     Request("product-prepare", <<"protos">>, <<>>),
     Request("peer-prepare", <<"ruby">>, <<>>),
     Request("graphs-capture", <<"protos">>, <<>>),
     Request("image-build", <<"js">>, <<>>)}

Commands == PeerCommands \cup ProductCommands

(* Both processes call commands of one kind. *)
OfAKind == (\A c \in Procs : req[c] \in PeerCommands) \/ (\A c \in Procs : req[c] \in ProductCommands)

KindInit == Init /\ OfAKind /\ pom = p1 /\ edition = e1
KindNext ==
    /\ Next /\ OfAKind'
    /\ (\A c \in Procs : req[c] \in PeerCommands) => pom' = pom
    /\ (\A c \in Procs : req[c] \in ProductCommands) => edition' = edition
KindSpec == KindInit /\ [][KindNext]_vars

Symmetry == Permutations(Procs)
=============================================================================
