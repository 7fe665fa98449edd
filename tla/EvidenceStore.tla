--------------------------- MODULE EvidenceStore ---------------------------
(***************************************************************************)
(* What the output directory of the measurement drivers promises: clients  *)
(* ask for evidence about the product as it is, and are answered with      *)
(* accepted evidence about exactly that state, measured for them or        *)
(* recalled.  Accepted evidence is named once and never changes.           *)
(***************************************************************************)
EXTENDS Naturals

CONSTANTS Clients, Names, MaxProduct, None

VARIABLES
    product,    \* version of the product under measurement
    asked,      \* version each client wants evidence about, or None
    accepted,   \* evidence accepted so far
    answer      \* name of the evidence each client was given, or None

esVars == <<product, asked, accepted, answer>>

ESInit ==
    /\ product = 0
    /\ asked = [c \in Clients |-> None]
    /\ accepted = {}
    /\ answer = [c \in Clients |-> None]

Edit ==
    /\ product < MaxProduct
    /\ product' = product + 1
    /\ UNCHANGED <<asked, accepted, answer>>

Ask(c) ==
    /\ asked[c] = None /\ answer[c] = None
    /\ asked' = [asked EXCEPT ![c] = product]
    /\ UNCHANGED <<product, accepted, answer>>

Answer(c, nm) ==
    /\ answer[c] = None
    /\ answer' = [answer EXCEPT ![c] = nm]
    /\ UNCHANGED <<product, asked>>

(* New evidence: all that ran is of the state that was asked about; a peer *)
(* language runs no product classes.                                       *)
Measure(c) ==
    \E nm \in Names, ran \in {{}, {asked[c]}} :
        /\ \A e \in accepted : e.name # nm
        /\ accepted' = accepted \cup
               {[name |-> nm, product |-> asked[c], ran |-> ran]}
        /\ Answer(c, nm)

Recall(c) ==
    \E e \in accepted :
        /\ e.product = asked[c]
        /\ Answer(c, e.name)
        /\ UNCHANGED accepted

ESNext == Edit \/ \E c \in Clients : Ask(c) \/ Measure(c) \/ Recall(c)

ESSpec == ESInit /\ [][ESNext]_esVars
=============================================================================
