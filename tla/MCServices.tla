----------------------------- MODULE MCServices -----------------------------
(***************************************************************************)
(* The components that only answer: the rows of users and share links, and *)
(* the computations.  A behaviour picks one of them and runs it, the       *)
(* others rest in their initial states.                                    *)
(***************************************************************************)
EXTENDS Accounts, ShareLinks, MCAlgorithms

VARIABLE service

\* The requests of one user are interchangeable.
ServicesSymmetry == Permutations(Visits)

serviceVars == <<service, accountVars, shareVars, algorithmVars>>

ServicesInit ==
    /\ service \in {"accounts", "shares", "algorithms"}
    /\ AccountsInit /\ SharesInit
    /\ IF service = "algorithms" THEN AlgorithmsInit ELSE input = <<>> /\ output = <<>> /\ computed = FALSE

AccountsMove == service = "accounts" /\ AccountsNext /\ UNCHANGED <<service, shareVars, algorithmVars>>
SharesMove == service = "shares" /\ SharesNext /\ UNCHANGED <<service, accountVars, algorithmVars>>
AlgorithmsMove == service = "algorithms" /\ AlgorithmsNext /\ UNCHANGED <<service, accountVars, shareVars>>

ServicesNext == AccountsMove \/ SharesMove \/ AlgorithmsMove
ServicesSpec == ServicesInit /\ [][ServicesNext]_serviceVars

\* The rows of users and of share links, and the requests on them, are what the
\* schema allows; a deleted row keeps no token.
ServicesTypeOK == AccountsTypeOK /\ SharesTypeOK
=============================================================================
