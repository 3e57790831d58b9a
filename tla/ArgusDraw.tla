-------------------------------- MODULE ArgusDraw -------------------------------
(***************************************************************************)
(* argus_get_sign of src/src/argus.c with the random numbers it takes:     *)
(* CryptoRand draws, Bean hashes and serializes.  tt_sign draws too before *)
(* it calls, so there may be several draws, of any kind; the number that   *)
(* comes of the last one is rand_int of the call.                          *)
(***************************************************************************)
EXTENDS Bean, CryptoRand

CONSTANT Drawing    \* the calls for which numbers are drawn: not all are pinned

ASSUME DrawingAssumption == Drawing \subseteq Calls

allVars == <<vars, randVars>>

InitDraw == Init /\ InitRand

\* What is drawn is drawn before the first hash; what is pinned is not drawn.
Drawn == pc = "body" /\ call \in Drawing /\ NextRand /\ UNCHANGED vars
Signed == step = "idle" /\ (call \in Drawing => draws > 0) /\ Next /\ UNCHANGED randVars

NextDraw == Drawn \/ Signed

\* A draw that has begun goes on; nobody has to begin one.
FairDraw == InitDraw /\ [][NextDraw]_allVars /\ WF_allVars(Drawn /\ step # "idle")

================================================================================
