----------------------------- MODULE MCHelpers -----------------------------
(***************************************************************************)
(* An instance of the helpers for TLC.  They call one another nowhere and  *)
(* share no state, so it is enough to let each of them run while the       *)
(* others have not begun: every state of each is reached that way.         *)
(***************************************************************************)
EXTENDS QueryFilter, CsvText, Cryptography

CONSTANTS i1, i2, i3, t1    \* model values

\* What the filters have set: nothing, a condition, or everything.
SomeHeads == {{}, {"CONDITION"}, HeadTypes}

HelpersInit == QueryInit /\ CsvInit /\ CryptoInit

HelpersNext ==
  \/ CsvInit /\ CryptoInit /\ QueryNext /\ UNCHANGED <<csvVars, cryptoVars>>
  \/ QueryInit /\ CryptoInit /\ CsvNext /\ UNCHANGED <<queryVars, cryptoVars>>
  \/ QueryInit /\ CsvInit /\ CryptoNext /\ UNCHANGED <<queryVars, csvVars>>

HelpersSpec == HelpersInit /\ [][HelpersNext]_<<queryVars, csvVars, cryptoVars>>
=============================================================================
