------------------------------ MODULE IPXLaunch ------------------------------
(***************************************************************************)
(* The launch as a whole: genesis cohort and contribution flywheel share    *)
(* nothing but the token, whose supply only burning lowers.                 *)
(***************************************************************************)
EXTENDS IPXGenesis, IPXContributions

launchVars == <<genesisVars, contributionVars, tokenVars>>

Init == TokenInit /\ GenesisInit /\ ContributionInit
Next ==
  \/ GenesisNext /\ UNCHANGED contributionVars
  \/ ContributionNext /\ UNCHANGED genesisVars
Spec == Init /\ [][Next]_launchVars
=============================================================================
