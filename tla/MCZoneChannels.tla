--------------------------- MODULE MCZoneChannels ---------------------------
(***************************************************************************)
(* ZoneChannels for TLC: the environment's budgets of the runs.            *)
(***************************************************************************)
EXTENDS ZoneChannels, TLC

MCBudget(changes, enter, leave, kicks, noise) ==
  [zone |-> changes, occupy |-> enter, vacate |-> leave, kick |-> kicks, noise |-> noise]

\* Everything can happen.
RacesBudget == MCBudget(2, 1, 1, 1, 0)
\* Zone changes, users who come but do not leave, packets without effect.
CalmBudget == MCBudget(3, 2, 0, 0, 1)
\* The zone changes, nobody else is there.
AloneBudget == MCBudget(2, 0, 0, 0, 0)

IdSymmetry == Permutations(Ids)

=============================================================================
