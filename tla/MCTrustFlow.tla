---------------------------- MODULE MCTrustFlow -----------------------------
(***************************************************************************)
(* TrustFlow for TLC: two hosts, one of which renews its certificate.      *)
(***************************************************************************)
EXTENDS TrustFlow, TLC

CONSTANTS h1, h2, c1, c2, d1

MCCertsOf == h1 :> {c1, c2} @@ h2 :> {d1}

MCBudget(probe, cancel, edit, rotate, restart) ==
  [probe |-> probe, cancel |-> cancel, edit |-> edit, rotate |-> rotate,
   restart |-> restart]

\* Two probes, one of them cancelled; everything else once.
RacesBudget == MCBudget(2, 1, 1, 1, 1)
\* Two probes that may be cancelled, nothing else.
CancelBudget == MCBudget(2, 1, 0, 0, 0)

=============================================================================
