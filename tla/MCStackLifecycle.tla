-------------------------- MODULE MCStackLifecycle --------------------------
(***************************************************************************)
(* StackLifecycle for TLC.                                                 *)
(***************************************************************************)
EXTENDS StackLifecycle

Events6(nodevice, nosink, notimer, refused, closes, errors) ==
  [e \in Events |->
     CASE e = "nodevice" -> nodevice
       [] e = "nosink" -> nosink
       [] e = "notimer" -> notimer
       [] e = "refused" -> refused
       [] e = "closes" -> closes
       [] e = "errors" -> errors]

\* Every failure once.
FailBudget == Events6(1, 1, 1, 1, 1, 1)

=============================================================================
