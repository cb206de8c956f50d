--------------------------- MODULE MCLoopbackLink ---------------------------
(***************************************************************************)
(* LoopbackLink for TLC.                                                   *)
(***************************************************************************)
EXTENDS LoopbackLink

CONSTANTS s1, s2

Events5(appear, vanish, linkfails, startfails, timerfails) ==
  [e \in Events |->
     CASE e = "appear" -> appear
       [] e = "vanish" -> vanish
       [] e = "linkfails" -> linkfails
       [] e = "startfails" -> startfails
       [] e = "timerfails" -> timerfails]

\* The source comes and goes twice; a link, a start and a timer fail.
AnyBudget == Events5(2, 2, 1, 1, 1)

=============================================================================
