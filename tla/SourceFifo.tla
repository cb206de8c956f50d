----------------------------- MODULE SourceFifo -----------------------------
(***************************************************************************)
(* What one mixer promises each of its sources, whatever the others do: a  *)
(* FIFO of samples, counted in one continuous stream, that is heard in     *)
(* order and at the device's rate, and that loses samples in one case      *)
(* only: more than Limit are waiting, and then the oldest go.              *)
(***************************************************************************)
EXTENDS Integers

CONSTANTS
  Sources,  \* the remote sessions and the local monitor
  Sizes,    \* samples a source delivers at a time
  Blocks,   \* samples the device takes at a time
  Limit     \* samples a source may have waiting

VARIABLES
  lo,  \* first waiting sample of each source
  hi   \* number of samples each source has delivered

Least(a, b) == IF a < b THEN a ELSE b
Most(a, b) == IF a < b THEN b ELSE a

Empty == lo = [s \in Sources |-> 0] /\ hi = lo

\* One source delivers; the others are not affected.
Deliver(s) ==
  \E n \in Sizes :
    /\ hi' = [hi EXCEPT ![s] = @ + n]
    /\ lo' = [lo EXCEPT ![s] = Most(lo[s], hi[s] + n - Limit)]

\* The device takes a block: the same time from every source, what there is of it.
Take ==
  \E b \in Blocks :
    /\ lo' = [s \in Sources |-> lo[s] + Least(b, hi[s] - lo[s])]
    /\ UNCHANGED hi

Move == Take \/ \E s \in Sources : Deliver(s)

Fifo == Empty /\ [][Move]_<<lo, hi>>

=============================================================================
