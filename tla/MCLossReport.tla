---------------------------- MODULE MCLossReport ----------------------------
(***************************************************************************)
(* LossReport for TLC: fairness and what it gives.                         *)
(***************************************************************************)
EXTENDS LossReport

\* Both sequences of steps run, a waiting task is granted, and not every transaction fails: the
\* host reads as long as IRQ says that a message waits.
Fairness ==
    /\ WF_vars(Snap)
    /\ WF_vars(KeepingNext)
    /\ WF_vars(Grant)
    /\ SF_vars(ReadReport)

FairSpec == Spec /\ Fairness

\* The counters of a loss that is over and handed to housekeeping come to the host, whatever the
\* hand-over, the semaphore and the failed transactions do: unless the capture stops, or the host
\* refused a report that was clocked out whole (reportSeq is past nextSeq), which is not sent again.
LossIsTold ==
    \A ch \in Channels : \A n \in 1 .. MaxTicks :
        (nextValid /\ nextLost[ch] >= n) ~> (last[ch] >= n \/ reportSeq > nextSeq \/ ~Running)
=============================================================================
