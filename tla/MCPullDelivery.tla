---------------------------- MODULE MCPullDelivery ----------------------------
(* Instances of PullDelivery for TLC.                                      *)
EXTENDS PullDelivery

Setting(b, p, l, o) == [batch |-> b, pacing |-> p, limit |-> l, policy |-> o]

\* Batches of one and two with and without pacing, one with a limited queue,
\* one with the empty batch, one with another policy.
MCQos == {Setting(3, FALSE, 0, "fifo"), Setting(2, TRUE, 0, "fifo"),
          Setting(1, TRUE, 2, "fifo"), Setting(0, FALSE, 1, "fifo"),
          Setting(2, FALSE, 2, "other")}
=============================================================================
