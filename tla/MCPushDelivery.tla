---------------------------- MODULE MCPushDelivery ----------------------------
(* Instances of PushDelivery for TLC.                                      *)
EXTENDS PushDelivery

Setting(s, p, l) == [size |-> s, paced |-> p, limit |-> l]

\* Batches of two with and without pacing; single events, at most two waiting.
MCQos == {Setting(2, TRUE, 0), Setting(2, FALSE, 0), Setting(1, FALSE, 2)}
=============================================================================
