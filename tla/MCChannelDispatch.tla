--------------------------- MODULE MCChannelDispatch ---------------------------
(* Instances of ChannelDispatch for TLC.                                   *)
EXTENDS ChannelDispatch

\* The default admin wants every event, the others the later ones.
SomeMeant == [a \in Admin |-> IF a = 0 THEN Event ELSE Event \ {1}]
=============================================================================
