------------------------ MODULE MCPubsubBroadcaster ------------------------
(***************************************************************************)
(* Two partitions for PubsubBroadcaster: telemetry around a message to     *)
(* pass over, and such a message alone.                                    *)
(***************************************************************************)
EXTENDS PubsubBroadcaster, TLC

CONSTANTS p1, p2

MCPartitions == {p1, p2}

MCLog == (p1 :> << "telemetry", "other", "telemetry" >>) @@ (p2 :> << "other" >>)

=============================================================================
