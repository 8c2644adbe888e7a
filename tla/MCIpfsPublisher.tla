--------------------------- MODULE MCIpfsPublisher ---------------------------
(***************************************************************************)
(* Two partitions for IpfsPublisher; one of them holds a message that      *)
(* cannot be parsed.                                                       *)
(***************************************************************************)
EXTENDS IpfsPublisher, TLC

CONSTANTS p1, p2, t1

MCPartitions == {p1, p2}

MCLog == (p1 :> << "telemetry", "unreadable", "telemetry" >>)
         @@ (p2 :> << "telemetry", "telemetry" >>)

MCTimers == {t1}

=============================================================================
