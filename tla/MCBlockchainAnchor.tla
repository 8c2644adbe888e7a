------------------------- MODULE MCBlockchainAnchor -------------------------
(***************************************************************************)
(* Two partitions for BlockchainAnchor, with a message to ignore between   *)
(* two CIDs and one that cannot be decoded before a CID.                   *)
(***************************************************************************)
EXTENDS BlockchainAnchor, TLC

CONSTANTS p1, p2

MCPartitions == {p1, p2}

MCLog == (p1 :> << "cid", "other", "cid" >>) @@ (p2 :> << "malformed", "cid" >>)

=============================================================================
