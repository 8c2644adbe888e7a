------------------------------ MODULE MCEndpoint ------------------------------
(***************************************************************************)
(* Envelopes for Endpoint: an envelope, another one of the same sensor     *)
(* with the same nonce stamped later, and a broken one.                    *)
(***************************************************************************)
EXTENDS Endpoint, TLC

CONSTANTS r1, r2, r3, s1, n1

MCRequests == {r1, r2, r3}
MCSensors == {s1}
MCNonces == {n1}

Envelope(time, valid) == [sensor |-> s1, nonce |-> n1, time |-> time, valid |-> valid]

MCEnvelopes == {Envelope(1, TRUE), Envelope(3, TRUE), Envelope(2, FALSE)}

Symmetry == Permutations(MCRequests)

=============================================================================
