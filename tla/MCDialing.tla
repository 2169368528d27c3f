------------------------------ MODULE MCDialing ------------------------------
(* Instances of Dialing for TLC. *)
EXTENDS Dialing

CONSTANTS A, B, quic1, quic2, tcp1

\* TCP given first, so that the sort matters; a second list; no address at all.
MCRequests == {<<tcp1, quic1, quic2>>, <<quic2, tcp1>>, <<>>}
=============================================================================
