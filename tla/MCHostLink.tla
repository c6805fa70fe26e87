----------------------------- MODULE MCHostLink -----------------------------
(***************************************************************************)
(* Small instances of HostLink with the real checksum.  <<1>> and <<4>>    *)
(* have replies of one and two bytes, <<2, 7>> has none (as F_CLOSE).      *)
(* A garbled byte becomes a zero, a length shorter or longer than the      *)
(* frame's, the device's buffer size plus one, or an ACK.                  *)
(***************************************************************************)
EXTENDS LinkChecksum

MCRequest == {<<1>>, <<4>>, <<2, 7>>}
MCReply   == [r \in MCRequest |-> CASE r = <<1>> -> <<3>> [] r = <<4>> -> <<5, 6>> [] OTHER -> <<>>]
MCGarble  == {0, 1, 3, 5, 170}

\* The checksum of messages that end with the reply the device has just received: in front
\* of it up to three bytes, behind none and behind longer beginnings.
MCOctets == {0, 1, 255}
MCStarts == {<<>>, [i \in 1..6 |-> 170], [i \in 1..15 |-> 85], [i \in 1..20 |-> i]}
MCHeads  == {s \o t : s \in MCStarts, t \in UNION {[1..n -> MCOctets] : n \in 0..3}}
=============================================================================
