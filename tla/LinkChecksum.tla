---------------------------- MODULE LinkChecksum ----------------------------
(***************************************************************************)
(* What the checksum is for: the two ends of HostLink must compute the     *)
(* same one of a message, and another one when the message is damaged.     *)
(* The messages end with the reply that the device has received and is     *)
(* about to check (dpc = "lo"), and begin in any of several ways.          *)
(***************************************************************************)
EXTENDS HostLink, HostChecksum

CONSTANTS
    Heads,      \* how messages begin
    Octets      \* what a byte of theirs may be changed to

ASSUME HeadsAssumption == Heads \subseteq Seq(Byte) /\ Octets \subseteq Byte

\* Device and host compute the same 16 bits, and those the bit by bit reference
\* defines: the C word that loses its carry and the masked Python integer agree.
Agree(data) == DeviceCheck(data) = ReferenceCheck(data) /\ HostCheck(data) = ReferenceCheck(data)
BothAgree == dpc = "lo" => \A head \in Heads : Agree(head \o dbuf)

\* A change of any one of the last nine bytes of a payload is always detected:
\* their bits have not been shifted out of the word yet.  (Of earlier bytes some
\* bits count, and from the sixteenth before the end on none.)
Detected(data, i) == \A b \in Octets \ {data[i]} : DeviceCheck([data EXCEPT ![i] = b]) # DeviceCheck(data)
TailDetected(data) == \A i \in 1..Len(data) : i > Len(data) - 9 => Detected(data, i)
TailErrorDetected == dpc = "lo" => \A head \in Heads : TailDetected(head \o dbuf)
=============================================================================
