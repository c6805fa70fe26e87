------------------------------ MODULE HostRpc -------------------------------
(***************************************************************************)
(* What the callers of the frame protocol rely on: bdos.c, fs_host.h and   *)
(* monitor.c send a request frame, the host handles it exactly once, and,  *)
(* for a request that has one, the reply to that very request is what      *)
(* host_receive_frame returns.  A request without reply may be forgotten   *)
(* by the device only once the host has accepted it.                       *)
(***************************************************************************)
EXTENDS Integers, Sequences

CONSTANTS Request, Reply

VARIABLES asked,    \* requests the application made, in order
          served,   \* requests the host's handler saw, in order
          answers   \* what the application got back, in order

vars == <<asked, served, answers>>

Init == asked = <<>> /\ served = <<>> /\ answers = <<>>

\* One request at a time.
Ask == /\ Len(asked) = Len(answers)
       /\ \E r \in Request : asked' = Append(asked, r)
       /\ UNCHANGED <<served, answers>>

Serve == /\ Len(served) < Len(asked)
         /\ served' = Append(served, asked[Len(served) + 1])
         /\ UNCHANGED <<asked, answers>>

Answer == /\ Len(answers) < Len(asked) /\ Len(served) = Len(asked)
          /\ answers' = Append(answers, Reply[asked[Len(asked)]])
          /\ UNCHANGED <<asked, served>>

Next == Ask \/ Serve \/ Answer
Spec == Init /\ [][Next]_vars
=============================================================================
