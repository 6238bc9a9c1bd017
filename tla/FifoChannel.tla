---------------------------- MODULE FifoChannel ----------------------------
(***************************************************************************)
(* What one direction of the shared-memory IPC promises to the two         *)
(* processes it connects: a bounded, loss-free, duplicate-free,            *)
(* order-preserving channel.  `sent` and `received` are the complete       *)
(* histories of the two ends, so the messages in flight are the part of    *)
(* `sent` that is not yet in `received`.                                   *)
(***************************************************************************)
EXTENDS Naturals, Sequences

CONSTANTS
    Message,    \* what the channel carries
    Capacity    \* how many messages it holds

VARIABLES sent, received

channelVars == <<sent, received>>

InFlight == Len(sent) - Len(received)

Init == sent = <<>> /\ received = <<>>

Send(m) ==
    /\ InFlight < Capacity
    /\ sent' = Append(sent, m)
    /\ UNCHANGED received

Receive ==
    /\ Len(received) < Len(sent)
    /\ received' = Append(received, sent[Len(received) + 1])
    /\ UNCHANGED sent

Next == Receive \/ \E m \in Message : Send(m)

Spec == Init /\ [][Next]_channelVars
============================================================================
