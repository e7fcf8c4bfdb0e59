---------------------------- MODULE PacketQueue ----------------------------
(***************************************************************************)
(* What a receive FIFO promises: packets come out whole, unchanged and in  *)
(* the order in which they went in.                                        *)
(***************************************************************************)
EXTENDS Sequences

CONSTANT Packets

VARIABLES
    queue,   \* packets accepted and not yet returned
    got      \* the packet returned last

vars == <<queue, got>>

Init == queue = <<>> /\ got = <<>>

Put(p) == queue' = Append(queue, p) /\ UNCHANGED got

Get == queue # <<>> /\ got' = Head(queue) /\ queue' = Tail(queue)

Next == (\E p \in Packets : Put(p)) \/ Get

Spec == Init /\ [][Next]_vars

FairSpec == Spec /\ WF_vars(Get)
=============================================================================
