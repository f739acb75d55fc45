------------------------------ MODULE MCSaeIpc ------------------------------
(* SaeIpc on two cores for TLC, with the parts of its inductive invariant. *)
EXTENDS SaeIpcInv

\* The task of the master sends to the others (housekeeping, audio), whose
\* callbacks reply to the master.
SendReply == [t \in Core \X Level |->
                IF t = <<Master, 0>> THEN Core \ {Master}
                ELSE IF t[1] # Master /\ t[2] = IrqLevel THEN {Master} ELSE {}]

\* A slot outside the queue is never read: states that differ only there are one.
LiveSlots == [c \in Core |-> [i \in 0 .. QSize - 1 |->
                                IF i \in Occupied(c) THEN slots[c][i] ELSE NoMsg]]
LiveView  == <<lock, masked, setup, LiveSlots, head, tail, pending, heap, pc,
               call, irq, ghost>>
=============================================================================
