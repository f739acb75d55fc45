--------------------------- MODULE MCSaeIpcLive ---------------------------
(* SaeIpcLive for TLC: a handler that sends back, and on the master nested
   interrupts that are clients as the task is. *)
EXTENDS SaeIpcLive

\* The task of the master and its interrupts above or below the handler send
\* to the others, whose callbacks reply to the master.
SendReply == [t \in Core \X Level |->
                IF t[1] = Master /\ t[2] # IrqLevel THEN Core \ {Master}
                ELSE IF t[1] # Master /\ t[2] = IrqLevel THEN {Master} ELSE {}]
=============================================================================
