----------------------------- MODULE MCIpcApp -----------------------------
(* IpcApp for TLC, in two parts that are chosen at the start: "audio", with
   the constants of IpcApp, routes blocks; "control" keeps house instead, with
   queues so short that sends are refused. *)
EXTENDS IpcApp

CONSTANTS
  ShortQSize,  \* the queues of the control part
  KeepRounds   \* bound: its rounds of the housekeeping task

VARIABLE part

allVars == <<vars, part>>

Control == INSTANCE IpcApp WITH
             QSize <- ShortQSize, Deadline <- FALSE, MaxBlocks <- 0, MaxRounds <- KeepRounds

PartInit == Init /\ part \in {"audio", "control"}

\* The part that runs takes its step.
Taken(audio, control) ==
  /\ \/ part = "audio" /\ audio
     \/ part = "control" /\ control
  /\ UNCHANGED part

PartNext == Taken(Next, Control!Next)

PartSpec ==
  /\ PartInit /\ [][PartNext]_allVars
  /\ \A t \in Thread : WF_allVars(Taken(Step(t), Control!Step(t)))
  /\ \A c \in Core : WF_allVars(Taken(Receive(c), Control!Receive(c)))
  /\ \A d \in {"CODEC_IN", "CODEC_OUT"} : WF_allVars(Taken(codecAudio(d), Control!codecAudio(d)))
  /\ WF_allVars(Taken(houseKeepingTask, Control!houseKeepingTask))
=============================================================================
