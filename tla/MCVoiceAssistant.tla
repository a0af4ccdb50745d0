-------------------------- MODULE MCVoiceAssistant --------------------------
(* Model-checking instances of VoiceAssistant.                              *)
EXTENDS VoiceAssistant, TLC

CONSTANTS r1, r2, e1

TheTasks == {main, knob}
TwoRequests == {r1, r2}
=============================================================================
