---------------------------- MODULE MCVoiceSync ----------------------------
(* Instances of VoiceSync for TLC. *)
EXTENDS VoiceSync, TLC

Symmetry ==
    UNION {Permutations(S) : S \in {Client, Task, Upload, Voice}}
=============================================================================
