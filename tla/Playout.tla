------------------------------ MODULE Playout ------------------------------
(***************************************************************************)
(* What a listener may hear, whatever lies between the microphone and the  *)
(* loudspeaker: silence, or a chunk that was captured, played by a device  *)
(* that runs in the format of the chunk, with as many channels as the      *)
(* listener asks for.  A chunk may be lost, repeated or late; it is never  *)
(* invented, nor played as something else.                                 *)
(***************************************************************************)
EXTENDS Vban

CONSTANT NoChunk            \* a chunk of no audio

VARIABLES captured,         \* the chunks captured so far, records with the
                            \*   format of their bytes in the field config
          channels,         \* what the listener asks for, 0: all of the stream
          playing           \* what the loudspeaker is given

Silence == [chunk |-> NoChunk, device |-> NoStream]

PlayedIn(config) ==
  IF channels = 0 THEN config ELSE [config EXCEPT !.nb_channels = channels]

Init == captured = {} /\ channels = 0 /\ playing = Silence

Capture == captured \subseteq captured' /\ UNCHANGED <<channels, playing>>

Play ==
  /\ \E chunk \in captured :
       playing' = [chunk |-> chunk, device |-> PlayedIn(chunk.config)]
  /\ UNCHANGED <<captured, channels>>

Rest ==
  /\ playing' = Silence
  /\ channels' \in 0 .. VBAN_CHANNELS_MAX_NB
  /\ UNCHANGED captured

Next == Capture \/ Play \/ Rest

Spec == Init /\ [][Next]_<<captured, channels, playing>>
=============================================================================
