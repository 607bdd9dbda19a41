--------------------------- MODULE MCJackBackend ---------------------------
(* Instances of JackBackend for TLC, in the sizes the program really uses. *)
EXTENDS JackBackend

Pcm(nb, fmt) == [nb_channels |-> nb, sample_rate |-> 48000, bit_fmt |-> fmt]

(* Frames of 4, 6 and 12 bytes, all of which divide the silence. *)
MCConfigs == {Pcm(2, 1), Pcm(2, 2), Pcm(6, 1)}

MCStereo == {Pcm(2, 1)}
MCFiveChannels == {Pcm(5, 1)}
=============================================================================
