----------------------------- MODULE MCEmitter -----------------------------
(***************************************************************************)
(* An instance of Emitter for TLC: streams whose packets are limited by    *)
(* the number of samples, by the bytes and by neither, and those whose     *)
(* rate or sample size has no place in a header.                           *)
(***************************************************************************)
EXTENDS Emitter

Stereo  == [nb_channels |-> 2, sample_rate |-> 48000, bit_fmt |-> 1]
Mono    == [nb_channels |-> 1, sample_rate |-> 48000, bit_fmt |-> 1]
Eight   == [nb_channels |-> 8, sample_rate |-> 44100, bit_fmt |-> 1]

(* Samples that ALSA and PulseAudio encode in their own way. *)
Stereo24 == [Stereo EXCEPT !.bit_fmt = 2]
Mono8    == [Mono EXCEPT !.bit_fmt = 0]

(* No index in VBanSRList, no size in VBanBitResolutionSize, no room for a *)
(* frame in a packet.                                                      *)
OddRate == [Stereo EXCEPT !.sample_rate = 44000]
Packed  == [Stereo EXCEPT !.bit_fmt = 6]
Huge    == [nb_channels |-> 256, sample_rate |-> 48000, bit_fmt |-> 5]

MCStreams == {Stereo, Mono, Eight, Stereo24, Mono8, OddRate, Packed, Huge}
=============================================================================
