----------------------------- MODULE MCSamples -----------------------------
(***************************************************************************)
(* An instance of Samples for TLC: samples of one to four bytes, the       *)
(* extremes among them, and lists of option -c that choose, repeat and     *)
(* swap channels, name one that is missing and contain a text.             *)
(***************************************************************************)
EXTENDS Samples

Pcm(nb, fmt) == [nb_channels |-> nb, sample_rate |-> 48000, bit_fmt |-> fmt]

MCConfigs == {Pcm(1, 0), Pcm(3, 1), Pcm(2, 2), Pcm(1, 3)}

Number(n) == [kind |-> "number", value |-> n]
Text      == [kind |-> "text", value |-> 0]
Blank     == [kind |-> "blank", value |-> 0]

MCLists ==
  {<<>>, <<Number(2)>>, <<Number(3), Number(1)>>, <<Number(1), Number(1)>>,
   <<Number(2), Text>>, <<Number(1), Blank, Number(2)>>, <<Number(300)>>}

(* Of four bytes the number half way between two floats. *)
Middle == <<100, 100, 100, 2^24 + 3>>

(* The ends of a width, what lies around 0 and one more. *)
MCSound(frame, channel, sample_size) ==
  <<-1, Greatest[sample_size], 1, -Greatest[sample_size] - 1, Middle[sample_size]>>
    [((frame + 2 * channel) % 5) + 1]
=============================================================================
