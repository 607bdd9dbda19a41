------------------------------- MODULE MCLink -------------------------------
(***************************************************************************)
(* An instance of Link for TLC: an emitter that may be started again in    *)
(* another format of the same frame size, and a text whose datagram has    *)
(* the length and the bytes of an audio packet but for its protocol.       *)
(***************************************************************************)
EXTENDS Link

At48000 == [nb_channels |-> 2, sample_rate |-> 48000, bit_fmt |-> 1]
At44100 == [At48000 EXCEPT !.sample_rate = 44100]
MCStreams == {At48000, At44100}

(* A "Hi" of subchannel 0 in format 1, the default, and another bps. *)
Text == [bps |-> 0, ident |-> 0, format |-> 1, len |-> 2]
MCTexts == {Text}

(* The packet of a read of the given bytes, the first of its run. *)
AudioPacket(config, bytes) ==
  [ip |-> "peer", len |-> VBAN_HEADER_SIZE + bytes,
   hdr |-> packet_set_new_content(packet_init_header(config, "stream"), bytes),
   chunk |-> [config |-> config, bytes |-> bytes, position |-> 1, offset |-> 0]]

TextPacket(format_SR) ==
  [ip |-> "peer", len |-> VBAN_HEADER_SIZE + Text.len,
   hdr |-> [fourc |-> TRUE, format_SR |-> format_SR, format_nbs |-> 0, format_nbc |-> 0,
            format_bit |-> 1, streamname |-> "stream", nuFrame |-> 0],
   chunk |-> [config |-> NoStream, bytes |-> Text.len, position |-> 0, offset |-> 0]]

MCPackets ==
  {AudioPacket(config, 1024) : config \in MCStreams}
    \cup {TextPacket(format_SR) : format_SR \in {0, VBAN_PROTOCOL_TXT}}
=============================================================================
