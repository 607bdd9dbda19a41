------------------------------- MODULE Packet -------------------------------
(***************************************************************************)
(* src/src/common/packet.c: the checks on a received datagram and the      *)
(* header a sender builds.  Pure functions of the buffer, so operators.    *)
(*                                                                         *)
(* A header is a record [fourc, format_SR, format_nbs, format_nbc,         *)
(* format_bit, streamname]; fourc says whether the magic number is the     *)
(* expected one, and a stream name is an abstract value compared whole.    *)
(* A header that a sender builds also has nuFrame, which no check reads.   *)
(***************************************************************************)
EXTENDS Vban

(* Samples and channels are stored minus one. *)
NbSamples(hdr)  == hdr.format_nbs + 1
NbChannels(hdr) == hdr.format_nbc + 1

(* Faulty variant: bytes behind the announced samples are let pass. *)
packet_pcm_check_at_least(hdr, size) ==
  IF /\ BitResolution(hdr.format_bit) < VBAN_BIT_RESOLUTION_MAX
     /\ SampleRateIndex(hdr.format_SR) < VBAN_SR_MAXNUMBER
     /\ size - VBAN_HEADER_SIZE >=
          NbSamples(hdr) * NbChannels(hdr)
            * VBanBitResolutionSize[BitResolution(hdr.format_bit)]
  THEN 0 ELSE -EINVAL

packet_pcm_check(hdr, size) ==
  IF /\ BitResolution(hdr.format_bit) < VBAN_BIT_RESOLUTION_MAX
     /\ SampleRateIndex(hdr.format_SR) < VBAN_SR_MAXNUMBER
     /\ size - VBAN_HEADER_SIZE =
          NbSamples(hdr) * NbChannels(hdr)
            * VBanBitResolutionSize[BitResolution(hdr.format_bit)]
  THEN 0 ELSE -EINVAL

(* Faulty variant: a datagram that is only a header is not "too small". *)
packet_check_header_only(streamname, hdr, size) ==
  IF /\ size >= VBAN_HEADER_SIZE
     /\ hdr.fourc
     /\ hdr.streamname = streamname
     /\ ~ ReservedBit(hdr.format_bit)
     /\ Protocol(hdr.format_SR) = VBAN_PROTOCOL_AUDIO
     /\ Codec(hdr.format_bit) = VBAN_CODEC_PCM
  THEN packet_pcm_check(hdr, size) ELSE -EINVAL

packet_check(streamname, hdr, size) ==
  IF /\ size > VBAN_HEADER_SIZE
     /\ hdr.fourc
     /\ hdr.streamname = streamname
     /\ ~ ReservedBit(hdr.format_bit)
     /\ Protocol(hdr.format_SR) = VBAN_PROTOCOL_AUDIO
     /\ Codec(hdr.format_bit) = VBAN_CODEC_PCM
  THEN packet_pcm_check(hdr, size) ELSE -EINVAL

(* What the receptor hands to the audio layer: only called on a buffer      *)
(* packet_check accepted, so the sample rate index is inside the table.     *)
packet_get_stream_config(hdr) ==
  [nb_channels |-> NbChannels(hdr),
   sample_rate |-> VBanSRList[SampleRateIndex(hdr.format_SR)],
   bit_fmt     |-> BitResolution(hdr.format_bit)]

PACKET_PAYLOAD_SIZE(size) == size - VBAN_HEADER_SIZE

-----------------------------------------------------------------------------
(* The header a sender builds. *)

(* The index of a rate, VBAN_SR_MAXNUMBER if it is not in the table. *)
vban_sr_from_value(value) ==
  IF \E index \in DOMAIN VBanSRList : VBanSRList[index] = value
  THEN CHOOSE index \in DOMAIN VBanSRList : VBanSRList[index] = value
  ELSE VBAN_SR_MAXNUMBER

(* The other bytes are those of the memset in main. *)
packet_init_header(config, streamname) ==
  [fourc |-> TRUE, format_SR |-> vban_sr_from_value(config.sample_rate),
   format_nbs |-> 0, format_nbc |-> (config.nb_channels - 1) % 256,
   format_bit |-> config.bit_fmt, streamname |-> streamname, nuFrame |-> 0]

(* Bytes of one frame, as the header tells it; a divisor, and 0 for 12I and *)
(* 10I.                                                                     *)
PacketFrameSize(hdr) ==
  NbChannels(hdr) * VBanBitResolutionSize[BitResolution(hdr.format_bit)]

(* Faulty variants: the size is that of the datagram, the limit of the      *)
(* samples is forgotten.                                                    *)
packet_get_max_payload_size_with_header(hdr) ==
  LET sample_count == VBAN_PROTOCOL_MAX_SIZE \div PacketFrameSize(hdr) IN
  (IF sample_count > VBAN_SAMPLES_MAX_NB THEN VBAN_SAMPLES_MAX_NB ELSE sample_count)
    * PacketFrameSize(hdr)

packet_get_max_payload_size_any_samples(hdr) ==
  (VBAN_DATA_MAX_SIZE \div PacketFrameSize(hdr)) * PacketFrameSize(hdr)

packet_get_max_payload_size(hdr) ==
  LET sample_count == VBAN_DATA_MAX_SIZE \div PacketFrameSize(hdr) IN
  (IF sample_count > VBAN_SAMPLES_MAX_NB THEN VBAN_SAMPLES_MAX_NB ELSE sample_count)
    * PacketFrameSize(hdr)

(* One byte of samples: a payload of no sample announces 256.  nuFrame has  *)
(* 32 bits, more than any instance counts to.                               *)
packet_set_new_content(hdr, payload_size) ==
  [hdr EXCEPT !.format_nbs = ((payload_size \div PacketFrameSize(hdr)) - 1) % 256,
              !.nuFrame = @ + 1]
=============================================================================
