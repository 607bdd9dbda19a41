-------------------------------- MODULE Vban --------------------------------
(***************************************************************************)
(* The wire format of src/src/vban/vban.h and the stream configuration of  *)
(* src/src/common/stream.h: the constants, tables and bit fields every     *)
(* other module reads.  A header is a record of the fields of struct       *)
(* VBanHeader; each format_* field is one byte.                            *)
(***************************************************************************)
EXTENDS Integers

VBAN_HEADER_SIZE       == 28
VBAN_PROTOCOL_MAX_SIZE == 1464
VBAN_DATA_MAX_SIZE     == VBAN_PROTOCOL_MAX_SIZE - VBAN_HEADER_SIZE
VBAN_CHANNELS_MAX_NB   == 256
VBAN_SAMPLES_MAX_NB    == 256

VBAN_SR_MAXNUMBER == 21
VBanSRList == [i \in 0 .. VBAN_SR_MAXNUMBER - 1 |->
  <<6000, 12000, 24000, 48000, 96000, 192000, 384000,
    8000, 16000, 32000, 64000, 128000, 256000, 512000,
    11025, 22050, 44100, 88200, 176400, 352800, 705600>>[i + 1]]

(* Bytes per sample of each bit resolution.  The table has six             *)
(* initialisers for eight entries: 12I and 10I have size 0.                *)
VBAN_BIT_RESOLUTION_MAX == 8
VBanBitResolutionSize == [f \in 0 .. VBAN_BIT_RESOLUTION_MAX - 1 |->
  <<1, 2, 3, 4, 4, 8, 0, 0>>[f + 1]]

-----------------------------------------------------------------------------
(* The masks of vban.h, as arithmetic on one byte. *)
Byte == 0 .. 255

SampleRateIndex(format_SR) == format_SR % 32         \* & VBAN_SR_MASK
Protocol(format_SR)        == format_SR \div 32      \* & VBAN_PROTOCOL_MASK
BitResolution(format_bit)  == format_bit % 8         \* & VBAN_BIT_RESOLUTION_MASK
ReservedBit(format_bit)    == (format_bit \div 8) % 2 = 1  \* & VBAN_RESERVED_MASK
Codec(format_bit)          == format_bit \div 16     \* & VBAN_CODEC_MASK

VBAN_PROTOCOL_AUDIO == 0
VBAN_PROTOCOL_TXT   == 64             \* the byte, not the three bits of it
VBAN_CODEC_PCM      == 0

(* struct VBanHeader, of any bytes. *)
IsHeader(hdr) ==
  {hdr.format_SR, hdr.format_nbs, hdr.format_nbc, hdr.format_bit} \subseteq Byte

(* struct stream_config_t.  All three fields are 0 after calloc or memset. *)
StreamConfig == [nb_channels : Nat, sample_rate : Nat, bit_fmt : Nat]
NoStream == [nb_channels |-> 0, sample_rate |-> 0, bit_fmt |-> 0]

(* Bytes of one frame, one sample of every channel. *)
FrameSize(config) == config.nb_channels * VBanBitResolutionSize[config.bit_fmt]

(* The errno values the code returns negated. *)
EINVAL == 22
ENODEV == 19
=============================================================================
