----------------------------- MODULE ChannelMap -----------------------------
(***************************************************************************)
(* The channel map of src/src/common/audio.c: how option -c becomes a      *)
(* list of channels, counted from 0, and how audio_map_channels copies the *)
(* bytes of the mapped channels.  Pure functions of buffers, which are     *)
(* sequences of bytes.                                                     *)
(***************************************************************************)
EXTENDS Vban, Sequences

-----------------------------------------------------------------------------
(* audio_parse_map_config.  A token of the list is a number, a blank, of    *)
(* which sscanf returns EOF, or a text without a number in front, which     *)
(* leaves chan as it was.                                                   *)
Token == [kind : {"number", "text", "blank"}, value : Nat]

TokenChannel(token, chan) == IF token.kind = "number" THEN token.value ELSE chan

(* One turn of the loop. *)
ParseToken(parsed, token) ==
  LET chan == TokenChannel(token, parsed.chan) IN
  IF \/ parsed.stopped \/ token.kind = "blank"
     \/ Len(parsed.channels) = VBAN_CHANNELS_MAX_NB
     \/ chan \notin 1 .. VBAN_CHANNELS_MAX_NB
  THEN [parsed EXCEPT !.stopped = TRUE]
  ELSE [parsed EXCEPT !.channels = Append(@, chan - 1), !.chan = chan]

audio_parse_map_config(tokens) ==
  LET parsed[k \in 0 .. Len(tokens)] ==
        IF k = 0 THEN [channels |-> <<>>, chan |-> 0, stopped |-> FALSE]
        ELSE ParseToken(parsed[k - 1], tokens[k])
  IN parsed[Len(tokens)].channels

-----------------------------------------------------------------------------
(* audio_map_channels.  The frames of orig, size bytes in the format        *)
(* config, become frames of the channels of map in dest.  Only the first    *)
(* size bytes of dest are cleared, however long the mapped frames are.      *)

(* Faulty variant: nothing is cleared. *)
MapNotCleared(dest, size, i) == dest[i + 1]

MapCleared(dest, size, i) == IF i < size THEN 0 ELSE dest[i + 1]

audio_map_channels(map, config, orig, size, dest) ==
  LET sample_size       == VBanBitResolutionSize[config.bit_fmt]
      stream_frame_size == sample_size * config.nb_channels
      map_frame_size    == sample_size * Len(map)
      mapped(i) ==        \* the byte of dest at offset i
        LET frame == i \div map_frame_size
            chan  == map[(i % map_frame_size) \div sample_size + 1]
        IN IF frame < size \div stream_frame_size /\ chan < config.nb_channels
           THEN orig[frame * stream_frame_size + chan * sample_size
                       + (i % sample_size) + 1]
           ELSE MapCleared(dest, size, i)
  IN IF map = <<>> THEN dest ELSE [i \in DOMAIN dest |-> mapped(i - 1)]
=============================================================================
