------------------------------- MODULE Audio -------------------------------
(***************************************************************************)
(* The playback side of src/src/common/audio.c: the stream configuration   *)
(* last asked for is cached, and the device is closed and opened again     *)
(* when another one is asked for.  audio_set_stream_config is three        *)
(* actions, because the open of a FIFO in its middle can wait for ever.    *)
(***************************************************************************)
EXTENDS AudioBackend

CONSTANT MapNbs             \* channels in the map of option -c, 0 without it
ASSUME MapAssumption == MapNbs \subseteq 0 .. VBAN_CHANNELS_MAX_NB

VARIABLES stream,           \* audio_t.stream, the cached configuration
          map_nb            \* audio_t.map.nb_channels

audioVars == <<backendVars, stream, map_nb>>

(* calloc in audio_init *)
AudioInitial == AudioBackendInitial /\ stream = NoStream /\ map_nb = 0
AudioRestart == AudioBackendRestart /\ stream' = NoStream /\ map_nb' = 0

audio_set_map_config(nb) ==
  map_nb' = nb /\ UNCHANGED <<fds, backendVars, stream>>

(* get_device_config, direction AUDIO_OUT *)
get_device_config(config) ==
  IF map_nb # 0 THEN [config EXCEPT !.nb_channels = map_nb] ELSE config

(* Faulty variant: the sample rate is not compared. *)
audio_config_unchanged_but_rate(config) ==
  stream.nb_channels = config.nb_channels /\ stream.bit_fmt = config.bit_fmt

audio_config_unchanged(config) ==
  /\ stream.nb_channels = config.nb_channels
  /\ stream.sample_rate = config.sample_rate
  /\ stream.bit_fmt = config.bit_fmt

(* Faulty variant: the old device is abandoned, not closed. *)
audio_set_stream_config_no_close(config, r) ==
  r = 0 /\ stream' = config /\ UNCHANGED <<fds, backendVars, map_nb>>

(* The close of the device.  On an error the old configuration stays. *)
audio_set_stream_config_close(config, r) ==
  /\ backend_close(r)
  /\ stream' = IF r < 0 THEN stream ELSE config
  /\ UNCHANGED map_nb

(* The open.  On an error the cache is emptied. *)
audio_set_stream_config_open(r) ==
  /\ backend_open(get_device_config(stream), r)
  /\ stream' = IF r < 0 THEN NoStream ELSE stream
  /\ UNCHANGED map_nb

(* The rest of the open of a FIFO. *)
audio_set_stream_config_connect(r) ==
  /\ pipe_open_connect(get_device_config(stream), r)
  /\ stream' = IF r < 0 THEN NoStream ELSE stream
  /\ UNCHANGED <<backend, map_nb>>

(* The free of audio_release is the end of every variable here. *)
audio_release(r) == backend_close(r) /\ UNCHANGED <<stream, map_nb>>

-----------------------------------------------------------------------------
AUDIO_MAP_OUTPUT_SIZE(size) ==
  IF map_nb # 0 THEN (size * map_nb) \div stream.nb_channels ELSE size

(* AUDIO_MAP_REVERSE_INPUT_SIZE of what the backend's write returned.  The  *)
(* product of an int and the unsigned nb_channels is unsigned, 32 bits      *)
(* wide; the quotient becomes the int audio_write returns.                  *)
IntMax == 2147483647

(* Faulty variant: what the mapped device took is returned as it is. *)
AUDIO_MAP_UNSCALED_SIZE(n) == n

AUDIO_MAP_REVERSE_INPUT_SIZE(n) ==
  LET product == n * stream.nb_channels       \* 2^32 too small if n < 0
      \* (2 * IntMax + 2 + product) \div map_nb, in numbers below 2^31
      wrapped == 2 * (IntMax \div map_nb) + (2 * (IntMax % map_nb) + 2 + product) \div map_nb
  IN CASE map_nb = 0            -> n
       [] n >= 0 /\ map_nb # 0  -> product \div map_nb
       [] n < 0  /\ map_nb = 1  -> product
       [] OTHER                -> wrapped

(* The values audio_write may return for a payload of size bytes. *)
audio_write(size) ==
  {AUDIO_MAP_REVERSE_INPUT_SIZE(n) : n \in backend_write(AUDIO_MAP_OUTPUT_SIZE(size))}

AudioTypeOK == AudioBackendTypeOK /\ stream \in StreamConfig /\ map_nb \in MapNbs \cup {0}
=============================================================================
