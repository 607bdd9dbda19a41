------------------------------ MODULE Capture ------------------------------
(***************************************************************************)
(* The capture side of src/src/common/audio.c and of the synchronous       *)
(* backends.  Opening and closing is that of Audio and AudioBackend, with  *)
(* the device in the stream's own format: a channel map does not narrow    *)
(* what is captured.  Reading is the set of values a call may return.      *)
(***************************************************************************)
EXTENDS Audio

(* The sample formats the libraries are asked for, from 8I on.  ALSA's S24  *)
(* has 24 bits in four bytes, PulseAudio's U8 has no sign; a format that is *)
(* not in the list is none, and the open fails.                             *)
vban_to_alsa_format       == <<"S8", "S16", "S24", "S32", "FLOAT", "FLOAT64">>
vban_to_pulseaudio_format == <<"U8", "S16LE", "S24LE", "S32LE", "FLOAT32LE">>

LibraryFormat(bit_fmt) ==
  LET formats == IF backend = "alsa" THEN vban_to_alsa_format ELSE vban_to_pulseaudio_format
  IN IF bit_fmt + 1 \in DOMAIN formats THEN formats[bit_fmt + 1] ELSE "none"

IsLibrary == backend \in {"alsa", "pulseaudio"}
FormatKnown(config) == IsLibrary => LibraryFormat(config.bit_fmt) # "none"

(* Whether the bytes of a sample mean to the library what they mean to the *)
(* protocol, and how many bytes one of ALSA's has.                         *)
SameEncoding == IsLibrary => LibraryFormat(stream.bit_fmt) \notin {"S24", "U8"}
AlsaSampleSize(bit_fmt) ==
  IF LibraryFormat(bit_fmt) = "S24" THEN 4 ELSE VBanBitResolutionSize[bit_fmt]

(* The open in audio_set_stream_config, direction AUDIO_IN: get_device_config *)
(* is the stream's configuration.                                             *)
audio_capture_open(r) ==
  /\ backend_open(stream, r)
  /\ FormatKnown(stream) \/ r # 0
  /\ stream' = IF r < 0 THEN NoStream ELSE stream
  /\ UNCHANGED map_nb

(* The rest of the open of a FIFO, which waits for a writer. *)
audio_capture_connect(r) ==
  /\ pipe_open_connect(stream, r)
  /\ UNCHANGED <<backend, stream, map_nb>>

(* The frames audio_map_channels makes of the captured ones; NoEncoding if  *)
(* their samples are none of the protocol's.                                *)
NoEncoding == VBAN_BIT_RESOLUTION_MAX
mapped_config ==
  [stream EXCEPT !.nb_channels = IF map_nb = 0 THEN @ ELSE map_nb,
                 !.bit_fmt = IF SameEncoding THEN @ ELSE NoEncoding]

(* Faulty variant: the map is left out of what is announced. *)
audio_get_stream_config_unmapped == stream

(* What the rest of the program takes the audio for. *)
audio_get_stream_config ==
  IF map_nb # 0 THEN [stream EXCEPT !.nb_channels = map_nb] ELSE stream

-----------------------------------------------------------------------------
(* read.  A blocking alsa read is short or fails on an xrun, of which a    *)
(* successful recovery returns 0; read(2) returns 0 at the end of a file   *)
(* or when the last writer of a FIFO has left, and any part of a frame.    *)
alsa_read(size) ==
  IF ~handle THEN {-ENODEV}
  ELSE LET frames == size \div FrameSize(device)
       IN {n * FrameSize(device) : n \in {-1, 0} \cup ({1, frames} \cap 0 .. frames)}

pulseaudio_read(size) == IF ~handle THEN {-ENODEV} ELSE {-1, size}

fd_read(size) ==
  IF fd \in Fd \ Free
  THEN {-1, 0} \cup ({1, FrameSize(device) + 1, size} \cap 0 .. size)
  ELSE {-1}

backend_read(size) ==
  CASE backend = "alsa"       -> alsa_read(size)
    [] backend = "pulseaudio" -> pulseaudio_read(size)
    [] OTHER                  -> fd_read(size)

(* The bytes asked from the backend for size bytes of mapped audio; all in  *)
(* size_t, so nothing wraps.                                                *)
audio_read_asked(size) == AUDIO_MAP_REVERSE_INPUT_SIZE(size)

(* With a map they go to audio_t.buffer, without to the packet: both have   *)
(* room for VBAN_DATA_MAX_SIZE bytes.  ALSA counts frames and writes as many *)
(* of its own.                                                              *)
audio_read_filled(size) ==
  IF backend = "alsa" /\ handle
  THEN (audio_read_asked(size) \div FrameSize(device))
         * (device.nb_channels * AlsaSampleSize(device.bit_fmt))
  ELSE audio_read_asked(size)
audio_read_fits(size) == audio_read_filled(size) <= VBAN_DATA_MAX_SIZE

(* audio_read(size) returns r when the backend's read returns n. *)
audio_read(size, n, r) ==
  /\ n \in backend_read(audio_read_asked(size))
  /\ r = IF n < 0 THEN n ELSE AUDIO_MAP_OUTPUT_SIZE(n)
=============================================================================
