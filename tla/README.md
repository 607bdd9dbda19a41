# A TLA+ model of vban

vban sends and receives audio over UDP in VB-Audio's VBAN protocol. The
repository builds three command line programs from one common library:
`vban_receptor` (network to audio device), `vban_emitter` (audio device to
network) and `vban_sendtext` (one text datagram). This directory holds TLA+
modules translated from the sources, TLC configurations that check them on small
instances, and proofs for TLAPS. The POSIX build is modelled; the `_WIN32`
branches of `socket.c` and `pipe_backend.c` are not.

## 1. The system

| part | state it keeps | operations | talks to |
|---|---|---|---|
| wire format `vban/vban.h`, `common/stream.h` | none | tables, masks | everyone |
| packet checks `common/packet.c` | none (the caller's buffer) | check, stream config of a header, build a header | receptor, emitter |
| socket `common/socket.c` | descriptor `fd`, 0 = not open | init, release, read, write | kernel |
| audio layer `common/audio.c` | cached stream configuration, channel map, mapping buffer | init, release, set stream config, set map, read, write | one backend, through function pointers |
| backends `common/backend/` | a descriptor or a library handle; jack: client, ports, ring buffer, `active` | open, close, read, write | ALSA, PulseAudio, JACK, FIFO, file |
| receptor `receptor/main.c` | receive buffer, `ret`, `size` | main loop | socket, packet, audio |
| emitter `emitter/main.c` | packet buffer with its header and frame counter, `ret`, `size`, `max_size` | main loop | audio, packet, socket |
| sendtext `sendtext/main.c` | packet buffer | main | socket |
| logger, option parsing, help texts, build files | output level | - | - |

Everything but the jack backend runs in the one thread of `main`. What is hard:

* the receptor reconfigures its device whenever a packet comes in another
  format, in the middle of a stream, and every call on the way may fail; the
  error conventions of the layers differ (negative errno, positive errno,
  positive PulseAudio codes, 0 after a failure);
* descriptors are plain numbers kept after `close` and before `open`, and 0
  means "not open" in one place and is closed in another;
* the FIFO of the pipe backend outlives a killed process, and `MainRun` is never
  cleared: the signal handler is not installed, so every stop is a kill;
* the network loses, repeats and reorders datagrams, and `nuFrame` is ignored; an
  emitter or a sendtext may be started again under the same name with other options;
* a read of the emitter may return any part of a frame, nothing or an error, and the
  sizes go through the rounding of the channel map in both directions;
* the bytes pass buffers that are cleared in part and a ring that ends anywhere in a
  sample;
* the jack backend shares its structure between three threads without a lock.

What makes each part correct:

* packet checks - what is accepted is whole frames of a known format, never a
  truncated datagram; what the emitter builds is accepted;
* audio layer - the cache agrees with the device, what is written is in the
  format of its packet, what is read fits its buffer, the map moves each channel
  to its place, errors are reported as errors;
* backends - no descriptor leaked, none of somebody else's closed, no FIFO left;
* receptor - every packet of the stream is served, whatever else arrives;
* emitter - what is sent is announced as what it is, begins with a whole frame,
  and leaves nothing out; the end of the input ends the program;
* jack - the threads' checks stay true until used, nothing is used after its
  free, each channel is heard on its own port, the stream is heard at all;
* all together - what is played was captured, in the format it was captured in.

## 2. Modules

```
Vban, Descriptors
  |-- Packet ------------------------------.
  |-- AudioBackend --- Audio ---------------+-- Receptor --- MCReceptor
  |                      `--- Capture --.   |
  |-- Socket --- SocketIn --------------|---'
  |      `------------------------------+-- Emitter ---- MCEmitter
  |      `-- (Packet) ------------------|-- SendText
  |                                     |
  |-- Playout         Link = Emitter + Receptor + SendText + a network --- MCLink
  |
  |-- ChannelMap --.
  |-- JackSamples --+-- Samples --- MCSamples
  `-- JackBackend --+-- MCJackBackend
                    `-- JackProofs

BackendProofs --+-- ReceptorProofs --+-- ReceptorFdProofs
                |                    `-- Link --- LinkProofs
                `-- EmitterProofs ------'
Samples --- SampleLemmas --- SamplesProofs
```

`Link` takes emitter and receptor in the form of `EmitterProofs` and
`ReceptorProofs`: the same modules with their theorems, so that `LinkProofs` can
use what is proved of each.

| module | models | how |
|---|---|---|
| `Vban` | `vban.h`, `stream.h` | constants; masks as arithmetic on one byte; the size table with its two missing entries, which C makes 0 |
| `Packet` | `packet.c` | pure operators over header records: the checks of a receiver, the header a sender builds and completes; a stream name is one value |
| `Descriptors` | the kernel (external) | lowest free descriptor, `close` of a number |
| `Socket` | `socket.c`, both directions | the descriptor's life, where 0 is "not open"; the values `socket_write` may return |
| `SocketIn` | `socket.c`, receiving | the kernel's bounded receive queue, `recvfrom`'s cut to the buffer; a datagram is its source, length and header |
| `AudioBackend` | alsa, pulseaudio, pipe, file | open and close as actions with their return value, write as the set of values it may return |
| `Audio` | `audio.c`, playback | the configuration cache and the sizes of the channel map; an `int` times an `unsigned` keeps its 32-bit wrap |
| `Capture` | `audio.c` and the backends, capture | opening in the stream's own format, read as the set of values it may return, short reads and ends of file among them, and what a read fills |
| `Receptor` | `receptor/main.c` | one action per call of `main` that can fail or block; `Kill` and `Restart` between any two |
| `Emitter` | `emitter/main.c` | likewise; a payload is a chunk: its format, its length, which read it came from and at which byte of a frame it begins |
| `SendText` | `sendtext/main.c` | `main` after its options |
| `Playout` | nothing: the abstract specification | captured chunks, and what a loudspeaker may be given |
| `Link` | the three programs and a network | the three modules instantiated side by side; a network that keeps all it was given |
| `ChannelMap` | `audio.c`, option `-c` and `audio_map_channels` | the list token by token, the bytes of the buffers |
| `JackSamples` | `jack_backend.c`, `jack_process_cb`'s loop | the two parts of a read vector, the conversion to float |
| `Samples` | both, from a packet to JACK's ports | one ring buffer with its bytes, formats in turn |
| `JackBackend` | `jack_backend.c` | the three threads, a step between any two accesses to what they share; lengths in bytes, as in the code |

The `MC` modules give the constants of the module they extend.

A few choices a reader should know of:

* `fd` and `sockfd` are the numbers the structures hold; `fds` is what the kernel
  says they are. The properties about descriptors relate the two.
* `backend = "stdout"` is the file backend without `-d`.
* `audio_set_stream_config` is up to three actions: close, open and, for the
  pipe backend, the return of the `open` of the FIFO, which waits for the other
  side. A kill may fall between them.
* `Restart` keeps what the file system keeps: the FIFO. Options may change.
* The emitter's buffer is a datagram with a ghost field, `chunk`, that no action
  decides by: it says what the bytes are. `Link` follows it through the network
  and into the receptor's device; the bytes themselves are in `Samples`.
* `crashed` is a program that divides by 0 or runs over a buffer. Where running
  over a buffer may go unnoticed, the emitter and the jack backend have the step that
  goes on as well. `Samples` has not: the buffer is the last member of the allocated
  `audio_t`, and what becomes of a process that has overwritten what lies behind it
  is left out.
* In `JackBackend` the ring buffer's content is the silence `jack_open` puts
  there, then audio; `phase` is the byte of a frame the next audio byte belongs
  to. The packets of the receptor are whole frames (`WholeFrames` of `Receptor`).
* `CloseClient` waits for a callback in progress: `jack_client_close` joins
  JACK's threads. A freed ring buffer read or written is a `WriteCrash` or goes
  unnoticed; both are steps.
* In `Samples` a packet for which the ring buffer has no room is refused whole,
  and the callback runs with a whole period only: what else may happen is
  `JackBackend`'s. A float is an integer of 24 bits over a power of two, with a mark
  if its sign is the other one. The conversion `(float)` of an `int` rounds to that
  integer (`ToFloat`), to the nearest and to the even one of two, which is the mode a
  C program starts in; it changes 32-bit samples only: 2147483647 becomes 2^31.

Operators that follow a comment "Faulty variant" are not part of the model.
They are plausible bugs, each of which one property must catch.

## 3. Runs

| run | configuration | shows |
|---|---|---|
| `receptor` | `MCReceptor.cfg` | all safety properties of the receptor and `Served`, with all five backends |
| `emitter` | `MCEmitter.cfg` | all properties of the emitter, with all five backends, maps that narrow, keep and widen the device, eight formats |
| `link` | `MCLink.cfg` | emitter, receptor and sendtext over a network that loses, repeats, delays and reorders implement `Playout` |
| `samples` | `MCSamples.cfg` | the bytes of a stream arrive on the right port at the right level, through the map, the wrap of the ring buffer and the conversion |
| `jack` | `MCJackBackend.cfg` | three formats in turn, no death of the server: threads, alignment, starvation, playing |
| `jack_server_dies` | `JackServerDies.cfg` | the shutdown callback closes the client in the end |
| `receptor_open_error` | `ReceptorOpenError.cfg` | violated: a PulseAudio error passes for success |
| `receptor_write_error` | `ReceptorWriteError.cfg` | violated: a write error does not stop the receptor |
| `receptor_map_error` | `ReceptorMapError.cfg` | violated: with a map of two channels an error becomes positive |
| `jack_five_channels` | `JackFiveChannels.cfg` | violated: five channels are not heard on their own ports |
| `jack_long_period` | `JackLongPeriod.cfg` | violated: with a long period the stream is never heard |
| `jack_shutdown` | `JackShutdown.cfg` | violated: the ring buffer is freed under main's feet |

The violated runs are disagreements between the code and what its comments and
documents say; `PROJECT.json` quotes them under "findings".

### Bounds

Receptor:

* `Datagrams`: five, one for every branch of `socket_read` and `packet_check`
  that a property tells apart: two formats that differ in one field of the
  cache's comparison, a wrong source, a bare header in a format of size 0, and
  a datagram longer than the buffer. Every other refusal of `packet_check` takes
  the same step as these; the proofs are for any set.
* `RcvBuf = 2`: two formats queued behind each other, one dropped.
* `MaxFd = 5`: three inherited descriptors, the socket, the backend and a free
  one, so that "lowest free" is never the only one.
* `MapNbs = {0, 1}`: without and with a map; `{2}` in the run about negative
  results, which a map of one channel does not change.
* `StdinStates`: standard input open or closed, as a daemon may have it.

Emitter: `Streams` has a format whose packets are limited by the header's count
of samples (mono), one limited by the bytes (eight channels), two the libraries
encode in their own way, a rate that has no index, samples of size 0 and a frame
longer than a packet. `MapNbs = {0, 1, 2, 4}` narrows, keeps and widens each.
`MaxPackets = 2`: a second packet is what the counter, the offset and the buffer
may carry something over to. A read returns an error, 0, one byte or frame, a
frame and a byte, or all: the remainders a frame boundary depends on. The sizes
are the program's own. The proofs are for any number of packets and any read in
range.

Link: PulseAudio on both ends, as the backend that neither blocks nor needs a
descriptor; what the others do is in the two runs above, and `Playout` says
nothing of descriptors. One packet per run of the emitter, but any number of runs
(a late packet is one of a former run), in two formats with frames of the same
size, which is when a wrong format does not show in the lengths; one text with
the length and the bytes of an audio packet but for its protocol; a receive
buffer of one datagram, since reordering is the network's: 2.1 million states.

Samples: a ring buffer of 16 bytes with samples of 1, 2, 3 and 4, periods of two
frames, packets of one or two, so that the buffer ends at any byte of a
3-byte sample and behind a sample of the other sizes, of which it holds whole ones
as the program's power of two does; a mapping buffer of 12 bytes, so that mapped
frames fit and do not; sounds with the ends of each width; maps
that choose, repeat, swap and miss channels or contain something else. The proofs are
for any sizes, maps and sounds.

JACK: quality 1 (the default), a period of 512 frames, packets of 96 frames,
frames of 4, 6 and 12 bytes: the sizes are the program's own, not scaled. With
96 frames the buffer's capacity is no multiple of the packet for all formats,
and with 512 several packets make a period.

### Fairness

`Receptor`: the steps of `main` (`Running`), but not where it may stand for ever
(`WaitsForReader`): in the FIFO's `open`, which needs a reader, and in a `write` of
the pipe or file backend to an open descriptor, which does not return while the
reader of a FIFO, a pipe or a terminal is there and does not read
(`pipe_backend.c:146`, `file_backend.c:130`). A `write` of ALSA or PulseAudio returns
once the device has played what it has, a `recvfrom` once a datagram is queued.
Not fair either: errors of `recvfrom`, the network, kills, restarts. So `Served`
speaks of a packet in the queue, has the premise that every wait for a reader ends,
and exempts an ended process. Without the premise it is false: a receptor whose
reader stops reading serves nothing more.

`Emitter`: likewise `Running`, without `Read` and `Connect`: nobody promises input
or a writer. `Sends` and `Ends` start after a read returned.

`Link` and `Samples` state safety only and no fairness.

`JackBackend`: `jack_open`, `jack_close` of each thread, `jack_write` and
`jack_process_cb`, each for itself: main runs whenever it can and a stream keeps
coming; an active server keeps calling. Not fair: a new format, the end, the
death of the server, a restart. That the `jack_close` of the shutdown callback comes to
its end, as `ShutdownCloses` says, assumes that `jack_client_close` returns when it
is called in that callback: the code relies on it, and JACK is external here.

No specification can deadlock: an ended process may be started again.

## 4. Properties

`Receptor`: `TypeOK`; `FormatAgreement` (a payload is written to a device in the
format of its packet); `CacheCoherent` (alsa, file: a cached configuration is an
open device's); `WholeFrames` (at least one frame, whole before and after the
map, of a size that is not 0); `NeverTruncated` (no cut datagram is taken for a
packet); `SocketKept` (no close of a backend hits the socket); `NoOrphan` (no
descriptor leaked); `WritesToItsOwn` (pipe, file: a payload goes to the descriptor
the backend opened, or to none); `FifoFresh` (a killed run's FIFO is gone before `mkfifo`);
`ReleasedClean` (nothing left after `audio_release`); `WriteReported` (complete
writes and errors of the backend are reported as such); `Served` (liveness).

`CacheCoherent` leaves out pulseaudio and pipe because it does not hold there: see
`receptor_open_error`, and `pipe_backend.c:107`, which returns the 0 of `mkfifo` when
the open of the FIFO has failed (the same configuration with `Backends = {"pipe"}` shows
it). The descriptor is then -1 and every write fails until the next format; `WritesToItsOwn`
says that it is no worse, and that no payload reaches the socket or standard output.

`Emitter`: `TypeOK`; `PreparedValid` (whole frames, however few, make a packet
that the emitter's own `packet_check` accepts); `Announced` (the header says what
the device was opened for, after the map, and the payload has the length it
says); `FrameBoundary` (a packet begins with the first channel of a frame);
`NoOverrun` (a read fits its buffer); `InSequence` (consecutive counters are
consecutive reads); `FifoRemoved` (no return of `main` leaves the FIFO); `Sends`
and `Ends` (liveness). Where the code does not keep them the properties leave
cases out, by name:

* `WideMap`: a map of fewer channels than the device has makes `audio_read` ask
  for more bytes than `buffer` has, and hides a broken frame from `packet_check`
  (`audio.c:260`);
* `SameEncoding`: ALSA's S24 has four bytes a sample and PulseAudio's 8-bit
  format has no sign; both are sent as the protocol's (`alsa_backend.c:30`,
  `pulseaudio_backend.c:23`).

The model takes both of these steps.

`Link`: `OnlyAudioAccepted` (`packet_check` of the receptor accepts exactly what
the emitter sent, no text of the same name) and `PlaysWhatWasCaptured`, the
refinement. `Playout` has three variables. `captured` is a history variable of
`Link`; `channels` is the receptor's map; `playing` is the receptor's packet and
its device while `main` is in `audio_write` with an open device, and silence
otherwise. A `Play` needs that the chunk was captured and that the device's
configuration is that of the chunk, with the listener's number of channels: it is
the cache of `audio.c`, the check of the packet and the header of the emitter
together that give it.

`Samples`: `Heard` (the sample on a port is the one its channel carries, in the
right frame, with the right level (`IsLevel`): up to 24 bits that of the number
itself, for 32 bits that of the nearest float, which has 24 bits; 32-bit samples may
also have the other sign, since `(float)(1 << 31)` is negative on the usual build) and `MissingSilent` (a port
whose channel the stream lacks is silent). `Heard` speaks of the ports whose
tokens of `-c`, and all before them, are numbers, and assumes a signed `char`
(`CharSigned`). `MissingSilent` leaves out maps wider than the stream:
`audio_map_channels` clears as many bytes as the packet has, not as the mapped
frames have, and after a change of format such a port repeats old samples, though
`src/README.md:86` promises silence.

`JackBackend`: `TypeOK`, `RingLive` (no use after free, no double free),
`Aligned` (each channel on its port), `ChecksHold` (what a thread found free or
ready still is when it uses it), `NoStarvation`, `Released`, `ShutdownCloses` and
`Plays` (liveness).

`RingLive` is checked without a death of the server, where it depends on the
order of `jack_close`; with one it fails (`jack_shutdown`).

## 5. Proofs

Everything below is proved from the named assumptions on the constants
(`MaxFdAssumption`, `BackendAssumption`, `MapAssumption`, `SocketAssumption`,
`ReceptorAssumption`, `EmitterAssumption`, `JackAssumption`, `LinkAssumption`,
`CharAssumption`, `SamplesAssumption`), for every set of datagrams and of streams,
every map, choice of backends, size of the descriptor table, quality and period.
The only bound among them that is not a type is `Period \in 1 .. 2^18` of
`JackAssumption`: with 256 channels of eight bytes the sizes `jack_open` computes
then fit an `int`; JACK's periods end at 8192. `LinkAssumption` repeats what the
modules assume that `Link` puts together. `SamplesAssumption` says that streams have
1 to 256 channels, that `-c` is a list of tokens, that the sizes are positive and
that a sound fits its samples. The theorems with a hypothesis of their own have it
in the table: without it the code does not do what they say.

| theorem | module | property |
|---|---|---|
| `TypeCorrect` | `ReceptorProofs` | `TypeOK` |
| `FormatAgreementHolds` | `ReceptorProofs` | `FormatAgreement` |
| `CacheCoherentHolds` | `ReceptorProofs` | `CacheCoherent` |
| `NeverTruncatedHolds` | `ReceptorProofs` | `NeverTruncated` |
| `WholeFramesHolds` | `ReceptorProofs` | `WholeFrames` |
| `WriteReportedHolds` | `ReceptorProofs` | `WriteReported`, if `MapNbs \subseteq {0, 1}` |
| `CompleteReportedHolds` | `ReceptorProofs` | the first half of `WriteReported`, for every map |
| `SocketKeptHolds` | `ReceptorFdProofs` | `SocketKept` |
| `NoOrphanHolds` | `ReceptorFdProofs` | `NoOrphan` |
| `WritesToItsOwnHolds` | `ReceptorFdProofs` | `WritesToItsOwn` |
| `FifoFreshHolds` | `ReceptorFdProofs` | `FifoFresh` |
| `ReleasedCleanHolds` | `ReceptorFdProofs` | `ReleasedClean` |
| `EmitterTypeCorrect` | `EmitterProofs` | `TypeOK` |
| `PreparedValidHolds` | `EmitterProofs` | `PreparedValid` |
| `AnnouncedHolds` | `EmitterProofs` | `Announced` |
| `FrameBoundaryHolds` | `EmitterProofs` | `FrameBoundary` |
| `NoOverrunHolds` | `EmitterProofs` | `NoOverrun` |
| `InSequenceHolds` | `EmitterProofs` | `InSequence` |
| `FifoRemovedHolds` | `EmitterProofs` | `FifoRemoved` |
| `JackTypeCorrect` | `JackProofs` | `TypeOK` |
| `ChecksHoldHolds` | `JackProofs` | `ChecksHold` |
| `ReleasedHolds` | `JackProofs` | `Released` |
| `RingLiveHolds` | `JackProofs` | `RingLive`, if `ServerMayDie = FALSE` |
| `AlignedHolds` | `JackProofs` | `Aligned`, if `SilenceFits` |
| `NoStarvationHolds` | `JackProofs` | `NoStarvation`, if `PeriodFits` |
| `HeardHolds` | `SamplesProofs` | `Heard`, if `IntegerFormats` and `SignKept` |
| `MissingSilentHolds` | `SamplesProofs` | `MissingSilent`, if `IntegerFormats` |
| `OnlyAudioAcceptedHolds` | `LinkProofs` | `OnlyAudioAccepted` |
| `PlaysWhatWasCapturedHolds` | `LinkProofs` | `PlaysWhatWasCaptured`, the refinement, if `EncodingsAgree` |

`BackendProofs` has what receptor and emitter share: the types of the tables,
multiples and quotients, and one lemma for the effect of each operation of the
kernel, the socket and the backends (`NewFdEffect`, `CloseFdEffect`,
`CloseEffect`, `OpenEffect`, `ConnectEffect`). `SampleLemmas` has what is true of
the operators of `Samples` in any state. Each of the other modules has one lemma
for each step, one that collects them (`NextStep`, `NextFStep`, `NextJ`, `LinkStep`;
in `SamplesProofs` the invariance theorem does), and the invariance theorem.

### The receptor's data: `IInv`

Few of these are inductive. That a payload's format is the device's follows
at `audio_write` from the cache; when the comparison says "nothing to do", it
follows from what the cache meant when it was filled, a loop earlier. `IInv`
therefore says at each point of the loop what device and cache have to do with
each other (`CacheInv`, `Matches`), that a library handle belongs to an open
device (`HandleInv`), and that device and cache are empty or `Playable`: between
1 and 256 channels of a sample size that is not 0. `Playable` is what connects
`packet_check` (`AcceptedPlayable`: a datagram longer than its header, of exactly
the size of its samples, cannot have samples of size 0) with `TypeOK`, whose
`ret \in Int` needs that `audio_write` divides by no 0 (`WriteType`).

`NeverTruncated` does not hold because of a check of the length: nothing compares
`size` with the buffer. A datagram that was cut leaves 1464 bytes, so 1436 bytes
of payload; 1436 is 4 * 359 with 359 prime, and `NoPayloadOfMaximumSize` shows
that no number of samples, channels and bytes per sample in the header's ranges
multiplies to it. Another `VBAN_DATA_MAX_SIZE` might have a product.

`WholeFrames` needs that the division in the channel map is exact: an accepted
payload is samples * channels * sample size (`AcceptedSize`), so dividing by
channels and multiplying with the map's size leaves whole frames again.

### The receptor's descriptors: `FdInv` and `FifoInv`

`SocketKept` and `NoOrphan` speak of one moment each; that they stay true needs
where each number came from. `FdInv` says that descriptor 1 stays what the
process inherited, that only the stdout backend has its number, that a socket
number which is not 0 is the kernel's socket and not the backend's number, and at
which points of the loop no descriptor of a backend exists at all. The delicate
case is a standard input that is closed: `socket` or `open` may then return 0,
which is "not open" to the code. `FifoInv` says where the FIFO is gone. `OwnInv` says
of `WritesToItsOwn` what must be so in the whole loop as long as the cache is not
empty, since the next packet of the same format is written without an open. All lean
on `IInv` for the types (`FdTypes`) and on the effects of the kernel's calls.

### The emitter: `EInv`

What a packet says and what it holds come from different moments: the header from
before the loop, its count of samples from the last read, the payload from a
device opened earlier still. `EInv` ties them together.

* `HeaderInv`: in the loop the buffer's header is `Prepared(nbs, nu)` of the
  device's format, for some count and counter, and nothing else of it ever
  changes; the size asked from `audio_read` fits both the byte of the header that
  counts samples and a datagram (`MaxPayload`).
* `PayloadInv`: what was read is no more than was asked for. With a map this goes
  down through one rounded division and up through another (`RoundTrip`).
* `OffsetInv` gives `FrameBoundary`: between two packets the device stands on a
  frame boundary. A read that leaves it is a number of bytes that is no multiple
  of the device's frame; its mapped size is then no multiple of the mapped frame,
  as long as the map is not the narrower one (`ExactQuotient`), so that
  `packet_check` refuses the packet (`CheckedWhole`) and the loop ends.
  `NoOverrun` needs the same condition for its quotient (`QuotientBelow`).
* `SequenceInv`: counter and read position go up together, against the packet
  that was sent last.
* `DeviceInv`: a library handle is that of a device in the options' format.
* `FifoInv`: where the FIFO is gone, which `FifoRemoved` needs for the returns of
  `main` that come without a release.

`PreparedValid` and `Announced` follow from what the checks make of a prepared
header (`PreparedHeader`, `PreparedCheck`). The rate is the delicate field:
`packet_check` is what keeps the index of an unknown rate from being sent, and
for a known one `RateIndex` leads back from the index to the rate.

### What `audio_write` returns

`WriteReported` has two halves. That a complete write comes back as the size of
the payload needs that the map's two divisions undo each other (`MappedPayload`:
samples * bytes is a common factor), and holds for every map
(`CompleteReported`). That an error stays one holds with no map or a map of one
channel only: `receptor_map_error` shows what two do.

### The jack backend: `JInv` and three more

What a thread may rely on depends on where the others are. `ThreadInv` says which
places of the three go together, by what the server says of the client: main
opens, frees and forgets only while no callback is under way, the shutdown callback
works on a client that is dead and then closed, and what keeps them apart is that
`jack_client_close` joins JACK's threads. A crash, which ends all three, is the other
case. `ClientInv` says that without a client nothing is open; `SpaceInv` that the
ring buffer keeps its unused byte and belongs to a format of the stream wherever
it is used. `ChecksHold` is part of the invariant itself: what main found free can
only grow until it writes, what the callback found filled only until it reads, for
each is the only one to take from its side.

`LiveInv`, `AlignInv` and `RoomInv` are inductive on top of `JInv`, each under its
hypothesis:

* `RingLive`, if the server does not die: only main closes then, and the ring
  buffer lives from `jack_open` to that close. With a death it is false
  (`jack_shutdown`).
* `Aligned`, if `SilenceFits`: the silence `jack_open` puts in front is whole frames
  for every change of format the audio layer can ask for. `SilenceOfDivisors`
  says when: the number of channels divides the period, and the frame the size of
  the quality. Five channels do not (`jack_five_channels`).
* `NoStarvation`, if `PeriodFits`: a period and a packet fit the smallest ring
  buffer, which is that of a first stream, sized for no channels. A long period
  does not fit (`jack_long_period`).

Sizes are products of periods, channels and bytes rounded up to a power of two
(`RingSize`); that such a power exists below 2^30 is where the bound of the period
is used.

### The bytes: `SamplesInv`

`Heard` and `MissingSilent` speak of the last callback only. That it gave the ports
the right samples depends on every byte between the packet and the port, so
`SamplesInv` says what the ring buffer holds:

* `WholeFrames`: the bytes in it are whole frames of the ports, as many as were
  written and not yet played;
* `Contents`: the byte at each place, counted from `read_ptr` around the end of the
  ring, is the byte of the frame, port and sample the place stands for (`IsByteOf`);
* `OutIs`: what the callback gave the ports are the samples of the frames it took.

`IsByteOf` says nothing of a port whose channel the stream lacks under a map wider
than the stream; everything else is determined. What is in `audio_t.buffer` from
earlier packets and formats is deliberately not part of the invariant: that it
cannot be heard is what `MapByteAt` shows. A place of the mapped payload whose
channel the stream has is copied, and one whose channel it lacks lies, if the map
is no wider than the stream, below the size of the packet and is cleared.

A place is `(frame * ports + port - 1) * size + b - 1`, and all steps are about
such places: a write puts frames behind those that are there (`FramesWritten`), a read takes
a period from the front (`FramesLeft`), and neither disturbs the rest, since a place
is found by its distance from `read_ptr` modulo the ring (`Behind`, `WrittenRing`,
`ReadRing`). The program's ring is a power of two; the proof needs only that it has
a place more than its bytes.

Three facts about the pure code carry the proof, each for inputs of every length:

* `ParsedMap`: the loop over `-c` yields at most 256 channels below 256, and the
  user's own wherever the list has numbers;
* `SamplesRead`: the loop of `jack_process_cb` takes the bytes of the two parts of
  the read vector in their order. Its invariant `CursorInv` has the two cases of the
  code: in the first part `ptr` is the bytes taken, in the second those less the
  first part; the sample that is cut in two leads from one to the other
  (`SplitSample`);
* `Converted`: the shifts of `jack_convert_sample` undo the bytes of a number of 1
  to 4 bytes, its sign included (`AddUp1` to `AddUp4`), and the conversion to float
  keeps a number of up to 24 bits (`KeptBits`) and takes one of 32 to the nearest float
  (`NearestFloat`): no further from it than half a step, with a significand of all
  24 bits where a bit is dropped (`RoundedNear`, `FullSignificand`).

Both loops are recursive functions. That such a function exists and is what the
recursion says (`ParseExists`, `ReadingExists`) and that its invariant holds at every
turn are shown by `Induction`, for the set of the turns at which it holds: a turn
outside would have a least one (`WFMin`). The library's induction over a predicate
is not needed for that.

`IntegerFormats` leaves out the two float formats: 32-bit floats are copied and no
number of the model, 64-bit ones are played as silence. `SignKept` is the build in
which `char` has a sign, or a stream without 24-bit samples: elsewhere a negative
24-bit sample is heard as a positive one.

### The whole: `LInv`

`Link` has the invariants of its parts to stand on: `EmitterKept` and
`ReceptorKept` are `NextStep` of `EmitterProofs` and `ReceptorProofs`, with the
assumptions of the parts derived from `LinkAssumption`. What `LInv` adds is what
the processes have to do with each other: every datagram of the network is either
a captured chunk that the receptor's `packet_check` accepts or a text that it
refuses (`NetworkInv`); the chunk the emitter works on is captured
(`SenderInv`); a text's bytes are no audio, and nothing captured is
(`TextInv`, `CapturedInv`); what the receptor has queued or serves was sent
(`QueueInv`). The emitter's own check is the receptor's, so `SentAccepted` makes a
sent packet acceptable; the protocol bits, which no option of sendtext can clear,
make a text unacceptable (`TextRefused`).

The refinement needs one thing more, `FormatsInv`: what is accepted announces the
format of its chunk. `AnnouncedStep` of the emitter gives it where library and
protocol mean the same by a format (`EncodingsAgree`: no 24-bit samples from ALSA, no
8-bit ones from PulseAudio; those are announced as what they are not). Then
every step maps to one of `Playout` (`SenderPlayout`, `ReceptorPlayout`): steps of
the emitter are `Capture` or stutter, those of sendtext stutter, and after a step
of the receptor its device either rests or, by `FormatAgreement`, plays a captured
chunk in its format.

### Only model-checked

Liveness (`Served`, `Sends`, `Ends`, `Plays`, `ShutdownCloses`): it rests on fairness
and ENABLED, which are out of TLAPS's reach. Every invariant, every action property
and the refinement the passing runs check are proved. The six violated runs show
behaviours and have no theorem.

## 6. Not modelled, and why

* Option parsing other than `-c`: the options are constants of the modules. Two
  of its effects are left out with it: numbers of channels above 256, which
  `packet.c:185` cuts to a byte, and values `atoi` makes of something else. A third is
  left out by `EmitterAssumption`, whose formats are 0 to 7: an unknown `-f` gives 8
  (`stream.c:36`), and the emitter then reads behind the end of the size table.
* The device of `FormatAgreement` and `Playout` is the configuration asked for:
  what the libraries make of it, and whether they resample, is theirs.
* The content of files and FIFOs. A short write of `pipe_write` or `file_write`
  shifts all later audio by part of a frame; `WriteReported` only says that the
  receptor is told.
* Two processes with the pipe backend: both use one name, and the second unlinks
  the FIFO of the first.
* The time a call takes, and ALSA's and PulseAudio's own buffers.
* `jack_read`, which only says that it is not implemented; `logger.c`, help texts,
  the text tables of `stream.c`, `vban_url_receptor`, build files: no state that
  outlives a call.
* The `_WIN32` branches.

Met while modelling, and shown by no run: `src/README.md:93` says of
`vban_emitter -c1,1,1,1` that it opens the source in mono, where the emitter opens
its device with the channels of option `-n` and the map does not change that;
`vban_sendtext`'s default `-f 1`, documented as UTF8, is sent as 0x01, where
`vban.h` has 0x10 for UTF8.

## 7. Plan

What is done is above. What remains:

1. The content of the output of pipe and file as a sequence of frames, with short
   writes; a second process with the same FIFO.
