----------------------------- MODULE MCReceptor -----------------------------
(***************************************************************************)
(* Instances of Receptor for TLC.  The datagrams are those that tell the   *)
(* branches of socket_read and packet_check apart and two formats that     *)
(* differ in one field.                                                    *)
(***************************************************************************)
EXTENDS Receptor

Header(rate, nbs, nbc, fmt, name) ==
  [fourc |-> TRUE, format_SR |-> rate, format_nbs |-> nbs - 1,
   format_nbc |-> nbc - 1, format_bit |-> fmt, streamname |-> name]

(* Stereo 16-bit audio at 48 kHz and at 44.1 kHz. *)
At48000 == [ip |-> "peer", len |-> 28 + 256, hdr |-> Header(3, 64, 2, 1, "stream")]
At44100 == [ip |-> "peer", len |-> 28 + 256, hdr |-> Header(16, 64, 2, 1, "stream")]

(* The same from an address the receptor does not listen to. *)
Foreign == [At48000 EXCEPT !.ip = "other"]

(* A header alone, of a format whose size in the table is 0. *)
HeaderOnly == [ip |-> "peer", len |-> 28, hdr |-> Header(3, 64, 2, 6, "stream")]

(* Longer than main's buffer, with a header of almost as much. *)
Oversized == [ip |-> "peer", len |-> 1500, hdr |-> Header(3, 176, 4, 1, "stream")]

MCDatagrams == {At48000, At44100, Foreign, HeaderOnly, Oversized}

(* For the runs that look for one violation. *)
MCTwoFormats == {At48000, At44100}
=============================================================================
