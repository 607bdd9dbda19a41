---------------------------- MODULE Descriptors ----------------------------
(***************************************************************************)
(* The kernel's side of a process's file descriptors, as far as the socket *)
(* and the pipe and file backends use it: a descriptor is a number the     *)
(* code keeps, and keeps after closing it.  External: modelled from        *)
(* POSIX open(2), socket(2) and close(2) as src/src/common calls them.     *)
(***************************************************************************)
EXTENDS Integers

CONSTANT MaxFd              \* bound: the table holds descriptors 0 .. MaxFd
ASSUME MaxFdAssumption == MaxFd \in Nat /\ MaxFd >= 4

VARIABLE fds                \* what each descriptor refers to

STDIN_FILENO  == 0
STDOUT_FILENO == 1

Fd     == 0 .. MaxFd
FdKind == {"free", "std", "socket", "backend"}

Free == {f \in Fd : fds[f] = "free"}

(* What a process is started with: 1 and 2 open, 0 perhaps closed. *)
InheritedFds(stdin) ==
  [f \in Fd |-> IF f = STDIN_FILENO THEN stdin ELSE IF f <= 2 THEN "std" ELSE "free"]

(* A new descriptor f of the given kind, the lowest one free; or -1, the   *)
(* table unchanged, for any reason the kernel may have.                    *)
NewFd(kind, f) ==
  \/ f = -1 /\ UNCHANGED fds
  \/ /\ f \in Free
     /\ \A g \in Free : f <= g
     /\ fds' = [fds EXCEPT ![f] = kind]

(* close(f) returns r.  An error on an open descriptor (EIO, EINTR) still  *)
(* releases it; on any other number it is EBADF.                           *)
CloseFd(f, r) ==
  IF f \in Fd \ Free
  THEN r \in {0, -1} /\ fds' = [fds EXCEPT ![f] = "free"]
  ELSE r = -1 /\ UNCHANGED fds
=============================================================================
