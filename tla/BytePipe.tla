------------------------------- MODULE BytePipe ------------------------------
(***************************************************************************)
(* What one direction of a serial port promises: bytes come out in the     *)
(* order in which they went in, each at most once, and the only ones that  *)
(* never come out are the newest at a moment when someone discards them.   *)
(* Bytes are numbered as they go in.                                       *)
(***************************************************************************)
EXTENDS Integers, Sequences

VARIABLES
  pipe,    \* the bytes that are in and not yet out, oldest first
  next,    \* the number of the next byte to go in
  last     \* the number of the last byte that came out

Init == pipe = <<>> /\ next = 1 /\ last = 0

\* One or more bytes go in.
Accept ==
  /\ next' > next
  /\ pipe' = pipe \o [i \in 1 .. next' - next |-> next + i - 1]
  /\ UNCHANGED last

\* One or more bytes come out.
Deliver ==
  \E n \in 1 .. Len(pipe) :
    /\ last' = pipe[n]
    /\ pipe' = SubSeq(pipe, n + 1, Len(pipe))
    /\ UNCHANGED next

\* The newest bytes are discarded.
Discard ==
  \E k \in 0 .. Len(pipe) - 1 :
    /\ pipe' = SubSeq(pipe, 1, k)
    /\ UNCHANGED <<next, last>>

Next == Accept \/ Deliver \/ Discard

Spec == Init /\ [][Next]_<<pipe, next, last>>
=============================================================================
