----------------------------- MODULE FrameStream -----------------------------
(***************************************************************************)
(* What the repository's README promises of the Queued Writer, on its own: *)
(* it buffers the objects to be written and sends them, in order, to the   *)
(* Writer.  A frame is one packed msgpack object; the stream carries the   *)
(* accepted frames whole and in the order they were accepted.  The stream  *)
(* may stop at any point (the connection can fail), it never skips.        *)
(***************************************************************************)
EXTENDS Naturals, Sequences

CONSTANT Frames

VARIABLES submitted,   \* the frames handed to async_write, in order
          delivered    \* the frames the stream carries, in order

vars == <<submitted, delivered>>

Init ==
  /\ submitted = <<>>
  /\ delivered = <<>>

Submit(f) ==
  /\ submitted' = Append(submitted, f)
  /\ UNCHANGED delivered

Deliver ==
  /\ Len(delivered) < Len(submitted)
  /\ delivered' = Append(delivered, submitted[Len(delivered) + 1])
  /\ UNCHANGED submitted

Next == Deliver \/ \E f \in Frames : Submit(f)

Spec == Init /\ [][Next]_vars
=============================================================================
