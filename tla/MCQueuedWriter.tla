---------------------------- MODULE MCQueuedWriter ----------------------------
(* Finite instances of QueuedWriter.                                       *)
EXTENDS QueuedWriter

CONSTANTS put_image, login, reply, resume

MCFrames == {put_image, login, reply}

(* An image takes several transfers, a login one, a reply two.             *)
LargeUnits ==
  [f \in MCFrames |-> IF f = put_image THEN 3 ELSE IF f = login THEN 1 ELSE 2]
=============================================================================
