------------------------------- MODULE ImageSink -------------------------------
(***************************************************************************)
(* The window of the server (api::image_sink): the io thread queues the    *)
(* sessions' images, the window thread shows them, the console's thread    *)
(* closes.  The window thread looks at m_is_running only when it found the *)
(* queue empty.  OpenCV refuses to show an empty image, and nothing        *)
(* catches that on the window thread.                                      *)
(***************************************************************************)
EXTENDS Integers, Sequences

CONSTANT Room   \* bound: the images that the queue holds

VARIABLES
  m_queue,       \* the images queued
  m_is_running,
  pc,            \* the window thread: "none", "check" (at its outer loop),
                 \* "take" (at its inner loop), "show", "wait" (in waitKey),
                 \* "ended" or "aborted" (and the program with it)
  image,         \* the image that it took
  closing,       \* the console's thread: "open", "joining" or "joined"
  streaming      \* do images still come?

vars == <<m_queue, m_is_running, pc, image, closing, streaming>>

Images == {"image", "empty"}

TypeOK ==
  /\ m_queue \in Seq(Images) /\ Len(m_queue) <= Room
  /\ m_is_running \in BOOLEAN
  /\ pc \in {"none", "check", "take", "show", "wait", "ended", "aborted"}
  /\ image \in Images
  /\ closing \in {"open", "joining", "joined"}
  /\ streaming \in BOOLEAN
  /\ closing = "joined" => pc = "ended"

Init ==
  /\ m_queue = <<>> /\ m_is_running = FALSE
  /\ pc = "none" /\ image = "image" /\ closing = "open" /\ streaming = TRUE

-----------------------------------------------------------------------------
Open ==
  /\ pc = "none"
  /\ m_is_running' = TRUE
  /\ pc' = "check"
  /\ UNCHANGED <<m_queue, image, closing, streaming>>

(* show, from the io thread, which runs before the window is opened.       *)
Show(m) ==
  /\ streaming /\ pc # "aborted" /\ Len(m_queue) < Room
  /\ m_queue' = Append(m_queue, m)
  /\ UNCHANGED <<m_is_running, pc, image, closing, streaming>>

(* The connections end.                                                    *)
StreamEnds ==
  /\ streaming /\ streaming' = FALSE
  /\ UNCHANGED <<m_queue, m_is_running, pc, image, closing>>

(* Faulty variant of Close: the flag is not cleared.                       *)
CloseOnly ==
  /\ closing = "open" /\ pc \notin {"none", "aborted"}
  /\ closing' = "joining"
  /\ UNCHANGED <<m_queue, m_is_running, pc, image, streaming>>

(* close clears the flag under the mutex and joins the thread.             *)
Close ==
  /\ closing = "open" /\ pc \notin {"none", "aborted"}
  /\ m_is_running' = FALSE
  /\ closing' = "joining"
  /\ UNCHANGED <<m_queue, pc, image, streaming>>

Joined ==
  /\ closing = "joining" /\ pc = "ended"
  /\ closing' = "joined"
  /\ UNCHANGED <<m_queue, m_is_running, pc, image, streaming>>

(* The outer loop; waitKey returns to it.                                  *)
Check ==
  /\ pc \in {"check", "wait"}
  /\ pc' = IF m_is_running THEN "take" ELSE "ended"
  /\ UNCHANGED <<m_queue, m_is_running, image, closing, streaming>>

(* The inner loop, under the mutex.                                        *)
Take ==
  /\ pc = "take"
  /\ IF m_queue = <<>>
       THEN pc' = "wait" /\ UNCHANGED <<m_queue, image>>
       ELSE pc' = "show" /\ image' = Head(m_queue) /\ m_queue' = Tail(m_queue)
  /\ UNCHANGED <<m_is_running, closing, streaming>>

(* imshow, and the inner loop again.                                       *)
Imshow ==
  /\ pc = "show"
  /\ pc' = IF image = "empty" THEN "aborted" ELSE "take"
  /\ UNCHANGED <<m_queue, m_is_running, image, closing, streaming>>

Window == Check \/ Take \/ Imshow

Next ==
  \/ Open \/ StreamEnds \/ Close \/ Joined
  \/ \E m \in Images : Show(m)
  \/ Window

Spec == Init /\ [][Next]_vars

(* The window thread and the joining thread run; nobody has to close.      *)
Fairness == WF_vars(Window) /\ WF_vars(Joined)

FairSpec == Spec /\ Fairness

-----------------------------------------------------------------------------
(* Closing the window ends its thread, but only once the images stop: as   *)
(* long as they come as fast as they are shown, the inner loop never looks *)
(* at m_is_running (image_sink.hpp:41).  And it never ends out of the      *)
(* middle of the queue: the images that wait are shown, also if close      *)
(* clears the flag meanwhile, unless an empty one aborts the program.      *)
CloseEnds ==
  /\ closing = "joining" ~> closing = "joined" \/ pc = "aborted" \/ streaming
  /\ m_queue # <<>> /\ pc \in {"take", "show"} /\ ~streaming
       ~> m_queue = <<>> \/ pc = "aborted"
=============================================================================
