------------------------------ MODULE ImageShower ------------------------------
(***************************************************************************)
(* The window of the old servers (image_shower), whose thread runs an      *)
(* io_service of its own in a loop with waitKey.  io_service::run returns  *)
(* when it has nothing to do, and from then on the io_service is stopped:  *)
(* nobody calls reset, so what is posted later is never run, the task that *)
(* ends the loop not either.  An image that is empty makes cv::imshow      *)
(* throw, and nobody on the window thread catches it: the program aborts.  *)
(***************************************************************************)
EXTENDS Integers, Sequences

CONSTANT Room   \* bound: the tasks that wait in the io_service

VARIABLES
  m_ios,         \* the tasks posted: "imshow", "empty" for that of an empty
                 \* image, or "close"
  stopped,       \* is the io_service stopped?
  m_is_running,
  pc,            \* the window thread: "none", "check", "run", "wait", "ended" or
                 \* "aborted"
  closing,       \* the console's thread: "open", "joining" or "joined"
  streaming      \* do images still come?

vars == <<m_ios, stopped, m_is_running, pc, closing, streaming>>

Images == {"imshow", "empty"}

TypeOK ==
  /\ m_ios \in Seq(Images \cup {"close"}) /\ Len(m_ios) <= Room
  /\ {stopped, m_is_running, streaming} \subseteq BOOLEAN
  /\ pc \in {"none", "check", "run", "wait", "ended", "aborted"}
  /\ closing \in {"open", "joining", "joined"}
  /\ closing = "joined" => pc = "ended"

Init ==
  /\ m_ios = <<>> /\ stopped = FALSE /\ m_is_running = FALSE
  /\ pc = "none" /\ closing = "open" /\ streaming = TRUE

-----------------------------------------------------------------------------
Open ==
  /\ pc = "none"
  /\ m_is_running' = TRUE
  /\ pc' = "check"
  /\ UNCHANGED <<m_ios, stopped, closing, streaming>>

Show(m) ==
  /\ streaming /\ pc # "aborted" /\ Len(m_ios) < Room
  /\ m_ios' = Append(m_ios, m)
  /\ UNCHANGED <<stopped, m_is_running, pc, closing, streaming>>

(* The connections end.                                                    *)
StreamEnds ==
  /\ streaming /\ streaming' = FALSE
  /\ UNCHANGED <<m_ios, stopped, m_is_running, pc, closing>>

Close ==
  /\ closing = "open" /\ pc \notin {"none", "aborted"} /\ Len(m_ios) < Room
  /\ m_ios' = Append(m_ios, "close")
  /\ closing' = "joining"
  /\ UNCHANGED <<stopped, m_is_running, pc, streaming>>

Joined ==
  /\ closing = "joining" /\ pc = "ended"
  /\ closing' = "joined"
  /\ UNCHANGED <<m_ios, stopped, m_is_running, pc, streaming>>

(* do_run's loop.                                                          *)
Check ==
  /\ pc \in {"check", "wait"}
  /\ pc' = IF m_is_running THEN "run" ELSE "ended"
  /\ UNCHANGED <<m_ios, stopped, m_is_running, closing, streaming>>

(* run() runs a task: an imshow, or the one that clears the flag.          *)
RunTask ==
  /\ pc = "run" /\ ~stopped /\ m_ios # <<>>
  /\ m_ios' = Tail(m_ios)
  /\ m_is_running' = (m_is_running /\ Head(m_ios) # "close")
  /\ pc' = IF Head(m_ios) = "empty" THEN "aborted" ELSE "run"
  /\ UNCHANGED <<stopped, closing, streaming>>

(* run() returns when there is nothing to do, and at once when stopped.    *)
RunReturns ==
  /\ pc = "run" /\ (stopped \/ m_ios = <<>>)
  /\ stopped' = TRUE
  /\ pc' = "wait"
  /\ UNCHANGED <<m_ios, m_is_running, closing, streaming>>

Window == Check \/ RunTask \/ RunReturns

Next ==
  \/ Open \/ StreamEnds \/ Close \/ Joined
  \/ \E m \in Images : Show(m)
  \/ Window

Spec == Init /\ [][Next]_vars

Fairness == WF_vars(Window) /\ WF_vars(Joined)

FairSpec == Spec /\ Fairness

-----------------------------------------------------------------------------
(* The window thread that found nothing to do once goes round for ever:    *)
(* the close that is posted afterwards, and the program that joins the     *)
(* thread, never end (old-server/main.cpp:42-46).                          *)
IdleOnceNeverEnds == [][ stopped /\ m_is_running => m_is_running' /\ pc' # "ended" ]_vars

(* Closing ends the thread if the io_service was never idle before, the    *)
(* images stop and none was empty.                                         *)
CloseEndsUnlessIdle ==
  closing = "joining" ~>
    closing = "joined" \/ pc = "aborted" \/ streaming \/ (stopped /\ m_is_running)
=============================================================================
