------------------------------ MODULE HintClient ------------------------------
(***************************************************************************)
(* The hint client: from ":start_random_hint" on it posts random names,    *)
(* and again a second later, until ":stop_random_hint".  A chain of posts  *)
(* is a wait on the one timer whose handler posts and waits again.  The    *)
(* console's thread begins chains while the io thread runs their handlers, *)
(* and both work on m_start and on the timer; each operation of theirs on  *)
(* the timer is a step.                                                    *)
(*                                                                         *)
(* The io thread ends when it has nothing to wait for, for good.           *)
(***************************************************************************)
EXTENDS Integers

CONSTANT MaxStarts   \* bound: the starts that the user types

VARIABLES
  sock,     \* the socket: "connecting", "open" or "closed"
  reading,  \* does the dispatcher wait for a message?
  closing,  \* is the task of close() posted and not run?
  m_start,  \* were hints started?
  waits,    \* the waits on the timer that are pending
  fired,    \* handlers that wait to run because the timer expired
  aborted,  \* handlers that wait to run because their wait was cancelled
  io,       \* the io thread: "idle", "cancel" (before expires_after), "wait"
            \* (before async_wait) or "ended"
  main,     \* the console's thread: "typing", "cancel", "wait", "joining", "done"
  starts    \* the number of starts typed

vars == <<sock, reading, closing, m_start, waits, fired, aborted, io, main, starts>>
conn == <<sock, reading, closing>>
timer == <<waits, fired, aborted>>

TypeOK ==
  /\ sock \in {"connecting", "open", "closed"}
  /\ {reading, closing, m_start} \subseteq BOOLEAN
  /\ sock = "open" => reading
  /\ {waits, fired, aborted} \subseteq Nat
  /\ io \in {"idle", "cancel", "wait", "ended"}
  /\ main \in {"typing", "cancel", "wait", "joining", "done"}
  /\ starts \in 0..MaxStarts

Init ==
  /\ sock = "connecting" /\ reading = FALSE /\ closing = FALSE
  /\ m_start = FALSE /\ waits = 0 /\ fired = 0 /\ aborted = 0
  /\ io = "idle" /\ main = "typing" /\ starts = 0

-----------------------------------------------------------------------------
(* do_random_hint_names, after its post (module Requester): expires_after  *)
(* cancels the waits that are pending, not the handlers that have fired.   *)
ExpiresAfter ==
  /\ aborted' = aborted + waits
  /\ waits' = 0
  /\ UNCHANGED fired

AsyncWait ==
  /\ waits' = waits + 1
  /\ UNCHANGED <<fired, aborted>>

-----------------------------------------------------------------------------
(* The console's thread.                                                   *)

(* start_random_hint, and the rest of do_random_hint_names.                *)
Start ==
  /\ main = "typing" /\ starts < MaxStarts
  /\ starts' = starts + 1
  /\ IF m_start THEN UNCHANGED <<m_start, main>>
     ELSE m_start' = TRUE /\ main' = "cancel"
  /\ UNCHANGED <<conn, timer, io>>

StartCancel ==
  /\ main = "cancel" /\ main' = "wait"
  /\ ExpiresAfter
  /\ UNCHANGED <<conn, m_start, io, starts>>

StartWait ==
  /\ main = "wait" /\ main' = "typing"
  /\ AsyncWait
  /\ UNCHANGED <<conn, m_start, io, starts>>

Stop ==
  /\ main = "typing"
  /\ m_start' = FALSE
  /\ UNCHANGED <<conn, timer, io, main, starts>>

(* ":exit" posts the close and joins the io thread.                        *)
Exit ==
  /\ main = "typing"
  /\ main' = "joining"
  /\ closing' = TRUE
  /\ UNCHANGED <<sock, reading, m_start, timer, io, starts>>

Join ==
  /\ main = "joining" /\ io = "ended"
  /\ main' = "done"
  /\ UNCHANGED <<conn, m_start, timer, io, starts>>

-----------------------------------------------------------------------------
(* The io thread.                                                          *)

(* on_connected logs in and reads; without a connection do_exit closes.    *)
Connected ==
  /\ io = "idle" /\ sock = "connecting"
  /\ \/ sock' = "open" /\ reading' = TRUE
     \/ sock' = "closed" /\ UNCHANGED reading
  /\ UNCHANGED <<closing, m_start, timer, io, main, starts>>

(* The task of close().                                                    *)
RunClose ==
  /\ io = "idle" /\ closing
  /\ closing' = FALSE
  /\ sock' = "closed"
  /\ UNCHANGED <<reading, m_start, timer, io, main, starts>>

(* The read fails; do_exit.                                                *)
ReadFailed ==
  /\ io = "idle" /\ reading /\ sock = "closed"
  /\ reading' = FALSE
  /\ UNCHANGED <<sock, closing, m_start, timer, io, main, starts>>

(* Faulty variant of RunFired: the handler goes on after a stop.           *)
RunFiredOn ==
  /\ io = "idle" /\ fired > 0
  /\ fired' = fired - 1
  /\ io' = "cancel"
  /\ UNCHANGED <<conn, m_start, waits, aborted, main, starts>>

(* The handler of a wait that expired looks at m_start, and posts.         *)
RunFired ==
  /\ io = "idle" /\ fired > 0
  /\ fired' = fired - 1
  /\ io' = IF m_start THEN "cancel" ELSE "idle"
  /\ UNCHANGED <<conn, m_start, waits, aborted, main, starts>>

(* Faulty variant of RunAborted: it drops the handlers that have fired.    *)
RunAbortedAll ==
  /\ io = "idle" /\ aborted > 0
  /\ aborted' = 0 /\ fired' = 0
  /\ UNCHANGED <<conn, m_start, waits, io, main, starts>>

RunAborted ==
  /\ io = "idle" /\ aborted > 0
  /\ aborted' = aborted - 1
  /\ UNCHANGED <<conn, m_start, waits, fired, io, main, starts>>

IoCancel ==
  /\ io = "cancel" /\ io' = "wait"
  /\ ExpiresAfter
  /\ UNCHANGED <<conn, m_start, main, starts>>

IoWait ==
  /\ io = "wait" /\ io' = "idle"
  /\ AsyncWait
  /\ UNCHANGED <<conn, m_start, main, starts>>

(* The timer expires: the handlers of all its waits are due.               *)
Expire ==
  /\ io # "ended" /\ waits > 0
  /\ fired' = fired + waits
  /\ waits' = 0
  /\ UNCHANGED <<conn, m_start, aborted, io, main, starts>>

(* io_service.run returns; what is posted afterwards is never run.         *)
IoEnds ==
  /\ io = "idle" /\ sock = "closed" /\ ~reading /\ ~closing
  /\ waits + fired + aborted = 0
  /\ io' = "ended"
  /\ UNCHANGED <<conn, m_start, timer, main, starts>>

IoThread ==
  \/ Connected \/ RunClose \/ ReadFailed \/ RunFired \/ RunAborted
  \/ IoCancel \/ IoWait \/ IoEnds

(* The connection breaks.                                                  *)
Broken ==
  /\ sock = "open" /\ sock' = "closed"
  /\ UNCHANGED <<reading, closing, m_start, timer, io, main, starts>>

Next ==
  \/ Start \/ StartCancel \/ StartWait \/ Stop \/ Exit \/ Join
  \/ IoThread \/ Expire \/ Broken

Spec == Init /\ [][Next]_vars

(* The io thread runs what is due and the timer expires; the console's     *)
(* thread goes on, but nobody has to type anything.  A thread that runs    *)
(* the handlers of a chain also runs the tasks and the completed reads.    *)
Fairness ==
  /\ WF_vars(Connected) /\ SF_vars(RunClose) /\ SF_vars(ReadFailed)
  /\ SF_vars(RunAborted) /\ WF_vars(RunFired) /\ WF_vars(IoCancel) /\ WF_vars(IoWait)
  /\ WF_vars(IoEnds) /\ WF_vars(Expire)
  /\ WF_vars(StartCancel) /\ WF_vars(StartWait) /\ WF_vars(Join)

FairSpec == Spec /\ Fairness

-----------------------------------------------------------------------------
(* However fast the user stops and starts, and whenever the timer expires  *)
(* meanwhile, the chain of hints does not die as long as hints are started *)
(* and the io thread runs, and chains do not pile up on the timer: two can *)
(* only wait together when both threads cancelled before either waited     *)
(* (hint-client/client.hpp:83-90,129-135).                                 *)
ChainAlive ==
  /\ m_start /\ io # "ended" /\ main = "typing"
       => waits + fired > 0 \/ io \in {"cancel", "wait"}
  /\ waits <= 2

(* When the hints were stopped, the program ends: the last wait runs out.  *)
(* A program that is left while hints are started does not end, because    *)
(* close does not stop the chain (client.hpp:56-58).                       *)
ExitEndsIfStopped == main = "joining" /\ ~m_start ~> main = "done"
=============================================================================
