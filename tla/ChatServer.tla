------------------------------ MODULE ChatServer ------------------------------
(***************************************************************************)
(* The old chat server: it asks a client for one image after another, each *)
(* with a get_image request that the answer to the last one makes.         *)
(*                                                                         *)
(* Its sessions are owned by the set m_sessions, by the handlers of their  *)
(* own requests (a cycle) and by the tasks of show and stop; the handlers  *)
(* of their reads and the tasks of close and do_exit hold raw pointers.    *)
(* All keys of the set are equivalent, so it holds one session; another    *)
(* one that connects meanwhile is destroyed when it has been accepted.     *)
(* A handler that finds its session destroyed does something undefined:    *)
(* here it does nothing, or aborts the program.                            *)
(*                                                                         *)
(* The window that shows the images is module ImageShower: here is what    *)
(* decides how the program ends, whether its io_service has run out of     *)
(* tasks once, and whether it was given an image, which it throws at if it *)
(* is empty.                                                               *)
(***************************************************************************)
EXTENDS Integers, Sequences, FiniteSets

CONSTANTS Clients, None,
          Cameras,   \* the clients that have a handler for get_image
          MaxTyped,  \* bound: the shows, stops and requests that the user types
          MaxTasks   \* bound: the tasks that wait when the user has typed

VARIABLES
  sock,        \* each client's connection: "none", "open", "left" by the client
               \* or "closed"
  reads,       \* the sessions whose read is pending
  m_sessions,  \* the set: the session it holds
  m_wp,        \* the session in focus, a weak pointer
  m_stop,      \* does the session ignore images?
  requests,    \* the get_image requests of each session that wait
  asked,       \* the requests of the user that wait for an answer
  tasks,       \* the tasks posted: [op, c]
  accepting,   \* is the acceptor open?
  accepted,    \* the client whose accept handler has not run, or None
  io,          \* the io thread: "running", "ended", or the program is
               \* "aborted" by a session that is gone or "terminated" by
               \* the window
  main,        \* the console: "typing", "joining" the io thread, "closing"
               \* the window or "done"
  window,      \* the window thread: "fresh", "showing" once it was given an
               \* image, "idle" once it ran out of tasks, "ended"
  typed,       \* those, in their order (history)
  refused,     \* did a client connect while the set was full? (history)
  exited       \* did the user type exit? (history)

session == <<m_stop, requests, asked>>
acceptor == <<accepting, accepted>>
console == <<main, window>>
history == <<typed, refused, exited>>
vars == <<sock, reads, m_sessions, m_wp, session, tasks, acceptor, io, console, history>>

Owning == {"show", "stop", "request"}
Ops == Owning \cup {"close", "exit", "focus", "server close"}

TypeOK ==
  /\ sock \in [Clients -> {"none", "open", "left", "closed"}]
  /\ reads \subseteq {c \in Clients : sock[c] # "none"}
  /\ m_sessions \subseteq Clients /\ m_wp \in Clients \cup {None}
  /\ m_stop \in [Clients -> BOOLEAN] /\ {requests, asked} \subseteq [Clients -> Nat]
  /\ tasks \in Seq([op : Ops, c : Clients \cup {None}])
  /\ {accepting, refused, exited} \subseteq BOOLEAN
  /\ accepted \in Clients \cup {None}
  /\ io \in {"running", "ended", "aborted", "terminated"}
  /\ main \in {"typing", "joining", "closing", "done"}
  /\ window \in {"fresh", "showing", "idle", "ended"}
  /\ typed \in Seq(Owning) /\ Len(typed) <= MaxTyped

Init ==
  /\ sock = [c \in Clients |-> "none"] /\ reads = {}
  /\ m_sessions = {} /\ m_wp = None
  /\ m_stop = [c \in Clients |-> TRUE] /\ requests = [c \in Clients |-> 0]
  /\ asked = [c \in Clients |-> 0]
  /\ tasks = <<>> /\ accepting = TRUE /\ accepted = None
  /\ io = "running" /\ main = "typing" /\ window = "fresh"
  /\ typed = <<>> /\ refused = FALSE /\ exited = FALSE

-----------------------------------------------------------------------------
Task(op, c) == [op |-> op, c |-> c]

(* What shares the ownership of a session.                                 *)
Alive(c) ==
  \/ c \in m_sessions
  \/ requests[c] + asked[c] > 0
  \/ \E i \in 1..Len(tasks) : tasks[i].c = c /\ tasks[i].op \in Owning

Up == io \in {"running", "ended"}

(* A session that is destroyed closes its socket.                          *)
Open(c) == sock[c] = "open" /\ Alive(c)

(* A handler on a destroyed session.                                       *)
Undefined == io' \in {"running", "aborted"}

(* std::set::insert under a comparator that always answers false.          *)
Insert(set, c) == IF set = {} THEN {c} ELSE set

(* std::set::erase under it.                                               *)
Erase(set, c) == {}

-----------------------------------------------------------------------------
(* async_accept completes, and its handler waits for the io thread.        *)
Accept(c) ==
  /\ io = "running" /\ accepting /\ accepted = None /\ sock[c] = "none"
  /\ accepted' = c
  /\ UNCHANGED <<sock, reads, m_sessions, m_wp, session, tasks, accepting, io, console,
                 history>>

(* Faulty variant of RunAccept: the set does not own the session.          *)
RunAcceptUnowned ==
  /\ io = "running" /\ accepted # None /\ accepted' = None
  /\ sock' = [sock EXCEPT ![accepted] = "open"]
  /\ reads' = reads \cup {accepted}
  /\ UNCHANGED <<m_sessions, m_wp, session, tasks, accepting, io, console, history>>

(* do_accept's handler and start: the session goes into the set and reads, *)
(* also when the acceptor was closed meanwhile.                            *)
RunAccept ==
  /\ io = "running" /\ accepted # None /\ accepted' = None
  /\ sock' = [sock EXCEPT ![accepted] = "open"]
  /\ m_sessions' = Insert(m_sessions, accepted)
  /\ refused' = (refused \/ m_sessions # {})
  /\ reads' = reads \cup {accepted}
  /\ UNCHANGED <<m_wp, session, tasks, accepting, io, console, typed, exited>>

(* The client goes.                                                        *)
Leave(c) ==
  /\ sock[c] = "open"
  /\ sock' = [sock EXCEPT ![c] = "left"]
  /\ UNCHANGED <<reads, m_sessions, m_wp, session, tasks, acceptor, io, console, history>>

(* The read of a connection that ended fails: do_exit.                     *)
ReadFailed(c) ==
  /\ io = "running" /\ c \in reads /\ ~Open(c)
  /\ reads' = reads \ {c}
  /\ IF Alive(c)
       THEN /\ tasks' = Append(tasks, Task("exit", c))
            /\ sock' = [sock EXCEPT ![c] = "closed"]
            /\ UNCHANGED io
       ELSE Undefined /\ UNCHANGED <<tasks, sock>>
  /\ UNCHANGED <<m_sessions, m_wp, session, acceptor, console, history>>

(* An answer can come until the connection is closed.                      *)
Answered(c) == io = "running" /\ c \in reads /\ sock[c] \in {"open", "left"}

(* Faulty variant of OnImageArrived: it does not ask m_stop.               *)
OnImageArrivedDeaf(c) ==
  /\ Answered(c) /\ c \in Cameras /\ requests[c] > 0
  /\ window' = IF window = "fresh" THEN "showing" ELSE window
  /\ UNCHANGED <<sock, reads, m_sessions, m_wp, session, tasks, acceptor, io, main,
                 history>>

(* on_image_arrived: the image is posted to the window and the next one    *)
(* requested, unless the video was stopped or the answer is no image.  The *)
(* request is not written if the client has left.                          *)
OnImageArrived(c) ==
  /\ Answered(c) /\ c \in Cameras /\ requests[c] > 0
  /\ LET fewer == [requests EXCEPT ![c] = @ - 1]
     IN  \/ /\ ~m_stop[c] /\ requests' \in {requests, fewer}
            /\ window' = IF window = "fresh" THEN "showing" ELSE window
         \/ requests' = fewer /\ UNCHANGED window
  /\ UNCHANGED <<sock, reads, m_sessions, m_wp, m_stop, asked, tasks, acceptor, io,
                 main, history>>

(* The handler of a request of the user.                                   *)
OnAnswer(c) ==
  /\ Answered(c) /\ asked[c] > 0
  /\ asked' = [asked EXCEPT ![c] = @ - 1]
  /\ UNCHANGED <<sock, reads, m_sessions, m_wp, m_stop, requests, tasks, acceptor, io,
                 console, history>>

-----------------------------------------------------------------------------
(* The console: what a command posts.                                      *)
Type(op, c) ==
  /\ main = "typing" /\ Up /\ Len(tasks) < MaxTasks
  /\ tasks' = Append(tasks, Task(op, c))
  /\ UNCHANGED <<sock, reads, m_sessions, m_wp, session, acceptor, io, window>>

TypeFocus == Type("focus", None) /\ UNCHANGED <<main, history>>

(* ":show", ":stop" and the commands lock the focus on the console's       *)
(* thread.                                                                 *)
TypeOwning(op) ==
  /\ m_wp # None /\ Alive(m_wp)
  /\ Len(typed) < MaxTyped /\ typed' = Append(typed, op)
  /\ Type(op, m_wp)
  /\ UNCHANGED <<main, refused, exited>>

Exit ==
  /\ Type("server close", None)
  /\ main' = "joining" /\ exited' = TRUE
  /\ UNCHANGED <<typed, refused>>

(* The end of the input leaves the loop without a close.                   *)
EndOfInput ==
  /\ main = "typing" /\ Up
  /\ main' = "joining"
  /\ UNCHANGED <<sock, reads, m_sessions, m_wp, session, tasks, acceptor, io, window, history>>

(* t.join, and what comes next.                                            *)
JoinThen(next) ==
  /\ main = "joining" /\ io = "ended"
  /\ main' = next
  /\ UNCHANGED <<sock, reads, m_sessions, m_wp, session, tasks, acceptor, io, window, history>>

(* shower().close() comes next, and joins the window's thread: it ends if  *)
(* its io_service still runs tasks, and never if that was idle once.       *)
Join == JoinThen("closing")

WindowEnds ==
  /\ main = "closing" /\ Up /\ window \in {"fresh", "showing"}
  /\ window' = "ended" /\ main' = "done"
  /\ UNCHANGED <<sock, reads, m_sessions, m_wp, session, tasks, acceptor, io, history>>

(* The window's io_service runs out of tasks; or it is given an empty      *)
(* image, and nobody catches what cv::imshow throws.                       *)
WindowIdles ==
  /\ window \in {"fresh", "showing"} /\ main \in {"typing", "joining"} /\ Up
  /\ window' = "idle"
  /\ UNCHANGED <<sock, reads, m_sessions, m_wp, session, tasks, acceptor, io, main,
                 history>>

WindowThrows ==
  /\ window = "showing" /\ Up
  /\ io' = "terminated"
  /\ UNCHANGED <<sock, reads, m_sessions, m_wp, session, tasks, acceptor, console,
                 history>>

-----------------------------------------------------------------------------
(* The io thread runs the oldest task.                                     *)
Run(op) ==
  /\ io = "running" /\ tasks # <<>> /\ Head(tasks).op = op
  /\ UNCHANGED <<reads, accepted, console, history>>

Oldest == Head(tasks).c

(* A request that is written keeps its handler: always while the client is *)
(* there, perhaps when it has left, and not on a closed socket.            *)
Kept(waiting) ==
  LET more == [waiting EXCEPT ![Oldest] = @ + 1]
  IN  CASE sock[Oldest] = "open"   -> {more}
        [] sock[Oldest] = "left"   -> {more, waiting}
        [] sock[Oldest] = "closed" -> {waiting}

(* show_video's task.                                                      *)
RunShow ==
  /\ Run("show") /\ tasks' = Tail(tasks)
  /\ m_stop' = [m_stop EXCEPT ![Oldest] = FALSE]
  /\ requests' \in Kept(requests)
  /\ UNCHANGED <<sock, m_sessions, m_wp, asked, accepting, io>>

(* write's request, as the writer's task runs it.                          *)
RunRequest ==
  /\ Run("request") /\ tasks' = Tail(tasks)
  /\ asked' \in Kept(asked)
  /\ UNCHANGED <<sock, m_sessions, m_wp, m_stop, requests, accepting, io>>

RunStop ==
  /\ Run("stop") /\ tasks' = Tail(tasks)
  /\ m_stop' = [m_stop EXCEPT ![Oldest] = TRUE]
  /\ UNCHANGED <<sock, m_sessions, m_wp, requests, asked, accepting, io>>

(* set_focus_session(0): the first session of the set, if there is one.    *)
RunFocus ==
  /\ Run("focus") /\ tasks' = Tail(tasks)
  /\ m_wp' = IF m_sessions = {} THEN None ELSE CHOOSE c \in m_sessions : TRUE
  /\ UNCHANGED <<sock, m_sessions, session, acceptor, io, window>>

(* The task of a session's close.                                          *)
RunSessionClose ==
  /\ Run("close") /\ tasks' = Tail(tasks)
  /\ IF Alive(Oldest) THEN sock' = [sock EXCEPT ![Oldest] = "closed"] /\ UNCHANGED io
     ELSE Undefined /\ UNCHANGED sock
  /\ UNCHANGED <<m_sessions, m_wp, session, accepting>>

(* The task of do_exit.                                                    *)
RunExit ==
  /\ Run("exit") /\ tasks' = Tail(tasks)
  /\ IF Alive(Oldest) THEN m_sessions' = Erase(m_sessions, Oldest) /\ UNCHANGED io
     ELSE Undefined /\ UNCHANGED m_sessions
  /\ UNCHANGED <<sock, m_wp, session, accepting>>

(* The task of the server's close: each session of the set posts its own,  *)
(* then the set is cleared, and the acceptor closed.                       *)
RunServerClose ==
  /\ Run("server close")
  /\ tasks' = Tail(tasks) \o
       [i \in 1..Cardinality(m_sessions) |-> Task("close", CHOOSE c \in m_sessions : TRUE)]
  /\ m_sessions' = {}
  /\ accepting' = FALSE
  /\ UNCHANGED <<sock, m_wp, session, io>>

IoEnds ==
  /\ io = "running" /\ ~accepting /\ accepted = None /\ reads = {} /\ tasks = <<>>
  /\ io' = "ended"
  /\ UNCHANGED <<sock, reads, m_sessions, m_wp, session, tasks, acceptor, console, history>>

RunTask ==
  \/ RunShow \/ RunStop \/ RunRequest \/ RunFocus \/ RunSessionClose \/ RunExit \/ RunServerClose

Console ==
  \/ TypeFocus \/ Exit \/ EndOfInput \/ Join
  \/ \E op \in Owning : TypeOwning(op)

Window == WindowIdles \/ WindowThrows \/ WindowEnds

Next ==
  \/ \E c \in Clients : Accept(c) \/ Leave(c) \/ ReadFailed(c) \/ OnImageArrived(c) \/ OnAnswer(c)
  \/ RunAccept \/ RunTask \/ IoEnds \/ Console \/ Window

Spec == Init /\ [][Next]_vars

(* The io thread runs the tasks, the accepts, the reads that failed and    *)
(* the answers; a client that knows get_image answers, and nobody has to   *)
(* come, go or type.                                                       *)
Fairness ==
  /\ WF_vars(RunTask) /\ WF_vars(RunAccept) /\ WF_vars(IoEnds)
  /\ WF_vars(Join) /\ WF_vars(WindowEnds)
  /\ \A c \in Clients : WF_vars(ReadFailed(c))
  /\ \A c \in Cameras : WF_vars(m_stop[c] /\ OnImageArrived(c))

FairSpec == Spec /\ Fairness

-----------------------------------------------------------------------------
(* How often a value is in a sequence.                                     *)
Occurrences(s, v) == Cardinality({i \in 1..Len(s) : s[i] = v})

(* Shows add up to chains of requests: each show starts one, also while    *)
(* one runs, and no chain splits by itself (old-server/main.cpp:178-211).  *)
ChainsBounded ==
  \A c \in Clients :
    requests[c] + Occurrences(tasks, Task("show", c)) <= Occurrences(typed, "show")

(* Stopping the video ends every chain of a client that answers, unless    *)
(* the user shows it again (main.cpp:187-196).  One without a handler for  *)
(* get_image leaves its chain waiting, stopped or not                      *)
(* (spike/include/api/asio_msgpack.hpp:452-455).                           *)
StopEndsChains ==
  \A c \in Cameras :
    m_stop[c] ~> requests[c] = 0 \/ ~m_stop[c] \/ sock[c] # "open" \/ ~Up

(* A client that leaves is no danger: a handler finds its session          *)
(* destroyed only if a client connected while another one was there, or    *)
(* when the server is closed (main.cpp:160-162,226-235,358-366).           *)
LeavingIsSafe == io = "aborted" => refused \/ exited

(* A session that was accepted before the close and started after it is in *)
(* the set that was cleared: nobody closes it.                             *)
LateSession == ~accepting /\ m_sessions # {}

(* The program is over, or waits for ever for a window that was idle once. *)
Over == ~Up \/ main = "done" \/ (main = "closing" /\ window = "idle")

(* Typing exit ends the io thread, and with it the program, unless its     *)
(* window was idle once or a late session stays for ever (main.cpp:        *)
(* 358-382,417-434): also when that one goes in the end.                   *)
ExitEnds == <>exited => <>Over \/ <>[]LateSession
=============================================================================
