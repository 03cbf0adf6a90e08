----------------------------- MODULE ConsoleClient -----------------------------
(***************************************************************************)
(* A client whose console sends the commands that the user types: the      *)
(* audio client and its older relatives.  The constructor starts to        *)
(* connect, one thread runs the io_service, and the main thread reads the  *)
(* commands.  A command that is typed before the connection is there waits *)
(* in the writer, behind the connect, and is sent before the greeting that *)
(* the connect handler makes (the login, or some test requests).           *)
(*                                                                         *)
(* The writer is seen as a queue of frames (module QueuedWriter); what the *)
(* answers are used for is left out.                                       *)
(***************************************************************************)
EXTENDS Naturals, Sequences

CONSTANTS Work,      \* does the client hold an io_service::work?
          Hello,     \* the number of frames of its greeting
          MaxTyped   \* bound: the commands that the user types

VARIABLES
  m_socket,    \* "connecting", "up", "broken" (refused, or lost) or "closed"
  connecting,  \* does the connect handler wait?
  greeting,    \* the frames that the connect handler, which runs, will send
  reading,     \* does a read wait?
  tasks,       \* the tasks posted: frames for the writer, or Close
  m_wq,        \* the writer's frames
  wire,        \* the frames sent (history)
  io,          \* the io thread: "running" or "ended"
  main,        \* the console: "typing", "joining" or "done"
  typed,       \* the number of commands typed
  early        \* those typed before the connect handler ran (history)

vars == <<m_socket, connecting, greeting, reading, tasks, m_wq, wire, io, main,
          typed, early>>
console == <<main, typed, early>>

Command(n) == [from |-> "user", n |-> n]
Greeting(n) == [from |-> "program", n |-> n]
Close == [from |-> "close", n |-> 0]
Frames == {Command(n) : n \in 1..MaxTyped} \cup {Greeting(n) : n \in 1..Hello}

TypeOK ==
  /\ m_socket \in {"connecting", "up", "broken", "closed"}
  /\ {connecting, reading} \subseteq BOOLEAN /\ greeting \in 0..Hello
  /\ tasks \in Seq(Frames \cup {Close}) /\ {m_wq, wire} \subseteq Seq(Frames)
  /\ io \in {"running", "ended"} /\ main \in {"typing", "joining", "done"}
  /\ typed \in 0..MaxTyped /\ early \in 0..typed
  /\ connecting => ~reading /\ greeting = 0

Init ==
  /\ m_socket = "connecting" /\ connecting = TRUE /\ greeting = 0 /\ reading = FALSE
  /\ tasks = <<>> /\ m_wq = <<>> /\ wire = <<>>
  /\ io = "running" /\ main = "typing" /\ typed = 0 /\ early = 0

-----------------------------------------------------------------------------
(* The main thread: write posts the frame of a command.                    *)
Type ==
  /\ main = "typing" /\ typed < MaxTyped
  /\ typed' = typed + 1
  /\ early' = IF connecting THEN typed' ELSE early
  /\ tasks' = Append(tasks, Command(typed'))
  /\ UNCHANGED <<m_socket, connecting, greeting, reading, m_wq, wire, io, main>>

(* The loop ends, by the command or the end of the input, and close posts. *)
Exit ==
  /\ main = "typing" /\ main' = "joining"
  /\ tasks' = Append(tasks, Close)
  /\ UNCHANGED <<m_socket, connecting, greeting, reading, m_wq, wire, io, typed, early>>

Join ==
  /\ main = "joining" /\ io = "ended"
  /\ main' = "done"
  /\ UNCHANGED <<m_socket, connecting, greeting, reading, tasks, m_wq, wire, io,
                 typed, early>>

Console == Type \/ Exit \/ Join

-----------------------------------------------------------------------------
Idle == io = "running" /\ greeting = 0

(* The oldest task: a frame goes to the writer, or the socket is closed.   *)
RunTask ==
  /\ Idle /\ tasks # <<>>
  /\ tasks' = Tail(tasks)
  /\ IF Head(tasks) = Close THEN m_socket' = "closed" /\ UNCHANGED m_wq
     ELSE m_wq' = Append(m_wq, Head(tasks)) /\ UNCHANGED m_socket
  /\ UNCHANGED <<connecting, greeting, reading, wire, io, console>>

(* The writer's oldest frame: a write queues behind a connect, is done on  *)
(* a connection, and fails otherwise.                                      *)
Write ==
  /\ io = "running" /\ m_wq # <<>> /\ m_socket # "connecting"
  /\ m_wq' = Tail(m_wq)
  /\ wire' = IF m_socket = "up" THEN Append(wire, Head(m_wq)) ELSE wire
  /\ UNCHANGED <<m_socket, connecting, greeting, reading, tasks, io, console>>

(* The connect handler: on_connected, or do_exit.                          *)
Connected ==
  /\ Idle /\ connecting /\ m_socket # "connecting"
  /\ connecting' = FALSE
  /\ IF m_socket = "up"
       THEN greeting' = Hello /\ UNCHANGED m_socket
       ELSE m_socket' = "closed" /\ UNCHANGED greeting
  /\ UNCHANGED <<reading, tasks, m_wq, wire, io, console>>

(* on_connected posts one frame after another, while the user types, and   *)
(* then starts to read.                                                    *)
Greet ==
  /\ io = "running" /\ greeting > 0
  /\ tasks' = Append(tasks, Greeting(Hello + 1 - greeting))
  /\ greeting' = greeting - 1
  /\ reading' = (greeting' = 0)
  /\ UNCHANGED <<m_socket, connecting, m_wq, wire, io, console>>

(* The read fails, and the error handler exits.                            *)
ReadFailed ==
  /\ Idle /\ reading /\ m_socket # "up"
  /\ reading' = FALSE
  /\ m_socket' = "closed"
  /\ UNCHANGED <<connecting, greeting, tasks, m_wq, wire, io, console>>

(* run() returns when nothing is left to do, and no work object says that  *)
(* there is.                                                               *)
IoEnds ==
  /\ Idle /\ ~Work /\ ~connecting /\ ~reading /\ tasks = <<>> /\ m_wq = <<>>
  /\ io' = "ended"
  /\ UNCHANGED <<m_socket, connecting, greeting, reading, tasks, m_wq, wire, console>>

IoThread == RunTask \/ Connected \/ Greet \/ ReadFailed \/ IoEnds

-----------------------------------------------------------------------------
(* The network: the connection is made or refused; it breaks.              *)
Network ==
  /\ \/ m_socket = "connecting" /\ m_socket' \in {"up", "broken"}
     \/ m_socket = "up" /\ m_socket' = "broken"
  /\ UNCHANGED <<connecting, greeting, reading, tasks, m_wq, wire, io, console>>

Next == Console \/ IoThread \/ Write \/ Network

Spec == Init /\ [][Next]_vars

(* The io thread runs what is ready, the socket does the writes, and the   *)
(* join returns.                                                           *)
Fairness == WF_vars(IoThread) /\ WF_vars(Write) /\ WF_vars(Join)

-----------------------------------------------------------------------------
(* What the user typed and what the program sends arrive each in order,    *)
(* and the commands that were typed before the connection was there come   *)
(* before the greeting: the server sees them from a client that has not    *)
(* logged in (audio-client/client.hpp:59-71,87-94).                        *)
EarlyFirst ==
  \A i, j \in 1..Len(wire) :
    i < j => /\ wire[i].from = wire[j].from => wire[i].n < wire[j].n
             /\ wire[j].from = "user" /\ wire[j].n <= early => wire[i].from = "user"

(* The program ends after exit, unless its io_service has work: then it    *)
(* never does (old-client/main.cpp:23,157-158).                            *)
ExitEnds == main = "joining" ~> main = "done"
NeverEnds == main # "done"
=============================================================================
