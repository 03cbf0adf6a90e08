------------------------------ MODULE OldPrograms ------------------------------
(***************************************************************************)
(* The programs before the ones that are built: the old chat server and    *)
(* its window, the header with the first version of the connection, the    *)
(* clients with a console, and the experiments in spike/ that they were    *)
(* copied from or to.  A behaviour is a behaviour of one of them, which    *)
(* the initial state chooses, and the variables of the others stay.        *)
(*                                                                         *)
(* A copy differs from the program it shares its module with in what is    *)
(* said at its definitions, and otherwise in formatting only.  Where that  *)
(* is nothing, its steps are steps of the same program here.               *)
(***************************************************************************)
EXTENDS Integers, Sequences

CONSTANTS Clients, None,      \* of the chat servers
          Cameras,            \* their clients with a handler for get_image
          MaxOwning,          \* bound: their shows, stops and requests
          MaxTasks,           \* bound: the tasks that wait for their io thread
          MaxCalls, MaxAsked, \* bounds: the messages of a connection,
          MaxMessages,        \* and all of them
          MaxCommands,        \* bound: the commands of a client's console
          Room                \* bound: the tasks that wait for the window

ASSUME ClientsAssumption == None \notin Clients /\ Cameras \subseteq Clients
ASSUME BoundsAssumption ==
  {MaxOwning, MaxTasks, MaxCalls, MaxAsked, MaxMessages, MaxCommands, Room} \subseteq Nat

VARIABLES
  program,   \* the program that runs
  \* ChatServer
  sock, reads, m_sessions, m_wp, m_stop, requests, asked, tasks, accepting,
  accepted, io, main, window, typed, refused, exited,
  \* ImageShower
  m_ios, stopped, m_is_running, pc, closing, streaming,
  \* OldRpc
  rpc_tasks, m_wq, m_id, m_map, calls, at, cur, called, lost, raced, waiting, unp, net,
  peer, rpc_asked, answers, link, ended,
  \* ConsoleClient
  m_socket, connecting, greeting, reading, client_tasks, client_wq, wire, client_io,
  client_main, commands, early

Chat == INSTANCE ChatServer WITH MaxTyped <- MaxOwning
Shower == INSTANCE ImageShower
Rpc == INSTANCE OldRpc WITH tasks <- rpc_tasks, asked <- rpc_asked

(* The greeting of the audio client is its login, that of the others five  *)
(* requests for sums; the oldest hold work.                                *)
Audio ==
  INSTANCE ConsoleClient WITH
    Work <- FALSE, Hello <- 1, MaxTyped <- MaxCommands, tasks <- client_tasks,
    m_wq <- client_wq, io <- client_io, main <- client_main, typed <- commands
Simple ==
  INSTANCE ConsoleClient WITH
    Work <- FALSE, Hello <- 5, MaxTyped <- MaxCommands, tasks <- client_tasks,
    m_wq <- client_wq, io <- client_io, main <- client_main, typed <- commands
Old ==
  INSTANCE ConsoleClient WITH
    Work <- TRUE, Hello <- 5, MaxTyped <- MaxCommands, tasks <- client_tasks,
    m_wq <- client_wq, io <- client_io, main <- client_main, typed <- commands

chat_vars ==
  <<sock, reads, m_sessions, m_wp, m_stop, requests, asked, tasks, accepting, accepted, io,
    main, window, typed, refused, exited>>
shower_vars == <<m_ios, stopped, m_is_running, pc, closing, streaming>>
rpc_vars ==
  <<rpc_tasks, m_wq, m_id, m_map, calls, at, cur, called, lost, raced, waiting, unp, net,
    peer, rpc_asked, answers, link, ended>>
client_vars ==
  <<m_socket, connecting, greeting, reading, client_tasks, client_wq, wire, client_io,
    client_main, commands, early>>
vars == <<program, chat_vars, shower_vars, rpc_vars, client_vars>>

Servers == {"old-server", "s3"}
ConsoleClients == {"audio-client", "simple-client", "old-client"}

Init ==
  /\ program \in Servers \cup {"window", "asio_msgpack"} \cup ConsoleClients
  /\ Chat!Init /\ Shower!Init /\ Rpc!Init /\ Audio!Init

-----------------------------------------------------------------------------
(* spike/s5.cpp: the old server, with posts to the executor.               *)
S5Session ==
  \/ \E c \in Clients : \/ Chat!ReadFailed(c)
                        \/ Chat!OnImageArrived(c) \/ Chat!OnAnswer(c)
  \/ Chat!RunShow \/ Chat!RunStop \/ Chat!RunRequest
  \/ Chat!RunSessionClose \/ Chat!RunExit

S5Server ==
  \/ \E c \in Clients : Chat!Accept(c)
  \/ Chat!RunAccept \/ Chat!TypeFocus \/ \E op \in Chat!Owning : Chat!TypeOwning(op)
  \/ Chat!RunFocus \/ Chat!RunServerClose \/ Chat!IoEnds

S5Main == Chat!Exit \/ Chat!EndOfInput \/ Chat!Join \/ Chat!Window

(* spike/s3.cpp: the server before it showed videos; it has no window to   *)
(* close when the io thread has been joined.                               *)
S3Session ==
  \/ \E c \in Clients : Chat!ReadFailed(c) \/ Chat!OnAnswer(c)
  \/ Chat!RunRequest \/ Chat!RunSessionClose \/ Chat!RunExit

S3Server ==
  \/ \E c \in Clients : Chat!Accept(c)
  \/ Chat!RunAccept \/ Chat!TypeFocus \/ Chat!TypeOwning("request")
  \/ Chat!RunFocus \/ Chat!RunServerClose \/ Chat!IoEnds

S3Joins == Chat!JoinThen("done")
S3Main == Chat!Exit \/ Chat!EndOfInput \/ S3Joins

ServersNext ==
  \/ program = "old-server" /\ (Chat!Next \/ S5Session \/ S5Server \/ S5Main)
  \/ program = "s3" /\ (S3Session \/ S3Server \/ S3Main)
  \/ program = "s3" /\ \E c \in Clients : Chat!Leave(c)

-----------------------------------------------------------------------------
(* spike/include/api/asio_msgpack.bak.hpp: the header with constraints on  *)
(* its handlers.                                                           *)
BakWriter == Rpc!RunPush \/ Rpc!RunResume
BakReader == Rpc!RunRead
BakParse == Rpc!RunParse \/ Rpc!RunData
BakRequester ==
  \/ \E t \in Rpc!Threads : Rpc!Pack(t) \/ Rpc!Calls(t)
  \/ Rpc!RunWritten \/ Rpc!RunWriteFailed
BakDispatcher == Rpc!RunError

ConnectionsNext ==
  /\ program = "asio_msgpack"
  /\ Rpc!Next \/ BakWriter \/ BakReader \/ BakParse \/ BakRequester \/ BakDispatcher

-----------------------------------------------------------------------------
(* simple-client: the client and its main.                                 *)
SimpleClient == Simple!IoThread \/ Simple!Write
SimpleMain == Simple!Console

(* old-client.                                                             *)
OldClient == Old!IoThread \/ Old!Write
OldMain == Old!Console

(* spike/c5.cpp: old-client.                                               *)
C5Client == Old!IoThread \/ Old!Write
C5Main == Old!Console

(* spike/c3.cpp: without a camera; the loop of its main ends with the      *)
(* input only.                                                             *)
C3Client == Old!IoThread \/ Old!Write
C3Main == Old!Console

ClientsNext ==
  \/ program = "audio-client" /\ Audio!Next
  \/ program = "simple-client" /\ (SimpleClient \/ SimpleMain)
  \/ program = "old-client" /\ (OldClient \/ OldMain)
  \/ program = "old-client" /\ (C5Client \/ C5Main \/ C3Client \/ C3Main)
  \/ program \in ConsoleClients \ {"audio-client"} /\ Old!Network

Next ==
  \/ ServersNext /\ UNCHANGED <<program, shower_vars, rpc_vars, client_vars>>
  \/ /\ program = "window" /\ Shower!Next
     /\ UNCHANGED <<program, chat_vars, rpc_vars, client_vars>>
  \/ ConnectionsNext /\ UNCHANGED <<program, chat_vars, shower_vars, client_vars>>
  \/ ClientsNext /\ UNCHANGED <<program, chat_vars, shower_vars, rpc_vars>>

(* The fairness of each module, while one of its programs runs.            *)
ServerRuns == program \in Servers
WindowRuns == program = "window"
ConnectionRuns == program = "asio_msgpack"

Fairness ==
  /\ WF_chat_vars(ServerRuns /\ Chat!RunTask) /\ WF_chat_vars(ServerRuns /\ Chat!RunAccept)
  /\ WF_chat_vars(ServerRuns /\ Chat!IoEnds)
  /\ WF_chat_vars(program = "old-server" /\ (Chat!Join \/ Chat!WindowEnds))
  /\ WF_chat_vars(program = "s3" /\ S3Joins)
  /\ \A c \in Clients : WF_chat_vars(ServerRuns /\ Chat!ReadFailed(c))
  /\ \A c \in Cameras : WF_chat_vars(ServerRuns /\ m_stop[c] /\ Chat!OnImageArrived(c))
  /\ WF_shower_vars(WindowRuns /\ Shower!Window) /\ WF_shower_vars(WindowRuns /\ Shower!Joined)
  /\ WF_rpc_vars(ConnectionRuns /\ Rpc!IoThread) /\ WF_rpc_vars(ConnectionRuns /\ Rpc!Arrive)
  /\ \A t \in Rpc!Threads : WF_rpc_vars(ConnectionRuns /\ Rpc!Calls(t))
  /\ WF_client_vars(program = "audio-client" /\ Audio!IoThread)
  /\ WF_client_vars(program = "simple-client" /\ Simple!IoThread)
  /\ WF_client_vars(program = "old-client" /\ Old!IoThread)
  /\ WF_client_vars(program \in ConsoleClients /\ Old!Write)
  /\ WF_client_vars(program \in ConsoleClients /\ Old!Join)

Spec == Init /\ [][Next]_vars /\ Fairness

-----------------------------------------------------------------------------
(* The sessions of the servers: the chains of requests do not multiply,    *)
(* and a client that leaves is no danger to the server as long as no other *)
(* one came while it was there (old-server/main.cpp:160-162,178-235).      *)
SessionsKept == Chat!TypeOK /\ Chat!ChainsBounded /\ Chat!LeavingIsSafe

(* The handlers of the connection: each is in one place, it gets its own   *)
(* answer unless two calls overlapped, and the answers are in order        *)
(* (spike/include/api/asio_msgpack.hpp:225-245,341-477).  With it, what    *)
(* the window and the consoles keep: what was typed before the connection  *)
(* is sent first, and a client with work never ends                        *)
(* (old-client/client.hpp:18-60).                                          *)
HandlersKept ==
  /\ Rpc!TypeOK /\ Rpc!OneFate /\ Rpc!ReturnedUnlessRaced /\ Rpc!AnswersInOrder
  /\ Shower!TypeOK /\ Old!TypeOK /\ Old!EarlyFirst
  /\ program = "old-client" => Old!NeverEnds

(* What the modules state of their behaviours: a stopped video of a client *)
(* that answers ends, the server ends after exit unless its window was     *)
(* idle once, which never ends, or a late session stays, a connection that *)
(* ended calls no handler more, and the clients without work end.          *)
OldProgramsEnd ==
  /\ Chat!StopEndsChains /\ Chat!ExitEnds
  /\ Shower!IdleOnceNeverEnds /\ Shower!CloseEndsUnlessIdle
  /\ Rpc!NothingAfterEnd /\ Rpc!AnswerLeadsToCall
  /\ program # "old-client" => Simple!ExitEnds
=============================================================================
