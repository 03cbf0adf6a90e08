-------------------------------- MODULE Server --------------------------------
(***************************************************************************)
(* The server program: the acceptor, the sessions, the session manager     *)
(* with its rooms, and the console.                                        *)
(*                                                                         *)
(* The session manager is a std::map from sessions to rooms.  Its          *)
(* comparator (api::uintptr_compare) returns false for every two keys, so  *)
(* the map takes all sessions for one key.                                 *)
(*                                                                         *)
(* A session lives as long as the map, its pending read, a task or the     *)
(* console holds a pointer to it; a room as long as the map or a task      *)
(* holds it.  Everything else (the rooms by number, a room's clients, the  *)
(* console's focus) is a weak pointer.  The io thread runs the tasks in    *)
(* the order they were posted or became ready.                             *)
(***************************************************************************)
EXTENDS Integers, Sequences, FiniteSets, Functions

CONSTANTS Clients,      \* the clients, and the sessions they get, by address
          Login,        \* Login[c]: the [role, room] that client c logs in as
          Leaves,       \* the clients that may disconnect
          MaxMessages,  \* bound: messages of a client after its login
          Commands,     \* what is typed at the console
          MaxCommands   \* bound: the number of commands before ":exit"

Roles == {"image-client", "audio-client", "hint-client"}
RoomIds == {Login[c].room : c \in Clients}

ASSUME ClientsAssumption == Clients \subseteq Nat \ {0}
ASSUME LoginAssumption ==
  Login \in [Clients -> [role : Roles \cup {"voice-client"}, room : Nat]]
ASSUME BoundsAssumption ==
  MaxMessages \in Nat /\ MaxCommands \in Nat /\ Leaves \subseteq Clients
ASSUME CommandsAssumption == Commands \subseteq {"show", "stop", "focus", "exit"}

VARIABLES
  acceptor,  \* "open" or "closed"
  sock,      \* sock[c]: "away" (not connected yet), "open" or "closed"
  reading,   \* reading[c]: its pending read: "none", "waiting" or "ready"
  count,     \* the messages client c has sent
  m_mgr,     \* the map: sessions to rooms (0 is null)
  heap,      \* the room objects made, [image, audio, hint]; 0 is null
  rooms,     \* rooms[id]: a weak pointer to a room, or 0
  m_stop,    \* m_stop[c]: does session c ignore images?
  m_wp,      \* the session in focus (weak), or 0
  tasks,     \* what the io thread will run, oldest first
  main,      \* the console's thread: [pc, sp]
  commands,  \* the number of commands typed
  logged,    \* the sessions whose login was handled (history)
  names,     \* the names passed on, [from, to]; to is 0 if to nobody (history)
  dangling   \* the sessions a task found destroyed (history)

vars == <<acceptor, sock, reading, count, m_mgr, heap, rooms, m_stop, m_wp,
          tasks, main, commands, logged, names, dangling>>
network == <<acceptor, sock, reading, count>>
memory  == <<m_mgr, heap, rooms>>
console == <<m_wp, main, commands>>
history == <<logged, names, dangling>>

TaskKinds == {"accept", "message", "error", "remove", "start", "stop", "write",
              "close", "socket_close", "focus"}
Task(t, c) == [t |-> t, c |-> c, room |-> 0, image |-> 0]

(* The type invariant.  An accepted session reads until its socket is      *)
(* closed; the weak room numbers and the map refer to rooms that were made.*)
TypeOK ==
  /\ acceptor \in {"open", "closed"}
  /\ sock \in [Clients -> {"away", "open", "closed"}]
  /\ reading \in [Clients -> {"none", "waiting", "ready"}]
  /\ \A c \in Clients : sock[c] = "open" => reading[c] # "none"
  /\ \A c \in Clients : sock[c] # "open" => reading[c] # "waiting"
  /\ count \in [Clients -> 0..(MaxMessages + 1)]
  /\ DOMAIN m_mgr \subseteq Clients
  /\ \A c \in DOMAIN m_mgr : m_mgr[c] \in 0..Len(heap)
  /\ heap \in Seq([Roles -> Clients \cup {0}])
  /\ rooms \in [RoomIds -> 0..Len(heap)]
  /\ m_stop \in [Clients -> BOOLEAN]
  /\ m_wp \in Clients \cup {0}
  /\ tasks \in Seq([t : TaskKinds, c : Clients \cup {0},
                    room : 0..Len(heap), image : Clients \cup {0}])
  /\ main \in [pc : {"idle", "show", "joining", "done"}, sp : Clients \cup {0}]
  /\ commands \in 0..MaxCommands
  /\ logged \subseteq Clients /\ dangling \subseteq Clients
  /\ names \in Seq([from : Clients, to : Clients \cup {0}])

Init ==
  /\ acceptor = "open"
  /\ sock = [c \in Clients |-> "away"]
  /\ reading = [c \in Clients |-> "none"]
  /\ count = [c \in Clients |-> 0]
  /\ m_mgr = <<>> /\ heap = <<>>
  /\ rooms = [id \in RoomIds |-> 0]
  /\ m_stop = [c \in Clients |-> TRUE]
  /\ m_wp = 0
  /\ tasks = <<>>
  /\ main = [pc |-> "idle", sp |-> 0]
  /\ commands = 0
  /\ logged = {} /\ names = <<>> /\ dangling = {}

-----------------------------------------------------------------------------
(* The map.                                                                *)

(* uintptr_compare::helper::operator<                                      *)
Less(a, b) == FALSE

(* The keys that the map takes for key c: none or one.                     *)
Equivalent(map, c) == {k \in DOMAIN map : ~Less(k, c) /\ ~Less(c, k)}

Put(map, k, room) == [i \in DOMAIN map \cup {k} |-> IF i = k THEN room ELSE map[i]]

(* insert                                                                  *)
Insert(map, c) == IF Equivalent(map, c) = {} THEN Put(map, c, 0) ELSE map

(* Faulty variant of Assign: an entry that is there is kept, as by insert. *)
AssignNew(map, c, room) ==
  IF Equivalent(map, c) = {} THEN Put(map, c, room) ELSE map

(* operator[], assigned to and read.                                       *)
Assign(map, c, room) ==
  LET found == Equivalent(map, c)
  IN  Put(map, IF found = {} THEN c ELSE CHOOSE k \in found : TRUE, room)
RoomOf(map, c) ==
  LET found == Equivalent(map, c)
  IN  IF found = {} THEN 0 ELSE map[CHOOSE k \in found : TRUE]

Erase(map, c) == [k \in DOMAIN map \ Equivalent(map, c) |-> map[k]]

-----------------------------------------------------------------------------
(* Who is alive.  A task posted to write or to close a socket holds a raw  *)
(* pointer only.                                                           *)
Holds(task, c) ==
  \/ task.t \in {"remove", "start", "stop"} /\ task.c = c
  \/ task.image = c

(* Faulty variant of Alive: a pending read does not hold its session.      *)
AliveUnread(c) ==
  \/ c \in DOMAIN m_mgr
  \/ \E i \in 1..Len(tasks) : Holds(tasks[i], c)
  \/ main.sp = c

Alive(c) ==
  \/ c \in DOMAIN m_mgr
  \/ reading[c] # "none"
  \/ \E i \in 1..Len(tasks) : Holds(tasks[i], c)
  \/ main.sp = c

(* weak_ptr::lock                                                          *)
Lock(c) == IF c # 0 /\ Alive(c) THEN c ELSE 0

(* Faulty variant of RoomAlive: no weak pointer to a room can be locked.   *)
RoomAliveNever(o) == FALSE

RoomAlive(o) ==
  \/ \E c \in DOMAIN m_mgr : m_mgr[c] = o
  \/ \E i \in 1..Len(tasks) : tasks[i].room = o

-----------------------------------------------------------------------------
(* The clients and the network.                                            *)

Connect(c) ==
  /\ sock[c] = "away" /\ acceptor = "open"
  /\ \A i \in 1..Len(tasks) : tasks[i].t # "accept"   \* one accept at a time
  /\ tasks' = Append(tasks, Task("accept", c))
  /\ UNCHANGED <<network, memory, m_stop, console, history>>

(* The next message of c arrives: its login, then images or hints.         *)
Arrive(c) ==
  /\ reading[c] = "waiting"
  /\ \/ count[c] = 0
     \/ count[c] <= MaxMessages /\ Login[c].role \in {"image-client", "hint-client"}
  /\ count' = [count EXCEPT ![c] = @ + 1]
  /\ reading' = [reading EXCEPT ![c] = "ready"]
  /\ tasks' = Append(tasks, Task("message", c))
  /\ UNCHANGED <<acceptor, sock, memory, m_stop, console, history>>

Leave(c) ==
  /\ c \in Leaves /\ reading[c] = "waiting"
  /\ reading' = [reading EXCEPT ![c] = "ready"]
  /\ sock' = [sock EXCEPT ![c] = "closed"]
  /\ tasks' = Append(tasks, Task("error", c))
  /\ UNCHANGED <<acceptor, count, memory, m_stop, console, history>>

-----------------------------------------------------------------------------
(* The io thread's tasks.                                                  *)

(* The oldest task is a t for session c.                                   *)
Runs(t, c) == tasks # <<>> /\ Head(tasks).t = t /\ Head(tasks).c = c

(* The task is done; ts are the tasks it posted.                           *)
Done(ts) == tasks' = Tail(tasks) \o ts

(* do_accept's handler: make the session and start it.                     *)
RunAccept(c) ==
  /\ Runs("accept", c) /\ Done(<<>>)
  /\ m_mgr' = Insert(m_mgr, c)
  /\ sock' = [sock EXCEPT ![c] = "open"]
  /\ reading' = [reading EXCEPT ![c] = "waiting"]
  /\ UNCHANGED <<acceptor, count, heap, rooms, m_stop, console, history>>

(* The dispatcher reads on before it runs a handler: a read on a closed    *)
(* socket is ready at once.                                                *)
ReadOn(c) ==
  reading' = [reading EXCEPT ![c] = IF sock[c] = "open" THEN "waiting" ELSE "ready"]
Failed(c) == IF sock[c] = "open" THEN <<>> ELSE <<Task("error", c)>>

(* show_video of session c in room o: its task holds the session, the room *)
(* and the room's image client.                                            *)
ShowVideo(c, o, image) ==
  IF o = 0 \/ Lock(image) = 0 THEN <<>>
  ELSE <<[t |-> "start", c |-> c, room |-> o, image |-> image]>>

(* Faulty variant of Place: the client takes every place of the room.      *)
PlaceAll(room, role, c) == [r \in Roles |-> c]

(* The room with client c in the place of its role.                        *)
Place(room, role, c) == [room EXCEPT ![role] = c]

(* session_manager::login: enter the room, a new one unless the number's   *)
(* room is alive.  An unknown role enters none.                            *)
EnterRoom(c) ==
  LET id    == Login[c].room
      role  == Login[c].role
      fresh == rooms[id] = 0 \/ ~RoomAlive(rooms[id])
      o     == IF fresh THEN Len(heap) + 1 ELSE rooms[id]
      empty == [r \in Roles |-> 0]
  IN  \/ /\ role \in Roles
         /\ heap' = IF fresh THEN Append(heap, Place(empty, role, c))
                    ELSE [heap EXCEPT ![o] = Place(@, role, c)]
         /\ m_mgr' = Assign(m_mgr, c, o)
         /\ rooms' = [rooms EXCEPT ![id] = o]
      \/ /\ role \notin Roles
         /\ m_mgr' = Insert(m_mgr, c)     \* by show_video's get_room
         /\ UNCHANGED <<heap, rooms>>

(* on_login: enter the room, then show the video of the session's room.    *)
RunLogin(c) ==
  /\ Runs("message", c) /\ c \notin logged
  /\ ReadOn(c)
  /\ logged' = logged \cup {c}
  /\ EnterRoom(c)
  /\ LET o == RoomOf(m_mgr', c)
     IN  Done(Failed(c) \o ShowVideo(c, o, IF o = 0 THEN 0 ELSE heap'[o]["image-client"]))
  /\ UNCHANGED <<acceptor, sock, count, m_stop, console, names, dangling>>

(* on_image_arrived, on_hint, on_hint_ids, on_hint_names: pass the names   *)
(* (or identifiers) on to the audio client of the session's room.  Images  *)
(* are ignored while the session is stopped.                               *)
RunNames(c) ==
  /\ Runs("message", c) /\ c \in logged
  /\ ReadOn(c)
  /\ IF Login[c].role = "image-client" /\ m_stop[c]
       THEN /\ Done(Failed(c))
            /\ UNCHANGED <<m_mgr, names>>
       ELSE LET o == RoomOf(m_mgr, c)
                a == IF o = 0 THEN 0 ELSE Lock(heap[o]["audio-client"])
            IN  /\ m_mgr' = Insert(m_mgr, c)
                /\ names' = Append(names, [from |-> c, to |-> a])
                /\ Done(Failed(c) \o (IF a = 0 THEN <<>> ELSE <<Task("write", a)>>))
  /\ UNCHANGED <<acceptor, sock, count, heap, rooms, m_stop, console, logged,
                 dangling>>

(* The read failed: do_exit closes the socket and posts the removal.       *)
RunError(c) ==
  /\ Runs("error", c) /\ Done(<<Task("remove", c)>>)
  /\ sock' = [sock EXCEPT ![c] = "closed"]
  /\ reading' = [reading EXCEPT ![c] = "none"]
  /\ UNCHANGED <<acceptor, count, memory, m_stop, console, history>>

(* Faulty variant of RunRemove: nothing is removed.                        *)
RunRemoveNothing(c) ==
  /\ Runs("remove", c) /\ Done(<<>>)
  /\ UNCHANGED <<network, memory, m_stop, console, history>>

RunRemove(c) ==
  /\ Runs("remove", c) /\ Done(<<>>)
  /\ m_mgr' = Erase(m_mgr, c)
  /\ UNCHANGED <<network, heap, rooms, m_stop, console, history>>

RunStart(c) ==
  /\ Runs("start", c) /\ Done(<<Task("write", Head(tasks).image)>>)
  /\ m_stop' = [m_stop EXCEPT ![c] = FALSE]
  /\ UNCHANGED <<network, memory, console, history>>

RunStop(c) ==
  /\ Runs("stop", c) /\ Done(<<Task("write", c)>>)
  /\ m_stop' = [m_stop EXCEPT ![c] = TRUE]
  /\ UNCHANGED <<network, memory, console, history>>

(* The queued writer's task uses the session it belongs to.                *)
RunWrite(c) ==
  /\ Runs("write", c) /\ Done(<<>>)
  /\ dangling' = IF Alive(c) THEN dangling ELSE dangling \cup {c}
  /\ UNCHANGED <<network, memory, m_stop, console, logged, names>>

(* server::close: close the sessions of the map, and stop accepting.       *)
RunClose ==
  /\ Runs("close", 0)
  /\ \E order \in Bijection(1..Cardinality(DOMAIN m_mgr), DOMAIN m_mgr) :
       Done([i \in DOMAIN order |-> Task("socket_close", order[i])])
  /\ m_mgr' = <<>>
  /\ acceptor' = "closed"
  /\ UNCHANGED <<sock, reading, count, heap, rooms, m_stop, console, history>>

(* Faulty variant of RunSocketClose: the waiting read goes on.             *)
RunSocketCloseOnly(c) ==
  /\ Runs("socket_close", c) /\ Done(<<>>)
  /\ sock' = [sock EXCEPT ![c] = "closed"]
  /\ UNCHANGED <<acceptor, reading, count, memory, m_stop, console, history>>

(* session::close: a waiting read fails.                                   *)
RunSocketClose(c) ==
  /\ Runs("socket_close", c)
  /\ IF Alive(c)
       THEN /\ sock' = [sock EXCEPT ![c] = "closed"]
            /\ reading' = [reading EXCEPT ![c] = IF @ = "waiting" THEN "ready" ELSE @]
            /\ Done(IF reading[c] = "waiting" THEN <<Task("error", c)>> ELSE <<>>)
            /\ UNCHANGED dangling
       ELSE /\ dangling' = dangling \cup {c}
            /\ Done(<<>>)
            /\ UNCHANGED <<sock, reading>>
  /\ UNCHANGED <<acceptor, count, memory, m_stop, console, logged, names>>

(* set_focus_session(p): 0 takes the first session of the map and posts    *)
(* itself with its address.                                                *)
RunFocus(p) ==
  /\ Runs("focus", p)
  /\ IF p = 0
       THEN LET c == IF DOMAIN m_mgr = {} THEN 0 ELSE CHOOSE k \in DOMAIN m_mgr : TRUE
            IN  /\ m_wp' = c
                /\ Done(IF c = 0 THEN <<>> ELSE <<Task("focus", c)>>)
       ELSE /\ m_wp' = IF p \in Equivalent(m_mgr, p) THEN p ELSE m_wp
            /\ Done(<<>>)
  /\ UNCHANGED <<network, memory, m_stop, main, commands, history>>

IoThread ==
  \/ \E c \in Clients :
       \/ RunAccept(c) \/ RunLogin(c) \/ RunNames(c) \/ RunError(c)
       \/ RunRemove(c) \/ RunStart(c) \/ RunStop(c) \/ RunWrite(c)
       \/ RunSocketClose(c)
  \/ RunClose
  \/ \E p \in Clients \cup {0} : RunFocus(p)

-----------------------------------------------------------------------------
(* The console's thread.                                                   *)
Types(command) ==
  /\ main.pc = "idle" /\ commands < MaxCommands
  /\ command \in Commands
  /\ commands' = commands + 1

(* ":set cid default" and ":set cid <address>"                             *)
TypeFocus(p) ==
  /\ Types("focus")
  /\ tasks' = Append(tasks, Task("focus", p))
  /\ UNCHANGED <<network, memory, m_stop, m_wp, main, history>>

TypeStop ==
  /\ Types("stop") /\ Lock(m_wp) # 0
  /\ tasks' = Append(tasks, Task("stop", m_wp))
  /\ UNCHANGED <<network, memory, m_stop, m_wp, main, history>>

(* ":show" locks the focus and then looks for its room, on this thread.    *)
TypeShow ==
  /\ Types("show") /\ Lock(m_wp) # 0
  /\ main' = [pc |-> "show", sp |-> m_wp]
  /\ UNCHANGED <<network, memory, m_stop, m_wp, tasks, history>>

Show ==
  /\ main.pc = "show"
  /\ LET o == RoomOf(m_mgr, main.sp)
     IN  tasks' = tasks \o
           ShowVideo(main.sp, o, IF o = 0 THEN 0 ELSE heap[o]["image-client"])
  /\ m_mgr' = Insert(m_mgr, main.sp)
  /\ main' = [pc |-> "idle", sp |-> 0]
  /\ UNCHANGED <<network, heap, rooms, m_stop, m_wp, commands, history>>

(* ":exit": the main thread closes the server and waits for the io thread, *)
(* which ends when it has nothing to run and nothing to wait for.          *)
TypeExit ==
  /\ main.pc = "idle" /\ "exit" \in Commands
  /\ main' = [main EXCEPT !.pc = "joining"]
  /\ tasks' = Append(tasks, Task("close", 0))
  /\ UNCHANGED <<network, memory, m_stop, m_wp, commands, history>>

Join ==
  /\ main.pc = "joining"
  /\ tasks = <<>> /\ acceptor = "closed"
  /\ \A c \in Clients : reading[c] = "none"
  /\ main' = [main EXCEPT !.pc = "done"]
  /\ UNCHANGED <<network, memory, m_stop, m_wp, tasks, commands, history>>

Next ==
  \/ \E c \in Clients : Connect(c) \/ Arrive(c) \/ Leave(c)
  \/ IoThread
  \/ \E p \in Clients \cup {0} : TypeFocus(p)
  \/ TypeStop \/ TypeShow \/ Show \/ TypeExit \/ Join

Spec == Init /\ [][Next]_vars

(* The io thread runs its tasks and the console's thread its commands.     *)
FairSpec == Spec /\ WF_vars(IoThread) /\ WF_vars(Show) /\ WF_vars(Join)

-----------------------------------------------------------------------------
(* Names go to a session that logged in as an audio client, even when the  *)
(* room is looked up under another session's entry.                        *)
NamesGoToAudio ==
  \A i \in 1..Len(names) :
    names[i].to # 0 => /\ names[i].to \in logged
                       /\ Login[names[i].to].role = "audio-client"

(* A task that holds a raw pointer to its session finds it alive as long   *)
(* as the session's connection has not ended.                              *)
DanglingOnlyAfterEnd ==
  \A c \in dangling : sock[c] = "closed" /\ reading[c] = "none"

(* After an image was processed, the names in it go to the voice client of *)
(* the room (README.org:129) if it is connected and logged in, until the   *)
(* server is closed.                                                       *)
Listening(c) ==
  {a \in logged : /\ Login[a].role = "audio-client"
                  /\ Login[a].room = Login[c].room
                  /\ sock[a] = "open"}
NamesReachAudio ==
  [][LET n == names'[Len(names')]
     IN  Len(names') > Len(names) /\ Login[n.from].role = "image-client"
           /\ Listening(n.from) # {} /\ acceptor = "open"
             => n.to \in Listening(n.from)]_vars

(* An image client that logged in is shown: its images are processed, as   *)
(* long as nobody stops it.                                                *)
LoginShows ==
  \A c \in Clients :
    c \in logged /\ Login[c].role = "image-client" ~> ~m_stop[c]

(* A session whose connection has ended is destroyed in the end.           *)
EndedDestroyed ==
  \A c \in Clients : sock[c] = "closed" ~> ~Alive(c)

(* Closing the server (main.cpp:69) ends the program: it closes the        *)
(* sessions that there are, when every client was accepted before.         *)
ShutdownEnds ==
  main.pc = "joining" /\ acceptor = "open" /\ (\A c \in Clients : sock[c] = "open")
    ~> main.pc = "done"
=============================================================================
