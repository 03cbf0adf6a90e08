# A verification development for spie-glasses

spie-glasses is a small distributed system: glasses (or a camera) send images to
a server, the server recognises the faces in them and sends the names to the
person who listens. Four C++ programs (server, image client, audio client, hint
client) and an Android application talk over TCP in msgpack messages. What they
share is one library of headers under `src/include/api`, a
`message_io_object` in each end of a connection: a writer, a reader, a
dispatcher, a requester and a responser, all callbacks on boost::asio.

This directory holds TLA+ modules for that library, for every program that is
built, for the Android application and for the older programs that share code
with them, TLC configurations that check the modules on small instances, and
theorems about them that TLAPS checks. Paths start at `src/`, the repository's
root; a file named alone is in `src/include/api` or in its program's directory
`src/src/<program>`, and `main.cpp` is the server's.

Contents: [the system](#the-system), [the modules](#the-modules),
[the runs](#the-runs), [bounds](#bounds), [fairness](#fairness),
[proofs](#proofs), [disagreements found](#disagreements-found),
[not modelled](#what-is-not-modelled), [plan](#plan), [how to run](#how-to-run).

## The system

`CMakeLists.txt` builds the library `api` and the executables `server`,
`image-client`, `audio-client` and `hint-client`. The directories `old-*`,
`simple-*`, `hotfix-*`, `spike` and the `*.bak` files are earlier versions and
are not built; what of them is modelled is under
[the older programs](#the-older-programs).

### Threads

Every program has two threads. The io thread runs `io_service.run()`: every
completion and posted task, one after the other. The main thread reads the
console and calls into the same objects. Most of what it does is posted to the
io thread; some is not (the requester's identifier, `get_room` in `:show`,
locking the focus), and that is where the two interleave. The server has a third
thread for its image window.

### Components

| Component | State | Operations | Interacts with |
| --- | --- | --- | --- |
| Queued writer (`queued_writer.hpp`, `basic_msgpack_writer.hpp`) | deque `m_wq`, the composed writes in progress | `async_write` from any thread, `do_write` | requester and responser call it; it calls their write handlers |
| Requester (`requester.hpp`) | next identifier `m_id`, handlers `m_map` | `request`, `request_raw`, `post`, `post_raw`, `handle_response`, `close` | console and handlers call it; the dispatcher passes it responses, and the peer's raw posts as responses, and closes it |
| Reader and dispatcher (`asio_msgpack.hpp`, `basic_msgpack_reader.hpp`, `dispatcher.hpp`) | unpacker's buffer, the pending read, the error handler | `async_dispatch`, `do_dispatch`, `do_close` | calls responser, requester and the error handler of the session or client |
| Responser (`responser.hpp`) | the handlers by command | `handle_request`, `handle_post` | answers through the queued writer |
| Session manager and rooms (`session_manager.hpp`, `pointer_compare.hpp`) | map from sessions to rooms, weak rooms by number | `start`, `login`, `get_room`, `remove` | sessions and the server's console |
| Session (`session.hpp`) | `m_stop`, its message io object | `start`, `close`, `show_video`, `stop_video`, `on_login`, `on_image_arrived`, `on_hint*`, `do_exit` | the room's other sessions, through weak pointers |
| Server and console (`server.hpp`, `server/main.cpp`) | acceptor, focus `m_wp` | `do_accept`, `set_focus_session`, `write`, `close`, `:exit` | session manager, the session in focus |
| Image client (`image-client/client.hpp`) | `m_start`, its pumps | `on_image_start`, `on_image_stop`, `do_put_image`, `close`, `do_exit` | the server's session for it |
| Hint client (`hint-client/client.hpp`) | the one timer, `m_start` | `start_random_hint` and `stop_random_hint` from the console's thread, the timer's handler on the io thread | the server's session for it |
| Audio client (`audio-client/client.hpp`) | its message io object | logs in, prints what it is sent, sends what is typed | the server's session for it |
| Image sink (`image_sink.hpp`) | queue of images, `m_is_running`, a mutex, the window thread | `open`, `show`, `close` | the io thread fills it, the window thread empties it, the console's thread closes it |
| Command parser (`parser.hpp`) | the argument being read, three flags, the arguments read | a state machine that goes through a console line character by character | every console |
| Face matching (`Detect.cpp`) | database of faces; candidates and distances of one image | `detect_user` names each face by the nearest person | `on_image_arrived` |
| Image codec (`compressed_mat.hpp`, `cv_msgpack.hpp`) | none | pack and convert of a `cv::Mat` | every `put_image` and `get_image` |
| Android client (`MainActivity.java`, `TcpClient.java`) | the text field, `voiceOn`, the client and its socket | a click's thread, the connecting and reading task, the user-interface thread, the voice thread | the server's session for it |

### What is hard, and what makes each part correct

The lines are in `PROJECT.json` under `hazards`. In short:

* **Queued writer.** Frames come from several callers, a frame may take several
  transfers, a transfer may have to wait for the socket or fail half-way.
  Correct: each handler called once, success only for a whole frame, frames
  whole and in order on the stream.
* **Requester.** Two threads use `m_id`; a response, a failed write and a close
  compete for the same handler; a raw post of the peer passes for a response.
  Correct: a handler is called at most once, with the answer to its own request,
  and no handler is lost without a cause.
* **Dispatcher.** The reader is re-armed before the message in hand is looked
  at, with more messages perhaps already in the unpacker; an invalid message
  closes the socket while reading goes on. Correct: each message dispatched
  once and in order, requests answered in order, one end.
* **Server.** Sessions live by shared, weak and raw pointers in tasks that run
  later; the map's comparator makes all sessions one key. Correct: names reach
  the listeners of the same room and nobody else, sessions that ended are
  destroyed, no task uses a destroyed session, the program ends when told to.
* **Image client.** Starts and stops, of its own session, of others and of the
  console, race the images on their way; errors come from every pump at once; the
  camera may fail. Correct: pumps do not multiply, a started video is seen, no
  image of a stopped client is processed without a cause, the program ends.
* **Hint client.** Two threads re-arm one timer, whose handler may have fired and
  wait when it is cancelled. Correct: as long as hints are started they go on,
  chains do not multiply, the program ends.
* **Image sink.** Three threads, a flag read without its mutex, an inner loop that
  never looks at it. Correct: `close` ends the window thread.
* **Android client.** Four threads share a text and a flag without a lock; the
  login is sent when the connection perhaps is not there. Correct: a pass speaks
  all names of the text it read, an update is spoken, a click logs in.
* **Data.** A command may be quoted, escaped and continued over lines; an image may
  be packed with elements missing; the faces of an image share the candidates.
  Correct: a command has the words its text means, an image that was cut is never
  shown for another, a face gets a name it deserves.

## The modules

| Module | Models | Extended or instantiated by |
| --- | --- | --- |
| `FrameStream` | abstract: what `README.org:111` promises of the queued writer | `QueuedWriter` |
| `QueuedWriter` | queued writer, composed writes, socket | `MCQueuedWriter`, `MCTransport`, `QueuedWriter_proofs` |
| `RequestFates` | abstract: what `README.org:119` promises of a request, with the failures that are left to it | `Requester` |
| `Requester` | requester of one end, with writer, peer and connection as its environment | `MCRequester`, `MCTransport`, `Requester_proofs` |
| `Dispatcher` | reader, dispatcher, responser of one end | `MCTransport`, `Dispatcher_proofs` |
| `Server` | acceptor, sessions, session manager, rooms, console | `MCServer`, `Server_proofs` |
| `ImageClient` | the image client against the server's session for it | `MCPrograms`, `ImageClient_proofs` |
| `HintClient` | the hint client's timer and its two threads | `MCPrograms`, `Programs_proofs` |
| `VoiceClient` | the Android application's threads and its connection | `MCPrograms`, `Programs_proofs` |
| `ImageSink` | the server's window thread and its queue | `MCPrograms` |
| `CommandParser` | the parser and the console loop around it | `OldParsers` |
| `MatCodec` | packing, unpacking and converting an image | `MCCodecs`, `Codecs_proofs` |
| `FaceMatching` | naming the faces of one image | `MCCodecs`, `Codecs_proofs` |
| `ChatServer` | the old server: sessions that request one image after another | `OldPrograms` |
| `ImageShower` | the old server's window | `OldPrograms` |
| `OldRpc` | the first version of the connection: writer, reader, requester, dispatcher | `OldPrograms` |
| `ConsoleClient` | the audio client, and the older clients with a console | `OldPrograms` |
| `OldParsers`, `OldPrograms` | the copies of the above in other files | `MCCodecs`; a run of its own and `OldPrograms_proofs` |

**Several programs in one run.** `MCTransport`, `MCPrograms`, `MCCodecs` and
`OldPrograms` are disjoint unions: an additional variable (`part`, `program`,
`subject`) is chosen by the initial state, one program takes its steps and the
variables of the others stay as they are. A union has the behaviours of its
programs and no others; the fairness conditions of each program are guarded by
the choice, and a property of one program is stated of that program's variables,
which in the behaviours of the others keep their initial values.

In each module an operator has the name of the function it stands for
(`DoWrite`, `HandleRequest`, `ShowVideo`) or of the task it runs (`RunPosted`,
`RunRemove`); variables with the prefix `m_` are the members of that name.
Variables marked *history* in the modules are not in the code. A definition
marked "Faulty variant of X" is no part of the specification: it is X with a
plausible bug, and shows that a property would catch it.

**QueuedWriter.** `async_write` posts a task; the task pushes the frame and
starts `do_write` if the deque was empty; `do_write` starts
`boost::asio::async_write` and pops the frame *without waiting for it*. The
composed write moves a frame in units of one `async_write_some`, each of which
may be done at once, have to wait (`sockq`) or fail. Several composed writes can
therefore be under way. Posted tasks and completions are each run in order; how
the two interleave is left open.

**Requester.** A call is the three accesses to `m_id` that it makes: pack the
identifier, capture it for the write handler, increment it (load and store). Any
other thread may run in between. Then the write's completion registers the
handler (`RunWritten`) or drops it (`RunWriteFailed`, which for the raw variants
also closes), a response calls it (`RunResponse`), an error calls all that wait
(`Close`). The writer is the ordered stream of frames of `QueuedWriter`'s small
case; the peer answers in order or, for an unknown command, never. `ready` is
the FIFO of completions: a response cannot overtake the completion of its
request's write, because that was queued first. `post_raw` packs the message type
of a response (`requester.hpp:117`), so that a raw post of the peer, which the hint
client makes for each hint, arrives as one (`dispatcher.hpp:73`) under the number
the *peer's* `m_id` has reached (`PeerPosts`). If a handler waits under that
number, it is called with the post.

**Dispatcher.** `Receive` appends one or more whole messages to the unpacker;
`RunRead` is the reader's task: it dispatches the next message or, when there is
none, waits. Messages are of the kinds that the dispatcher and the responser
tell apart. After a malformed message the socket is closed (`DoClose`), but
reading goes on until the read fails, as in the code (`dispatcher.hpp:48`, `:59`).
This end's own requests are there for their handlers: one is registered when its
frame's write handler runs (`RunWritten`), which may be after the dispatcher
stopped reading (`late`), or is dropped, and with `request_raw` all that wait are
called (`RunWriteFailed`).

**Server.** `tasks` is the queue of the io_service; a task carries the shared
pointers it captured, and `Alive` and `RoomAlive` compute from the map, the
pending reads, the tasks and the console who still exists. The map is modelled
by what `uintptr_compare` makes of it: `Less` is the comparison the code
performs, which is false for every two keys because the first `return` compares
nothing (`pointer_compare.hpp:58`); `Equivalent`, `Insert`, `Assign`, `RoomOf`
and `Erase` are the operations of `std::map` for an arbitrary `Less`. The
console's thread interleaves with the io thread between locking the focus and
looking up its room (`TypeShow`, `Show`).

**ImageClient.** A pump has one image in the writer and posts the next when that one
is written: an empty image if the client was stopped, or if it was started but its
camera is closed or a read fails (`PutImage`). The server's side is `m_stop` of the
client's own session, and the orders. `ShowVideo(own, here)` is the task that any
session's login or the console's `:show` posts: it clears `m_stop` of the session that
runs it (`own`), and starts the image client of that session's room, which may be this
one (`here`) or one that logged in later. `StopVideo` is the own session's.
`RequestOrder` is a start or a stop that is typed at the server's console and reaches
the client as a request, past `m_stop`.

**HintClient.** `do_random_hint_names` is two operations on the timer,
`expires_after`, which cancels the waits that are pending, and `async_wait`. The
console's thread runs them in `start_random_hint` and the io thread in the
handler; each is a step, so the two threads interleave between them. A handler
that has fired is no longer pending and is not cancelled (`fired`, `aborted`).
The io thread ends when it has nothing to wait for.

**VoiceClient.** Each click starts a thread of its own, which executes a `ConnectTask`
and then logs in with whatever client there is; Android runs the tasks one after the
other. A line of names reaches the user-interface thread when its newline comes, or as
far as it came when the stream ends; the next task's client has a reader of its own
and begins with no line. The user-interface thread sets the text and then `voiceOn`,
two steps; the voice thread reads the text, compares it with the names, one step each,
clears `voiceOn` at the end of the pass and pauses. That `voiceOn` is set for every
line, also an unchanged one, is a comparison of an `Editable` with a `String` that
never holds.

**ImageSink.** The outer loop looks at `m_is_running`, the inner one at the queue
only. An empty image makes `cv::imshow` throw, which ends the program
(`aborted`).

**CommandParser.** Characters are of five kinds. The parser's state is the
source's four members; a newline ends the line, and the console passes the
command on if it is complete. `Words` is the reference: which characters are
escaped, inside of quotes, separators or literals, by their positions and with no
state. `HintPosts` is the hint console's own condition, which looks at the line.

**MatCodec.** `Lacks` says how many of the five announced elements each branch of
pack may leave out, for an image of the camera and for an empty one. `stack` is
the unpacker's open arrays: a cut image takes the messages behind it for its
missing elements, and a cut image among them nests.

**FaceMatching.** `Chosen` is the search for the nearest candidate as it is
written, from person 0 on; `candidate` and `distance` live as long as the image.

### The older programs

They are not built, but most of their code is still in the repository twice or
more, under `old-*`, `simple-client` and `spike`, and parts of it survive in the
programs that are built.

**ChatServer** is `old-server/main.cpp`. The set that owns sessions compares all keys
as equal, so a second client that connects while one is there is not owned by it
(`refused`); the answer to a request for an image makes the next request; tasks of
`close` and `do_exit` hold raw pointers. A handler that finds its session destroyed
is undefined behaviour; the module lets it do nothing or abort the program
(`Undefined`). An accept that has completed waits for the io thread (`Accept`,
`RunAccept`), also behind the task that closes the acceptor, and its session is then
one that nobody closes. Only the clients in `Cameras` have a handler for `get_image`;
to the others (`c3.cpp`) a request stays unanswered. `main` joins the io thread
(`Join`) and then the window's (`WindowEnds`); of the window the module has what
decides these two: whether its io_service ran out of tasks once (`WindowIdles`), and
whether it threw at an empty image (`WindowThrows`).

**ImageShower** is that window in detail, an io_service run in a loop that is never
reset.

**OldRpc** is `spike/include/api/asio_msgpack.hpp`, the connection in one header. A call
of `request` or `request_raw` is the accesses to `m_id` that it makes, as in `Requester`,
by the io thread from its handlers or by the console's thread; `m_map.insert` drops the
new handler if its identifier is taken.

**ConsoleClient** is the clients with a console, the audio client that is built among
them.

A copy that differs in formatting only is mapped through a definition of its own in
`OldPrograms` or `OldParsers` (`S5Session`, `BakWriter`, `C5Client`, `AParse`, ...), which
names the steps that it has. `s3.cpp`, which has no videos and no window to close, is a
program of its own in the union; `c3.cpp` differs from `old-client` in the camera and in
the loop of its main, which ends with the input only, and its steps are steps of
`old-client`. Where the headers declare
`get_executor().context()` or old clients pass a connect handler in ways that
today's asio does not compile, what is modelled is what the call was written for.

## The runs

`PROJECT.json` names the cfg and the properties of each. Distinct states in
parentheses.

| Run | Question and result |
| --- | --- |
| `QueuedWriterLarge` (1 877) | With frames of 1, 2 and 3 transfers and a connection that may break anywhere: every handler is called, once; success means written; frames *start* in order; the deque never holds a frame. |
| `QueuedWriterContiguous` | Are a frame's bytes contiguous? **No**, see below. |
| `RequesterTwoCallers` (796 267) | Two threads that request and post, in any interleaving of their accesses, and a peer that makes raw posts under any number that may be waited for: every handler in one place; as long as no two calls overlap a response reaches its own handler, unless an error or a raw post called it before (`ReturnedUnlessRaced`); and the requester implements `RequestFates` (`KeepsFates`). |
| `RequesterRace` | Is a response returned to its handler when the io thread posts too? **No**, see below. |
| `Transport` (141 917) | Dispatcher, writer or requester. All sequences of three messages of seven kinds, in any segments, with breaks and closes: dispatched once, in order, in the end; answers match requests; a dispatcher that stopped has called all handlers but those registered later. With frames of one transfer the writer is the abstract stream (`InOrder` is the refinement of `FrameStream` with `delivered <- wire`). With one calling thread and all four operations a response on its way leads to the call of its handler. |
| `ServerConsole` (1 324 235) | Image and audio client, coming and going, every console command: names only to audio clients, no task finds a destroyed session before its connection ended. |
| `ServerStay` (13 031) | Three clients, one with an unknown role, the audio client may leave: names reach a connected audio client, a login shows the video, an ended session is destroyed. |
| `ServerLeave` | The hint client leaves. Do names still reach the audio client? **No**, see below. |
| `ServerShutdown` | Does `:exit` end the server when all its clients had been accepted before? **No**, see below. |
| `Programs` (148 435) | Image client, hint client, voice client or image sink. Starts and stops of the own session, of others and of the console in any order, images on their way, a camera that fails, breaks and `:exit`: pumps bounded, an empty image is processed only for one of three causes, a video is seen if the client was told to start last and its session takes images, also after a restart. Stops and starts against the timer: the chain of hints lives and at most two wait. Lines against the voice thread: a pass speaks all it read, an update in a pause is spoken; a click on a standing connection logs in. Every program ends, the hint client if its hints were stopped and the window if images stop coming. |
| `Codecs` (136 643) | Commands, images or faces. Every command of up to six characters and newlines is split as its text means and ends where it should; only cut images confuse the stream, never one in raw mode, and the first whole message puts it in step again unless zlib was at work; whose name a face can get. |
| `OldPrograms` (223 222) | One of the older programs, or the audio client. `SessionsKept`: chains of requests are as many as shows, and a client that leaves is no danger unless another came while it was there. `HandlersKept`: whatever two threads do to `m_id`, a handler is in one place, and without a race it gets its own answer; answers are in order; what is typed before the connection goes out before the greeting. `OldProgramsEnd`: a stopped video ends, the server ends after exit unless its window was idle once or a session was started late, such a window never ends, no handler is called after the connection ended, and the clients without an `io_service::work` end. |

Some properties say less than one would like, because the code does less:

* `NothingBuffered` says that the *queue* of the queued writer is useless: it is
  empty between any two tasks. That is the cause of `FramesContiguous` failing.
* `PumpsBounded` allows one more pump per stop, and `EmptyHasCause` allows empty
  images after a restart, because a pump never ends on a stop; also when the camera
  gave one, and after a stop that the console requested, of which the session does
  not know.
* `VideoSeen` is about a client that is told to start *and* a session that takes its
  images. `session.hpp:99-101` clears the flag of the session that shows the video and
  starts the client of its room: when an audio client logs in, the client may be
  started while its own session ignores what it sends.
* `ReturnedUnlessRaced` and `RequestFates` allow a raw post of the peer to call a
  handler, since the dispatcher takes it for a response.
* `QuietWhenStopped` allows handlers to wait that were registered after the dispatcher
  had stopped. No response reaches them any more; only a later raw call whose write
  fails calls them.
* `DanglingOnlyAfterEnd` allows a task to find its session destroyed after the
  connection ended: `async_write` and `session::close` capture raw pointers.
* `OnePlace` allows `lost`: a failed write drops a request's handler uncalled,
  and `m_map.insert` drops a handler whose identifier is taken.
* `EndedDestroyed` is checked without `:show`. With it, it fails: `get_room`
  inserts a session that was removed after `:show` locked it, and nothing
  removes it again. In the same way a login that is handled after `close` puts a
  session back into the map.
* `ProgramsEnd` asks that hints were stopped, and that images stop: `close` does not
  stop the chain of hints, and the window's inner loop does not look at the flag.
* `PauseUpdateSpoken` says that a name which is in the text when an update set
  `voiceOn` in the voice thread's pause is spoken by a later pass, unless a line
  without it comes before. One that comes during a pass is lost when the pass ends.
* `ClickLogsIn` speaks of a click on a connection that stands. The first click's
  login usually comes before its own connection, fails, and is only logged.
* `FacesNamed` has three parts: the first face of an image, and a face with one match,
  get the right name; a later face with several matches gets the name of the
  first; nobody is named who matched no face, except person 0, with whom the
  search begins.
* `CommandsMeanText` states of the hint console that a post ends in the word of its
  own last line; arguments can only be in the lines before it.
* `LeavingIsSafe` (in `SessionsKept`) says when a task may find its session destroyed:
  only if a second client connected while one was there, or when the server is
  closed. Then it does happen.
* `Rpc!ReturnedUnlessRaced` (in `HandlersKept`) says nothing of calls that overlapped:
  there two may capture one identifier, and one of their handlers is dropped, or gets
  the other's answer.
* `OldProgramsEnd` states of a window that was idle once that it does *not* end, and of
  the old connection that waiting handlers are never called: that is what their code
  does. The old server's `ExitEnds` lets `main` wait for such a window for ever
  (`old-server/main.cpp:433-434`), and for a session that was accepted before the
  close and started after it; `StopEndsChains` is about clients that answer
  `get_image`. Of the clients with an `io_service::work`, `HandlersKept` states that
  they never end.

### Bounds

* `QueuedWriter`: three frames, each written once; up to three units. Interleaving
  needs two frames of which one has two units; three frames give a frame before,
  between and after.
* `Requester`: in `RequesterTwoCallers` `MaxCalls` = 2, two raw posts of the peer
  (`MaxPosts`) under the numbers 1 and 2 (`PeerIds`), all that this end can have
  registered: two requests that race in any way, one that is misled by the peer and
  one by the other, before or after its answer. In `RequesterRace` `MaxCalls` = 3 and
  no raw posts, so that what is refuted is refuted by the race.
* `Dispatcher`: `MaxSent` = 3, seven messages. Three let a message be in hand, one
  in the unpacker and one on the way.
* `Server`: 2 or 3 clients, one or two messages each after the login, two console
  commands and `:exit`. Two sessions suffice to collide in a map that holds one;
  a third is there to be neither image nor audio client.
* `ImageClient`: `MaxOrders` = 3 (start, stop, start: the shortest history in
  which there is a pump too many, and an empty image of the stopped client meets a
  session that takes images), each by any of those who give them; `Room` = 2 images
  in the connection. `closes` and `pending` are bounded by these.
* `HintClient`: `MaxStarts` = 3. Two starts make two waits; a third would add one if
  chains multiplied.
* `VoiceClient`: two names, `MaxClicks` = 2 and `MaxLists` = 2: a click before and after
  the connection stands, an update before and during a pass.
* `ImageSink`: `Room` = 3 queued images; the code has no bound.
* `CommandParser`: `MaxTyped` = 6 characters and newlines: two lines with a quote
  that continues, or two commands, with a character to escape.
* `MatCodec`: `MaxSent` = 4: a cut of two elements, a cut image inside of it, and what
  ends them.
* `FaceMatching`: three persons, three faces, distances 0, 1 and 2 of which two match:
  a tie, a nearer one and a stranger.
* `ChatServer`: two clients, one of which answers `get_image` (`Cameras`); two shows,
  stops or requests (`MaxOwning`), two tasks waiting when something is typed
  (`MaxTasks`). `OldRpc`: two messages, each a request of this end or made up by the
  other (`MaxCalls`, `MaxAsked`, `MaxMessages` = 2): two calls that race, or a call
  against a message. `ConsoleClient`: two commands. `ImageShower`: three tasks.

No run uses symmetry or a state constraint. `CHECK_DEADLOCK FALSE` is set
everywhere, because each program may really stop: the bounded calls are made, or
the connection is closed, or the program has ended.

### Fairness

Weak fairness throughout, and only for what the programs' threads do: the io
thread runs posted tasks and completions (`io_service.run` returns only when
nothing is left); a call that has begun is finished by its thread; a socket that
is open delivers and gets room again, because the peer's reader is always armed
(it is re-armed before a message is handled). Nothing is assumed of users, of the
peer's answers, of cameras, or of connections: nobody has to call, start, stop or
exit, requests may stay unanswered, and connections may break or last.

Strong fairness is assumed in one place: in the hint client a handler of the
chain makes the io thread busy again and again, and the io_service, a queue, runs
the other tasks between two of them (`RunClose`, `ReadFailed`, `RunAborted`). In
the voice client the user-interface thread, the clicks' threads, the task and the voice
thread each run. In the old server the accept handlers, `t.join` and the end of a
window that can end are taken, and a client *that has a handler for* `get_image`
answers once the video was stopped; of the others nothing is assumed.

## Proofs

Each theorem holds for every value of the constants that the module's
assumptions allow; `Inductive` in each module is about the invariant `IInv` that
the others follow from. The properties were checked by TLC on the instances of the
runs, and the strengthenings, where they were not plain, before they were proved.

| Module | Theorems | Property |
| --- | --- | --- |
| `QueuedWriter_proofs` | `TypeCorrect`, `QueueNeverBuffers`, `HandlerCalledOnce` | `TypeOK`, `NothingBuffered`, `HandlerOnce` |
| | `SuccessIsWhole`, `FramesStartAsCalled` | `SuccessMeansWritten`, `FramesStartInOrder` |
| | `SmallFramesInOrder`: if all frames fit one transfer, `Spec => InOrder` | the refinement of `FrameStream` |
| `Requester_proofs` | `TypeCorrect`, `HandlerInOnePlace`, `OnlyTheRaceLoses` | `TypeOK`, `OnePlace`, `ReturnedUnlessRaced` |
| | `RequesterKeepsFates` | `KeepsFates`, the refinement of `RequestFates` |
| | `CalledOnce`; `OneCallerReturned`: if one thread calls (`OneCaller`), `Spec => []ReturnedUnlessPosted`; `OneCallerKeepsPromise`: if besides the peer makes no raw posts, `Spec => []ResponseReturned` | what run `RequesterRace` refutes without the first assumption |
| `Dispatcher_proofs` | `TypeCorrect`, `InOrderOnce`, `AnswersInOrder`, `StoppedIsQuiet` | `TypeOK`, `DispatchedInOrder`, `AnswersMatchRequests`, `QuietWhenStopped` |
| | `EndsOnce`: an io error is the last call of the error handler | |
| `Server_proofs` | `TypeCorrect`, `NamesOnlyToAudio`, `RawPointersDangleLate` | `TypeOK`, `NamesGoToAudio`, `DanglingOnlyAfterEnd` |
| | `NamesArrive`: if all are in one room (`OneRoom`) and only the listener leaves (`OnlyListenerLeaves`) | `NamesReachAudio` |
| `ImageClient_proofs` | `TypeCorrect`, `PumpsMultiplyOnlyWithStops`, `EmptyImagesHaveACause` | `TypeOK`, `PumpsBounded`, `EmptyHasCause` |
| `Programs_proofs` | `ChainNeverDies` (hint client), `EveryNameSpoken` (voice client) | `ChainAlive`, `PassSpeaksAll` |
| `Codecs_proofs` | `WordsMeanText`, `CommandsEnd` (commands) | `CommandsMeanText`, `EndsWhereItShould` |
| | `CutsConfuse`, `Resyncs` (images) | `OnlyCutsConfuse`, `WholeMessageResyncs` |
| | `NamesOfFaces` (faces) | `FacesNamed` |
| `OldPrograms_proofs` | `SessionsAreKept`, `HandlersAreKept` | `SessionsKept`, `HandlersKept` |
| | `IdleWindowNeverEnds`, `NoCallAfterEnd` | two parts of `OldProgramsEnd` |

* **QueuedWriter.** "Called once" is not inductive: one has to know that a frame
  that is called is nowhere else any more. `Places` says that a frame is in one
  place only (posted, waiting for the socket, completed, called), and how much of
  it is left in each. The proof needs `m_wq = <<>>` and that no `Resume` is
  posted, which is `NothingBuffered` and is why it is part of `IInv`. The
  refinement rests on a second invariant, `submitted = wire \o sockq \o posted`
  while the socket is open: only with frames of one unit is the stream the
  first part of what was submitted.
* **The stream of the queued writer**, with frames of any size. `WInv` keeps the
  account: the units of a frame on the stream and those left make up the frame,
  and success is told when none is left. That frames *start* in the order of the
  calls, though their later units mix, needs to look into the queues: `QueueOrder`
  says that a frame that has not started is posted or waits for the socket, and
  that no frame of a later call is ahead of it; `WireOrder` says the same of the
  first units on the stream; `Told` keeps a completed transfer from counting as
  one that has not started.
* **Requester.** `OnePlace` speaks of requests; its induction needs the same of
  every call, and that numbers tell calls apart (`Once`: no two packed calls,
  frames, completions or entries of `m_map` have the same number). `Exclusive(n)`
  orders the places a handler goes through and excludes every earlier one;
  `Somewhere(n)` says a request's handler has not vanished, for which a frame has
  to remember that it is a request (`KindsKnown`). No assumption about `m_id` is
  needed: the two theorems hold however the threads race on it, and that is the
  point of them.
* **Only the race loses answers.** `raced` (history) says that a call began while
  another thread was in one. As long as it is false, nobody comes in between the
  accesses of a call, and the identifier of a call is its number (`CallerOK`,
  `NumbersOK`), so that none is taken. What is left is the order of completions
  (`AnswersOK`): an answer on its way, or among the completions, finds its handler
  waiting or called, or has the successful write of its request ahead of it in
  `ready`, or has been called by a raw post, which is no answer and has its own number
  in the records (`Foreign`). `OneCallerReturned` follows, for one thread never races
  with itself, and `OneCallerKeepsPromise` for a peer that makes no raw posts. Run
  `RequesterRace` shows that the condition on the threads cannot be dropped.
* **The requester's refinement.** `RequestFates` says what may become of a request:
  made, waiting, then once answered, failed, dropped, misled or called by a raw post;
  errors come only after the connection broke and to all that wait at once, only a
  break or a race drops a handler, only a race gives one the answer to another
  request, and only a peer that made raw posts has one taken for an answer
  (`PostsKnown`). The mapping (`Fate`) reads it off
  `asked`, `results`, `lost` and `m_map`. Each step is one of the abstract steps or
  a stutter by `Exclusive` (a written request is nowhere else), by the invariant
  above (an identifier that is taken or answers another call is a race), and by
  `BrokenKnown`: a completion that failed is behind the break of the connection.
* **Dispatcher.** `dispatched \o unp \o net = sent` is inductive with the type
  invariant; the work is in the lemmas that move a segment or a head from one
  sequence to the next. `AnswersMatchRequests` names for each answer the place of
  its request among the dispatched (`of`), increasing from answer to answer, and
  every dispatched request that has an answer has one of them; a dispatch
  extends it by one answer or none. `QuietWhenStopped` needs that the last step of
  reading empties the map, and that what is added later is added with reading over.
* **Server.** From `Less` being false it follows that `Equivalent(map, c)` is the
  whole map (`AllEquivalent`), from which `insert`, assignment and `erase` keep at
  most one entry. `NamesGoToAudio` then needs that every client in a room has
  logged in with the role of its place (`Placed`), and that the map and the
  numbers refer to rooms that were made (`MemoryOK`); it does not need to know
  whose entry a lookup finds. `DanglingOnlyAfterEnd` needs the life of a client
  (`Life`): before it is accepted nothing names it, neither map nor focus nor a
  task; it is accepted once; and it has one read at a time, so that a session
  whose socket is open is held by its own read and a task that finds it destroyed
  comes after the end. The same facts give the rest of the type invariant.
  `NamesReachAudio` is false in general (run `ServerLeave`), so `NamesArrive` has two
  assumptions on the constants, those of run `ServerStay`: clients that
  log in name one room, and nobody leaves but the listener, if there is only one. Its
  invariant `KInv` has, while the server accepts and a listener is connected, an entry
  in the map, for the room of all clients and with a listener in it (`Kept`); and it
  follows the end of each session (`EndOK`): only those that leave have a closed
  socket, and an error or a removal is posted only for them.
* **ImageClient.** A pump too many costs a stop (`PumpsAccounted`). That an empty image
  without another cause needs a restart takes a count of orders (`OrdersAccounted`:
  those on their way, the stops and, while a pump runs, one start are no more than were
  given), and that the session ignores images if the last order on its way is a stop
  and all orders given are accounted for (`StopRules`). So with two orders only, a
  start and a stop, nothing empty is processed (`EmptyAccounted`).
* **HintClient.** What cancels takes all waits away, and each thread that has
  cancelled and not yet waited adds one: waits and such threads are two at most
  (`HintInv`).
* **VoiceClient.** A pass that began with `voiceOn` has said those of the names it
  heard that it has compared so far, and only the pass clears the flag; a pass
  that speaks costs an update, or the flag as it was set in the beginning
  (`VoiceInv`). That the names are a sequence of strings (`PeopleAssumption`) is what
  `MainActivity.java` has.
* **Commands.** `CommandParser` states what a text means with no state, by the
  positions of its characters: whether one is escaped, inside of quotes, a separator
  or a literal, and which word it belongs to. `ParserInv` says that the parser's four
  members are that meaning of the text read so far; in particular the finished
  arguments together with the one being read are `Words(text)`. A character
  appended changes the meaning of none before it (the lemmas on positions), so each
  step adds a literal to the last word, begins a word, or adds nothing. The number
  of a word is the number of literals that begin one up to there, and that numbers
  count up by one is all the induction that is needed.
* **Images.** `CodecInv`: the stream is in step exactly if no array is open, an open
  array is behind the first message that was cut and not yet ended (`First`), and
  without gz every open array lacks one element, which the next object supplies.
* **Faces.** `FacesInv`: `distance` is the first face's, and a candidate is a person
  whom an earlier face, or this one, matched; the rest is that a minimum of the
  compared distances exists (`FacesAssumption`: the distances, the limit and the
  number of persons are natural numbers).
* **Old server.** `ChainsBounded` counts: requests under way and tasks of shows are no
  more than the shows typed, and `Occurrences` needs its own lemmas for a head taken
  and an element appended. `ChatSafe` is what makes leaving safe: as long as no
  second client was refused by the set and nobody typed exit, a session that reads
  is in the set, and one that has ended stays there until its only task takes it
  out; so no handler is without its session. An accept that waits is no session yet
  (`ChatKnown`).
* **Old window.** Once `stopped` while the loop runs, nothing resets the io_service,
  and `m_is_running` is cleared only by a task of it.
* **Old connection.** `RpcReads`: there is one read, in a task or waiting, and none
  after the end, so that nothing is called after it. `RpcFates`: the calls begun are
  those a thread has packed (`Begun`), those in the tasks, in `m_map`, called and lost, and
  no two of these meet; it holds whatever the threads do to `m_id`. `RpcStraight`: while no
  two calls overlapped, the identifier of a call is its number, in its thread, its
  frame, its entry of `m_map` and its answer, so that none is taken and each answer
  finds its own. `RpcOrder`: identifiers rise from the answers written over those in the
  tasks, the unpacker and the network, which is the invariant behind `AnswersInOrder`.
* **Clients with a console.** The frames on the wire, in the writer and in the tasks
  are in one order (`ClientOrder`): by number for each source, and the early lines
  before the greeting. `OldInv` has all four invariants; in a behaviour of one program
  the others' variables stay as they are.

The modules that are theorems' subjects have named assumptions on their constants
(`BoundsAssumption` and the like: bounds are numbers, a model value is none of the
clients), all evaluated by TLC in the runs. The theorems about the data and the
older programs are stated of the unions `MCCodecs`, `MCPrograms` and `OldPrograms`,
which take the bounds as parameters, so they hold for texts, streams and calls of
every length.

Only model-checked: all liveness (`EveryHandlerCalled`, `ResponseLeadsToCall`,
`EverythingDispatched`, `LoginShows`, `EndedDestroyed`, `VideoSeen`, `ProgramsEnd`,
`PauseUpdateSpoken`, `ClickLogsIn`, and in `OldProgramsEnd` all but the two parts above),
which is beyond this prover. Every other property of a passing run is stated by a
theorem.

## Disagreements found

Four runs find the code to do something else than its README or its console
says. Each is in `PROJECT.json` under `findings`.

1. **`FramesContiguous`** (`queued_writer.hpp:54`). README.org:111: the queued
   writer buffers objects and sends them in order. It does not buffer: `do_write`
   pops before the write is complete, so two composed writes may run on one
   socket, and a frame that takes several transfers (an image) is interleaved with
   the next one. With frames of one transfer the promise holds, which is proved.
2. **`ResponseReturned`** (`requester.hpp:102`). README.org:119: the requester
   returns responses to the registered callback. The identifier is read twice and
   incremented without synchronisation; a post on the io thread in between makes
   the identifier that was sent differ from the one that is registered.
3. **`NamesReachAudio`** (`session_manager.hpp:29`). README.org:129: names are sent
   to the voice client. Any client that disconnects erases the only entry of the
   map, and with it the room of those that stay.
4. **`ShutdownEnds`** (`server.hpp:148`). `main.cpp:69` announces that the server is
   closing; of two sessions that were accepted before `:exit` the map holds one, the
   other is never closed, and the main thread waits for the io thread for ever.

Read in the code, not shown by a violated run: README.org:154 has the listener log in
as `voice-client`, the server knows `audio-client` only (`session_manager.hpp:45`);
`post_raw` packs the message type of a response instead of a post
(`requester.hpp:117`), so that it never reaches a post handler and may call the handler
of a request: `Requester` models it as `PeerPosts`, and its properties say what it
can do.

## What is not modelled

* Overlapping accesses. `get_room` on the console's thread and the io thread use
  one `std::map`, and `m_wp` is assigned and locked by two threads. Each lookup is
  one step here, so the modules show orders, not torn reads. The accesses to
  `m_id`, to the hint client's timer and to `voiceOn` are modelled one by one.
* Identifiers and arguments of wrong msgpack types. An argument that cannot be
  converted is a message whose handler fails; an identifier that is no integer
  (an exception that leaves the io thread) is not sent.
* The server with its image client in one state. Each is modelled against what the
  other may do: `ImageClient` has starts that other sessions give and the requests of
  the console, `Server` has whose session runs a show or a stop. An order that reaches
  another session than the one it was meant for (`session.hpp:109`) is a possible step
  of both modules and a property of neither.
* The parts that nothing calls: the converting overload of the reader, the queued
  reader, the synchronous functions of the old header, `stopClient` in
  `TcpClient.java`.
* The request handlers that add and print, `:ls`, `:get`, all output.
* Detection and the networks (dlib), compression (zlib, lz4), windows (OpenCV),
  the loading of the database of faces, the Android layout.
* `simple-server`, `hotfix-server` and `hotfix-client`: the first is the server with
  one kind of session and does not pass its session what that session's
  constructor takes, the others set no handlers. `src/api/asio_msgpack.hpp`,
  `*.bak*`, `Detect.bak.cpp`, `spike/api.hpp`, `spike/bak.hpp`, `spike/c1.cpp` and
  `spike/s1.cpp` are drafts of files that are modelled. The rest of `spike` is
  trials of libraries and filters between formats.

## Plan

The library that all programs share came first, from the socket upwards, then
the server that holds it together, the clients, what they do to data, and the
older programs. What is left, in this order:

1. `Glasses`: `Server`'s show, stop and focus composed with `ImageClient`, for the
   orders that reach another session than the one they are meant for.
2. Proofs: the dispatcher's part of the same promise, that a connection's messages
   implement an abstract ordered log with the answers; the server's map against an
   abstract one that holds at most one session.
3. `MessageIO`: two ends, composed of `Requester` and `Dispatcher` over `QueuedWriter`'s
   stream, in one state space.

## How to run

    tlc -workers 2 -config ServerConsole.cfg MCServer
    tlapm Requester_proofs.tla

The longest runs are `Programs` and `OldPrograms`, two to three minutes; a proof module takes about a minute or less, `OldPrograms_proofs` and `Codecs_proofs`
several.
