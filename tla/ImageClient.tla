----------------------------- MODULE ImageClient -----------------------------
(***************************************************************************)
(* The image client program: its pump of images, its connection and its    *)
(* end, against the server's session for it (module Server).               *)
(*                                                                         *)
(* The client is started by the show_video of any session in whose room it *)
(* is the image client, which clears that session's m_stop only; it is     *)
(* stopped by the stop_video of its own session.  The server's console can *)
(* request both of the client, past the sessions.                          *)
(*                                                                         *)
(* A pump posts an image and, when the image is written, posts the next    *)
(* one.  It never looks whether the video was stopped: it goes on with     *)
(* empty images.  Each pump has one image in the writer.  A started client *)
(* sends an empty image too, when its camera is closed or a read fails.    *)
(***************************************************************************)
EXTENDS Integers, Sequences, FiniteSets

CONSTANTS Room,       \* the images that the connection holds
          MaxOrders   \* bound: the orders of the server's sessions and console

ASSUME RoomAssumption == Room \in Nat \ {0}
ASSUME MaxOrdersAssumption == MaxOrders \in Nat

VARIABLES
  sock,     \* the client's socket: "connecting", "open" or "closed"
  reading,  \* does the client's io_service have a read to wait for?
  m_start,  \* was the client told to start?
  pending,  \* the images in the writer, one of each pump, oldest first
  closes,   \* the tasks of close() that were posted and not run
  up,       \* the images on their way to the server
  down,     \* the orders on their way to the client
  m_stop,   \* does the server's session ignore images?
  orders,   \* the number of orders given
  requested,  \* did the console request a stop, past the session? (history)
  stops,    \* the number of stops the client was told (history)
  failed,   \* did the camera give an empty image? (history)
  seen,     \* the kinds of images that the server processed since its last
            \* start (history)
  main      \* the console: "typing", "joining" or "done"

vars == <<sock, reading, m_start, pending, closes, up, down, m_stop, orders,
          requested, stops, failed, seen, main>>
client == <<sock, reading, m_start, pending, closes, stops, failed>>
server == <<m_stop, orders, requested, seen>>

Images == {"image", "empty"}

(* The type invariant; the io_service waits for a read until the socket    *)
(* is closed.                                                              *)
TypeOK ==
  /\ sock \in {"connecting", "open", "closed"}
  /\ reading \in BOOLEAN /\ (sock = "open" => reading)
  /\ m_start \in BOOLEAN
  /\ pending \in Seq(Images)
  /\ closes \in Nat
  /\ up \in Seq(Images) /\ Len(up) <= Room
  /\ down \in Seq({"image_start", "image_stop"})
  /\ m_stop \in BOOLEAN /\ requested \in BOOLEAN /\ failed \in BOOLEAN
  /\ orders \in 0..MaxOrders /\ stops \in 0..MaxOrders
  /\ seen \subseteq Images
  /\ main \in {"typing", "joining", "done"}

Init ==
  /\ sock = "connecting" /\ reading = FALSE
  /\ m_start = FALSE /\ pending = <<>> /\ closes = 0
  /\ up = <<>> /\ down = <<>>
  /\ m_stop = TRUE /\ orders = 0 /\ requested = FALSE /\ seen = {}
  /\ stops = 0 /\ failed = FALSE
  /\ main = "typing"

-----------------------------------------------------------------------------
(* The server.                                                             *)

(* The server gives another order.                                         *)
Orders ==
  /\ sock = "open" /\ orders < MaxOrders
  /\ orders' = orders + 1

(* The task of show_video.  It is run by the image client's own session or *)
(* by another, and starts the image client of that session's room, which   *)
(* is this one (here) or not.                                              *)
ShowVideo(own, here) ==
  /\ Orders
  /\ m_stop' = (m_stop /\ ~own)
  /\ seen' = IF own THEN {} ELSE seen
  /\ down' = IF here THEN Append(down, "image_start") ELSE down
  /\ UNCHANGED <<client, up, requested, main>>

(* Faulty variant of StopVideo: the session goes on processing images.     *)
StopVideoThere ==
  /\ Orders
  /\ down' = Append(down, "image_stop")
  /\ UNCHANGED <<client, up, m_stop, requested, seen, main>>

(* The task of stop_video.                                                 *)
StopVideo ==
  /\ Orders
  /\ m_stop' = TRUE
  /\ down' = Append(down, "image_stop")
  /\ UNCHANGED <<client, up, requested, seen, main>>

(* "image_start []" or "image_stop []" at the server's console: a request, *)
(* which the client's handler takes like the post.                         *)
RequestOrder(order) ==
  /\ Orders
  /\ down' = Append(down, order)
  /\ requested' = (requested \/ order = "image_stop")
  /\ UNCHANGED <<client, up, m_stop, seen, main>>

OnImageArrived ==
  /\ up # <<>>
  /\ up' = Tail(up)
  /\ seen' = IF m_stop THEN seen ELSE seen \cup {Head(up)}
  /\ UNCHANGED <<client, down, m_stop, orders, requested, main>>

-----------------------------------------------------------------------------
(* The client's io thread.                                                 *)

(* Faulty variant of Connected: async_dispatch is not called.              *)
ConnectedDeaf ==
  /\ sock = "connecting"
  /\ sock' \in {"open", "closed"}
  /\ UNCHANGED <<reading, m_start, pending, closes, up, down, server, stops, failed, main>>

(* on_connected, or do_exit when there is no connection.                   *)
Connected ==
  /\ sock = "connecting"
  /\ \/ sock' = "open" /\ reading' = TRUE
     \/ sock' = "closed" /\ UNCHANGED reading
  /\ UNCHANGED <<m_start, pending, closes, up, down, server, stops, failed, main>>

(* do_put_image: an image of the camera, if it gives one, or an empty one. *)
PutImage(queue, started) ==
  \E i \in (IF started THEN Images ELSE {"empty"}) :
    /\ pending' = Append(queue, i)
    /\ failed' = (failed \/ (started /\ i = "empty"))

(* Faulty variants of OnImageStart: it does not look whether it was told   *)
(* before; it does not start a pump.                                       *)
OnImageStartAlways ==
  /\ sock = "open" /\ down # <<>> /\ Head(down) = "image_start"
  /\ down' = Tail(down)
  /\ m_start' = TRUE /\ PutImage(pending, TRUE)
  /\ UNCHANGED <<sock, reading, closes, up, server, stops, main>>

OnImageStartOnly ==
  /\ sock = "open" /\ down # <<>> /\ Head(down) = "image_start"
  /\ down' = Tail(down)
  /\ m_start' = TRUE
  /\ UNCHANGED <<sock, reading, pending, closes, up, server, stops, failed, main>>

OnImageStart ==
  /\ sock = "open" /\ down # <<>> /\ Head(down) = "image_start"
  /\ down' = Tail(down)
  /\ IF m_start THEN UNCHANGED <<m_start, pending, failed>>
     ELSE m_start' = TRUE /\ PutImage(pending, TRUE)
  /\ UNCHANGED <<sock, reading, closes, up, server, stops, main>>

OnImageStop ==
  /\ sock = "open" /\ down # <<>> /\ Head(down) = "image_stop"
  /\ down' = Tail(down)
  /\ m_start' = FALSE
  /\ stops' = stops + 1
  /\ UNCHANGED <<sock, reading, pending, closes, up, server, failed, main>>

(* The oldest image is written: its pump posts the next one.               *)
Written ==
  /\ sock = "open" /\ pending # <<>> /\ Len(up) < Room
  /\ up' = Append(up, Head(pending))
  /\ PutImage(Tail(pending), m_start)
  /\ UNCHANGED <<sock, reading, m_start, closes, down, server, stops, main>>

(* Faulty variant of WriteFailed: the pump tries the next image.           *)
WriteFailedAgain ==
  /\ sock = "closed" /\ pending # <<>>
  /\ PutImage(Tail(pending), m_start)
  /\ UNCHANGED <<sock, reading, m_start, closes, up, down, server, stops, main>>

(* It could not be written: its pump ends and closes the client.           *)
WriteFailed ==
  /\ sock = "closed" /\ pending # <<>>
  /\ pending' = Tail(pending)
  /\ closes' = closes + 1
  /\ UNCHANGED <<sock, reading, m_start, up, down, server, stops, failed, main>>

(* The dispatcher's read fails; do_exit closes the socket once more.       *)
ReadFailed ==
  /\ sock = "closed" /\ reading
  /\ reading' = FALSE
  /\ UNCHANGED <<sock, m_start, pending, closes, up, down, server, stops, failed, main>>

(* The task of close().                                                    *)
RunClose ==
  /\ closes > 0
  /\ closes' = closes - 1
  /\ sock' = "closed"
  /\ UNCHANGED <<reading, m_start, pending, up, down, server, stops, failed, main>>

IoThread ==
  \/ Connected \/ OnImageStart \/ OnImageStop
  \/ Written \/ WriteFailed \/ ReadFailed \/ RunClose

-----------------------------------------------------------------------------
(* The connection, and the console's thread: ":exit" closes the client and *)
(* waits for the io thread, which ends when it has nothing to do.          *)
Broken ==
  /\ sock = "open"
  /\ sock' = "closed"
  /\ UNCHANGED <<reading, m_start, pending, closes, up, down, server, stops, failed, main>>

Exit ==
  /\ main = "typing"
  /\ main' = "joining"
  /\ closes' = closes + 1
  /\ UNCHANGED <<sock, reading, m_start, pending, up, down, server, stops, failed>>

Join ==
  /\ main = "joining"
  /\ sock = "closed" /\ ~reading /\ pending = <<>> /\ closes = 0
  /\ main' = "done"
  /\ UNCHANGED <<client, up, down, server>>

Next ==
  \/ ShowVideo(TRUE, TRUE) \/ ShowVideo(TRUE, FALSE) \/ ShowVideo(FALSE, TRUE)
  \/ StopVideo \/ RequestOrder("image_start") \/ RequestOrder("image_stop")
  \/ OnImageArrived
  \/ IoThread \/ Broken \/ Exit \/ Join

Spec == Init /\ [][Next]_vars

(* Both io threads run what is ready; a thread that keeps writing also     *)
(* reads and runs its tasks.  Nobody has to start, stop or exit.           *)
Fairness ==
  /\ WF_vars(OnImageArrived) /\ WF_vars(Connected)
  /\ WF_vars(OnImageStart) /\ WF_vars(OnImageStop)
  /\ WF_vars(Written) /\ WF_vars(WriteFailed) /\ WF_vars(ReadFailed)
  /\ WF_vars(RunClose) /\ WF_vars(Join)

FairSpec == Spec /\ Fairness

-----------------------------------------------------------------------------
(* A start that follows a start adds no pump (every login in the room      *)
(* sends one): there is at most one pump more than the client was stopped. *)
PumpsBounded == Len(pending) <= stops + 1

(* The session does not process an empty image without a cause: the camera *)
(* gave one; the console had requested a stop, of which the session does   *)
(* not know; or the video was started, stopped and started again, for the  *)
(* pumps go on while the video is stopped.                                 *)
EmptyHasCause ==
  "empty" \in seen => failed \/ requested \/ (stops > 0 /\ orders >= 3)

(* A video whose client was told to start last, and whose images its       *)
(* session takes, is seen, as long as the connection and the camera work,  *)
(* and after a restart too.                                                *)
ToldToStart ==
  IF down = <<>> THEN m_start ELSE down[Len(down)] = "image_start"
VideoSeen ==
  ~m_stop /\ ToldToStart
    ~> "image" \in seen \/ m_stop \/ ~ToldToStart \/ failed \/ sock = "closed"

(* Closing the client ends the program: every pump ends, and the read.     *)
ExitEnds == main = "joining" ~> main = "done"
=============================================================================
