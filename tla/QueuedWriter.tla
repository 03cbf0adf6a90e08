----------------------------- MODULE QueuedWriter -----------------------------
(***************************************************************************)
(* basic_queued_writer over basic_msgpack_writer on one socket.            *)
(*                                                                         *)
(* async_write posts a task to the io_service; the task pushes the frame   *)
(* on m_wq and, if m_wq was empty, do_write starts the composed operation  *)
(* boost::asio::async_write of the front frame and pops it at once.  The   *)
(* composed operation moves a frame in units, one unit for each            *)
(* async_write_some (at most 65536 bytes, less if the socket's buffer is   *)
(* nearly full), and starts the next unit from the completion of the last. *)
(* The socket serves the operations started on it in order.                *)
(*                                                                         *)
(* One thread runs the io_service, so a task is one step.  Posted tasks    *)
(* and completions are each run in order; how they interleave is left      *)
(* open, as asio leaves it.                                                *)
(***************************************************************************)
EXTENDS Integers, Sequences, FiniteSets

CONSTANTS Frames,    \* the frames of a run; each is written once
          Units,     \* Units[f]: how many transfers frame f takes
          Resume     \* the task that do_write posts when m_wq is not empty

ASSUME UnitsAssumption == Units \in [Frames -> Nat \ {0}]
ASSUME ResumeAssumption == Resume \notin Frames

VARIABLES
  submitted,  \* the frames given to async_write, in order (history)
  posted,     \* the writer's tasks waiting in the io_service
  m_wq,       \* the deque of frames to be written
  sockq,      \* frames whose next transfer waits for room in the socket
  left,       \* left[f]: the units of f not transferred yet
  completed,  \* completions waiting in the io_service: [frame, ok]
  wire,       \* the units on the stream: the frame of each, in order
  called,     \* the write handlers called, in order: [frame, ok] (history)
  open        \* the socket can still carry bytes

vars == <<submitted, posted, m_wq, sockq, left, completed, wire, called, open>>

Occurs(x, s) == \E i \in 1..Len(s) : s[i] = x

Result == [frame : Frames, ok : BOOLEAN]

(* The type invariant of the writer's state.                               *)
TypeOK ==
  /\ submitted \in Seq(Frames)
  /\ posted \in Seq(Frames \cup {Resume})
  /\ m_wq \in Seq(Frames)
  /\ sockq \in Seq(Frames)
  /\ left \in [Frames -> Nat]
  /\ completed \in Seq(Result)
  /\ wire \in Seq(Frames)
  /\ called \in Seq(Result)
  /\ open \in BOOLEAN

Init ==
  /\ submitted = <<>> /\ posted = <<>> /\ m_wq = <<>> /\ sockq = <<>>
  /\ left = Units
  /\ completed = <<>> /\ wire = <<>> /\ called = <<>>
  /\ open = TRUE

-----------------------------------------------------------------------------
(* One transfer of f succeeds: a unit goes out, its completion is queued   *)
(* behind the completions in cs.                                           *)
Transferred(f, cs) ==
  /\ wire' = Append(wire, f)
  /\ left' = [left EXCEPT ![f] = @ - 1]
  /\ completed' = Append(cs, [frame |-> f, ok |-> TRUE])

(* Faulty variant of StartTransfer: operations are started on the socket   *)
(* without regard to the ones that already wait.                           *)
StartTransferEager(f, cs) ==
  \/ /\ ~open
     /\ completed' = Append(cs, [frame |-> f, ok |-> FALSE])
     /\ UNCHANGED <<sockq, left, wire>>
  \/ /\ open
     /\ Transferred(f, cs)
     /\ UNCHANGED sockq
  \/ /\ open
     /\ sockq' = Append(sockq, f)
     /\ completed' = cs
     /\ UNCHANGED <<left, wire>>

(* async_write_some of the next unit of f: it fails on a dead socket, is   *)
(* done at once when nothing waits and there is room, and else waits.      *)
StartTransfer(f, cs) ==
  \/ /\ ~open
     /\ completed' = Append(cs, [frame |-> f, ok |-> FALSE])
     /\ UNCHANGED <<sockq, left, wire>>
  \/ /\ open /\ sockq = <<>>
     /\ Transferred(f, cs)
     /\ UNCHANGED sockq
  \/ /\ open
     /\ sockq' = Append(sockq, f)
     /\ completed' = cs
     /\ UNCHANGED <<left, wire>>

(* Faulty variant of DoWrite: the pop is forgotten.                        *)
DoWriteNoPop(q, tasks) ==
  /\ StartTransfer(Head(q), completed)
  /\ m_wq' = q
  /\ posted' = tasks

(* do_write: start writing the front of q, pop it WITHOUT waiting for the  *)
(* write to complete, and post another do_write if q has more.             *)
DoWrite(q, tasks) ==
  /\ StartTransfer(Head(q), completed)
  /\ m_wq' = Tail(q)
  /\ posted' = IF Tail(q) = <<>> THEN tasks ELSE Append(tasks, Resume)

(* async_write, from any thread.                                           *)
AsyncWrite(f) ==
  /\ ~Occurs(f, submitted)
  /\ submitted' = Append(submitted, f)
  /\ posted' = Append(posted, f)
  /\ UNCHANGED <<m_wq, sockq, left, completed, wire, called, open>>

(* The io thread runs the oldest posted task.                              *)
RunPosted ==
  /\ posted # <<>>
  /\ LET task == Head(posted)
         q    == IF task = Resume THEN m_wq ELSE Append(m_wq, task)
     IN  IF task = Resume \/ m_wq = <<>>
           THEN DoWrite(q, Tail(posted))
           ELSE /\ m_wq' = q
                /\ posted' = Tail(posted)
                /\ UNCHANGED <<sockq, left, completed, wire>>
  /\ UNCHANGED <<submitted, called, open>>

(* Faulty variants of RunCompleted: the end of the frame is missed by one  *)
(* unit, or not looked for at all, or the handler is told of each unit.    *)
RunCompletedTooLong ==
  /\ completed # <<>>
  /\ LET c == Head(completed)
     IN  IF c.ok /\ left[c.frame] >= 0
           THEN StartTransfer(c.frame, Tail(completed)) /\ UNCHANGED called
           ELSE /\ called' = Append(called, c)
                /\ completed' = Tail(completed)
                /\ UNCHANGED <<sockq, left, wire>>
  /\ UNCHANGED <<submitted, posted, m_wq, open>>

RunCompletedTooShort ==
  /\ completed # <<>>
  /\ called' = Append(called, Head(completed))
  /\ completed' = Tail(completed)
  /\ UNCHANGED <<submitted, posted, m_wq, sockq, left, wire, open>>

RunCompletedEachUnit ==
  /\ completed # <<>>
  /\ LET c == Head(completed)
     IN  /\ called' = Append(called, c)
         /\ IF c.ok /\ left[c.frame] > 0
              THEN StartTransfer(c.frame, Tail(completed))
              ELSE /\ completed' = Tail(completed)
                   /\ UNCHANGED <<sockq, left, wire>>
  /\ UNCHANGED <<submitted, posted, m_wq, open>>

(* The io thread runs the oldest completion: the composed operation goes   *)
(* on with the next unit, or calls the frame's handler.                    *)
RunCompleted ==
  /\ completed # <<>>
  /\ LET c == Head(completed)
     IN  IF c.ok /\ left[c.frame] > 0
           THEN /\ StartTransfer(c.frame, Tail(completed))
                /\ UNCHANGED called
           ELSE /\ called' = Append(called, c)
                /\ completed' = Tail(completed)
                /\ UNCHANGED <<sockq, left, wire>>
  /\ UNCHANGED <<submitted, posted, m_wq, open>>

(* The socket has room again and serves the operation that waits longest.  *)
SocketReady ==
  /\ open /\ sockq # <<>>
  /\ Transferred(Head(sockq), completed)
  /\ sockq' = Tail(sockq)
  /\ UNCHANGED <<submitted, posted, m_wq, called, open>>

(* The connection breaks or is closed: every waiting operation fails.      *)
SocketClosed ==
  /\ open
  /\ open' = FALSE
  /\ sockq' = <<>>
  /\ completed' = completed \o
       [i \in 1..Len(sockq) |-> [frame |-> sockq[i], ok |-> FALSE]]
  /\ UNCHANGED <<submitted, posted, m_wq, left, wire, called>>

Next ==
  \/ \E f \in Frames : AsyncWrite(f)
  \/ RunPosted
  \/ RunCompleted
  \/ SocketReady
  \/ SocketClosed

Spec == Init /\ [][Next]_vars

(* The io thread keeps running its tasks; the peer keeps reading, so a     *)
(* live socket gets room again.  Nothing makes the connection break.       *)
Fairness ==
  /\ WF_vars(RunPosted)
  /\ WF_vars(RunCompleted)
  /\ WF_vars(SocketReady)

FairSpec == Spec /\ Fairness

-----------------------------------------------------------------------------
(* Between two tasks m_wq is empty: do_write (queued_writer.hpp:50-57)     *)
(* pops before the write has completed, so the queue never holds a frame   *)
(* back while another one is being written.                                *)
NothingBuffered == m_wq = <<>>

(* The handler of a frame is called at most once, however the frame's      *)
(* transfers end and whenever the connection breaks.                       *)
HandlerOnce ==
  \A i, j \in 1..Len(called) :
    called[i].frame = called[j].frame => i = j

(* A frame's handler is told of success only when every byte of the frame  *)
(* is on the stream: requester and image-client go on from that answer.    *)
SuccessMeansWritten ==
  \A i \in 1..Len(called) : called[i].ok =>
    Cardinality({k \in 1..Len(wire) : wire[k] = called[i].frame})
      = Units[called[i].frame]

(* The first units of the frames appear on the stream in the order of the  *)
(* calls of async_write, whatever happens to the rest of each frame.       *)
FramesStartInOrder ==
  LET first(f) == CHOOSE k \in 1..Len(wire) :
                    /\ wire[k] = f
                    /\ \A l \in 1..(k - 1) : wire[l] # f
  IN  \A i, j \in 1..Len(submitted) :
        i < j /\ Occurs(submitted[j], wire) =>
          /\ Occurs(submitted[i], wire)
          /\ first(submitted[i]) < first(submitted[j])

(* The bytes of one frame are contiguous on the stream, which is what      *)
(* sending objects in order to the Writer means to the peer's unpacker.    *)
FramesContiguous ==
  \A i, j \in 1..Len(wire) : i < j /\ wire[i] = wire[j] =>
    \A k \in i..j : wire[k] = wire[i]

(* Every frame given to async_write has its handler called in the end.     *)
EveryHandlerCalled ==
  \A f \in Frames :
    Occurs(f, submitted) ~> \E i \in 1..Len(called) : called[i].frame = f

(* While every frame fits one transfer, the writer is the ordered stream   *)
(* of frames that the README describes.                                    *)
Stream == INSTANCE FrameStream WITH delivered <- wire
InOrder == Stream!Spec
=============================================================================
