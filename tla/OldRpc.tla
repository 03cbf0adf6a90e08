-------------------------------- MODULE OldRpc --------------------------------
(***************************************************************************)
(* The first version of the programs' connection, one header that the      *)
(* experiments include (spike/include/api/asio_msgpack.hpp): queued        *)
(* writer, queued reader, requester, responser and dispatcher of one end.  *)
(* Where the later version (modules QueuedWriter, Requester, Dispatcher)   *)
(* closes the requester when the connection ends, this one tells the error *)
(* handler only: the dispatcher returns before the requester, which could  *)
(* call the waiting handlers, hears of the error.                          *)
(*                                                                         *)
(* The io thread runs tasks in the order they are posted; it calls request *)
(* from some of them (show_video, on_image_arrived), and the console's     *)
(* thread calls request_raw (s5.cpp:169).  Nothing synchronises the two on *)
(* m_id, so a call is the accesses it makes.  The header's declarations of *)
(* get_executor().context() do not compile; the rest is as written.        *)
(***************************************************************************)
EXTENDS Naturals, Sequences, FiniteSets

Threads == {"main", "io"}

CONSTANTS MaxCalls,    \* bound: the requests this end makes
          MaxAsked,    \* bound: the messages the other end makes up
          MaxMessages  \* bound: both

VARIABLES
  tasks,     \* the tasks posted: [what, m]
  m_wq,      \* the writer's frames
  m_id,      \* the next identifier
  m_map,     \* the handlers that wait: [id, n], call n's under id
  calls,     \* the number of calls begun; a call is named by its number
  at,        \* at[t]: how far thread t is in its call
  cur,       \* cur[t]: the frame of its call; reg is its register
  called,    \* the handlers that were called: [n, re], call n's with the
             \* answer to call re (history)
  lost,      \* the calls whose handlers were dropped (history)
  raced,     \* a call began while the other thread was in one (history)
  waiting,   \* does a read wait for data?
  unp,       \* the messages in the unpacker
  net,       \* the messages on their way to this end
  peer,      \* this end's requests that the other end has not handled
  asked,     \* the number of messages it made up
  answers,   \* the answers written, by the number of their request (history)
  link,      \* is the connection up?
  ended      \* was the error handler called?

local == <<m_id, calls, at, cur, raced>>
fates == <<m_map, called, lost>>
caller == <<local, fates>>
other == <<net, peer, asked, link>>
vars == <<tasks, m_wq, caller, waiting, unp, other, answers, ended>>

Types == {"request", "response", "other"}

(* A frame that is a request of an unknown command or malformed is other.  *)
(* A frame has a type and an identifier.  That of a request knows the call *)
(* n and the identifier that its write handler captured, reg; that of an   *)
(* answer knows the call it answers.                                       *)
Message == [type : Types, id : Nat, reg : Nat, n : Nat]
What == {"push", "resume", "written", "failed", "read", "parse", "data", "error"}

TypeOK ==
  /\ tasks \in Seq([what : What, m : Message])
  /\ m_wq \in Seq(Message) /\ unp \in Seq(Message) /\ net \in Seq(Message)
  /\ calls \in 0..MaxCalls /\ asked \in 0..MaxAsked
  /\ m_id \in Nat /\ at \in [Threads -> {"idle", "packed", "queued", "loaded"}]
  /\ cur \in [Threads -> Message]
  /\ m_map \subseteq [id : Nat, n : Nat] /\ called \subseteq [n : Nat, re : Nat]
  /\ lost \subseteq Nat
  /\ peer \in Seq(Message) /\ answers \in Seq(1..asked)
  /\ {waiting, link, ended, raced} \subseteq BOOLEAN

(* What the other end makes up, by its number.                             *)
Made(type, id) == [type |-> type, id |-> id, reg |-> 0, n |-> 0]
NoMessage == Made("other", 0)
Task(what, m) == [what |-> what, m |-> m]

(* on_connected: the first async_dispatch.                                 *)
Init ==
  /\ tasks = <<Task("read", NoMessage)>> /\ m_wq = <<>>
  /\ m_id = 1 /\ calls = 0 /\ at = [t \in Threads |-> "idle"]
  /\ cur = [t \in Threads |-> NoMessage]
  /\ m_map = {} /\ called = {} /\ lost = {} /\ raced = FALSE
  /\ waiting = FALSE /\ unp = <<>> /\ net = <<>> /\ peer = <<>> /\ asked = 0
  /\ answers = <<>> /\ link = TRUE /\ ended = FALSE

-----------------------------------------------------------------------------
(* The bound on the messages allows one more.                              *)
More == calls + asked < MaxMessages

(* request, request_raw, access by access: pack_fix_uint64(m_id)           *)
Pack(t) ==
  /\ at[t] = "idle" /\ More /\ calls < MaxCalls /\ calls' = calls + 1
  /\ cur' = [cur EXCEPT ![t] = [type |-> "request", id |-> m_id, reg |-> 0, n |-> calls + 1]]
  /\ at' = [at EXCEPT ![t] = "packed"]
  /\ raced' = (raced \/ \E u \in Threads : u # t /\ at[u] # "idle")
  /\ UNCHANGED <<tasks, m_wq, m_id, fates, waiting, unp, other, answers, ended>>

(* m_qw.async_write(..., [..., id = m_id] ...) posts its task              *)
Capture(t) ==
  /\ at[t] = "packed" /\ at' = [at EXCEPT ![t] = "queued"]
  /\ tasks' = Append(tasks, Task("push", [cur[t] EXCEPT !.reg = m_id]))
  /\ UNCHANGED <<m_wq, m_id, calls, cur, raced, fates, waiting, unp, other, answers, ended>>

(* ++m_id, its load and its store                                          *)
Load(t) ==
  /\ at[t] = "queued" /\ at' = [at EXCEPT ![t] = "loaded"]
  /\ cur' = [cur EXCEPT ![t].reg = m_id]
  /\ UNCHANGED <<tasks, m_wq, m_id, calls, raced, fates, waiting, unp, other, answers, ended>>

Store(t) ==
  /\ at[t] = "loaded" /\ at' = [at EXCEPT ![t] = "idle"]
  /\ m_id' = cur[t].reg + 1
  /\ UNCHANGED <<tasks, m_wq, calls, cur, raced, fates, waiting, unp, other, answers, ended>>

(* The io thread is between two tasks, and the oldest is what.             *)
Run(what) == at["io"] = "idle" /\ tasks # <<>> /\ Head(tasks).what = what
Frame == Head(tasks).m

(* do_write: the front of q is written, and popped at once; a frame of one *)
(* transfer is written when its write starts.                              *)
DoWrite(q) ==
  LET m == Head(q)
      written == Task(IF link THEN "written" ELSE "failed", m)
      resume == IF Tail(q) = <<>> THEN <<>> ELSE <<Task("resume", NoMessage)>>
  IN  /\ m_wq' = Tail(q)
      /\ tasks' = Tail(tasks) \o <<written>> \o resume
      /\ peer' = IF link /\ m.type = "request" THEN Append(peer, m) ELSE peer
      /\ answers' = IF link /\ m.type = "response" THEN Append(answers, m.id) ELSE answers

(* The task of async_write.                                                *)
RunPush ==
  /\ Run("push")
  /\ IF m_wq = <<>> THEN DoWrite(<<Frame>>)
     ELSE /\ m_wq' = Append(m_wq, Frame)
          /\ tasks' = Tail(tasks)
          /\ UNCHANGED <<peer, answers>>
  /\ UNCHANGED <<caller, waiting, unp, net, asked, link, ended>>

RunResume ==
  /\ Run("resume") /\ DoWrite(m_wq)
  /\ UNCHANGED <<caller, waiting, unp, net, asked, link, ended>>

(* Faulty variant of RunWritten: the new handler replaces the old one.     *)
RunWrittenOver ==
  /\ Run("written") /\ tasks' = Tail(tasks)
  /\ m_map' = IF Frame.type = "request"
                THEN {h \in m_map : h.id # Frame.reg} \cup {[id |-> Frame.reg, n |-> Frame.n]}
                ELSE m_map
  /\ UNCHANGED <<local, called, lost, m_wq, waiting, unp, other, answers, ended>>

(* The write handlers: a request that was written waits for its answer,    *)
(* but m_map.insert drops the handler if another has its identifier; a     *)
(* request that failed is dropped, and its handler with it.                *)
RunWritten ==
  /\ Run("written") /\ tasks' = Tail(tasks)
  /\ LET asks  == Frame.type = "request"
         taken == \E h \in m_map : h.id = Frame.reg
     IN  /\ m_map' = IF asks /\ ~taken THEN m_map \cup {[id |-> Frame.reg, n |-> Frame.n]}
                     ELSE m_map
         /\ lost' = IF asks /\ taken THEN lost \cup {Frame.n} ELSE lost
  /\ UNCHANGED <<local, called, m_wq, waiting, unp, other, answers, ended>>

RunWriteFailed ==
  /\ Run("failed") /\ tasks' = Tail(tasks)
  /\ lost' = IF Frame.type = "request" THEN lost \cup {Frame.n} ELSE lost
  /\ UNCHANGED <<local, called, m_map, m_wq, waiting, unp, other, answers, ended>>

-----------------------------------------------------------------------------
(* handle_response: the handler is called and erased, if there is one.     *)
HandleResponse(m) ==
  LET found == {h \in m_map : h.id = m.id}
  IN  /\ called' = called \cup {[n |-> h.n, re |-> m.n] : h \in found}
      /\ m_map' = m_map \ found

(* do_dispatch of a message: the next read is posted first; a known        *)
(* request posts its answer; an unknown one and a malformed message have   *)
(* no consequence.                                                         *)
Dispatch(m) ==
  /\ tasks' = Tail(tasks) \o <<Task("read", NoMessage)>> \o
       (IF m.type = "request" THEN <<Task("push", [m EXCEPT !.type = "response"])>> ELSE <<>>)
  /\ IF m.type = "response" THEN HandleResponse(m) ELSE UNCHANGED <<called, m_map>>
  /\ UNCHANGED <<m_wq, local, lost, waiting, other, answers, ended>>

(* The task of async_read; the reader's queue holds one read at most.      *)
RunRead ==
  /\ Run("read")
  /\ tasks' = Append(Tail(tasks), Task("parse", NoMessage))
  /\ UNCHANGED <<m_wq, caller, waiting, unp, other, answers, ended>>

(* async_read_msgpack: a message that is in the unpacker, or data.         *)
RunParse ==
  /\ Run("parse")
  /\ \/ unp # <<>> /\ unp' = Tail(unp) /\ Dispatch(Head(unp))
     \/ /\ unp = <<>>
        /\ waiting' = link
        /\ tasks' = Tail(tasks) \o (IF link THEN <<>> ELSE <<Task("error", NoMessage)>>)
        /\ UNCHANGED <<m_wq, caller, unp, other, answers, ended>>

(* The data that came completes some messages.                             *)
RunData ==
  /\ Run("data") /\ unp' = Tail(unp) /\ Dispatch(Head(unp))

(* do_dispatch of an error: the error handler is called, and nothing is    *)
(* read again; there is no object that would reach the requester.          *)
RunError ==
  /\ Run("error") /\ tasks' = Tail(tasks)
  /\ ended' = TRUE
  /\ UNCHANGED <<m_wq, caller, waiting, unp, other, answers>>

IoThread ==
  \/ RunPush \/ RunResume \/ RunWritten \/ RunWriteFailed
  \/ RunRead \/ RunParse \/ RunData \/ RunError

-----------------------------------------------------------------------------
(* A segment with some of the messages arrives.                            *)
Arrive ==
  /\ link /\ waiting /\ waiting' = FALSE
  /\ \E n \in 1..Len(net) :
       /\ unp' = unp \o SubSeq(net, 1, n)
       /\ net' = SubSeq(net, n + 1, Len(net))
  /\ tasks' = Append(tasks, Task("data", NoMessage))
  /\ UNCHANGED <<m_wq, caller, peer, asked, link, answers, ended>>

(* The connection breaks or is closed.                                     *)
Broken ==
  /\ link /\ link' = FALSE
  /\ waiting' = FALSE
  /\ tasks' = IF waiting THEN Append(tasks, Task("error", NoMessage)) ELSE tasks
  /\ UNCHANGED <<m_wq, caller, unp, net, peer, asked, answers, ended>>

(* The other end answers its oldest request, or does not know the command. *)
PeerHandles ==
  /\ peer # <<>> /\ peer' = Tail(peer)
  /\ net' \in {net, Append(net, [Head(peer) EXCEPT !.type = "response"])}
  /\ UNCHANGED <<tasks, m_wq, caller, waiting, unp, asked, link, answers, ended>>

PeerSends ==
  /\ More /\ asked < MaxAsked /\ asked' = asked + 1
  /\ \E type \in Types \ {"response"} :
       net' = Append(net, Made(type, asked + 1))
  /\ UNCHANGED <<tasks, m_wq, caller, waiting, unp, peer, link, answers, ended>>

Calls(t) == Capture(t) \/ Load(t) \/ Store(t)

Next ==
  \/ \E t \in Threads : Pack(t) \/ Calls(t)
  \/ IoThread \/ Arrive \/ Broken \/ PeerHandles \/ PeerSends

Spec == Init /\ [][Next]_vars

(* The io thread runs its tasks, data that came is read, and a call that   *)
(* has begun goes on.                                                      *)
Fairness ==
  /\ WF_vars(IoThread) /\ WF_vars(Arrive)
  /\ \A t \in Threads : WF_vars(Calls(t))

-----------------------------------------------------------------------------
(* The handler of a request is in one place: in the writer, waiting,       *)
(* called or dropped (asio_msgpack.hpp:351-407), also when two calls       *)
(* captured one identifier.                                                *)
InWriter(n) ==
  LET Is(m) == m.type = "request" /\ m.n = n
  IN  \/ \E t \in Threads : at[t] = "packed" /\ cur[t].n = n
      \/ \E i \in 1..Len(tasks) : Is(tasks[i].m)
      \/ \E i \in 1..Len(m_wq) : Is(m_wq[i])

Called(n) == \E c \in called : c.n = n

OneFate ==
  \A n \in 1..calls :
    Cardinality({p \in {"writer", "waiting", "called", "lost"} :
      CASE p = "writer" -> InWriter(n) [] p = "waiting" -> \E h \in m_map : h.n = n
        [] p = "called" -> Called(n) [] p = "lost" -> n \in lost}) = 1

(* As long as no two calls overlapped, a handler that is called gets the   *)
(* answer to its own request, and only a write that fails drops one        *)
(* (asio_msgpack.hpp:347-361).                                             *)
ReturnedUnlessRaced ==
  ~raced => /\ \A c \in called : c.re = c.n
            /\ link => lost = {}

(* The other end's requests are answered in the order it made them.        *)
AnswersInOrder == \A i, j \in 1..Len(answers) : i < j => answers[i] < answers[j]

(* The end of the connection calls no handler, and none is called after    *)
(* it: those that wait, wait for ever (asio_msgpack.hpp:510-519).          *)
NothingAfterEnd == [][ ended' => UNCHANGED called ]_vars

(* Until it ends, an answer that comes is given to its own handler, if no  *)
(* calls overlapped.                                                       *)
AnswerLeadsToCall ==
  \A n \in 1..MaxCalls :
    (\E i \in 1..Len(net) : net[i].type = "response" /\ net[i].n = n)
      ~> [n |-> n, re |-> n] \in called \/ ~link \/ raced
=============================================================================
