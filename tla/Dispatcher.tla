------------------------------ MODULE Dispatcher ------------------------------
(***************************************************************************)
(* The receiving half of a message_io_object: the reader with its          *)
(* unpacker, the dispatcher that reads one message after another, and the  *)
(* responser that runs the handlers and answers the requests.              *)
(*                                                                         *)
(* The dispatcher re-arms the reader BEFORE it looks at the message it     *)
(* got.  Re-arming posts a task, so messages that came in one segment are  *)
(* dispatched by one task each.  One io thread runs the tasks.             *)
(*                                                                         *)
(* Of the requester (module Requester) only the registration of handlers   *)
(* is here: the write handler of a request registers its handler when it   *)
(* runs, which may be after the connection has ended.                      *)
(***************************************************************************)
EXTENDS Integers, Sequences, FiniteSets, SequencesExt

CONSTANTS Messages,   \* what the peer may send: [type, op, id]
          MaxSent     \* bound: messages the peer sends

Types == {"request", "response", "post", "other", "malformed"}
Ops   == {"known", "failing", "unknown"}

ASSUME MessagesAssumption ==
  Messages \subseteq [type : Types, op : Ops, id : Nat]

(* The identifiers of this end's requests that the peer may answer.        *)
Asked == {m.id : m \in {n \in Messages : n.type = "response"}}

VARIABLES
  sent,        \* the messages the peer sent, in order (history)
  net,         \* those that are still on the way
  unp,         \* those in the unpacker, not dispatched yet
  reading,     \* "posted", "waiting" for data, "failed" or "none"
  sock,        \* this end's socket: "open" or "closed"
  link,        \* the connection: "up" or "down"
  asking,      \* asking[id]: how far the write of request id is: "made",
               \* "written" or "failed" (its handler has not run), "done"
  waiting,     \* identifiers the requester has a handler for
  late,        \* those registered after the reading had stopped (history)
  dispatched,  \* the messages dispatched, in order (history)
  answers,     \* the responses written: [id, result], in order
  closings     \* why the error handler was called, in order (history)

requests == <<asking, waiting, late>>
vars == <<sent, net, unp, reading, sock, link, requests, dispatched, answers,
          closings>>

(* The type invariant; a read waits for data only on an open socket.       *)
TypeOK ==
  /\ sent \in Seq(Messages) /\ net \in Seq(Messages) /\ unp \in Seq(Messages)
  /\ reading \in {"posted", "waiting", "failed", "none"}
  /\ sock \in {"open", "closed"} /\ link \in {"up", "down"}
  /\ asking \in [Asked -> {"made", "written", "failed", "done"}]
  /\ waiting \subseteq Asked /\ late \subseteq Asked
  /\ dispatched \in Seq(Messages)
  /\ answers \in Seq([id : Nat, result : {"value", "nil"}])
  /\ closings \in Seq({"protocol", "io"})
  /\ reading = "waiting" => sock = "open"

Init ==
  /\ sent = <<>> /\ net = <<>> /\ unp = <<>>
  /\ reading = "posted"          \* start() calls async_dispatch
  /\ sock = "open" /\ link = "up"
  /\ asking = [id \in Asked |-> "made"]
  /\ waiting = {} /\ late = {}
  /\ dispatched = <<>> /\ answers = <<>> /\ closings = <<>>

-----------------------------------------------------------------------------
PeerSends(m) ==
  /\ link = "up" /\ Len(sent) < MaxSent
  /\ sent' = Append(sent, m)
  /\ net' = Append(net, m)
  /\ UNCHANGED <<unp, reading, sock, link, requests, dispatched, answers,
                 closings>>

LinkFails ==
  /\ link = "up"
  /\ link' = "down"
  /\ UNCHANGED <<sent, net, unp, reading, sock, requests, dispatched, answers,
                 closings>>

(* close() from the console: its task closes the socket.                   *)
SocketClose ==
  /\ sock = "open"
  /\ sock' = "closed"
  /\ reading' = IF reading = "waiting" THEN "failed" ELSE reading
  /\ UNCHANGED <<sent, net, unp, link, requests, dispatched, answers, closings>>

(* async_read_some completes with the last bytes of the next n messages,   *)
(* or with an error.  (A segment that completes no message only makes the  *)
(* reader wait again.)  When the connection went down, what is on the way  *)
(* may still arrive or not.                                                *)
Receive ==
  /\ reading = "waiting"
  /\ \/ \E n \in 1..Len(net) :
          /\ unp' = unp \o SubSeq(net, 1, n)
          /\ net' = SubSeq(net, n + 1, Len(net))
          /\ reading' = "posted"
     \/ /\ link = "down"
        /\ reading' = "failed"
        /\ UNCHANGED <<unp, net>>
  /\ UNCHANGED <<sent, sock, link, requests, dispatched, answers, closings>>

(* The writer is done with the frame of request id: it was written, or the *)
(* write failed, as it does on a closed socket.                            *)
FrameWritten(id) ==
  /\ asking[id] = "made"
  /\ \E how \in {"written", "failed"} :
       /\ how = "written" => sock = "open"
       /\ how = "failed"  => sock = "closed" \/ link = "down"
       /\ asking' = [asking EXCEPT ![id] = how]
  /\ UNCHANGED <<sent, net, unp, reading, sock, link, waiting, late, dispatched,
                 answers, closings>>

(* Its write handler registers the handler of the response.                *)
RunWritten(id) ==
  /\ asking[id] = "written"
  /\ asking' = [asking EXCEPT ![id] = "done"]
  /\ waiting' = waiting \cup {id}
  /\ late' = IF reading = "none" THEN late \cup {id} ELSE late
  /\ UNCHANGED <<sent, net, unp, reading, sock, link, dispatched, answers, closings>>

(* The write handler after an error: request drops the handler,            *)
(* request_raw closes the requester besides.                               *)
RunWriteFailed(id) ==
  /\ asking[id] = "failed"
  /\ asking' = [asking EXCEPT ![id] = "done"]
  /\ waiting' \in {waiting, {}}
  /\ UNCHANGED <<sent, net, unp, reading, sock, link, late, dispatched, answers,
                 closings>>

(* The requester is closed and the error handler closes the socket         *)
(* (session::do_exit, client::do_exit).                                    *)
DoClose(why) ==
  /\ waiting' = {}
  /\ closings' = Append(closings, why)
  /\ sock' = "closed"

(* Faulty variant of HandleRequest: an unknown command is answered too.    *)
HandleRequestAll(m) ==
  answers' = Append(answers, [id |-> m.id,
                              result |-> IF m.op = "known" THEN "value" ELSE "nil"])

(* handle_request: run the command's handler and write its result, or nil  *)
(* when it throws; an unknown command is not answered at all.              *)
HandleRequest(m) ==
  answers' = IF m.op = "unknown" THEN answers
             ELSE Append(answers,
                    [id |-> m.id,
                     result |-> IF m.op = "known" THEN "value" ELSE "nil"])

(* handle_post runs the command's handler, and catches what it throws.     *)
HandlePost(m) == UNCHANGED <<answers, waiting>>

(* handle_response: the handler is called and erased (module Requester).   *)
HandleResponse(m) == waiting' = waiting \ {m.id}

(* do_dispatch of message m, but for the re-arming.  A type the switch     *)
(* does not name is ignored.                                               *)
Dispatch(m) ==
  /\ dispatched' = Append(dispatched, m)
  /\ \/ /\ m.type = "malformed"
        /\ DoClose("protocol")
        /\ UNCHANGED answers
     \/ /\ m.type = "request"
        /\ HandleRequest(m)
        /\ UNCHANGED <<waiting, closings, sock>>
     \/ /\ m.type = "response"
        /\ HandleResponse(m)
        /\ UNCHANGED <<answers, closings, sock>>
     \/ /\ m.type = "post"
        /\ HandlePost(m)
        /\ UNCHANGED <<closings, sock>>
     \/ /\ m.type = "other"
        /\ UNCHANGED <<answers, waiting, closings, sock>>

(* Faulty variants of RunRead: the reader is not re-armed; the newest      *)
(* message goes first, as it would if re-arming called the dispatcher      *)
(* instead of posting to it; the read is started on a closed socket.       *)
RunReadOnce ==
  /\ reading = "posted" /\ unp # <<>>
  /\ Dispatch(Head(unp))
  /\ unp' = Tail(unp)
  /\ reading' = "none"
  /\ UNCHANGED <<sent, net, link, asking, late>>

RunReadNested ==
  /\ reading = "posted"
  /\ IF unp # <<>>
       THEN /\ Dispatch(Last(unp))
            /\ unp' = Front(unp)
            /\ UNCHANGED reading
       ELSE /\ reading' = IF sock = "open" THEN "waiting" ELSE "failed"
            /\ UNCHANGED <<unp, dispatched, answers, waiting, closings, sock>>
  /\ UNCHANGED <<sent, net, link, asking, late>>

RunReadBlind ==
  /\ reading = "posted"
  /\ IF unp # <<>>
       THEN /\ Dispatch(Head(unp))
            /\ unp' = Tail(unp)
            /\ UNCHANGED reading
       ELSE /\ reading' = "waiting"
            /\ UNCHANGED <<unp, dispatched, answers, waiting, closings, sock>>
  /\ UNCHANGED <<sent, net, link, asking, late>>

(* The reader's task: dispatch the next message of the unpacker (and read  *)
(* on), or wait for data, which fails at once on a closed socket.          *)
RunRead ==
  /\ reading = "posted"
  /\ IF unp # <<>>
       THEN /\ Dispatch(Head(unp))
            /\ unp' = Tail(unp)
            /\ UNCHANGED reading
       ELSE /\ reading' = IF sock = "open" THEN "waiting" ELSE "failed"
            /\ UNCHANGED <<unp, dispatched, answers, waiting, closings, sock>>
  /\ UNCHANGED <<sent, net, link, asking, late>>

(* Faulty variant of RunFailed: the requester is not closed.               *)
RunFailedForgetful ==
  /\ reading = "failed"
  /\ reading' = "none"
  /\ closings' = Append(closings, "io")
  /\ sock' = "closed"
  /\ UNCHANGED <<sent, net, unp, link, requests, dispatched, answers>>

(* do_dispatch with an error: nothing is read again.                       *)
RunFailed ==
  /\ reading = "failed"
  /\ reading' = "none"
  /\ DoClose("io")
  /\ UNCHANGED <<sent, net, unp, link, asking, late, dispatched, answers>>

Next ==
  \/ \E m \in Messages : PeerSends(m)
  \/ LinkFails \/ SocketClose
  \/ \E id \in Asked : FrameWritten(id) \/ RunWritten(id) \/ RunWriteFailed(id)
  \/ Receive \/ RunRead \/ RunFailed

Spec == Init /\ [][Next]_vars

(* The io thread runs its tasks and the socket reports what has arrived.   *)
Fairness == WF_vars(RunRead) /\ WF_vars(RunFailed) /\ WF_vars(Receive)

FairSpec == Spec /\ Fairness

-----------------------------------------------------------------------------
(* Messages are dispatched in the order they were sent, each once, however *)
(* many arrive in one segment and although the reader is re-armed before   *)
(* the message in hand is looked at.                                       *)
DispatchedInOrder == dispatched \o unp \o net = sent

Answered(m) == m.type = "request" /\ m.op # "unknown"

(* The answer to request m.                                                *)
AnswerTo(m) == [id |-> m.id, result |-> IF m.op = "known" THEN "value" ELSE "nil"]

(* The requests that have a handler are answered in the order they came,   *)
(* each once, with its own identifier and nil exactly when its handler     *)
(* threw; nothing else is answered: the i-th answer is that of the         *)
(* of[i]-th message dispatched.                                            *)
AnswersMatchRequests ==
  \E of \in [1..Len(answers) -> 1..Len(dispatched)] :
    /\ \A i, j \in 1..Len(answers) : i < j => of[i] < of[j]
    /\ \A k \in 1..Len(dispatched) :
         Answered(dispatched[k]) <=> \E i \in 1..Len(answers) : of[i] = k
    /\ \A i \in 1..Len(answers) : answers[i] = AnswerTo(dispatched[of[i]])

(* Once the dispatcher has stopped reading, the socket is closed and every *)
(* handler that had been registered by then was called: the only ones that *)
(* still wait are those whose request's write handler ran later            *)
(* (requester.hpp:42, 108), which no response can reach any more.          *)
QuietWhenStopped == reading = "none" => sock = "closed" /\ waiting \subseteq late

(* The error handler is called for an io error at most once, and it is the *)
(* last one: a connection ends once.                                       *)
IoErrorIsLast ==
  \A i \in 1..Len(closings) :
    closings[i] = "io" => i = Len(closings) /\ reading = "none"

(* A message the peer sent is dispatched in the end, unless the connection *)
(* ends first.                                                             *)
EverythingDispatched ==
  \A k \in 1..MaxSent :
    Len(sent) >= k ~> Len(dispatched) >= k \/ closings # <<>>
=============================================================================
