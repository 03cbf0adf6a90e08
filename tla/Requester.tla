------------------------------ MODULE Requester ------------------------------
(***************************************************************************)
(* One end's requester: the identifiers it packs into its messages, the    *)
(* handlers it keeps for the responses, and the way each handler ends.     *)
(*                                                                         *)
(* request, request_raw, post and post_raw are called from the thread that *)
(* reads the console ("main") and from the handlers that the io thread     *)
(* runs ("io").  Nothing synchronises the two on m_id, so a call is the    *)
(* three accesses it makes: pack the identifier, capture it in the write   *)
(* handler, increment it (a load and a store).                             *)
(*                                                                         *)
(* The rest is the environment as this end sees it: the writer (an ordered *)
(* stream of frames, module QueuedWriter), the peer's responser, which     *)
(* answers requests in order and does not answer an unknown command, the   *)
(* peer's own raw posts, and the connection.  The io thread runs           *)
(* completions in the order they became ready.                             *)
(*                                                                         *)
(* post_raw packs the message type 2, which the dispatcher takes for a     *)
(* response: a raw post of the peer (the hint client's do_write) reaches   *)
(* this end's handle_response under an identifier of the peer's counting.  *)
(***************************************************************************)
EXTENDS Integers, Sequences, FiniteSets

CONSTANTS Threads,   \* the calling threads
          Kinds,     \* Kinds[t]: the operations that thread t calls
          MaxCalls,  \* bound: the number of calls in a behaviour
          PeerIds,   \* identifiers the peer's raw posts may carry; {} for a
                     \* peer that makes none
          MaxPosts   \* bound: the number of the peer's raw posts

Requests == {"request", "request_raw"}
AllKinds == Requests \cup {"post", "post_raw"}

ASSUME ThreadsAssumption == "io" \in Threads
ASSUME KindsAssumption == Kinds \in [Threads -> SUBSET AllKinds]
ASSUME MaxCallsAssumption == MaxCalls \in Nat
ASSUME PeerIdsAssumption == PeerIds \subseteq Nat
ASSUME MaxPostsAssumption == MaxPosts \in Nat

VARIABLES
  m_id,      \* the next identifier
  m_map,     \* identifier -> the call whose handler waits for a response
  calls,     \* the number of calls begun; a call is named by its number
  asked,     \* the calls that are requests (history)
  pc,        \* pc[t]: how far thread t is in its call
  cur,       \* cur[t]: the call of thread t; reg is its register
  writes,    \* the frames in the writer, oldest first
  ready,     \* completions the io thread has not run yet, oldest first
  peer,      \* the requests the peer has received and not handled
  back,      \* the responses, and what passes for one, on their way back
  conn,      \* "open", "broken" (not noticed yet) or "closed"
  results,   \* results[n]: what the handler of call n was called with, in
             \* order: 0 for an error, the call that was answered, or
             \* Foreign for a raw post of the peer (history)
  lost,      \* the calls whose handler was dropped uncalled (history)
  handled,   \* the calls whose response was dispatched here (history)
  posted,    \* the raw posts the peer has made (history)
  raced      \* a call began while another thread was in one (history)

local  == <<m_id, calls, asked, pc, cur, raced>>
vars   == <<m_id, m_map, calls, asked, pc, cur, writes, ready, peer, back, conn,
            results, lost, handled, posted, raced>>

CallIds == 1..MaxCalls
Foreign == -1   \* stands for the content of a raw post: it answers no call
Call    == [n : CallIds, kind : AllKinds, pid : Nat, reg : Nat]
Message == [id : Nat, re : CallIds \cup {Foreign}]
Ready   == [what : {"written"}, call : Call, ok : BOOLEAN]
             \cup [what : {"response"}, msg : Message]
             \cup [what : {"error"}]

(* The type invariant of the requester and its environment.                *)
TypeOK ==
  /\ m_id \in Nat
  /\ calls \in 0..MaxCalls
  /\ asked \subseteq 1..calls
  /\ DOMAIN m_map \subseteq Nat
  /\ \A id \in DOMAIN m_map : m_map[id] \in CallIds
  /\ pc \in [Threads -> {"idle", "packed", "queued", "loaded"}]
  /\ \A t \in Threads : pc[t] # "idle" => cur[t] \in Call
  /\ writes \in Seq(Call)
  /\ ready \in Seq(Ready)
  /\ peer \in Seq(Message)
  /\ back \in Seq(Message)
  /\ conn \in {"open", "broken", "closed"}
  /\ results \in [CallIds -> Seq(Foreign..MaxCalls)]
  /\ lost \subseteq CallIds
  /\ handled \subseteq CallIds
  /\ posted \in 0..MaxPosts
  /\ raced \in BOOLEAN

NoCall == [n |-> 0, kind |-> "post", pid |-> 0, reg |-> 0]

Init ==
  /\ m_id = 1
  /\ m_map = <<>>
  /\ calls = 0 /\ asked = {}
  /\ pc = [t \in Threads |-> "idle"]
  /\ cur = [t \in Threads |-> NoCall]
  /\ writes = <<>> /\ ready = <<>> /\ peer = <<>> /\ back = <<>>
  /\ conn = "open"
  /\ results = [n \in CallIds |-> <<>>]
  /\ lost = {} /\ handled = {} /\ posted = 0 /\ raced = FALSE

-----------------------------------------------------------------------------
(* A call, access by access.                                               *)

(* pack_fix_uint64(m_id)                                                   *)
Pack(t, kind) ==
  /\ pc[t] = "idle" /\ calls < MaxCalls
  /\ kind \in Kinds[t]
  /\ calls' = calls + 1
  /\ asked' = IF kind \in Requests THEN asked \cup {calls + 1} ELSE asked
  /\ cur' = [cur EXCEPT ![t] = [n |-> calls + 1, kind |-> kind,
                                pid |-> m_id, reg |-> 0]]
  /\ pc' = [pc EXCEPT ![t] = "packed"]
  /\ raced' = (raced \/ \E u \in Threads \ {t} : pc[u] # "idle")
  /\ UNCHANGED <<m_id, m_map, writes, ready, peer, back, conn, results, lost,
                 handled, posted>>

(* Faulty variant of Enqueue: the handler's identifier is one too high, as *)
(* if m_id were incremented before the capture.                            *)
EnqueueLate(t) ==
  /\ pc[t] = "packed"
  /\ writes' = Append(writes, [cur[t] EXCEPT !.reg = m_id + 1])
  /\ pc' = [pc EXCEPT ![t] = "queued"]
  /\ UNCHANGED <<m_id, m_map, calls, asked, cur, ready, peer, back, conn, results,
                 lost, handled, posted, raced>>

(* m_qw.async_write(..., [..., id = m_id] ...)                             *)
Enqueue(t) ==
  /\ pc[t] = "packed"
  /\ writes' = Append(writes, [cur[t] EXCEPT !.reg = m_id])
  /\ pc' = [pc EXCEPT ![t] = "queued"]
  /\ UNCHANGED <<m_id, m_map, calls, asked, cur, ready, peer, back, conn, results,
                 lost, handled, posted, raced>>

(* ++m_id, its load and its store                                          *)
Load(t) ==
  /\ pc[t] = "queued"
  /\ cur' = [cur EXCEPT ![t].reg = m_id]
  /\ pc' = [pc EXCEPT ![t] = "loaded"]
  /\ UNCHANGED <<m_id, m_map, calls, asked, writes, ready, peer, back, conn,
                 results, lost, handled, posted, raced>>

Store(t) ==
  /\ pc[t] = "loaded"
  /\ m_id' = cur[t].reg + 1
  /\ pc' = [pc EXCEPT ![t] = "idle"]
  /\ UNCHANGED <<m_map, calls, asked, cur, writes, ready, peer, back, conn,
                 results, lost, handled, posted, raced>>

-----------------------------------------------------------------------------
(* The writer, the peer and the connection.                                *)

(* The oldest frame is written, or its write fails.  A broken connection   *)
(* that nobody has noticed may still accept it.                            *)
Write ==
  /\ writes # <<>>
  /\ LET c == Head(writes)
     IN  \E ok \in CASE conn = "open" -> {TRUE}
                     [] conn = "broken" -> BOOLEAN
                     [] conn = "closed" -> {FALSE} :
           /\ ready' = Append(ready, [what |-> "written", call |-> c, ok |-> ok])
           /\ peer' = IF conn = "open" /\ c.kind \in Requests
                        THEN Append(peer, [id |-> c.pid, re |-> c.n])
                        ELSE peer
  /\ writes' = Tail(writes)
  /\ UNCHANGED <<local, m_map, back, conn, results, lost, handled, posted>>

(* The peer's responser handles the oldest request: it answers with the    *)
(* request's identifier, or finds no handler for the command and drops it. *)
PeerHandles ==
  /\ peer # <<>>
  /\ peer' = Tail(peer)
  /\ back' \in {back, Append(back, Head(peer))}
  /\ UNCHANGED <<local, m_map, writes, ready, conn, results, lost, handled, posted>>

(* The peer calls post_raw: the message has the type of a response and the *)
(* identifier that the peer's own counter has reached.                     *)
PeerPosts ==
  /\ conn = "open" /\ posted < MaxPosts
  /\ \E id \in PeerIds : back' = Append(back, [id |-> id, re |-> Foreign])
  /\ posted' = posted + 1
  /\ UNCHANGED <<local, m_map, writes, ready, peer, conn, results, lost, handled>>

Arrive ==
  /\ conn = "open" /\ back # <<>>
  /\ ready' = Append(ready, [what |-> "response", msg |-> Head(back)])
  /\ back' = Tail(back)
  /\ UNCHANGED <<local, m_map, writes, peer, conn, results, lost, handled, posted>>

(* The connection breaks: the pending read completes with an error.        *)
Break ==
  /\ conn = "open"
  /\ conn' = "broken"
  /\ ready' = Append(ready, [what |-> "error"])
  /\ UNCHANGED <<local, m_map, writes, peer, back, results, lost, handled, posted>>

-----------------------------------------------------------------------------
(* The io thread.                                                          *)

(* The io thread is between two tasks, and the oldest completion is what.  *)
IoRuns(what) ==
  /\ pc["io"] = "idle"
  /\ ready # <<>>
  /\ Head(ready).what = what
  /\ ready' = Tail(ready)

(* Faulty variant of Without: the handler is cleared, its entry stays.     *)
WithoutValue(map, id) == [i \in DOMAIN map |-> IF i = id THEN 0 ELSE map[i]]

(* map without its entry for id (erase), and with a new one for an         *)
(* identifier it does not have (insert).                                   *)
Without(map, id) == [i \in DOMAIN map \ {id} |-> map[i]]
With(map, id, n) == [i \in DOMAIN map \cup {id} |-> IF i = id THEN n ELSE map[i]]

(* Every waiting handler is called with the error.                         *)
CallWaiting ==
  results' = [n \in CallIds |-> results[n] \o
                [i \in 1..Cardinality({id \in DOMAIN m_map : m_map[id] = n}) |-> 0]]

(* Faulty variant of Close: the handlers are called and kept.              *)
CloseKeeping == CallWaiting /\ m_map' = m_map

(* close(ec)                                                               *)
Close == CallWaiting /\ m_map' = <<>>

(* Faulty variant of RunWritten: the new handler replaces the old one.     *)
RunWrittenOver ==
  /\ IoRuns("written") /\ Head(ready).ok
  /\ LET c == Head(ready).call
     IN  m_map' = IF c.kind \in Requests THEN With(m_map, c.reg, c.n) ELSE m_map
  /\ UNCHANGED <<local, writes, peer, back, conn, results, lost, handled, posted>>

(* The write handler of a request that was written: m_map.insert keeps the *)
(* handler it already has for the identifier and drops the new one.        *)
RunWritten ==
  /\ IoRuns("written") /\ Head(ready).ok
  /\ LET c     == Head(ready).call
         taken == c.reg \in DOMAIN m_map
     IN  /\ m_map' = IF c.kind \in Requests /\ ~taken
                       THEN With(m_map, c.reg, c.n) ELSE m_map
         /\ lost' = IF c.kind \in Requests /\ taken
                      THEN lost \cup {c.n} ELSE lost
  /\ UNCHANGED <<local, writes, peer, back, conn, results, handled, posted>>

(* The write handler after an error: the handler of the request is dropped *)
(* uncalled, and the raw variants close the requester.                     *)
RunWriteFailed ==
  /\ IoRuns("written") /\ ~Head(ready).ok
  /\ LET c == Head(ready).call
     IN  /\ lost' = IF c.kind \in Requests THEN lost \cup {c.n} ELSE lost
         /\ IF c.kind \in {"request_raw", "post_raw"}
              THEN Close
              ELSE UNCHANGED <<m_map, results>>
  /\ UNCHANGED <<local, writes, peer, back, conn, handled, posted>>

(* Faulty variant of RunResponse: the handler is erased and not called.    *)
RunResponseForgets ==
  /\ IoRuns("response")
  /\ handled' = handled \cup ({Head(ready).msg.re} \cap CallIds)
  /\ m_map' = Without(m_map, Head(ready).msg.id)
  /\ UNCHANGED <<local, writes, peer, back, conn, results, lost, posted>>

(* handle_response: call the handler that waits under the identifier, then *)
(* erase it; a response nobody waits for is a mismatch and is dropped.     *)
RunResponse ==
  /\ IoRuns("response")
  /\ LET msg == Head(ready).msg
     IN  /\ handled' = handled \cup ({msg.re} \cap CallIds)
         /\ IF msg.id \in DOMAIN m_map
              THEN /\ results' = [results EXCEPT ![m_map[msg.id]] = Append(@, msg.re)]
                   /\ m_map' = Without(m_map, msg.id)
              ELSE UNCHANGED <<results, m_map>>
  /\ UNCHANGED <<local, writes, peer, back, conn, lost, posted>>

(* do_dispatch with an error: close the requester; the error handler       *)
(* closes the socket, and nothing reads from it again.                     *)
RunError ==
  /\ IoRuns("error")
  /\ Close
  /\ conn' = "closed"
  /\ UNCHANGED <<local, writes, peer, back, lost, handled, posted>>

Next ==
  \/ \E t \in Threads, kind \in AllKinds : Pack(t, kind)
  \/ \E t \in Threads : Enqueue(t) \/ Load(t) \/ Store(t)
  \/ Write \/ PeerHandles \/ PeerPosts \/ Arrive \/ Break
  \/ RunWritten \/ RunWriteFailed \/ RunResponse \/ RunError

Spec == Init /\ [][Next]_vars

(* A call that has begun goes on, the writer and the io thread keep        *)
(* working.  Nothing makes a caller call, the peer answer or a connection  *)
(* break.                                                                  *)
Fairness ==
  /\ \A t \in Threads : WF_vars(Enqueue(t) \/ Load(t) \/ Store(t))
  /\ WF_vars(Write) /\ WF_vars(Arrive)
  /\ WF_vars(RunWritten) /\ WF_vars(RunWriteFailed)
  /\ WF_vars(RunResponse) /\ WF_vars(RunError)

FairSpec == Spec /\ Fairness

-----------------------------------------------------------------------------
Called(n) == results[n] # <<>>
Waiting(n) == \E id \in DOMAIN m_map : m_map[id] = n
InWriter(n) ==
  \/ \E t \in Threads : pc[t] = "packed" /\ cur[t].n = n
  \/ \E i \in 1..Len(writes) : writes[i].n = n
  \/ \E i \in 1..Len(ready) : ready[i].what = "written" /\ ready[i].call.n = n

(* No handler is called twice, whether by a response, by close after an    *)
(* error, or by both, and whatever the threads do to m_id.                 *)
CalledAtMostOnce == \A n \in CallIds : Len(results[n]) <= 1

(* What a request has come to: the abstract requests' fate.                *)
CalledWith(n) ==
  CASE results[n] = <<0>>   -> "error"
    [] results[n] = <<n>>   -> "answered"
    [] results[n] = <<Foreign>> -> "posted"
    [] Len(results[n]) > 1  -> "called twice"
    [] OTHER                -> "misled"

Fate(n) ==
  IF n \notin asked THEN "none"
  ELSE IF Called(n) THEN CalledWith(n)
  ELSE IF n \in lost THEN "dropped"
  ELSE IF Waiting(n) THEN "waiting" ELSE "made"

Fates ==
  INSTANCE RequestFates WITH
    fate <- [n \in CallIds |-> Fate(n)], broken <- conn # "open",
    posted <- posted > 0, raced <- raced

(* The requester implements RequestFates: a handler is called once, with   *)
(* the answer to its own request or with an error once the connection      *)
(* broke, or with a raw post of the peer, if the peer made one; only a     *)
(* broken connection and a race on m_id drop a handler, and only the race  *)
(* gives it the answer to another request.                                 *)
KeepsFates == Fates!Spec

(* The handler of a request is in exactly one place: still in the writer,  *)
(* waiting in m_map, called, or lost.  So a handler that is never called   *)
(* was dropped by a write error or by a taken identifier, or waits for     *)
(* ever; none disappears in any other way.                                 *)
OnePlace ==
  \A n \in asked :
    /\ InWriter(n) => ~Waiting(n) /\ ~Called(n) /\ n \notin lost
    /\ Waiting(n)  => ~Called(n) /\ n \notin lost
    /\ Called(n)   => n \notin lost
    /\ InWriter(n) \/ Waiting(n) \/ Called(n) \/ n \in lost

(* The response to a request is returned to the handler registered for it  *)
(* (README.org:119): a response that was dispatched reached its own        *)
(* handler, unless that handler had been called with an error before.      *)
ResponseReturned ==
  /\ \A n \in CallIds : \A i \in 1..Len(results[n]) : results[n][i] \in {0, n}
  /\ \A n \in handled : Called(n)

(* The same, but for the raw posts of the peer: a handler that was not     *)
(* called with its own answer or an error was called with such a post      *)
(* (requester.hpp:117, dispatcher.hpp:73), and the peer has made one.      *)
ReturnedUnlessPosted ==
  /\ \A n \in CallIds : \A i \in 1..Len(results[n]) :
       results[n][i] \in {0, n} \/ (results[n][i] = Foreign /\ posted > 0)
  /\ \A n \in handled : Called(n)

(* Besides the raw posts only a race on m_id breaks the promise            *)
(* (requester.hpp:96, 102, 111): as long as no call began while another    *)
(* thread was in one, a handler gets its own answer, an error or a raw     *)
(* post of the peer, whoever calls, wherever the connection breaks and     *)
(* however the handlers' posts come between the console's requests.        *)
ReturnedUnlessRaced == ~raced => ReturnedUnlessPosted

(* A response that reaches this end leads to a call of its handler.        *)
ResponseLeadsToCall ==
  \A n \in CallIds :
    (\E i \in 1..Len(back) : back[i].re = n) ~> (Called(n) \/ conn # "open")
=============================================================================
