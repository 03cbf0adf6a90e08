------------------------------ MODULE MCTransport ------------------------------
(***************************************************************************)
(* Finite instances of the parts between a program and its connection, in  *)
(* one run: the dispatcher with the reader and the responser, the writer   *)
(* with frames of one transfer, and the requester with one calling thread. *)
(* A behaviour is a behaviour of one of them, which the initial state      *)
(* chooses, and the variables of the others stay as they are.              *)
(***************************************************************************)
EXTENDS Dispatcher

VARIABLES
  part,    \* the part that runs
  \* QueuedWriter
  submitted, posted, m_wq, sockq, left, completed, wire, called, open,
  \* Requester
  m_id, m_map, calls, asked, pc, cur, writes, ready, peer, back, conn, results, lost,
  handled, peerPosts, raced

Msg(t, o, i) == [type |-> t, op |-> o, id |-> i]

(* One message of each kind the dispatcher and the responser tell apart.   *)
AllMessages ==
  {Msg("request", "known", 1), Msg("request", "failing", 2),
   Msg("request", "unknown", 3), Msg("response", "known", 1),
   Msg("post", "known", 4), Msg("other", "known", 5),
   Msg("malformed", "known", 6)}

(* Every frame fits one transfer.                                          *)
MCFrames == {"put_image", "login", "reply"}

Writer ==
  INSTANCE QueuedWriter WITH
    Frames <- MCFrames, Units <- [f \in MCFrames |-> 1], Resume <- "resume"

(* Every operation is called, by the console's thread only.                *)
BothThreads == {"main", "io"}

Caller ==
  INSTANCE Requester WITH
    Threads <- BothThreads, MaxCalls <- 2, PeerIds <- {1, 2}, MaxPosts <- 1,
    posted <- peerPosts,
    Kinds <- [t \in BothThreads |->
                IF t = "main" THEN {"request", "request_raw", "post", "post_raw"} ELSE {}]

dispatcher_vars == vars
writer_vars ==
  <<submitted, posted, m_wq, sockq, left, completed, wire, called, open>>
caller_vars ==
  <<m_id, m_map, calls, asked, pc, cur, writes, ready, peer, back, conn, results, lost,
    handled, peerPosts, raced>>

TransportInit ==
  /\ part \in {"dispatcher", "writer", "requester"}
  /\ Init /\ Writer!Init /\ Caller!Init

TransportNext ==
  \/ /\ part = "dispatcher" /\ Next
     /\ UNCHANGED <<part, writer_vars, caller_vars>>
  \/ /\ part = "writer" /\ Writer!Next
     /\ UNCHANGED <<part, dispatcher_vars, caller_vars>>
  \/ /\ part = "requester" /\ Caller!Next
     /\ UNCHANGED <<part, dispatcher_vars, writer_vars>>

DispatcherRuns == part = "dispatcher"
CallerRuns     == part = "requester"

(* The fairness of each part, while it is the one that runs; the writer    *)
(* needs none for its order.                                               *)
TransportFairness ==
  /\ WF_dispatcher_vars(DispatcherRuns /\ RunRead)
  /\ WF_dispatcher_vars(DispatcherRuns /\ RunFailed)
  /\ WF_dispatcher_vars(DispatcherRuns /\ Receive)
  /\ \A t \in BothThreads :
       WF_caller_vars(CallerRuns /\ (Caller!Enqueue(t) \/ Caller!Load(t) \/ Caller!Store(t)))
  /\ WF_caller_vars(CallerRuns /\ Caller!Write) /\ WF_caller_vars(CallerRuns /\ Caller!Arrive)
  /\ WF_caller_vars(CallerRuns /\ Caller!RunWritten)
  /\ WF_caller_vars(CallerRuns /\ Caller!RunWriteFailed)
  /\ WF_caller_vars(CallerRuns /\ Caller!RunResponse)
  /\ WF_caller_vars(CallerRuns /\ Caller!RunError)

TransportSpec ==
  /\ TransportInit
  /\ [][TransportNext]_<<part, dispatcher_vars, writer_vars, caller_vars>>
  /\ TransportFairness

-----------------------------------------------------------------------------
(* The property that QueuedWriter states of frames of one transfer.        *)
InOrder == Writer!InOrder

(* The property that Requester states of a connection that stays open.     *)
ResponseLeadsToCall == Caller!ResponseLeadsToCall
=============================================================================
