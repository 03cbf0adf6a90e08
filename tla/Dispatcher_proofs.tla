--------------------------- MODULE Dispatcher_proofs ---------------------------
(* Theorems about the dispatcher, for every set of messages and every      *)
(* number of them.                                                         *)
EXTENDS Dispatcher, SequenceTheorems, TLAPS

IInv ==
  /\ TypeOK
  /\ DispatchedInOrder
  /\ AnswersMatchRequests
  /\ QuietWhenStopped
  /\ IoErrorIsLast

Answer == [id : Nat, result : {"value", "nil"}]

(* One instance of the associativity of concatenation, named so that the   *)
(* provers are given just the instances that are needed.                   *)
Associates(s, t, v) == (s \o t) \o v = s \o (t \o v)

(* Every such instance holds for sequences of messages.                    *)
LEMMA Associative == \A s, t, v \in Seq(Messages) : Associates(s, t, v)
<1> TAKE s, t, v \in Seq(Messages)
<1> QED BY ConcatAssociative DEF Associates

(* Moving elements along three queues that are read one after the other    *)
(* does not change what they hold together.                                *)
LEMMA Regroup ==
  \A d, u, a, b \in Seq(Messages) : d \o (u \o a) \o b = d \o u \o (a \o b)
<1> TAKE d, u, a, b \in Seq(Messages)
<1>1. u \o a \in Seq(Messages) /\ a \o b \in Seq(Messages)
  BY ConcatProperties
<1>2. Associates(d, u \o a, b) /\ Associates(d, u, a \o b) /\ Associates(u, a, b)
  BY <1>1, Associative
<1> QED BY <1>2, Zenon DEF Associates

(* Taking a segment of n messages from the way into the unpacker moves no  *)
(* message past another.                                                   *)
LEMMA MoveSegment ==
  ASSUME NEW d \in Seq(Messages), NEW u \in Seq(Messages), NEW w \in Seq(Messages),
         NEW n \in 1..Len(w)
  PROVE  d \o (u \o SubSeq(w, 1, n)) \o SubSeq(w, n + 1, Len(w)) = d \o u \o w
<1>1. \A a, b \in Seq(Messages) : d \o (u \o a) \o b = d \o u \o (a \o b)
  BY Regroup
<1>2. SubSeq(w, 1, n) \in Seq(Messages) /\ SubSeq(w, n + 1, Len(w)) \in Seq(Messages)
  BY SubSeqProperties
<1>3. SubSeq(w, 1, n) \o SubSeq(w, n + 1, Len(w)) = SubSeq(w, 1, Len(w))
  BY 1 \in 1..Len(w) + 1, n \in (1 - 1)..Len(w), Len(w) \in n..Len(w),
     ConcatAdjacentSubSeq
<1>4. SubSeq(w, 1, Len(w)) = w
  BY SubSeqFull
<1>5. d \o (u \o SubSeq(w, 1, n)) \o SubSeq(w, n + 1, Len(w))
        = d \o u \o (SubSeq(w, 1, n) \o SubSeq(w, n + 1, Len(w)))
  BY <1>1, <1>2, Zenon
<1> QED BY <1>3, <1>4, <1>5, Zenon

(* Nor does dispatching the first message of the unpacker.                 *)
LEMMA MoveHead ==
  ASSUME NEW d \in Seq(Messages), NEW u \in Seq(Messages), NEW w \in Seq(Messages), u # <<>>
  PROVE  Append(d, Head(u)) \o Tail(u) \o w = d \o u \o w
<1>1. Append(d, Head(u)) \o Tail(u) = d \o u
  OBVIOUS
<1> QED BY <1>1

(* A message that is sent is the last of all.                              *)
LEMMA SendAtEnd ==
  ASSUME NEW d \in Seq(Messages), NEW u \in Seq(Messages), NEW w \in Seq(Messages), NEW m \in Messages
  PROVE  d \o u \o Append(w, m) = Append(d \o u \o w, m)
<1>1. d \o u \in Seq(Messages)
  OBVIOUS
<1>2. \A a \in Seq(Messages) : a \o Append(w, m) = Append(a \o w, m)
  OBVIOUS
<1> QED BY <1>1, <1>2

(* What of relates: the answers, in order, to the messages they answer.    *)
Answers(of, a, d) ==
  /\ of \in [1..Len(a) -> 1..Len(d)]
  /\ \A i, j \in 1..Len(a) : i < j => of[i] < of[j]
  /\ \A k \in 1..Len(d) : Answered(d[k]) <=> \E i \in 1..Len(a) : of[i] = k
  /\ \A i \in 1..Len(a) : a[i] = AnswerTo(d[of[i]])

(* A message that is dispatched and not answered changes no answer.        *)
LEMMA NotAnswered ==
  ASSUME NEW a \in Seq(Answer), NEW d \in Seq(Messages), NEW m \in Messages,
         ~Answered(m), NEW of, Answers(of, a, d)
  PROVE  Answers(of, a, Append(d, m))
<1> DEFINE e == Append(d, m)
<1>1. /\ Len(d) \in Nat /\ Len(a) \in Nat /\ Len(e) = Len(d) + 1
      /\ e[Len(d) + 1] = m /\ \A k \in 1..Len(d) : e[k] = d[k]
  OBVIOUS
<1> HIDE DEF e
<1>2. of \in [1..Len(a) -> 1..Len(e)] /\ \A i \in 1..Len(a) : of[i] \in 1..Len(d)
  <2>1. of \in [1..Len(a) -> 1..Len(d)]
    BY DEF Answers
  <2>2. 1..Len(d) \subseteq 1..Len(e)
    BY <1>1
  <2> QED BY <2>1, <2>2
<1>3. ASSUME NEW k \in 1..Len(e)
      PROVE  Answered(e[k]) <=> \E i \in 1..Len(a) : of[i] = k
  <2>1. CASE k \in 1..Len(d)
    BY <1>1, <2>1 DEF Answers
  <2>2. CASE k = Len(d) + 1
    BY <1>1, <1>2, <2>2
  <2> QED BY <1>1, <2>1, <2>2
<1>4. \A i \in 1..Len(a) : a[i] = AnswerTo(e[of[i]])
  BY <1>1, <1>2 DEF Answers
<1> QED BY <1>2, <1>3, <1>4 DEF Answers, e

(* A request that is answered when it is dispatched has the last answer.   *)
LEMMA AnsweredLast ==
  ASSUME NEW a \in Seq(Answer), NEW d \in Seq(Messages), NEW m \in Messages,
         Answered(m), AnswerTo(m) \in Answer, NEW of, Answers(of, a, d)
  PROVE  \E f : Answers(f, Append(a, AnswerTo(m)), Append(d, m))
<1> DEFINE e == Append(d, m)
           r == AnswerTo(m)
           b == Append(a, r)
           f == [i \in 1..Len(b) |-> IF i = Len(b) THEN Len(e) ELSE of[i]]
<1>1. /\ Len(d) \in Nat /\ Len(e) = Len(d) + 1
      /\ e[Len(d) + 1] = m /\ \A k \in 1..Len(d) : e[k] = d[k]
  OBVIOUS
<1> HIDE DEF r
<1>2. /\ Len(a) \in Nat /\ Len(b) = Len(a) + 1
      /\ b[Len(a) + 1] = r /\ \A i \in 1..Len(a) : b[i] = a[i]
  BY DEF r
<1> HIDE DEF e, b
<1>3. /\ f[Len(b)] = Len(e) /\ \A i \in 1..Len(a) : f[i] = of[i]
      /\ \A i \in 1..Len(a) : of[i] \in 1..Len(d)
  BY <1>2 DEF Answers
<1>4. f \in [1..Len(b) -> 1..Len(e)]
  BY <1>1, <1>2, <1>3
<1> HIDE DEF f
<1>5. ASSUME NEW i \in 1..Len(b), NEW j \in 1..Len(b), i < j
      PROVE  f[i] < f[j]
  <2>1. i \in 1..Len(a)
    BY <1>2, <1>5
  <2>2. CASE j \in 1..Len(a)
    BY <1>3, <1>5, <2>1, <2>2 DEF Answers
  <2>3. CASE j = Len(b)
    BY <1>1, <1>3, <2>1, <2>3
  <2> QED BY <1>2, <2>2, <2>3
<1>6. ASSUME NEW k \in 1..Len(e)
      PROVE  Answered(e[k]) <=> \E i \in 1..Len(b) : f[i] = k
  <2>1. CASE k \in 1..Len(d)
    <3>1. Answered(e[k]) <=> \E i \in 1..Len(a) : f[i] = k
      BY <1>1, <1>3, <2>1 DEF Answers
    <3>2. f[Len(b)] # k
      BY <1>1, <1>3, <2>1
    <3> QED BY <1>2, <3>1, <3>2
  <2>2. CASE k = Len(d) + 1
    BY <1>1, <1>2, <1>3, <2>2
  <2> QED BY <1>1, <2>1, <2>2
<1>7. ASSUME NEW i \in 1..Len(b) PROVE b[i] = AnswerTo(e[f[i]])
  <2>1. CASE i \in 1..Len(a)
    BY <1>1, <1>2, <1>3, <2>1 DEF Answers
  <2>2. CASE i = Len(b)
    BY <1>1, <1>2, <1>3, <2>2 DEF r
  <2> QED BY <1>2, <2>1, <2>2
<1>8. Answers(f, b, e)
  BY <1>4, <1>5, <1>6, <1>7 DEF Answers
<1> QED BY <1>8 DEF b, e, r

(* The answers go on matching what is dispatched.                          *)
LEMMA DispatchAnswers ==
  ASSUME TypeOK, AnswersMatchRequests, NEW m \in Messages, Dispatch(m)
  PROVE  AnswersMatchRequests'
<1>1. /\ answers \in Seq(Answer) /\ dispatched \in Seq(Messages)
      /\ dispatched' = Append(dispatched, m)
  BY DEF TypeOK, Answer, Dispatch
<1>2. PICK of : Answers(of, answers, dispatched)
  BY DEF AnswersMatchRequests, Answers
<1>3. \E f : Answers(f, answers', dispatched')
  <2>1. CASE Answered(m)
    <3>1. answers' = Append(answers, AnswerTo(m))
      BY <2>1 DEF Dispatch, HandleRequest, Answered, AnswerTo
    <3>2. AnswerTo(m) \in Answer
      BY MessagesAssumption DEF AnswerTo, Answer
    <3> QED BY <1>1, <1>2, <2>1, <3>1, <3>2, AnsweredLast
  <2>2. CASE ~Answered(m)
    <3>1. answers' = answers
      BY <2>2 DEF Dispatch, HandleRequest, HandlePost, Answered
    <3> QED BY <1>1, <1>2, <2>2, <3>1, NotAnswered
  <2> QED BY <2>1, <2>2
<1> QED BY <1>3 DEF AnswersMatchRequests, Answers

-----------------------------------------------------------------------------
(* A connection starts with nothing sent, closed or dispatched.            *)
LEMMA InitIInv == Init => IInv
<1> SUFFICES ASSUME Init PROVE IInv
  OBVIOUS
<1>2. TypeOK
  BY DEF Init, TypeOK
<1>3. DispatchedInOrder
  BY DEF Init, DispatchedInOrder
<1>4. QuietWhenStopped /\ IoErrorIsLast
  BY DEF Init, QuietWhenStopped, IoErrorIsLast
<1>5. Answers(<<>>, answers, dispatched)
  BY DEF Init, Answers
<1> QED BY <1>2, <1>3, <1>4, <1>5 DEF IInv, AnswersMatchRequests, Answers

(* A request's write moves no message; a handler that is registered after  *)
(* the reading has stopped is a late one.                                  *)
LEMMA RequestIInv ==
  ASSUME IInv, NEW id \in Asked, FrameWritten(id) \/ RunWritten(id) \/ RunWriteFailed(id)
  PROVE  IInv'
<1>1. /\ UNCHANGED <<sent, net, unp, reading, sock, link, dispatched, answers, closings>>
      /\ asking' \in [Asked -> {"made", "written", "failed", "done"}]
      /\ waiting' \subseteq Asked /\ late' \subseteq Asked
      /\ reading = "none" /\ waiting \subseteq late => waiting' \subseteq late'
  <2>1. /\ asking \in [Asked -> {"made", "written", "failed", "done"}]
        /\ waiting \subseteq Asked /\ late \subseteq Asked
    BY DEF IInv, TypeOK
  <2>2. CASE FrameWritten(id)
    BY <2>1, <2>2 DEF FrameWritten
  <2>3. CASE RunWritten(id)
    BY <2>1, <2>3 DEF RunWritten
  <2>4. CASE RunWriteFailed(id)
    BY <2>1, <2>4 DEF RunWriteFailed
  <2> QED BY <2>2, <2>3, <2>4
<1>2. AnswersMatchRequests'
  BY <1>1 DEF IInv, AnswersMatchRequests
<1> QED BY <1>1, <1>2 DEF IInv, TypeOK, DispatchedInOrder, QuietWhenStopped, IoErrorIsLast

(* Sending adds a message at the end.                                      *)
LEMMA PeerSendsIInv ==
  ASSUME IInv, NEW m \in Messages, PeerSends(m)
  PROVE  IInv'
<1>1. TypeOK'
  BY DEF IInv, TypeOK, PeerSends, requests
<1>2. DispatchedInOrder'
  <2>1. dispatched \o unp \o Append(net, m) = Append(dispatched \o unp \o net, m)
    BY SendAtEnd DEF IInv, TypeOK
  <2> QED BY <2>1 DEF IInv, DispatchedInOrder, PeerSends
<1>3. QuietWhenStopped' /\ IoErrorIsLast'
  BY DEF IInv, QuietWhenStopped, IoErrorIsLast, PeerSends, requests
<1> QED BY <1>1, <1>2, <1>3 DEF IInv, AnswersMatchRequests, PeerSends

(* Neither the break of the connection nor the close of the socket touches *)
(* a message or ends the reading by itself.                                *)
LEMMA LinkFailsIInv == IInv /\ LinkFails => IInv'
<1>1. IInv /\ LinkFails => AnswersMatchRequests'
  BY DEF IInv, AnswersMatchRequests, LinkFails
<1> QED
  BY <1>1 DEF IInv, TypeOK, DispatchedInOrder, QuietWhenStopped, IoErrorIsLast,
     LinkFails, requests

(* The close lets a waiting read fail, which is not its end yet.           *)
LEMMA SocketCloseIInv == IInv /\ SocketClose => IInv'
<1>1. IInv /\ SocketClose => AnswersMatchRequests'
  BY DEF IInv, AnswersMatchRequests, SocketClose
<1> QED
  BY <1>1 DEF IInv, TypeOK, DispatchedInOrder, QuietWhenStopped, IoErrorIsLast,
     SocketClose, requests

(* What arrives goes from the way into the unpacker, in order.             *)
LEMMA ReceiveIInv == IInv /\ Receive => IInv'
<1> SUFFICES ASSUME IInv, Receive PROVE IInv'
  OBVIOUS
<1>1. /\ reading = "waiting" /\ reading' \in {"posted", "failed"}
      /\ UNCHANGED <<sent, sock, link, requests, dispatched, answers, closings>>
  BY DEF Receive, requests
<1>2. unp' \in Seq(Messages) /\ net' \in Seq(Messages) /\ DispatchedInOrder'
  <2>1. CASE UNCHANGED <<unp, net>>
    BY <1>1, <2>1 DEF IInv, TypeOK, DispatchedInOrder
  <2>2. ASSUME NEW n \in 1..Len(net),
               unp' = unp \o SubSeq(net, 1, n), net' = SubSeq(net, n + 1, Len(net))
        PROVE  unp' \in Seq(Messages) /\ net' \in Seq(Messages) /\ DispatchedInOrder'
    <3>1. /\ dispatched \in Seq(Messages) /\ unp \in Seq(Messages) /\ net \in Seq(Messages)
      BY DEF IInv, TypeOK
    <3>2. unp' \in Seq(Messages) /\ net' \in Seq(Messages)
      BY <2>2, <3>1, SubSeqProperties, ConcatProperties
    <3>3. dispatched \o unp' \o net' = dispatched \o unp \o net
      BY <2>2, <3>1, MoveSegment
    <3> QED BY <1>1, <3>2, <3>3 DEF IInv, DispatchedInOrder
  <2> QED BY <2>1, <2>2 DEF Receive
<1>3. TypeOK'
  BY <1>1, <1>2 DEF IInv, TypeOK, requests
<1>4. QuietWhenStopped' /\ IoErrorIsLast'
  BY <1>1 DEF requests, IInv, QuietWhenStopped, IoErrorIsLast
<1> QED BY <1>1, <1>2, <1>3, <1>4 DEF IInv, AnswersMatchRequests

(* The dispatch of one message answers at most once, and calls the error   *)
(* handler only for a protocol error.                                      *)
LEMMA DispatchTypes ==
  ASSUME TypeOK, NEW m \in Messages, Dispatch(m)
  PROVE  /\ dispatched' = Append(dispatched, m)
         /\ answers' \in Seq(Answer)
         /\ waiting' \subseteq waiting
         /\ sock' \in {sock, "closed"}
         /\ closings' = closings \/ closings' = Append(closings, "protocol")
<1>1. m.id \in Nat /\ answers \in Seq(Answer)
  BY MessagesAssumption DEF TypeOK, Answer
<1>2. dispatched' = Append(dispatched, m)
  BY DEF Dispatch
<1>3. /\ answers' \in Seq(Answer)
      /\ waiting' \subseteq waiting
      /\ sock' \in {sock, "closed"}
      /\ closings' = closings \/ closings' = Append(closings, "protocol")
  <2>1. CASE m.type = "malformed" /\ DoClose("protocol") /\ UNCHANGED answers
    BY <1>1, <2>1 DEF DoClose
  <2>2. CASE m.type = "request" /\ HandleRequest(m) /\ UNCHANGED <<waiting, closings, sock>>
    <3>1. \A r \in {"value", "nil"} : Append(answers, [id |-> m.id, result |-> r]) \in Seq(Answer)
      BY <1>1 DEF Answer
    <3>2. answers' \in Seq(Answer)
      BY <1>1, <2>2, <3>1 DEF HandleRequest
    <3> QED BY <1>1, <2>2, <3>2
  <2>3. CASE m.type = "response" /\ HandleResponse(m) /\ UNCHANGED <<answers, closings, sock>>
    BY <1>1, <2>3 DEF HandleResponse
  <2>4. CASE m.type = "post" /\ HandlePost(m) /\ UNCHANGED <<closings, sock>>
    BY <1>1, <2>4 DEF HandlePost
  <2>5. CASE m.type = "other" /\ UNCHANGED <<answers, waiting, closings, sock>>
    BY <1>1, <2>5
  <2> QED BY <2>1, <2>2, <2>3, <2>4, <2>5 DEF Dispatch
<1> QED BY <1>2, <1>3

(* The task dispatches the first message, or starts a read.                *)
LEMMA RunReadIInv == IInv /\ RunRead => IInv'
<1> SUFFICES ASSUME IInv, RunRead PROVE IInv'
  OBVIOUS
<1>1. CASE unp = <<>>
  <2>1. /\ reading' = (IF sock = "open" THEN "waiting" ELSE "failed")
        /\ UNCHANGED <<sent, net, link, unp, dispatched, answers, requests, closings, sock>>
    BY <1>1 DEF RunRead, requests
  <2> QED BY <2>1 DEF requests, IInv, TypeOK, DispatchedInOrder, AnswersMatchRequests,
                      QuietWhenStopped, IoErrorIsLast, RunRead
<1>2. CASE unp # <<>>
  <2> DEFINE m == Head(unp)
  <2>1. /\ dispatched \in Seq(Messages) /\ unp \in Seq(Messages) /\ net \in Seq(Messages)
        /\ m \in Messages /\ Tail(unp) \in Seq(Messages)
        /\ closings \in Seq({"protocol", "io"})
    BY <1>2 DEF IInv, TypeOK
  <2>2. /\ reading = "posted" /\ Dispatch(m) /\ unp' = Tail(unp)
        /\ UNCHANGED <<reading, sent, net, link, asking, late>>
    BY <1>2 DEF RunRead
  <2>3. /\ dispatched' = Append(dispatched, m)
        /\ answers' \in Seq(Answer) /\ waiting' \subseteq waiting
        /\ sock' \in {sock, "closed"}
        /\ closings' = closings \/ closings' = Append(closings, "protocol")
    <3> HIDE DEF m
    <3> QED BY <2>1, <2>2, DispatchTypes DEF IInv
  <2>4. TypeOK'
    <3>1. dispatched' \in Seq(Messages) /\ closings' \in Seq({"protocol", "io"})
      <4>1. Append(dispatched, m) \in Seq(Messages)
        BY <2>1
      <4>2. Append(closings, "protocol") \in Seq({"protocol", "io"})
        BY <2>1
      <4> QED BY <2>1, <2>3, <4>1, <4>2
    <3>2. sock' \in {"open", "closed"} /\ reading' = "posted"
      BY <2>2, <2>3 DEF IInv, TypeOK
    <3> QED BY <2>1, <2>2, <2>3, <3>1, <3>2 DEF IInv, TypeOK, Answer
  <2>5. DispatchedInOrder'
    <3>1. Append(dispatched, m) \o Tail(unp) \o net = dispatched \o unp \o net
      BY <1>2, <2>1, MoveHead
    <3> QED BY <2>2, <2>3, <3>1 DEF IInv, DispatchedInOrder
  <2>6. QuietWhenStopped'
    BY <2>2 DEF QuietWhenStopped
  <2>7. IoErrorIsLast'
    <3>1. \A i \in 1..Len(closings) : closings[i] # "io"
      BY <2>2 DEF IInv, IoErrorIsLast
    <3>2. \A i \in 1..Len(Append(closings, "protocol")) :
            Append(closings, "protocol")[i] # "io"
      BY <2>1, <3>1
    <3> QED BY <2>3, <3>1, <3>2 DEF IoErrorIsLast
  <2>8. AnswersMatchRequests'
    <3> HIDE DEF m
    <3> QED BY <2>1, <2>2, DispatchAnswers DEF IInv
  <2> QED BY <2>4, <2>5, <2>6, <2>7, <2>8 DEF IInv
<1> QED BY <1>1, <1>2

(* The failed read is the only step that stops the reading.                *)
LEMMA RunFailedIInv == IInv /\ RunFailed => IInv'
<1> SUFFICES ASSUME IInv, RunFailed PROVE IInv'
  OBVIOUS
<1>1. /\ reading = "failed" /\ reading' = "none" /\ waiting' = {} /\ sock' = "closed"
      /\ closings' = Append(closings, "io") /\ closings \in Seq({"protocol", "io"})
      /\ UNCHANGED <<sent, net, unp, link, asking, late, dispatched, answers>>
  BY DEF IInv, TypeOK, RunFailed, DoClose
<1>2. TypeOK'
  BY <1>1 DEF IInv, TypeOK
<1>3. DispatchedInOrder' /\ QuietWhenStopped'
  BY <1>1 DEF IInv, DispatchedInOrder, QuietWhenStopped
<1>5. AnswersMatchRequests'
  BY <1>1 DEF IInv, AnswersMatchRequests
<1>4. IoErrorIsLast'
  <2>1. \A i \in 1..Len(closings) : closings[i] # "io"
    BY <1>1 DEF IInv, IoErrorIsLast
  <2> QED BY <1>1, <2>1 DEF IoErrorIsLast
<1> QED BY <1>2, <1>3, <1>4, <1>5 DEF IInv

-----------------------------------------------------------------------------
(* The invariant of the dispatcher holds in every state.                   *)
THEOREM Inductive == Spec => []IInv
<1>1. IInv /\ [Next]_vars => IInv'
  <2> SUFFICES ASSUME IInv, [Next]_vars PROVE IInv'
    OBVIOUS
  <2>1. CASE UNCHANGED vars
    BY <2>1 DEF vars, requests, IInv, TypeOK, DispatchedInOrder, AnswersMatchRequests,
       QuietWhenStopped, IoErrorIsLast
  <2> QED BY <2>1, RequestIInv, PeerSendsIInv, LinkFailsIInv, SocketCloseIInv, ReceiveIInv,
             RunReadIInv, RunFailedIInv
          DEF Next
<1> QED BY <1>1, InitIInv, PTL DEF Spec

(* Type correctness; among it: a read waits for data only on an open       *)
(* socket, so closing the socket (session.hpp:73) always ends the read.    *)
THEOREM TypeCorrect == Spec => []TypeOK
<1>1. IInv => TypeOK
  BY DEF IInv
<1> QED BY <1>1, Inductive, PTL

(* Messages are dispatched in the order they were sent, each once, however *)
(* they are cut into segments (dispatcher.hpp:59 re-arms the reader first).*)
THEOREM InOrderOnce == Spec => []DispatchedInOrder
<1>1. IInv => DispatchedInOrder
  BY DEF IInv
<1> QED BY <1>1, Inductive, PTL

(* Every request that has a handler is answered once, with its own         *)
(* identifier, in the order the requests came (responser.hpp:54-100), and  *)
(* nothing else is answered.                                               *)
THEOREM AnswersInOrder == Spec => []AnswersMatchRequests
<1>1. IInv => AnswersMatchRequests
  BY DEF IInv
<1> QED BY <1>1, Inductive, PTL

(* A dispatcher that no longer reads has closed its socket and called      *)
(* every handler registered until then (dispatcher.hpp:51-58): one that    *)
(* still waits was registered later, by the write handler of its request   *)
(* (requester.hpp:42, 108), in every behaviour and for every set of        *)
(* messages and of requests under way.                                     *)
THEOREM StoppedIsQuiet == Spec => []QuietWhenStopped
<1>1. IInv => QuietWhenStopped
  BY DEF IInv
<1> QED BY <1>1, Inductive, PTL

(* A connection ends once: the error handler is called for an io error at  *)
(* most once, after every call for an invalid message.                     *)
THEOREM EndsOnce == Spec => []IoErrorIsLast
<1>1. IInv => IoErrorIsLast
  BY DEF IInv
<1> QED BY <1>1, Inductive, PTL
=============================================================================
