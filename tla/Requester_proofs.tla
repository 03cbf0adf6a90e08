--------------------------- MODULE Requester_proofs ---------------------------
(* Theorems about the requester, for any threads, whatever they call, and  *)
(* any number of calls: its invariants, the answers as long as no two      *)
(* calls overlap, and that it implements RequestFates.                     *)
EXTENDS Requester, FiniteSetTheorems, SequenceTheorems, TLAPS

(* Where the handler of call n can be.                                     *)
Packed(n) == \E t \in Threads : pc[t] = "packed" /\ cur[t].n = n
HasCall(s, n) == \E i \in 1..Len(s) : s[i].n = n
HasWritten(s, n) == \E i \in 1..Len(s) : s[i].what = "written" /\ s[i].call.n = n

(* Calls are told apart by their numbers.                                  *)
PackedOnce ==
  \A t, u \in Threads :
    pc[t] = "packed" /\ pc[u] = "packed" /\ cur[t].n = cur[u].n => t = u
CallOnce(s) == \A i, j \in 1..Len(s) : s[i].n = s[j].n => i = j
WrittenOnce(s) ==
  \A i, j \in 1..Len(s) :
    s[i].what = "written" /\ s[j].what = "written" /\ s[i].call.n = s[j].call.n => i = j
WaitingOnce == \A a, b \in DOMAIN m_map : m_map[a] = m_map[b] => a = b

(* A handler is in one place at most; a call not made has none.            *)
Exclusive(n) ==
  /\ Packed(n) => ~HasCall(writes, n) /\ ~HasWritten(ready, n) /\ ~Waiting(n)
                    /\ ~Called(n) /\ n \notin lost
  /\ HasCall(writes, n) => ~HasWritten(ready, n) /\ ~Waiting(n) /\ ~Called(n)
                    /\ n \notin lost
  /\ HasWritten(ready, n) => ~Waiting(n) /\ ~Called(n) /\ n \notin lost
  /\ Waiting(n) => ~Called(n) /\ n \notin lost
  /\ Called(n) => n \notin lost
  /\ n > calls => ~Packed(n) /\ ~HasCall(writes, n) /\ ~HasWritten(ready, n)
                    /\ ~Waiting(n) /\ ~Called(n) /\ n \notin lost

(* A request's handler is in one place at least.                           *)
Somewhere(n) ==
  \/ Packed(n) \/ HasCall(writes, n) \/ HasWritten(ready, n)
  \/ Waiting(n) \/ Called(n) \/ n \in lost

(* The calls in the writer that are requests by their number are requests  *)
(* by their kind.                                                          *)
RequestKind(c) == c.n \in asked => c.kind \in Requests
KindsKnown ==
  /\ \A t \in Threads : pc[t] = "packed" => RequestKind(cur[t])
  /\ \A i \in 1..Len(writes) : RequestKind(writes[i])
  /\ \A i \in 1..Len(ready) : ready[i].what = "written" => RequestKind(ready[i].call)

Once == PackedOnce /\ CallOnce(writes) /\ WrittenOnce(ready) /\ WaitingOnce

IInv ==
  /\ TypeOK
  /\ cur \in [Threads -> Call \cup {NoCall}]
  /\ Once
  /\ KindsKnown
  /\ \A n \in CallIds : Exclusive(n)
  /\ \A n \in CallIds : Len(results[n]) <= 1
  /\ \A n \in asked : Somewhere(n)

-----------------------------------------------------------------------------
(* What taking and adding an element does to the calls of a sequence.      *)
LEMMA TailElements ==
  ASSUME NEW S, NEW s \in Seq(S), s # <<>>
  PROVE  /\ Head(s) \in S /\ Head(s) = s[1]
         /\ Tail(s) \in Seq(S) /\ Len(Tail(s)) = Len(s) - 1
         /\ Len(s) \in Nat \ {0}
         /\ \A i \in 1..Len(Tail(s)) : i + 1 \in 1..Len(s) /\ Tail(s)[i] = s[i + 1]
         /\ \A i \in 2..Len(s) : i - 1 \in 1..Len(Tail(s)) /\ Tail(s)[i - 1] = s[i]
OBVIOUS

(* The same of Append.                                                     *)
LEMMA AppendElements ==
  ASSUME NEW S, NEW s \in Seq(S), NEW e \in S
  PROVE  /\ Append(s, e) \in Seq(S)
         /\ Len(s) \in Nat /\ Len(Append(s, e)) = Len(s) + 1
         /\ Append(s, e)[Len(s) + 1] = e
         /\ \A i \in 1..Len(s) : Append(s, e)[i] = s[i]
OBVIOUS

(* A call that enters the writer is one call more in it.                   *)
LEMMA AppendCall ==
  ASSUME NEW s \in Seq(Call), NEW c \in Call
  PROVE  /\ Append(s, c) \in Seq(Call)
         /\ \A n : HasCall(Append(s, c), n) <=> (n = c.n \/ HasCall(s, n))
         /\ CallOnce(s) /\ ~HasCall(s, c.n) => CallOnce(Append(s, c))
<1> DEFINE a == Append(s, c)
<1>1. /\ a \in Seq(Call) /\ Len(s) \in Nat /\ Len(a) = Len(s) + 1
      /\ a[Len(s) + 1] = c /\ \A i \in 1..Len(s) : a[i] = s[i]
  BY AppendElements
<1> HIDE DEF a
<1>2. /\ \A i \in 1..Len(a) : i \in 1..Len(s) \/ i = Len(s) + 1
      /\ Len(s) + 1 \in 1..Len(a) /\ \A i \in 1..Len(s) : i \in 1..Len(a)
  BY <1>1
<1>3. \A n : HasCall(a, n) <=> (n = c.n \/ HasCall(s, n))
  BY <1>1, <1>2 DEF HasCall
<1>4. CallOnce(s) /\ ~HasCall(s, c.n) => CallOnce(a)
  BY <1>1, <1>2 DEF CallOnce, HasCall
<1> QED BY <1>1, <1>3, <1>4 DEF a

(* A call that leaves the writer is one call less in it.                   *)
LEMMA TailCall ==
  ASSUME NEW s \in Seq(Call), s # <<>>
  PROVE  /\ Head(s) \in Call /\ Tail(s) \in Seq(Call)
         /\ \A n : HasCall(s, n) <=> (n = Head(s).n \/ HasCall(Tail(s), n))
         /\ CallOnce(s) => CallOnce(Tail(s)) /\ ~HasCall(Tail(s), Head(s).n)
<1> DEFINE h == Head(s)
           t == Tail(s)
<1>1. /\ h \in Call /\ h = s[1] /\ t \in Seq(Call)
      /\ Len(t) = Len(s) - 1 /\ Len(s) \in Nat \ {0}
      /\ \A i \in 1..Len(t) : i + 1 \in 1..Len(s) /\ t[i] = s[i + 1]
      /\ \A i \in 2..Len(s) : i - 1 \in 1..Len(t) /\ t[i - 1] = s[i]
  BY TailElements
<1> HIDE DEF h, t
<1>2. 1 \in 1..Len(s) /\ \A i \in 1..Len(s) : i = 1 \/ i \in 2..Len(s)
  BY <1>1
<1>3. \A n : HasCall(s, n) <=> (n = h.n \/ HasCall(t, n))
  BY <1>1, <1>2 DEF HasCall
<1>4. CallOnce(s) => CallOnce(t) /\ ~HasCall(t, h.n)
  BY <1>1, <1>2 DEF CallOnce, HasCall
<1> QED BY <1>1, <1>3, <1>4 DEF h, t

(* The same of the completions of writes in ready.                         *)
LEMMA AppendReady ==
  ASSUME NEW s \in Seq(Ready), NEW r \in Ready
  PROVE  /\ Append(s, r) \in Seq(Ready)
         /\ r.what = "written" =>
              /\ \A n : HasWritten(Append(s, r), n) <=> (n = r.call.n \/ HasWritten(s, n))
              /\ WrittenOnce(s) /\ ~HasWritten(s, r.call.n) => WrittenOnce(Append(s, r))
         /\ r.what # "written" =>
              /\ \A n : HasWritten(Append(s, r), n) <=> HasWritten(s, n)
              /\ WrittenOnce(s) => WrittenOnce(Append(s, r))
<1> DEFINE a == Append(s, r)
<1>1. /\ a \in Seq(Ready) /\ Len(s) \in Nat /\ Len(a) = Len(s) + 1
      /\ a[Len(s) + 1] = r /\ \A i \in 1..Len(s) : a[i] = s[i]
  BY AppendElements
<1> HIDE DEF a
<1>2. /\ \A i \in 1..Len(a) : i \in 1..Len(s) \/ i = Len(s) + 1
      /\ Len(s) + 1 \in 1..Len(a) /\ \A i \in 1..Len(s) : i \in 1..Len(a)
  BY <1>1
<1>3. r.what = "written" => \A n : HasWritten(a, n) <=> (n = r.call.n \/ HasWritten(s, n))
  BY <1>1, <1>2 DEF HasWritten
<1>4. r.what # "written" => \A n : HasWritten(a, n) <=> HasWritten(s, n)
  BY <1>1, <1>2 DEF HasWritten
<1>5. WrittenOnce(s) /\ (r.what # "written" \/ ~HasWritten(s, r.call.n)) => WrittenOnce(a)
  BY <1>1, <1>2 DEF WrittenOnce, HasWritten
<1> QED BY <1>1, <1>3, <1>4, <1>5 DEF a

(* And of the completion that the io thread takes.                         *)
LEMMA TailReady ==
  ASSUME NEW s \in Seq(Ready), s # <<>>
  PROVE  /\ Head(s) \in Ready /\ Tail(s) \in Seq(Ready)
         /\ WrittenOnce(s) => WrittenOnce(Tail(s))
         /\ Head(s).what = "written" =>
              /\ \A n : HasWritten(s, n) <=> (n = Head(s).call.n \/ HasWritten(Tail(s), n))
              /\ WrittenOnce(s) => ~HasWritten(Tail(s), Head(s).call.n)
         /\ Head(s).what # "written" =>
              \A n : HasWritten(s, n) <=> HasWritten(Tail(s), n)
<1> DEFINE h == Head(s)
           t == Tail(s)
<1>1. /\ h \in Ready /\ h = s[1] /\ t \in Seq(Ready)
      /\ Len(t) = Len(s) - 1 /\ Len(s) \in Nat \ {0}
      /\ \A i \in 1..Len(t) : i + 1 \in 1..Len(s) /\ t[i] = s[i + 1]
      /\ \A i \in 2..Len(s) : i - 1 \in 1..Len(t) /\ t[i - 1] = s[i]
  BY TailElements
<1> HIDE DEF h, t
<1>2. 1 \in 1..Len(s) /\ \A i \in 1..Len(s) : i = 1 \/ i \in 2..Len(s)
  BY <1>1
<1>3. h.what = "written" => \A n : HasWritten(s, n) <=> (n = h.call.n \/ HasWritten(t, n))
  BY <1>1, <1>2 DEF HasWritten
<1>4. h.what # "written" => \A n : HasWritten(s, n) <=> HasWritten(t, n)
  BY <1>1, <1>2 DEF HasWritten
<1>5. WrittenOnce(s) => WrittenOnce(t)
  BY <1>1, <1>2 DEF WrittenOnce
<1>6. h.what = "written" /\ WrittenOnce(s) => ~HasWritten(t, h.call.n)
  <2> SUFFICES ASSUME h.what = "written", WrittenOnce(s), NEW i \in 1..Len(t),
                      t[i].what = "written", t[i].call.n = h.call.n
               PROVE  FALSE
    BY DEF HasWritten
  <2>1. i + 1 \in 1..Len(s) /\ s[i + 1] = t[i] /\ s[1] = h
    BY <1>1
  <2>2. i + 1 = 1
    BY <1>2, <2>1 DEF WrittenOnce
  <2> QED BY <2>2
<1> QED BY <1>1, <1>3, <1>4, <1>5, <1>6 DEF h, t

(* The completions of writes.                                              *)
LEMMA ReadyTypes ==
  /\ \A r \in Ready : r.what = "written" => r.call \in Call /\ r.ok \in BOOLEAN
  /\ \A r \in Ready : r.what = "response" => r.msg \in Message
  /\ \A c \in Call : \A ok \in BOOLEAN : [what |-> "written", call |-> c, ok |-> ok] \in Ready
  /\ \A m \in Message : [what |-> "response", msg |-> m] \in Ready
  /\ [what |-> "error"] \in Ready
BY DEF Ready

-----------------------------------------------------------------------------
(* At first nothing was called and no handler is anywhere.                 *)
LEMMA InitIInv == Init => IInv
<1> SUFFICES ASSUME Init PROVE IInv
  OBVIOUS
<1>1. TypeOK
  <2>1. raced \in BOOLEAN
    BY Zenon DEF Init
  <2> QED BY <2>1, MaxCallsAssumption, MaxPostsAssumption DEF Init, TypeOK
<1>2. cur \in [Threads -> Call \cup {NoCall}]
  BY DEF Init
<1>3. Once /\ KindsKnown
  BY DEF Init, Once, PackedOnce, CallOnce, WrittenOnce, WaitingOnce, KindsKnown
<1>4. ASSUME NEW n \in CallIds PROVE Exclusive(n) /\ Len(results[n]) <= 1
  BY DEF Init, Exclusive, Packed, HasCall, HasWritten, Waiting, Called
<1> QED BY <1>1, <1>2, <1>3, <1>4 DEF IInv, Init

(* A step that leaves every handler where it is.                           *)
LEMMA Undisturbed ==
  ASSUME IInv, TypeOK', cur' \in [Threads -> Call \cup {NoCall}],
         Once', KindsKnown',
         \A n \in CallIds : HasWritten(ready', n) <=> HasWritten(ready, n),
         \A n \in CallIds : Packed(n)' <=> Packed(n),
         UNCHANGED <<calls, asked, writes, m_map, results, lost>>
  PROVE  IInv'
<1>1. ASSUME NEW n \in CallIds PROVE Exclusive(n)' /\ Len(results'[n]) <= 1
  BY <1>1 DEF IInv, Exclusive, Waiting, Called
<1>2. ASSUME NEW n \in asked' PROVE Somewhere(n)'
  <2>1. n \in CallIds /\ n \in asked
    BY MaxCallsAssumption DEF IInv, TypeOK, CallIds
  <2> QED BY <2>1 DEF IInv, Somewhere, Waiting, Called
<1> QED BY <1>1, <1>2 DEF IInv

(* The increment of m_id moves no handler, in any interleaving.            *)
LEMMA IncrementIInv ==
  ASSUME IInv, NEW t \in Threads, Load(t) \/ Store(t)
  PROVE  IInv'
<1>1. /\ pc \in [Threads -> {"idle", "packed", "queued", "loaded"}]
      /\ cur \in [Threads -> Call \cup {NoCall}] /\ m_id \in Nat
      /\ pc[t] \in {"queued", "loaded"} /\ cur[t] \in Call
      /\ UNCHANGED <<m_map, calls, asked, writes, ready, peer, back, conn, results,
                     lost, handled, posted, raced>>
  BY DEF IInv, TypeOK, Load, Store
<1>2. /\ pc' \in [Threads -> {"idle", "packed", "queued", "loaded"}]
      /\ cur' \in [Threads -> Call \cup {NoCall}] /\ m_id' \in Nat
      /\ \A u \in Threads : pc'[u] # "idle" => cur'[u] \in Call
      /\ pc'[t] # "packed"
      /\ \A u \in Threads \ {t} : pc'[u] = pc[u] /\ cur'[u] = cur[u]
  <2>1. CASE Load(t)
    <3>1. [cur[t] EXCEPT !.reg = m_id] \in Call
      BY <1>1 DEF Call
    <3>2. /\ cur' = [cur EXCEPT ![t] = [cur[t] EXCEPT !.reg = m_id]]
          /\ pc' = [pc EXCEPT ![t] = "loaded"] /\ m_id' = m_id
      BY <2>1 DEF Load
    <3> QED BY <1>1, <3>1, <3>2 DEF IInv, TypeOK
  <2>2. CASE Store(t)
    <3>1. cur[t].reg + 1 \in Nat
      BY <1>1 DEF Call
    <3> QED BY <1>1, <2>2, <3>1 DEF IInv, TypeOK, Store
  <2> QED BY <2>1, <2>2
<1>3. \A n \in CallIds : Packed(n)' <=> Packed(n)
  BY <1>1, <1>2 DEF Packed
<1>4. TypeOK'
  BY <1>1, <1>2 DEF IInv, TypeOK
<1>5. Once'
  <2>1. PackedOnce'
    BY <1>1, <1>2 DEF IInv, Once, PackedOnce
  <2> QED BY <1>1, <2>1 DEF IInv, Once, WaitingOnce
<1>6. KindsKnown'
  BY <1>1, <1>2 DEF IInv, KindsKnown, RequestKind
<1> QED BY <1>1, <1>2, <1>3, <1>4, <1>5, <1>6, Undisturbed

(* Nor do the peer, an arriving response and a broken connection.          *)
LEMMA EnvironmentIInv == IInv /\ (PeerHandles \/ PeerPosts \/ Arrive \/ Break) => IInv'
<1> SUFFICES ASSUME IInv, PeerHandles \/ PeerPosts \/ Arrive \/ Break PROVE IInv'
  OBVIOUS
<1>1. /\ UNCHANGED <<local, m_map, writes, results, lost, handled>>
      /\ posted' \in 0..MaxPosts
  <2>1. CASE PeerPosts
    BY <2>1, MaxPostsAssumption DEF PeerPosts, IInv, TypeOK
  <2>2. CASE PeerHandles \/ Arrive \/ Break
    BY <2>2 DEF PeerHandles, Arrive, Break, IInv, TypeOK
  <2> QED BY <2>1, <2>2
<1>2. /\ ready \in Seq(Ready) /\ peer \in Seq(Message) /\ back \in Seq(Message)
      /\ conn \in {"open", "broken", "closed"}
  BY DEF IInv, TypeOK
<1>3. /\ peer' \in Seq(Message) /\ back' \in Seq(Message)
      /\ conn' \in {"open", "broken", "closed"}
      /\ \/ ready' = ready
         \/ \E r \in Ready : r.what # "written" /\ ready' = Append(ready, r)
  <2>1. CASE PeerHandles
    <3>1. Head(peer) \in Message /\ Tail(peer) \in Seq(Message)
      BY <1>2, <2>1 DEF PeerHandles
    <3>2. Append(back, Head(peer)) \in Seq(Message)
      BY <1>2, <3>1, AppendElements
    <3>3. /\ peer' = Tail(peer) /\ UNCHANGED <<ready, conn>>
          /\ back' = back \/ back' = Append(back, Head(peer))
      BY <2>1 DEF PeerHandles
    <3> QED BY <1>2, <3>1, <3>2, <3>3
  <2>2. CASE Arrive
    <3>1. Head(back) \in Message /\ Tail(back) \in Seq(Message)
      BY <1>2, <2>2 DEF Arrive
    <3>2. ready' = Append(ready, [what |-> "response", msg |-> Head(back)])
      BY <2>2 DEF Arrive
    <3> QED BY <1>2, <2>2, <3>1, <3>2, ReadyTypes DEF Arrive
  <2>3. CASE Break
    BY <1>2, <2>3, ReadyTypes DEF Break
  <2>4. CASE PeerPosts
    <3>1. PICK id \in PeerIds : back' = Append(back, [id |-> id, re |-> Foreign])
      BY <2>4 DEF PeerPosts
    <3>2. [id |-> id, re |-> Foreign] \in Message
      BY PeerIdsAssumption DEF Message
    <3> QED BY <1>2, <2>4, <3>1, <3>2 DEF PeerPosts
  <2> QED BY <2>1, <2>2, <2>3, <2>4
<1>4. /\ ready' \in Seq(Ready) /\ WrittenOnce(ready')
      /\ \A n \in CallIds : HasWritten(ready', n) <=> HasWritten(ready, n)
      /\ \A i \in 1..Len(ready') : ready'[i].what = "written" => RequestKind(ready'[i].call)
  <2>1. CASE ready' = ready
    BY <1>2, <2>1 DEF IInv, Once, KindsKnown
  <2>2. ASSUME NEW r \in Ready, r.what # "written", ready' = Append(ready, r)
        PROVE  <1>4!:
    <3>1. /\ Len(ready') = Len(ready) + 1 /\ Len(ready) \in Nat
          /\ ready'[Len(ready) + 1] = r /\ \A i \in 1..Len(ready) : ready'[i] = ready[i]
      BY <1>2, <2>2, AppendElements
    <3>2. \A i \in 1..Len(ready') : ready'[i].what = "written" => RequestKind(ready'[i].call)
      BY <2>2, <3>1 DEF IInv, KindsKnown
    <3> QED BY <1>2, <2>2, <3>2, AppendReady DEF IInv, Once
  <2> QED BY <1>3, <2>1, <2>2
<1>5. TypeOK' /\ cur' \in [Threads -> Call \cup {NoCall}]
  BY <1>1, <1>3, <1>4 DEF IInv, TypeOK, local
<1>6. Once' /\ KindsKnown'
  BY <1>1, <1>4 DEF IInv, Once, PackedOnce, WaitingOnce, KindsKnown, RequestKind, local
<1>7. \A n \in CallIds : Packed(n)' <=> Packed(n)
  BY <1>1 DEF Packed, local
<1> QED BY <1>1, <1>4, <1>5, <1>6, <1>7, Undisturbed DEF local

-----------------------------------------------------------------------------
(* A call begins: its handler is a new one.                                *)
LEMMA PackIInv ==
  ASSUME IInv, NEW t \in Threads, NEW kind \in AllKinds, Pack(t, kind)
  PROVE  IInv'
<1> DEFINE new == calls + 1
           rec == [n |-> new, kind |-> kind, pid |-> m_id, reg |-> 0]
<1>1. /\ pc \in [Threads -> {"idle", "packed", "queued", "loaded"}]
      /\ cur \in [Threads -> Call \cup {NoCall}] /\ m_id \in Nat
      /\ pc[t] = "idle" /\ calls \in Nat /\ calls < MaxCalls
      /\ asked \subseteq 1..calls
  BY MaxCallsAssumption DEF IInv, TypeOK, Pack
<1>2. new \in CallIds /\ rec \in Call /\ rec.n = new /\ rec.kind = kind
  BY <1>1, MaxCallsAssumption DEF Call, CallIds
<1>3. /\ asked' = (IF kind \in Requests THEN asked \cup {new} ELSE asked)
      /\ calls' = new
      /\ cur' = [cur EXCEPT ![t] = rec] /\ pc' = [pc EXCEPT ![t] = "packed"]
      /\ UNCHANGED <<m_id, m_map, writes, ready, peer, back, conn, results, lost,
                     handled, posted>>
  BY DEF Pack
<1> HIDE DEF rec
<1>4. /\ ~Packed(new) /\ ~HasCall(writes, new) /\ ~HasWritten(ready, new)
      /\ ~Waiting(new) /\ ~Called(new) /\ new \notin lost
  BY <1>1, <1>2 DEF IInv, Exclusive
<1> HIDE DEF new
<1>5. /\ cur' \in [Threads -> Call \cup {NoCall}]
      /\ pc' \in [Threads -> {"idle", "packed", "queued", "loaded"}]
      /\ cur'[t] = rec /\ pc'[t] = "packed"
      /\ \A u \in Threads \ {t} : cur'[u] = cur[u] /\ pc'[u] = pc[u]
  BY <1>1, <1>2, <1>3
<1>6. \A n \in CallIds : Packed(n)' <=> (n = new \/ Packed(n))
  BY <1>1, <1>2, <1>5 DEF Packed
<1>7. TypeOK'
  <2>1. calls' \in 0..MaxCalls /\ asked' \subseteq 1..calls'
    BY <1>1, <1>3, MaxCallsAssumption DEF new
  <2>2. \A u \in Threads : pc'[u] # "idle" => cur'[u] \in Call
    BY <1>2, <1>5 DEF IInv, TypeOK
  <2>3. raced' \in BOOLEAN
    BY Zenon DEF IInv, TypeOK, Pack
  <2> QED BY <1>3, <1>5, <2>1, <2>2, <2>3 DEF IInv, TypeOK
<1>8. Once'
  <2>1. \A u \in Threads \ {t} : pc[u] = "packed" => cur[u].n # new
    BY <1>4 DEF Packed
  <2>2. PackedOnce'
    BY <1>2, <1>5, <2>1 DEF IInv, Once, PackedOnce
  <2> QED BY <1>3, <2>2 DEF IInv, Once, WaitingOnce
<1>9. KindsKnown'
  <2>1. \A c : RequestKind(c) /\ c.n # new => (c.n \in asked' => c.kind \in Requests)
    BY <1>3 DEF RequestKind
  <2>2. rec.n \in asked' => rec.kind \in Requests
    <3>1. new \notin asked
      BY <1>1 DEF new
    <3> QED BY <1>2, <1>3, <3>1
  <2>3. ASSUME NEW u \in Threads, pc'[u] = "packed"
        PROVE  cur'[u].n \in asked' => cur'[u].kind \in Requests
    <3>1. CASE u = t
      BY <1>5, <2>2, <3>1
    <3>2. CASE u # t
      <4>1. cur'[u] = cur[u] /\ pc[u] = "packed"
        BY <1>5, <2>3, <3>2
      <4>2. RequestKind(cur[u]) /\ cur[u].n # new
        BY <1>4, <4>1 DEF IInv, KindsKnown, Packed
      <4> QED BY <2>1, <4>1, <4>2
    <3> QED BY <3>1, <3>2
  <2>4. ASSUME NEW i \in 1..Len(writes)
        PROVE  writes[i].n \in asked' => writes[i].kind \in Requests
    <3>1. RequestKind(writes[i]) /\ writes[i].n # new
      BY <1>4 DEF IInv, KindsKnown, HasCall
    <3> QED BY <2>1, <3>1
  <2>5. ASSUME NEW i \in 1..Len(ready), ready[i].what = "written"
        PROVE  ready[i].call.n \in asked' => ready[i].call.kind \in Requests
    <3>1. RequestKind(ready[i].call) /\ ready[i].call.n # new
      BY <1>4, <2>5 DEF IInv, KindsKnown, HasWritten
    <3> QED BY <2>1, <3>1
  <2> QED BY <1>3, <2>3, <2>4, <2>5 DEF KindsKnown, RequestKind
<1>10. ASSUME NEW n \in CallIds PROVE Exclusive(n)' /\ Len(results'[n]) <= 1
  <2>1. n > calls' => n > calls /\ n # new
    BY <1>1, <1>3 DEF CallIds, new
  <2>2. Exclusive(n) /\ Len(results[n]) <= 1
    BY DEF IInv
  <2> QED BY <1>3, <1>4, <1>6, <2>1, <2>2 DEF Exclusive, Waiting, Called
<1>11. ASSUME NEW n \in asked' PROVE Somewhere(n)'
  <2>1. n \in CallIds /\ (n = new \/ n \in asked)
    BY <1>1, <1>2, <1>3, MaxCallsAssumption DEF CallIds
  <2> QED BY <1>3, <1>6, <2>1 DEF IInv, Somewhere, Waiting, Called
<1> QED BY <1>5, <1>7, <1>8, <1>9, <1>10, <1>11 DEF IInv

(* The handler goes from the caller into the writer.                       *)
LEMMA EnqueueIInv ==
  ASSUME IInv, NEW t \in Threads, Enqueue(t)
  PROVE  IInv'
<1> DEFINE c == [cur[t] EXCEPT !.reg = m_id]
<1>1. /\ pc \in [Threads -> {"idle", "packed", "queued", "loaded"}]
      /\ pc[t] = "packed" /\ cur[t] \in Call /\ m_id \in Nat /\ writes \in Seq(Call)
  BY DEF IInv, TypeOK, Enqueue
<1>2. c \in Call /\ c.n = cur[t].n /\ c.kind = cur[t].kind /\ c.n \in CallIds
  BY <1>1 DEF Call
<1>3. /\ writes' = Append(writes, c)
      /\ pc' = [pc EXCEPT ![t] = "queued"]
      /\ UNCHANGED <<m_id, m_map, calls, asked, cur, ready, peer, back, conn, results,
                     lost, handled, posted, raced>>
  BY DEF Enqueue
<1> HIDE DEF c
<1>4. /\ pc' \in [Threads -> {"idle", "packed", "queued", "loaded"}]
      /\ pc'[t] = "queued" /\ \A u \in Threads \ {t} : pc'[u] = pc[u]
  BY <1>1, <1>3
<1>5. Packed(c.n)
  BY <1>1, <1>2 DEF Packed
<1>6. \A n \in CallIds : Packed(n)' <=> (Packed(n) /\ n # c.n)
  BY <1>1, <1>2, <1>3, <1>4 DEF IInv, Once, PackedOnce, Packed
<1>7. Exclusive(c.n)
  BY <1>2 DEF IInv
<1>8. /\ writes' \in Seq(Call) /\ CallOnce(writes')
      /\ \A n \in CallIds : HasCall(writes', n) <=> (n = c.n \/ HasCall(writes, n))
  BY <1>1, <1>2, <1>3, <1>5, <1>7, AppendCall DEF IInv, Once, Exclusive
<1>9. TypeOK'
  BY <1>1, <1>3, <1>4, <1>8 DEF IInv, TypeOK
<1>10. Once'
  <2>1. PackedOnce'
    BY <1>3, <1>4 DEF IInv, Once, PackedOnce
  <2> QED BY <1>3, <1>8, <2>1 DEF IInv, Once, WaitingOnce
<1>11. KindsKnown'
  <2>1. RequestKind(c)
    BY <1>1, <1>2 DEF IInv, KindsKnown, RequestKind
  <2>2. /\ Len(writes') = Len(writes) + 1 /\ Len(writes) \in Nat
        /\ writes'[Len(writes) + 1] = c /\ \A i \in 1..Len(writes) : writes'[i] = writes[i]
    BY <1>1, <1>2, <1>3, AppendElements
  <2>3. \A i \in 1..Len(writes') : RequestKind(writes'[i])
    BY <2>1, <2>2 DEF IInv, KindsKnown
  <2> QED BY <1>3, <1>4, <2>3 DEF IInv, KindsKnown, RequestKind
<1>12. ASSUME NEW n \in CallIds PROVE Exclusive(n)' /\ Len(results'[n]) <= 1
  <2>1. Exclusive(n) /\ Len(results[n]) <= 1
    BY DEF IInv
  <2> QED BY <1>3, <1>5, <1>6, <1>8, <2>1 DEF Exclusive, Waiting, Called
<1>13. ASSUME NEW n \in asked' PROVE Somewhere(n)'
  <2>1. n \in CallIds /\ n \in asked
    BY <1>3, MaxCallsAssumption DEF IInv, TypeOK, CallIds
  <2> QED BY <1>3, <1>6, <1>8, <2>1 DEF IInv, Somewhere, Waiting, Called
<1> QED BY <1>3, <1>9, <1>10, <1>11, <1>12, <1>13 DEF IInv

(* The handler goes from the writer to the io thread.                      *)
LEMMA WriteIInv == IInv /\ Write => IInv'
<1> SUFFICES ASSUME IInv, Write PROVE IInv'
  OBVIOUS
<1> DEFINE c == Head(writes)
<1>1. /\ writes # <<>> /\ writes \in Seq(Call) /\ ready \in Seq(Ready)
      /\ peer \in Seq(Message)
  BY DEF IInv, TypeOK, Write
<1>2. /\ writes' = Tail(writes)
      /\ UNCHANGED <<local, m_map, back, conn, results, lost, handled, posted>>
  BY DEF Write
<1>3. /\ c \in Call /\ writes' \in Seq(Call) /\ CallOnce(writes')
      /\ \A n \in CallIds : HasCall(writes, n) <=> (n = c.n \/ HasCall(writes', n))
      /\ ~HasCall(writes', c.n) /\ HasCall(writes, c.n)
  BY <1>1, <1>2, TailCall DEF IInv, Once
<1>4. c.n \in CallIds /\ c.pid \in Nat
  BY <1>3 DEF Call
<1>5. /\ RequestKind(c) /\ c = writes[1]
      /\ \A i \in 1..Len(writes') : RequestKind(writes'[i])
  <2>1. /\ c = writes[1] /\ 1 \in 1..Len(writes)
        /\ \A i \in 1..Len(writes') : i + 1 \in 1..Len(writes) /\ writes'[i] = writes[i + 1]
    BY <1>1, <1>2, TailElements
  <2> QED BY <2>1 DEF IInv, KindsKnown
<1> HIDE DEF c
<1>6. PICK ok \in BOOLEAN :
        ready' = Append(ready, [what |-> "written", call |-> c, ok |-> ok])
  <2>1. (CASE conn = "open" -> {TRUE}
           [] conn = "broken" -> BOOLEAN
           [] conn = "closed" -> {FALSE}) \subseteq BOOLEAN
    BY DEF IInv, TypeOK
  <2> QED BY <2>1 DEF Write, c
<1>7. peer' \in Seq(Message)
  <2>1. [id |-> c.pid, re |-> c.n] \in Message
    BY <1>4 DEF Message
  <2>2. PICK m : m = [id |-> c.pid, re |-> c.n]
    OBVIOUS
  <2>3. peer' = peer \/ peer' = Append(peer, m)
    BY <2>2 DEF Write, c
  <2>4. m \in Message
    BY <2>1, <2>2
  <2>5. Append(peer, m) \in Seq(Message)
    BY <1>1, <2>4
  <2> QED BY <1>1, <2>3, <2>5
<1> DEFINE r == [what |-> "written", call |-> c, ok |-> ok]
<1>8. r \in Ready /\ r.what = "written" /\ r.call = c
  BY <1>3, <1>6, ReadyTypes
<1>9. ready' = Append(ready, r)
  BY <1>6
<1> HIDE DEF r
<1>10. ~HasWritten(ready, c.n)
  BY <1>3, <1>4 DEF IInv, Exclusive
<1>11. /\ ready' \in Seq(Ready) /\ WrittenOnce(ready')
       /\ \A n \in CallIds : HasWritten(ready', n) <=> (n = c.n \/ HasWritten(ready, n))
  BY <1>1, <1>8, <1>9, <1>10, AppendReady DEF IInv, Once
<1>12. \A i \in 1..Len(ready') : ready'[i].what = "written" => RequestKind(ready'[i].call)
  <2>1. /\ Len(ready') = Len(ready) + 1 /\ Len(ready) \in Nat
        /\ ready'[Len(ready) + 1] = r /\ \A i \in 1..Len(ready) : ready'[i] = ready[i]
    BY <1>1, <1>8, <1>9, AppendElements
  <2> QED BY <1>5, <1>8, <2>1 DEF IInv, KindsKnown
<1>13. TypeOK'
  BY <1>2, <1>3, <1>7, <1>11 DEF IInv, TypeOK, local
<1>14. Once'
  BY <1>2, <1>3, <1>11 DEF IInv, Once, PackedOnce, WaitingOnce, local
<1>15. KindsKnown'
  BY <1>2, <1>5, <1>12 DEF IInv, KindsKnown, RequestKind, local
<1>16. \A n \in CallIds : Packed(n)' <=> Packed(n)
  BY <1>2 DEF Packed, local
<1>17. ASSUME NEW n \in CallIds PROVE Exclusive(n)' /\ Len(results'[n]) <= 1
  <2>1. Exclusive(n) /\ Len(results[n]) <= 1 /\ Exclusive(c.n)
    BY <1>4 DEF IInv
  <2> QED BY <1>2, <1>3, <1>11, <1>16, <2>1 DEF Exclusive, Waiting, Called, local
<1>18. ASSUME NEW n \in asked' PROVE Somewhere(n)'
  <2>1. n \in CallIds /\ n \in asked
    BY <1>2, MaxCallsAssumption DEF IInv, TypeOK, CallIds, local
  <2> QED BY <1>2, <1>3, <1>11, <1>16, <2>1 DEF IInv, Somewhere, Waiting, Called
<1> QED BY <1>2, <1>13, <1>14, <1>15, <1>17, <1>18 DEF IInv, local

-----------------------------------------------------------------------------
(* The io thread takes a completion; no handler moves but that of a write. *)
LEMMA TakeReady ==
  ASSUME IInv, ready # <<>>, ready' = Tail(ready), UNCHANGED <<local, writes>>
  PROVE  /\ Head(ready) \in Ready /\ ready' \in Seq(Ready)
         /\ PackedOnce' /\ CallOnce(writes') /\ WrittenOnce(ready')
         /\ KindsKnown'
         /\ \A n : Packed(n)' <=> Packed(n)
         /\ \A n : HasCall(writes', n) <=> HasCall(writes, n)
         /\ Head(ready).what = "written" =>
              /\ RequestKind(Head(ready).call)
              /\ \A n : HasWritten(ready, n) <=> (n = Head(ready).call.n \/ HasWritten(ready', n))
              /\ ~HasWritten(ready', Head(ready).call.n)
         /\ Head(ready).what # "written" =>
              \A n : HasWritten(ready, n) <=> HasWritten(ready', n)
<1>1. ready \in Seq(Ready) /\ WrittenOnce(ready)
  BY DEF IInv, TypeOK, Once
<1>2. /\ Head(ready) = ready[1] /\ 1 \in 1..Len(ready)
      /\ \A i \in 1..Len(ready') : i + 1 \in 1..Len(ready) /\ ready'[i] = ready[i + 1]
  BY <1>1, TailElements
<1>3. \A i \in 1..Len(ready') : ready'[i].what = "written" => RequestKind(ready'[i].call)
  BY <1>2 DEF IInv, KindsKnown
<1>4. Head(ready).what = "written" => RequestKind(Head(ready).call)
  BY <1>2 DEF IInv, KindsKnown
<1>5. KindsKnown'
  BY <1>3 DEF IInv, KindsKnown, RequestKind, local
<1>6. PackedOnce' /\ CallOnce(writes') /\ \A n : Packed(n)' <=> Packed(n)
  BY DEF IInv, Once, PackedOnce, Packed, local
<1> QED BY <1>1, <1>4, <1>5, <1>6, TailReady

(* close calls a handler that waits, once, and no other.                   *)
LEMMA CloseCalls ==
  ASSUME IInv, Close
  PROVE  /\ results' \in [CallIds -> Seq(Foreign..MaxCalls)]
         /\ \A n \in CallIds : Called(n)' <=> Called(n) \/ Waiting(n)
         /\ \A n \in CallIds : Len(results'[n]) <= 1
         /\ \A n \in CallIds : ~Waiting(n)'
         /\ WaitingOnce'
         /\ DOMAIN m_map' = {}
<1>1. DOMAIN m_map' = {}
  BY DEF Close
<1>2. ASSUME NEW n \in CallIds
      PROVE  /\ results'[n] \in Seq(Foreign..MaxCalls)
             /\ results'[n] # <<>> <=> results[n] # <<>> \/ Waiting(n)
             /\ Len(results'[n]) <= 1
  <2> DEFINE k == Cardinality({id \in DOMAIN m_map : m_map[id] = n})
             z == [i \in 1..k |-> 0]
  <2>1. results'[n] = results[n] \o z
    BY DEF Close, CallWaiting
  <2>2. /\ results[n] \in Seq(Foreign..MaxCalls) /\ Len(results[n]) <= 1
        /\ Waiting(n) => results[n] = <<>>
    BY DEF IInv, TypeOK, Exclusive, Called
  <2>3. /\ Waiting(n) => k = 1
        /\ ~Waiting(n) => k = 0
    <3>1. CASE Waiting(n)
      <4>1. PICK id \in DOMAIN m_map : m_map[id] = n
        BY <3>1 DEF Waiting
      <4>2. {i \in DOMAIN m_map : m_map[i] = n} = {id}
        BY <4>1 DEF IInv, Once, WaitingOnce
      <4> QED BY <3>1, <4>2, FS_Singleton
    <3>2. CASE ~Waiting(n)
      <4>1. {i \in DOMAIN m_map : m_map[i] = n} = {}
        BY <3>2 DEF Waiting
      <4> QED BY <3>2, <4>1, FS_EmptySet
    <3> QED BY <3>1, <3>2
  <2> HIDE DEF k
  <2>4. k \in {0, 1} => z \in Seq(Foreign..MaxCalls) /\ Len(z) = k
    BY MaxCallsAssumption DEF Foreign
  <2> HIDE DEF z
  <2>5. CASE Waiting(n)
    <3>1. z \in Seq(Foreign..MaxCalls) /\ Len(z) = 1
      BY <2>3, <2>4, <2>5
    <3>2. <<>> \o z = z
      BY <3>1, ConcatEmptySeq
    <3>3. results'[n] = z
      BY <2>1, <2>2, <2>5, <3>2
    <3>4. z # <<>>
      <4>1. Len(<<>>) = 0 /\ 0 # 1
        OBVIOUS
      <4> QED BY <3>1, <4>1, Zenon
    <3>5. Len(z) <= 1
      BY <3>1
    <3> QED BY <2>5, <3>1, <3>3, <3>4, <3>5, Zenon
  <2>6. CASE ~Waiting(n)
    <3>1. results'[n] = results[n]
      BY <2>1, <2>2, <2>3, <2>4, <2>6
    <3> QED BY <2>2, <2>6, <3>1
  <2> QED BY <2>5, <2>6
<1>3. results' \in [CallIds -> Seq(Foreign..MaxCalls)]
  <2>1. /\ DOMAIN results' = CallIds
        /\ results' = [n \in DOMAIN results' |-> results'[n]]
    BY DEF Close, CallWaiting
  <2> QED BY <1>2, <2>1
<1> QED BY <1>1, <1>2, <1>3 DEF Called, Waiting, WaitingOnce

(* The handler of a written request goes to m_map, or is lost to the one   *)
(* that has its identifier.                                                *)
LEMMA RunWrittenIInv == IInv /\ RunWritten => IInv'
<1> SUFFICES ASSUME IInv, RunWritten PROVE IInv'
  OBVIOUS
<1> DEFINE c     == Head(ready).call
           taken == c.reg \in DOMAIN m_map
           keep  == c.kind \in Requests /\ ~taken
           drop  == c.kind \in Requests /\ taken
<1>1. /\ ready # <<>> /\ ready' = Tail(ready) /\ Head(ready).what = "written"
      /\ m_map' = IF keep THEN With(m_map, c.reg, c.n) ELSE m_map
      /\ lost' = IF drop THEN lost \cup {c.n} ELSE lost
      /\ UNCHANGED <<local, writes, peer, back, conn, results, handled, posted>>
  BY DEF RunWritten, IoRuns
<1>2. c \in Call
  BY <1>1, TakeReady, ReadyTypes
<1>3. c.n \in CallIds /\ c.reg \in Nat
  BY <1>2 DEF Call
<1>4. /\ ready' \in Seq(Ready)
      /\ PackedOnce' /\ CallOnce(writes') /\ WrittenOnce(ready') /\ KindsKnown'
      /\ \A n : Packed(n)' <=> Packed(n)
      /\ \A n : HasCall(writes', n) <=> HasCall(writes, n)
      /\ RequestKind(c) /\ ~HasWritten(ready', c.n) /\ HasWritten(ready, c.n)
      /\ \A n : HasWritten(ready, n) <=> (n = c.n \/ HasWritten(ready', n))
  BY <1>1, TakeReady
<1> HIDE DEF c, taken
<1>5. ~Waiting(c.n) /\ ~Called(c.n) /\ c.n \notin lost
  BY <1>3, <1>4 DEF IInv, Exclusive
<1>6. /\ DOMAIN m_map' \subseteq Nat
      /\ \A id \in DOMAIN m_map' : m_map'[id] \in CallIds
      /\ \A n : Waiting(n)' <=> (Waiting(n) \/ (keep /\ n = c.n))
      /\ WaitingOnce'
  <2>1. CASE keep
    <3>1. /\ DOMAIN m_map' = DOMAIN m_map \cup {c.reg}
          /\ m_map'[c.reg] = c.n /\ \A id \in DOMAIN m_map : m_map'[id] = m_map[id]
      BY <1>1, <2>1 DEF With, taken
    <3>2. \A id \in DOMAIN m_map : m_map[id] # c.n
      BY <1>5 DEF Waiting
    <3>3. \A n : Waiting(n)' <=> (Waiting(n) \/ n = c.n)
      BY <3>1 DEF Waiting
    <3>4. WaitingOnce'
      BY <3>1, <3>2 DEF IInv, Once, WaitingOnce
    <3> QED BY <1>3, <2>1, <3>1, <3>3, <3>4 DEF IInv, TypeOK
  <2>2. CASE ~keep
    <3>1. m_map' = m_map
      BY <1>1, <2>2
    <3> QED BY <2>2, <3>1 DEF IInv, TypeOK, Once, WaitingOnce, Waiting
  <2> QED BY <2>1, <2>2
<1>7. \A n : n \in lost' <=> (n \in lost \/ (drop /\ n = c.n))
  BY <1>1
<1>8. (keep \/ drop <=> c.kind \in Requests) /\ ~(keep /\ drop)
  OBVIOUS
<1> HIDE DEF keep, drop
<1>9. lost' \subseteq CallIds
  BY <1>3, <1>7 DEF IInv, TypeOK
<1>10. TypeOK'
  BY <1>1, <1>4, <1>6, <1>9 DEF IInv, TypeOK, local
<1>11. Once' /\ cur' \in [Threads -> Call \cup {NoCall}]
  BY <1>1, <1>4, <1>6 DEF IInv, Once, local
<1>12. ASSUME NEW n \in CallIds PROVE Exclusive(n)' /\ Len(results'[n]) <= 1
  <2>1. Exclusive(n) /\ Exclusive(c.n) /\ Len(results[n]) <= 1
    BY <1>3 DEF IInv
  <2> QED BY <1>1, <1>4, <1>6, <1>7, <1>8, <2>1 DEF Exclusive, Called, local
<1>13. ASSUME NEW n \in asked' PROVE Somewhere(n)'
  <2>1. n \in asked /\ Somewhere(n) /\ (n = c.n => c.kind \in Requests)
    BY <1>1, <1>4 DEF IInv, RequestKind, local
  <2> QED BY <1>1, <1>4, <1>6, <1>7, <1>8, <2>1 DEF Somewhere, Called, local
<1> QED BY <1>1, <1>4, <1>10, <1>11, <1>12, <1>13 DEF IInv, local

(* The handler of a request that was not written is lost; after a raw call *)
(* those that wait are called.                                             *)
LEMMA RunWriteFailedIInv == IInv /\ RunWriteFailed => IInv'
<1> SUFFICES ASSUME IInv, RunWriteFailed PROVE IInv'
  OBVIOUS
<1> DEFINE c    == Head(ready).call
           drop == c.kind \in Requests
<1>1. /\ ready # <<>> /\ ready' = Tail(ready) /\ Head(ready).what = "written"
      /\ lost' = IF drop THEN lost \cup {c.n} ELSE lost
      /\ Close \/ UNCHANGED <<m_map, results>>
      /\ UNCHANGED <<local, writes, peer, back, conn, handled, posted>>
  BY DEF RunWriteFailed, IoRuns
<1>2. c \in Call
  BY <1>1, TakeReady, ReadyTypes
<1>3. c.n \in CallIds
  BY <1>2 DEF Call
<1>4. /\ ready' \in Seq(Ready)
      /\ PackedOnce' /\ CallOnce(writes') /\ WrittenOnce(ready') /\ KindsKnown'
      /\ \A n : Packed(n)' <=> Packed(n)
      /\ \A n : HasCall(writes', n) <=> HasCall(writes, n)
      /\ RequestKind(c) /\ ~HasWritten(ready', c.n) /\ HasWritten(ready, c.n)
      /\ \A n : HasWritten(ready, n) <=> (n = c.n \/ HasWritten(ready', n))
  BY <1>1, TakeReady
<1> HIDE DEF c
<1>5. /\ results' \in [CallIds -> Seq(Foreign..MaxCalls)]
      /\ \A n \in CallIds : Len(results'[n]) <= 1
      /\ DOMAIN m_map' \subseteq Nat
      /\ \A id \in DOMAIN m_map' : m_map'[id] \in CallIds
      /\ WaitingOnce'
      /\ \A n \in CallIds : Waiting(n)' => Waiting(n)
      /\ \A n \in CallIds : Called(n)' <=> Called(n) \/ (Waiting(n) /\ ~Waiting(n)')
  <2>1. CASE Close
    BY <2>1, CloseCalls
  <2>2. CASE UNCHANGED <<m_map, results>>
    BY <2>2 DEF IInv, TypeOK, Once, WaitingOnce, Waiting, Called
  <2> QED BY <1>1, <2>1, <2>2
<1>6. \A n : n \in lost' <=> (n \in lost \/ (drop /\ n = c.n))
  BY <1>1
<1> HIDE DEF drop
<1>7. lost' \subseteq CallIds
  BY <1>3, <1>6 DEF IInv, TypeOK
<1>8. TypeOK'
  BY <1>1, <1>4, <1>5, <1>7 DEF IInv, TypeOK, local
<1>9. Once' /\ cur' \in [Threads -> Call \cup {NoCall}]
  BY <1>1, <1>4, <1>5 DEF IInv, Once, local
<1>10. ASSUME NEW n \in CallIds PROVE Exclusive(n)' /\ Len(results'[n]) <= 1
  <2>1. Exclusive(n) /\ Exclusive(c.n)
    BY <1>3 DEF IInv
  <2>2. calls' = calls
    BY <1>1 DEF local
  <2> QED BY <1>4, <1>5, <1>6, <2>1, <2>2 DEF Exclusive
<1>11. ASSUME NEW n \in asked' PROVE Somewhere(n)'
  <2>1. n \in asked /\ n \in CallIds /\ Somewhere(n) /\ (n = c.n => drop)
    BY <1>1, <1>4, MaxCallsAssumption DEF IInv, TypeOK, CallIds, RequestKind, local, drop
  <2> QED BY <1>4, <1>5, <1>6, <2>1 DEF Somewhere
<1> QED BY <1>4, <1>8, <1>9, <1>10, <1>11 DEF IInv

(* The handler that waits under the identifier is called and erased.       *)
LEMMA RunResponseIInv == IInv /\ RunResponse => IInv'
<1> SUFFICES ASSUME IInv, RunResponse PROVE IInv'
  OBVIOUS
<1> DEFINE msg == Head(ready).msg
<1>1. /\ ready # <<>> /\ ready' = Tail(ready) /\ Head(ready).what = "response"
      /\ handled' = handled \cup ({msg.re} \cap CallIds)
      /\ IF msg.id \in DOMAIN m_map
           THEN /\ results' = [results EXCEPT ![m_map[msg.id]] = Append(@, msg.re)]
                /\ m_map' = Without(m_map, msg.id)
           ELSE UNCHANGED <<results, m_map>>
      /\ UNCHANGED <<local, writes, peer, back, conn, lost, posted>>
  BY DEF RunResponse, IoRuns
<1>2. msg \in Message
  BY <1>1, TakeReady, ReadyTypes
<1>3. msg.re \in Foreign..MaxCalls
  BY <1>2, MaxCallsAssumption DEF Message, CallIds, Foreign
<1>4. /\ ready' \in Seq(Ready)
      /\ PackedOnce' /\ CallOnce(writes') /\ WrittenOnce(ready') /\ KindsKnown'
      /\ \A n : Packed(n)' <=> Packed(n)
      /\ \A n : HasCall(writes', n) <=> HasCall(writes, n)
      /\ \A n : HasWritten(ready, n) <=> HasWritten(ready', n)
  BY <1>1, TakeReady
<1> HIDE DEF msg
<1>5. /\ results' \in [CallIds -> Seq(Foreign..MaxCalls)]
      /\ \A n \in CallIds : Len(results'[n]) <= 1
      /\ DOMAIN m_map' \subseteq Nat
      /\ \A id \in DOMAIN m_map' : m_map'[id] \in CallIds
      /\ WaitingOnce'
      /\ \A n \in CallIds : Waiting(n)' => Waiting(n)
      /\ \A n \in CallIds : Called(n)' <=> Called(n) \/ (Waiting(n) /\ ~Waiting(n)')
  <2>1. CASE msg.id \in DOMAIN m_map
    <3> DEFINE k == m_map[msg.id]
    <3>1. k \in CallIds /\ Waiting(k)
      BY <2>1 DEF IInv, TypeOK, Waiting
    <3>2. results[k] = <<>>
      BY <3>1 DEF IInv, Exclusive, Called
    <3>3. /\ DOMAIN m_map' = DOMAIN m_map \ {msg.id}
          /\ \A id \in DOMAIN m_map' : m_map'[id] = m_map[id]
      BY <1>1, <2>1 DEF Without
    <3>4. \A n : Waiting(n)' <=> Waiting(n) /\ n # k
      BY <2>1, <3>3 DEF IInv, Once, WaitingOnce, Waiting
    <3>5. WaitingOnce'
      BY <3>3 DEF IInv, Once, WaitingOnce
    <3>6. results' = [results EXCEPT ![k] = Append(@, msg.re)]
      BY <1>1, <2>1
    <3> HIDE DEF k
    <3>7. /\ Append(results[k], msg.re) \in Seq(Foreign..MaxCalls)
          /\ Append(results[k], msg.re) # <<>>
          /\ Len(Append(results[k], msg.re)) = 1
      BY <1>3, <3>2
    <3>8. /\ results' \in [CallIds -> Seq(Foreign..MaxCalls)]
          /\ results'[k] # <<>> /\ Len(results'[k]) = 1
          /\ \A n \in CallIds \ {k} : results'[n] = results[n]
      BY <3>1, <3>6, <3>7 DEF IInv, TypeOK
    <3>9. \A n \in CallIds : Called(n)' <=> (Called(n) \/ n = k)
      BY <3>8 DEF Called
    <3>10. ASSUME NEW n \in CallIds PROVE Len(results'[n]) <= 1
      <4>1. Len(results[n]) <= 1
        BY DEF IInv
      <4>2. CASE n = k
        <5>1. Len(results'[n]) = 1
          BY <3>8, <4>2
        <5> QED BY <5>1
      <4>3. CASE n # k
        <5>1. results'[n] = results[n]
          BY <3>8, <4>3
        <5> QED BY <4>1, <5>1
      <4> QED BY <4>2, <4>3
    <3> QED BY <3>1, <3>3, <3>4, <3>5, <3>8, <3>9, <3>10 DEF IInv, TypeOK
  <2>2. CASE msg.id \notin DOMAIN m_map
    BY <1>1, <2>2 DEF IInv, TypeOK, Once, WaitingOnce, Waiting, Called
  <2> QED BY <2>1, <2>2
<1>6. handled' \subseteq CallIds
  BY <1>1 DEF IInv, TypeOK
<1>7. TypeOK'
  BY <1>1, <1>4, <1>5, <1>6 DEF IInv, TypeOK, local
<1>8. Once' /\ cur' \in [Threads -> Call \cup {NoCall}]
  BY <1>1, <1>4, <1>5 DEF IInv, Once, local
<1>9. ASSUME NEW n \in CallIds PROVE Exclusive(n)' /\ Len(results'[n]) <= 1
  <2>1. Exclusive(n) /\ calls' = calls /\ lost' = lost
    BY <1>1 DEF IInv, local
  <2> QED BY <1>4, <1>5, <2>1 DEF Exclusive
<1>10. ASSUME NEW n \in asked' PROVE Somewhere(n)'
  <2>1. n \in asked /\ n \in CallIds /\ Somewhere(n) /\ lost' = lost
    BY <1>1, MaxCallsAssumption DEF IInv, TypeOK, CallIds, local
  <2> QED BY <1>4, <1>5, <2>1 DEF Somewhere
<1> QED BY <1>4, <1>7, <1>8, <1>9, <1>10 DEF IInv

(* Every handler that waits is called.                                     *)
LEMMA RunErrorIInv == IInv /\ RunError => IInv'
<1> SUFFICES ASSUME IInv, RunError PROVE IInv'
  OBVIOUS
<1>1. /\ ready # <<>> /\ ready' = Tail(ready) /\ Head(ready).what = "error"
      /\ Close /\ conn' = "closed"
      /\ UNCHANGED <<local, writes, peer, back, lost, handled, posted>>
  BY DEF RunError, IoRuns
<1>2. /\ ready' \in Seq(Ready)
      /\ PackedOnce' /\ CallOnce(writes') /\ WrittenOnce(ready') /\ KindsKnown'
      /\ \A n : Packed(n)' <=> Packed(n)
      /\ \A n : HasCall(writes', n) <=> HasCall(writes, n)
      /\ \A n : HasWritten(ready, n) <=> HasWritten(ready', n)
  BY <1>1, TakeReady
<1>3. /\ results' \in [CallIds -> Seq(Foreign..MaxCalls)]
      /\ \A n \in CallIds : Called(n)' <=> Called(n) \/ Waiting(n)
      /\ \A n \in CallIds : Len(results'[n]) <= 1
      /\ \A n \in CallIds : ~Waiting(n)'
      /\ WaitingOnce' /\ DOMAIN m_map' = {}
  BY <1>1, CloseCalls
<1>4. TypeOK'
  BY <1>1, <1>2, <1>3 DEF IInv, TypeOK, local
<1>5. Once' /\ cur' \in [Threads -> Call \cup {NoCall}]
  BY <1>1, <1>2, <1>3 DEF IInv, Once, local
<1>6. ASSUME NEW n \in CallIds PROVE Exclusive(n)' /\ Len(results'[n]) <= 1
  <2>1. Exclusive(n) /\ calls' = calls /\ lost' = lost
    BY <1>1 DEF IInv, local
  <2> QED BY <1>2, <1>3, <2>1 DEF Exclusive
<1>7. ASSUME NEW n \in asked' PROVE Somewhere(n)'
  <2>1. n \in asked /\ n \in CallIds /\ Somewhere(n) /\ lost' = lost
    BY <1>1, MaxCallsAssumption DEF IInv, TypeOK, CallIds, local
  <2> QED BY <1>2, <1>3, <2>1 DEF Somewhere
<1> QED BY <1>2, <1>4, <1>5, <1>6, <1>7 DEF IInv

-----------------------------------------------------------------------------
(* The invariant holds in every reachable state.                           *)
THEOREM Inductive == Spec => []IInv
<1>1. IInv /\ [Next]_vars => IInv'
  <2> SUFFICES ASSUME IInv, [Next]_vars PROVE IInv'
    OBVIOUS
  <2>1. ASSUME NEW t \in Threads, NEW kind \in AllKinds, Pack(t, kind) PROVE IInv'
    BY <2>1, PackIInv
  <2>2. ASSUME NEW t \in Threads, Enqueue(t) PROVE IInv'
    BY <2>2, EnqueueIInv
  <2>3. ASSUME NEW t \in Threads, Load(t) \/ Store(t) PROVE IInv'
    BY <2>3, IncrementIInv
  <2>4. CASE Write
    BY <2>4, WriteIInv
  <2>5. CASE PeerHandles \/ PeerPosts \/ Arrive \/ Break
    BY <2>5, EnvironmentIInv
  <2>6. CASE RunWritten \/ RunWriteFailed \/ RunResponse \/ RunError
    BY <2>6, RunWrittenIInv, RunWriteFailedIInv, RunResponseIInv, RunErrorIInv
  <2>7. CASE UNCHANGED vars
    <3>1. UNCHANGED <<m_id, m_map, calls, asked, pc, cur, writes, ready, peer, back,
                      conn, results, lost, handled, posted, raced>>
      BY <2>7 DEF vars
    <3>2. TypeOK' /\ Once' /\ KindsKnown'
      BY <3>1 DEF IInv, TypeOK, Once, PackedOnce, WaitingOnce, KindsKnown, RequestKind
    <3>3. \A n : Packed(n)' <=> Packed(n)
      BY <3>1 DEF Packed
    <3> QED BY <3>1, <3>2, <3>3, Undisturbed DEF IInv
  <2> QED BY <2>1, <2>2, <2>3, <2>4, <2>5, <2>6, <2>7 DEF Next
<1> QED BY <1>1, InitIInv, PTL DEF Spec

(* The state of the requester and its environment keeps its types.         *)
THEOREM TypeCorrect == Spec => []TypeOK
<1>1. IInv => TypeOK
  BY DEF IInv
<1> QED BY <1>1, Inductive, PTL

(* No handler is called twice, with however many threads and calls.        *)
THEOREM CalledOnce == Spec => []CalledAtMostOnce
<1>1. IInv => CalledAtMostOnce
  BY DEF IInv, CalledAtMostOnce
<1> QED BY <1>1, Inductive, PTL

(* The handler of a request is always in exactly one place.                *)
THEOREM HandlerInOnePlace == Spec => []OnePlace
<1>1. IInv => OnePlace
  <2> SUFFICES ASSUME IInv, NEW n \in asked
               PROVE  /\ InWriter(n) => ~Waiting(n) /\ ~Called(n) /\ n \notin lost
                      /\ Waiting(n)  => ~Called(n) /\ n \notin lost
                      /\ Called(n)   => n \notin lost
                      /\ InWriter(n) \/ Waiting(n) \/ Called(n) \/ n \in lost
    BY DEF OnePlace
  <2>1. n \in CallIds
    BY MaxCallsAssumption DEF IInv, TypeOK, CallIds
  <2>2. InWriter(n) <=> Packed(n) \/ HasCall(writes, n) \/ HasWritten(ready, n)
    BY DEF InWriter, Packed, HasCall, HasWritten
  <2> QED BY <2>1, <2>2 DEF IInv, Exclusive, Somewhere
<1> QED BY <1>1, Inductive, PTL

-----------------------------------------------------------------------------
(* From here on: no call has begun while another thread was in one.  Then  *)
(* the identifier of a call is its number, wherever it is kept.            *)
Own(c) == c.pid = c.n /\ c.reg = c.n

CallerOK ==
  /\ \A t, u \in Threads : pc[t] # "idle" /\ pc[u] # "idle" => t = u
  /\ \A t \in Threads : pc[t] # "idle" =>
       /\ cur[t].n = calls /\ cur[t].pid = calls /\ m_id = calls
       /\ pc[t] = "loaded" => cur[t].reg = calls
  /\ (\A t \in Threads : pc[t] = "idle") => m_id = calls + 1

NumbersOK ==
  /\ \A i \in 1..Len(writes) : Own(writes[i])
  /\ \A i \in 1..Len(ready) : ready[i].what = "written" => Own(ready[i].call)
  /\ \A id \in DOMAIN m_map : m_map[id] = id

(* Before the j-th completion of s the handler of call n is registered.    *)
Registers(r, n) ==
  r.what = "written" /\ r.ok /\ r.call.n = n /\ r.call.kind \in Requests
Before(s, n, j) == \E i \in 1..Len(s) : i < j /\ Registers(s[i], n)

(* An answer that is the j-th completion, or will be behind all there are, *)
(* finds its handler waiting or called; what is no answer is a raw post.   *)
Answer(m, j) ==
  IF m.re = Foreign THEN posted > 0
  ELSE /\ m.id = m.re
       /\ Waiting(m.re) \/ Called(m.re) \/ Before(ready, m.re, j)

PeerOK == \A i \in 1..Len(peer) : Answer(peer[i], Len(ready) + 1)
BackOK == \A i \in 1..Len(back) : Answer(back[i], Len(ready) + 1)
ReadyOK ==
  \A j \in 1..Len(ready) : ready[j].what = "response" => Answer(ready[j].msg, j)
AnswersOK == PeerOK /\ BackOK /\ ReadyOK

(* What the handler of call n may be called with, after p raw posts.       *)
Allowed(r, n, p) == r \in {0, n} \/ (r = Foreign /\ p > 0)

OInv == CallerOK /\ NumbersOK /\ AnswersOK /\ ReturnedUnlessPosted

-----------------------------------------------------------------------------
(* At first there is nothing, and the next identifier is 1.                *)
LEMMA InitOInv == Init => OInv
BY DEF Init, OInv, CallerOK, NumbersOK, AnswersOK, PeerOK, BackOK, ReadyOK,
   ReturnedUnlessPosted

(* A step of a call keeps what was answered.                               *)
LEMMA AnswersStay ==
  ASSUME OInv, UNCHANGED <<m_map, ready, peer, back, results, handled, posted>>
  PROVE  AnswersOK' /\ ReturnedUnlessPosted'
<1>1. \A m, j : Answer(m, j)' <=> Answer(m, j)
  BY DEF Answer, Waiting, Called
<1>2. AnswersOK'
  BY <1>1 DEF OInv, AnswersOK, PeerOK, BackOK, ReadyOK
<1> QED BY <1>2 DEF OInv, ReturnedUnlessPosted, Allowed, Called

(* The caller packs its number, captures it and increments it: nobody      *)
(* comes in between.                                                       *)
LEMMA CallOInv ==
  ASSUME IInv, OInv, NEW t \in Threads,
         (\E kind \in AllKinds : Pack(t, kind)) \/ Enqueue(t) \/ Load(t) \/ Store(t),
         ~raced'
  PROVE  OInv'
<1>1. UNCHANGED <<m_map, ready, peer, back, results, handled, posted>>
  BY DEF Pack, Enqueue, Load, Store
<1>2. AnswersOK' /\ ReturnedUnlessPosted'
  BY <1>1, AnswersStay
<1>3. /\ pc \in [Threads -> {"idle", "packed", "queued", "loaded"}]
      /\ cur \in [Threads -> Call \cup {NoCall}] /\ m_id \in Nat /\ calls \in Nat
      /\ pc[t] # "idle" => cur[t] \in Call
      /\ writes \in Seq(Call)
  BY MaxCallsAssumption DEF IInv, TypeOK
<1>4. CallerOK
  BY DEF OInv
<1>5. \A u \in Threads \ {t} : pc[u] = "idle"
  BY <1>4 DEF CallerOK, Pack, Enqueue, Load, Store
<1>6. CASE \E kind \in AllKinds : Pack(t, kind)
  <2>1. PICK kind \in AllKinds : Pack(t, kind)
    BY <1>6
  <2> DEFINE rec == [n |-> calls + 1, kind |-> kind, pid |-> m_id, reg |-> 0]
  <2>2. /\ pc[t] = "idle"
        /\ calls' = calls + 1 /\ m_id' = m_id /\ writes' = writes
        /\ cur' = [cur EXCEPT ![t] = rec] /\ pc' = [pc EXCEPT ![t] = "packed"]
    BY <2>1 DEF Pack
  <2>3. \A u \in Threads : pc[u] = "idle"
    BY <1>5, <2>2
  <2>4. m_id = calls + 1
    BY <1>4, <2>3 DEF CallerOK
  <2>5. rec.n = calls + 1 /\ rec.pid = m_id
    OBVIOUS
  <2> HIDE DEF rec
  <2>6. /\ cur'[t] = rec /\ pc'[t] = "packed"
        /\ \A u \in Threads \ {t} : pc'[u] = "idle"
    BY <1>3, <2>2, <2>3
  <2>7. CallerOK'
    BY <1>3, <2>2, <2>4, <2>5, <2>6 DEF CallerOK
  <2> QED BY <1>1, <1>2, <2>2, <2>7 DEF OInv, NumbersOK
<1>7. CASE Enqueue(t)
  <2> DEFINE c == [cur[t] EXCEPT !.reg = m_id]
  <2>1. /\ pc[t] = "packed" /\ writes' = Append(writes, c)
        /\ pc' = [pc EXCEPT ![t] = "queued"] /\ UNCHANGED <<m_id, calls, cur>>
    BY <1>7 DEF Enqueue
  <2>2. cur[t].n = calls /\ cur[t].pid = calls /\ m_id = calls
    BY <1>4, <2>1 DEF CallerOK
  <2>3. c \in Call /\ Own(c)
    BY <1>3, <2>1, <2>2 DEF Call, Own
  <2> HIDE DEF c
  <2>4. \A i \in 1..Len(writes') : writes'[i] = c \/ (i \in 1..Len(writes) /\ writes'[i] = writes[i])
    <3>1. /\ Len(writes) \in Nat /\ Len(writes') = Len(writes) + 1
          /\ writes'[Len(writes) + 1] = c /\ \A i \in 1..Len(writes) : writes'[i] = writes[i]
      BY <1>3, <2>1, <2>3, AppendElements
    <3> QED BY <3>1
  <2>5. NumbersOK'
    BY <1>1, <2>3, <2>4 DEF OInv, NumbersOK
  <2>6. /\ pc'[t] = "queued" /\ \A u \in Threads \ {t} : pc'[u] = pc[u]
    BY <1>3, <2>1
  <2>7. CallerOK'
    BY <1>4, <1>5, <2>1, <2>2, <2>6 DEF CallerOK
  <2> QED BY <1>2, <2>5, <2>7 DEF OInv
<1>8. CASE Load(t)
  <2> DEFINE c == [cur[t] EXCEPT !.reg = m_id]
  <2>1. /\ pc[t] = "queued" /\ cur' = [cur EXCEPT ![t] = c]
        /\ pc' = [pc EXCEPT ![t] = "loaded"] /\ UNCHANGED <<m_id, calls, writes>>
    BY <1>8 DEF Load
  <2>2. cur[t].n = calls /\ cur[t].pid = calls /\ m_id = calls
    BY <1>4, <2>1 DEF CallerOK
  <2>3. c.n = calls /\ c.pid = calls /\ c.reg = calls
    BY <1>3, <2>1, <2>2 DEF Call
  <2> HIDE DEF c
  <2>4. /\ pc'[t] = "loaded" /\ cur'[t] = c
        /\ \A u \in Threads \ {t} : pc'[u] = pc[u] /\ cur'[u] = cur[u]
    BY <1>3, <2>1
  <2>5. CallerOK'
    BY <1>4, <1>5, <2>1, <2>2, <2>3, <2>4 DEF CallerOK
  <2> QED BY <1>1, <1>2, <2>1, <2>5 DEF OInv, NumbersOK
<1>9. CASE Store(t)
  <2>1. /\ pc[t] = "loaded" /\ m_id' = cur[t].reg + 1
        /\ pc' = [pc EXCEPT ![t] = "idle"] /\ UNCHANGED <<cur, calls, writes>>
    BY <1>9 DEF Store
  <2>2. cur[t].reg = calls
    BY <1>4, <2>1 DEF CallerOK
  <2>3. \A u \in Threads : pc'[u] = "idle"
    BY <1>3, <1>5, <2>1, <2>2
  <2>4. CallerOK'
    BY <2>1, <2>2, <2>3 DEF CallerOK
  <2> QED BY <1>1, <1>2, <2>1, <2>4 DEF OInv, NumbersOK
<1> QED BY <1>6, <1>7, <1>8, <1>9

(* A completion that becomes ready is behind the others.                   *)
LEMMA AppendAnswers ==
  ASSUME IInv, NEW r \in Ready, ready' = Append(ready, r), UNCHANGED <<m_map, results, posted>>
  PROVE  /\ Len(ready) \in Nat /\ Len(ready') = Len(ready) + 1
         /\ ready'[Len(ready) + 1] = r
         /\ \A j \in 1..Len(ready) : ready'[j] = ready[j]
         /\ \A m, j : Answer(m, j) => Answer(m, j)'
         /\ \A m : Answer(m, Len(ready) + 1) => Answer(m, Len(ready) + 1)'
         /\ \A m : m.re # Foreign /\ m.id = m.re /\ Registers(r, m.re) => Answer(m, Len(ready) + 1)'
<1>1. /\ Len(ready) \in Nat /\ Len(ready') = Len(ready) + 1
      /\ ready'[Len(ready) + 1] = r
      /\ \A j \in 1..Len(ready) : ready'[j] = ready[j]
  BY AppendElements DEF IInv, TypeOK
<1>2. \A n, j : Before(ready, n, j) => Before(ready', n, j)
  BY <1>1 DEF Before
<1>3. \A n : Before(ready, n, Len(ready) + 1) => Before(ready', n, Len(ready') + 1)
  BY <1>1 DEF Before
<1>4. \A n : Registers(r, n) => Before(ready', n, Len(ready') + 1)
  BY <1>1 DEF Before
<1>5. \A n : (Waiting(n)' <=> Waiting(n)) /\ (Called(n)' <=> Called(n))
  BY DEF Waiting, Called
<1> QED BY <1>1, <1>2, <1>3, <1>4, <1>5 DEF Answer

(* A frame that is written reaches the peer together with the completion   *)
(* that registers its handler.                                             *)
LEMMA WriteOInv == IInv /\ OInv /\ Write => OInv'
<1> SUFFICES ASSUME IInv, OInv, Write PROVE OInv'
  OBVIOUS
<1> DEFINE c == Head(writes)
           m == [id |-> c.pid, re |-> c.n]
           sent == conn = "open" /\ c.kind \in Requests
<1>1. /\ writes # <<>> /\ writes' = Tail(writes)
      /\ writes \in Seq(Call) /\ ready \in Seq(Ready) /\ peer \in Seq(Message)
      /\ UNCHANGED <<local, m_map, back, conn, results, lost, handled, posted>>
      /\ peer' = IF sent THEN Append(peer, m) ELSE peer
  BY DEF IInv, TypeOK, Write
<1>2. /\ c \in Call /\ c = writes[1] /\ 1 \in 1..Len(writes)
      /\ \A i \in 1..Len(writes') : i + 1 \in 1..Len(writes) /\ writes'[i] = writes[i + 1]
  BY <1>1, TailElements
<1>3. Own(c) /\ \A i \in 1..Len(writes') : Own(writes'[i])
  BY <1>2 DEF OInv, NumbersOK
<1> HIDE DEF c
<1>4. PICK ok \in BOOLEAN :
        /\ ready' = Append(ready, [what |-> "written", call |-> c, ok |-> ok])
        /\ conn = "open" => ok
  <2>1. (CASE conn = "open" -> {TRUE}
           [] conn = "broken" -> BOOLEAN
           [] conn = "closed" -> {FALSE}) \subseteq BOOLEAN
    BY DEF IInv, TypeOK
  <2>2. conn = "open" => (CASE conn = "open" -> {TRUE}
           [] conn = "broken" -> BOOLEAN
           [] conn = "closed" -> {FALSE}) = {TRUE}
    OBVIOUS
  <2> QED BY <2>1, <2>2 DEF Write, c
<1> DEFINE r == [what |-> "written", call |-> c, ok |-> ok]
<1>5. r \in Ready /\ r.what = "written" /\ r.call = c /\ r.ok = ok
  BY <1>2, ReadyTypes
<1>6. ready' = Append(ready, r)
  BY <1>4
<1> HIDE DEF r
<1>7. /\ Len(ready) \in Nat /\ Len(ready') = Len(ready) + 1
      /\ ready'[Len(ready) + 1] = r
      /\ \A j \in 1..Len(ready) : ready'[j] = ready[j]
      /\ \A x, j : Answer(x, j) => Answer(x, j)'
      /\ \A x : Answer(x, Len(ready) + 1) => Answer(x, Len(ready) + 1)'
      /\ \A x : x.re # Foreign /\ x.id = x.re /\ Registers(r, x.re) => Answer(x, Len(ready) + 1)'
  BY <1>1, <1>5, <1>6, AppendAnswers
<1>8. PeerOK'
  <2>1. CASE ~sent
    BY <1>1, <1>7, <2>1 DEF OInv, AnswersOK, PeerOK, BackOK, ReadyOK
  <2>2. CASE sent
    <3>1. m \in Message /\ m.id = m.re /\ m.re = c.n /\ m.re # Foreign
      BY <1>2, <1>3 DEF Call, Message, Own, CallIds, Foreign
    <3>2. Registers(r, m.re)
      BY <1>4, <1>5, <2>2, <3>1 DEF Registers
    <3> HIDE DEF m
    <3>3. \A i \in 1..Len(peer') : peer'[i] = m \/ (i \in 1..Len(peer) /\ peer'[i] = peer[i])
      <4>1. peer' = Append(peer, m)
        BY <1>1, <2>2
      <4>2. /\ Len(peer) \in Nat /\ Len(peer') = Len(peer) + 1
            /\ peer'[Len(peer) + 1] = m /\ \A i \in 1..Len(peer) : peer'[i] = peer[i]
        BY <1>1, <3>1, <4>1, AppendElements
      <4> QED BY <4>2
    <3> QED BY <1>7, <3>1, <3>2, <3>3 DEF OInv, AnswersOK, PeerOK, BackOK, ReadyOK
  <2> QED BY <2>1, <2>2
<1>9. AnswersOK'
  <2>1. BackOK'
    BY <1>1, <1>7 DEF OInv, AnswersOK, PeerOK, BackOK, ReadyOK
  <2>2. ReadyOK'
    BY <1>5, <1>7 DEF OInv, AnswersOK, PeerOK, BackOK, ReadyOK
  <2> QED BY <1>8, <2>1, <2>2 DEF AnswersOK
<1>10. NumbersOK'
  <2>1. \A j \in 1..Len(ready') : ready'[j] = r \/ (j \in 1..Len(ready) /\ ready'[j] = ready[j])
    BY <1>7
  <2>2. \A j \in 1..Len(ready') : ready'[j].what = "written" => Own(ready'[j].call)
    BY <1>3, <1>5, <2>1 DEF OInv, NumbersOK
  <2> QED BY <1>1, <1>3, <2>2 DEF OInv, NumbersOK
<1> QED
  BY <1>1, <1>9, <1>10 DEF OInv, CallerOK, ReturnedUnlessPosted, Called, local

(* An answer on its way keeps its number and comes after its request's     *)
(* completion.                                                             *)
LEMMA EnvironmentOInv == IInv /\ OInv /\ (PeerHandles \/ Arrive \/ Break) => OInv'
<1> SUFFICES ASSUME IInv, OInv, PeerHandles \/ Arrive \/ Break PROVE OInv'
  OBVIOUS
<1>1. UNCHANGED <<local, m_map, writes, results, lost, handled, posted>>
  BY DEF PeerHandles, Arrive, Break
<1>2. ready \in Seq(Ready) /\ peer \in Seq(Message) /\ back \in Seq(Message)
  BY DEF IInv, TypeOK
<1>3. CallerOK' /\ ReturnedUnlessPosted'
  BY <1>1 DEF OInv, CallerOK, ReturnedUnlessPosted, Called, local
<1>4. CASE PeerHandles
  <2>1. /\ peer # <<>> /\ peer' = Tail(peer) /\ ready' = ready
        /\ back' = back \/ back' = Append(back, Head(peer))
    BY <1>4 DEF PeerHandles
  <2>2. /\ Head(peer) \in Message /\ Head(peer) = peer[1] /\ 1 \in 1..Len(peer)
        /\ \A i \in 1..Len(peer') : i + 1 \in 1..Len(peer) /\ peer'[i] = peer[i + 1]
    BY <1>2, <2>1, TailElements
  <2>3. \A i \in 1..Len(back') :
          back'[i] = peer[1] \/ (i \in 1..Len(back) /\ back'[i] = back[i])
    <3>1. CASE back' = Append(back, Head(peer))
      <4>1. /\ Len(back) \in Nat /\ Len(back') = Len(back) + 1
            /\ back'[Len(back) + 1] = peer[1] /\ \A i \in 1..Len(back) : back'[i] = back[i]
        BY <1>2, <2>2, <3>1, AppendElements
      <4> QED BY <4>1
    <3> QED BY <2>1, <3>1
  <2>4. \A m, j : Answer(m, j)' <=> Answer(m, j)
    BY <1>1, <2>1 DEF Answer, Waiting, Called
  <2>5. AnswersOK'
    BY <2>1, <2>2, <2>3, <2>4 DEF OInv, AnswersOK, PeerOK, BackOK, ReadyOK
  <2> QED BY <1>1, <1>3, <2>1, <2>5 DEF OInv, NumbersOK
<1>5. CASE Arrive \/ Break
  <2>1. PICK r \in Ready :
          /\ r.what # "written" /\ ready' = Append(ready, r) /\ peer' = peer
          /\ r.what = "response" => Answer(r.msg, Len(ready) + 1)
          /\ \A i \in 1..Len(back') : \E k \in 1..Len(back) : back'[i] = back[k]
    <3>1. CASE Arrive
      <4> DEFINE h == Head(back)
                 r == [what |-> "response", msg |-> h]
      <4>1. /\ h \in Message /\ h = back[1] /\ 1 \in 1..Len(back)
            /\ \A i \in 1..Len(back') : i + 1 \in 1..Len(back) /\ back'[i] = back[i + 1]
        BY <1>2, <3>1, TailElements DEF Arrive
      <4>2. Answer(h, Len(ready) + 1)
        BY <4>1 DEF OInv, AnswersOK, PeerOK, BackOK, ReadyOK
      <4>3. ready' = Append(ready, r) /\ peer' = peer
        BY <3>1 DEF Arrive
      <4>4. r \in Ready /\ r.what = "response" /\ r.msg = h
        BY <4>1, ReadyTypes
      <4> HIDE DEF h, r
      <4> QED BY <4>1, <4>2, <4>3, <4>4
    <3>2. CASE Break
      BY <3>2, ReadyTypes DEF Break
    <3> QED BY <1>5, <3>1, <3>2
  <2>2. /\ Len(ready) \in Nat /\ Len(ready') = Len(ready) + 1
        /\ ready'[Len(ready) + 1] = r
        /\ \A j \in 1..Len(ready) : ready'[j] = ready[j]
        /\ \A m, j : Answer(m, j) => Answer(m, j)'
        /\ \A m : Answer(m, Len(ready) + 1) => Answer(m, Len(ready) + 1)'
    BY <1>1, <2>1, AppendAnswers
  <2>3. AnswersOK'
    <3>1. PeerOK'
      BY <2>1, <2>2 DEF OInv, AnswersOK, PeerOK, BackOK, ReadyOK
    <3>2. BackOK'
      BY <2>1, <2>2 DEF OInv, AnswersOK, PeerOK, BackOK, ReadyOK
    <3>3. ReadyOK'
      BY <2>1, <2>2 DEF OInv, AnswersOK, PeerOK, BackOK, ReadyOK
    <3> QED BY <3>1, <3>2, <3>3 DEF AnswersOK
  <2>4. NumbersOK'
    BY <1>1, <2>1, <2>2 DEF OInv, NumbersOK
  <2> QED BY <1>3, <2>3, <2>4 DEF OInv
<1> QED BY <1>4, <1>5

(* A raw post finds the peer's count of them above zero.                   *)
LEMMA PeerPostsOInv == IInv /\ OInv /\ PeerPosts => OInv'
<1> SUFFICES ASSUME IInv, OInv, PeerPosts PROVE OInv'
  OBVIOUS
<1>1. PICK id \in PeerIds : back' = Append(back, [id |-> id, re |-> Foreign])
  BY DEF PeerPosts
<1>2. PICK m : m = [id |-> id, re |-> Foreign]
  OBVIOUS
<1>3. /\ m \in Message /\ m.re = Foreign /\ back' = Append(back, m)
      /\ back \in Seq(Message) /\ posted \in Nat /\ posted' = posted + 1
      /\ UNCHANGED <<local, m_map, writes, ready, peer, conn, results, lost, handled>>
  BY <1>1, <1>2, PeerIdsAssumption, MaxPostsAssumption DEF Message, PeerPosts, IInv, TypeOK
<1>4. \A x, j : Answer(x, j) => Answer(x, j)'
  BY <1>3 DEF Answer, Waiting, Called
<1>5. \A j : Answer(m, j)'
  BY <1>3 DEF Answer
<1>6. \A i \in 1..Len(back') : back'[i] = m \/ (i \in 1..Len(back) /\ back'[i] = back[i])
  <2>1. /\ Len(back) \in Nat /\ Len(back') = Len(back) + 1
        /\ back'[Len(back) + 1] = m /\ \A i \in 1..Len(back) : back'[i] = back[i]
    BY <1>3, AppendElements
  <2> QED BY <2>1
<1>7. AnswersOK'
  <2>1. PeerOK' /\ ReadyOK'
    BY <1>3, <1>4 DEF OInv, AnswersOK, PeerOK, ReadyOK
  <2>2. BackOK'
    BY <1>3, <1>4, <1>5, <1>6 DEF OInv, AnswersOK, BackOK
  <2> QED BY <2>1, <2>2 DEF AnswersOK
<1>8. ReturnedUnlessPosted'
  BY <1>3 DEF OInv, ReturnedUnlessPosted, Called
<1> QED BY <1>3, <1>7, <1>8 DEF OInv, CallerOK, NumbersOK, local

(* The io thread takes a completion.  Whom it registers has to wait, and   *)
(* who waits has to wait on or be called; then all answers stay in order.  *)
LEMMA TakeAnswers ==
  ASSUME IInv, OInv, ready # <<>>, ready' = Tail(ready),
         UNCHANGED <<local, writes, peer, back, posted>>,
         \A n \in CallIds : Waiting(n) \/ Called(n) => Waiting(n)' \/ Called(n)',
         \A n \in CallIds : Registers(Head(ready), n) => Waiting(n)' \/ Called(n)',
         \A id \in DOMAIN m_map' : m_map'[id] = id
  PROVE  CallerOK' /\ NumbersOK' /\ AnswersOK'
<1>1. ready \in Seq(Ready) /\ peer \in Seq(Message) /\ back \in Seq(Message)
  BY DEF IInv, TypeOK
<1>2. /\ Head(ready) = ready[1] /\ Len(ready) \in Nat
      /\ Len(ready') + 1 = Len(ready) /\ Len(ready') \in Nat
      /\ \A i \in 1..Len(ready') :
           i + 1 \in 1..Len(ready) /\ ready'[i] = ready[i + 1]
      /\ \A i \in 2..Len(ready) : i - 1 \in 1..Len(ready') /\ ready'[i - 1] = ready[i]
  BY <1>1, TailElements
<1>3. \A n : \A j, k \in Nat : j = k + 1 /\ Before(ready, n, j)
        => Registers(Head(ready), n) \/ Before(ready', n, k)
  <2> SUFFICES ASSUME NEW n, NEW j \in Nat, NEW k \in Nat, j = k + 1,
                      NEW i \in 1..Len(ready), i < j, Registers(ready[i], n)
               PROVE  Registers(Head(ready), n) \/ Before(ready', n, k)
    BY DEF Before
  <2>1. CASE i = 1
    BY <1>2, <2>1
  <2>2. CASE i # 1
    <3>1. i \in 2..Len(ready)
      BY <2>2
    <3>2. i - 1 \in 1..Len(ready') /\ ready'[i - 1] = ready[i] /\ i - 1 < k
      BY <1>2, <3>1
    <3> QED BY <3>2 DEF Before
  <2> QED BY <2>1, <2>2
<1>4. \A m \in Message : \A j, k \in Nat : j = k + 1 /\ Answer(m, j) => Answer(m, k)'
  <2> SUFFICES ASSUME NEW m \in Message, NEW j \in Nat, NEW k \in Nat,
                      j = k + 1, Answer(m, j)
               PROVE  Answer(m, k)'
    OBVIOUS
  <2>1. CASE m.re = Foreign
    BY <2>1 DEF Answer
  <2>2. CASE m.re # Foreign
    <3>1. m.re \in CallIds
      BY <2>2 DEF Message
    <3> QED BY <1>3, <2>2, <3>1 DEF Answer
  <2> QED BY <2>1, <2>2
<1>5. PeerOK' /\ BackOK'
  <2>1. \A m \in Message : Answer(m, Len(ready) + 1) => Answer(m, Len(ready) + 1)'
    BY <1>2, <1>4
  <2>2. peer' = peer /\ back' = back
    OBVIOUS
  <2> QED BY <1>1, <2>1, <2>2 DEF OInv, AnswersOK, PeerOK, BackOK
<1>6. ReadyOK'
  <2> SUFFICES ASSUME NEW k \in 1..Len(ready'), ready'[k].what = "response",
                      NEW m, m = ready'[k].msg
               PROVE  Answer(m, k)'
    BY DEF ReadyOK
  <2>1. k + 1 \in 1..Len(ready) /\ ready'[k] = ready[k + 1]
    BY <1>2
  <2>2. m \in Message
    BY <1>1, <2>1, ReadyTypes
  <2>3. Answer(m, k + 1)
    BY <2>1 DEF OInv, AnswersOK, ReadyOK
  <2> QED BY <1>4, <2>2, <2>3
<1>7. NumbersOK'
  BY <1>2 DEF OInv, NumbersOK, Own
<1> QED BY <1>5, <1>6, <1>7 DEF OInv, CallerOK, AnswersOK, local

(* What is called stays called, and what is added by close is an error.    *)
LEMMA CloseErrors ==
  ASSUME IInv, OInv, Close, UNCHANGED posted
  PROVE  /\ \A n \in CallIds : \A i \in 1..Len(results'[n]) : Allowed(results'[n][i], n, posted')
         /\ \A n \in CallIds : Called(n)' <=> Called(n) \/ Waiting(n)
         /\ \A id \in DOMAIN m_map' : m_map'[id] = id
<1>1. ASSUME NEW n \in CallIds, NEW i \in 1..Len(results'[n])
      PROVE  Allowed(results'[n][i], n, posted')
  <2> DEFINE k == Cardinality({id \in DOMAIN m_map : m_map[id] = n})
             z == [j \in 1..k |-> 0]
  <2>1. results'[n] = results[n] \o z
    BY DEF Close, CallWaiting
  <2>2. results[n] \in Seq(Foreign..MaxCalls) /\ Len(results'[n]) <= 1
    BY CloseCalls DEF IInv, TypeOK
  <2>3. k \in Nat
    <3>1. \A a, b \in DOMAIN m_map : m_map[a] = m_map[b] => a = b
      BY DEF IInv, Once, WaitingOnce
    <3>2. CASE \E id \in DOMAIN m_map : m_map[id] = n
      <4>1. PICK id \in DOMAIN m_map : m_map[id] = n
        BY <3>2
      <4>2. {a \in DOMAIN m_map : m_map[a] = n} = {id}
        BY <3>1, <4>1
      <4>3. Cardinality({id}) = 1
        BY FS_Singleton
      <4>4. k = 1
        BY <4>2, <4>3
      <4> QED BY <4>4
    <3>3. CASE ~ \E id \in DOMAIN m_map : m_map[id] = n
      <4>1. {a \in DOMAIN m_map : m_map[a] = n} = {}
        BY <3>3
      <4>2. k = 0
        BY <4>1, FS_EmptySet
      <4> QED BY <4>2
    <3> QED BY <3>2, <3>3
  <2> HIDE DEF k
  <2>4. z \in Seq({0}) /\ Len(z) = k /\ \A j \in 1..k : z[j] = 0
    BY <2>3
  <2> HIDE DEF z
  <2>5. \A j \in 1..Len(results'[n]) :
          \/ j \in 1..Len(results[n]) /\ results'[n][j] = results[n][j]
          \/ results'[n][j] = 0
    BY <2>1, <2>2, <2>3, <2>4
  <2> QED BY <2>5 DEF OInv, ReturnedUnlessPosted, Allowed
<1> QED BY <1>1, CloseCalls

(* A handler is registered under its call's number: it is not taken.       *)
LEMMA RunWrittenOInv == IInv /\ OInv /\ RunWritten => OInv'
<1> SUFFICES ASSUME IInv, OInv, RunWritten PROVE OInv'
  OBVIOUS
<1> DEFINE c == Head(ready).call
           taken == c.reg \in DOMAIN m_map
<1>1. /\ ready # <<>> /\ ready' = Tail(ready) /\ Head(ready).what = "written"
      /\ m_map' = IF c.kind \in Requests /\ ~taken THEN With(m_map, c.reg, c.n) ELSE m_map
      /\ UNCHANGED <<local, writes, peer, back, conn, results, handled, posted>>
  BY DEF RunWritten, IoRuns
<1>2. Head(ready) = ready[1] /\ 1 \in 1..Len(ready)
  BY <1>1, TailElements DEF IInv, TypeOK
<1>3. c.reg = c.n
  BY <1>1, <1>2 DEF OInv, NumbersOK, Own
<1> HIDE DEF c
<1>4. \A id \in DOMAIN m_map' : m_map'[id] = id
  BY <1>1, <1>3 DEF OInv, NumbersOK, With
<1>5. \A n : Waiting(n) => Waiting(n)'
  BY <1>1, <1>3 DEF Waiting, With
<1>6. \A n : n = c.n /\ c.kind \in Requests => Waiting(n)'
  BY <1>1, <1>3 DEF Waiting, With, OInv, NumbersOK
<1>7. \A n : Registers(Head(ready), n) => n = c.n /\ c.kind \in Requests
  BY DEF Registers, c
<1>8. \A n : Called(n)' <=> Called(n)
  BY <1>1 DEF Called
<1>9. CallerOK' /\ NumbersOK' /\ AnswersOK'
  BY <1>1, <1>4, <1>5, <1>6, <1>7, <1>8, TakeAnswers
<1> QED BY <1>1, <1>9 DEF OInv, ReturnedUnlessPosted, Allowed, Called

(* A frame that was not written has no answer; those that wait are called. *)
LEMMA RunWriteFailedOInv == IInv /\ OInv /\ RunWriteFailed => OInv'
<1> SUFFICES ASSUME IInv, OInv, RunWriteFailed PROVE OInv'
  OBVIOUS
<1>1. /\ ready # <<>> /\ ready' = Tail(ready) /\ ~Head(ready).ok
      /\ Close \/ UNCHANGED <<m_map, results>>
      /\ UNCHANGED <<local, writes, peer, back, conn, handled, posted>>
  BY DEF RunWriteFailed, IoRuns
<1>2. /\ \A n \in CallIds : \A i \in 1..Len(results'[n]) : Allowed(results'[n][i], n, posted')
      /\ \A n \in CallIds : Called(n) => Called(n)'
      /\ \A n \in CallIds : Waiting(n) => Waiting(n)' \/ Called(n)'
      /\ \A id \in DOMAIN m_map' : m_map'[id] = id
  <2>1. CASE Close
    BY <1>1, <2>1, CloseErrors
  <2>2. CASE UNCHANGED <<m_map, results>>
    BY <1>1, <2>2 DEF OInv, NumbersOK, ReturnedUnlessPosted, Allowed, Waiting, Called
  <2> QED BY <1>1, <2>1, <2>2
<1>3. \A n : ~Registers(Head(ready), n)
  BY <1>1 DEF Registers
<1>4. CallerOK' /\ NumbersOK' /\ AnswersOK'
  BY <1>1, <1>2, <1>3, TakeAnswers
<1>5. handled \subseteq CallIds
  BY DEF IInv, TypeOK
<1> QED BY <1>1, <1>2, <1>4, <1>5 DEF OInv, ReturnedUnlessPosted, Allowed

(* An answer is the oldest completion: its handler waits under its number, *)
(* or was called.                                                          *)
LEMMA RunResponseOInv == IInv /\ OInv /\ RunResponse => OInv'
<1> SUFFICES ASSUME IInv, OInv, RunResponse PROVE OInv'
  OBVIOUS
<1> DEFINE msg == Head(ready).msg
<1>1. /\ ready # <<>> /\ ready' = Tail(ready) /\ Head(ready).what = "response"
      /\ handled' = handled \cup ({msg.re} \cap CallIds)
      /\ IF msg.id \in DOMAIN m_map
           THEN /\ results' = [results EXCEPT ![m_map[msg.id]] = Append(@, msg.re)]
                /\ m_map' = Without(m_map, msg.id)
           ELSE UNCHANGED <<results, m_map>>
      /\ UNCHANGED <<local, writes, peer, back, conn, lost, posted>>
  BY DEF RunResponse, IoRuns
<1>2. /\ Head(ready) = ready[1] /\ 1 \in 1..Len(ready) /\ Head(ready) \in Ready
  BY <1>1, TailElements DEF IInv, TypeOK
<1>3. msg \in Message
  BY <1>1, <1>2, ReadyTypes
<1>4. Answer(msg, 1)
  BY <1>1, <1>2 DEF OInv, AnswersOK, ReadyOK
<1>5. PICK i, r : i = msg.id /\ r = msg.re
  OBVIOUS
<1> HIDE DEF msg
<1>6. /\ results \in [CallIds -> Seq(Foreign..MaxCalls)]
      /\ \A id \in DOMAIN m_map : m_map[id] = id /\ id \in CallIds
      /\ r \in CallIds \cup {Foreign}
      /\ r = Foreign => posted > 0
      /\ r # Foreign => r \in CallIds /\ i = r /\ (Waiting(r) \/ Called(r))
      /\ handled \subseteq CallIds
  BY <1>3, <1>4, <1>5 DEF IInv, TypeOK, OInv, NumbersOK, Message, Answer, Before
<1>7. /\ \A n \in CallIds : \A k \in 1..Len(results'[n]) : Allowed(results'[n][k], n, posted')
      /\ \A n \in CallIds : Called(n) => Called(n)'
      /\ \A n \in CallIds : Waiting(n) => Waiting(n)' \/ Called(n)'
      /\ r \in CallIds => Called(r)'
      /\ \A id \in DOMAIN m_map' : m_map'[id] = id
  <2>1. CASE i \in DOMAIN m_map
    <3>1. i \in CallIds /\ Allowed(r, i, posted)
      BY <1>6, <2>1 DEF Allowed
    <3>2. /\ results' = [results EXCEPT ![i] = Append(results[i], r)]
          /\ DOMAIN m_map' = DOMAIN m_map \ {i}
          /\ \A id \in DOMAIN m_map' : m_map'[id] = m_map[id]
      BY <1>1, <1>5, <1>6, <2>1 DEF Without
    <3>3. /\ results'[i] = Append(results[i], r)
          /\ \A n \in CallIds \ {i} : results'[n] = results[n]
      BY <1>6, <3>1, <3>2
    <3>4. PICK x : x = Append(results[i], r)
      OBVIOUS
    <3>5. x # <<>> /\ \A k \in 1..Len(x) : x[k] = r \/ (k \in 1..Len(results[i]) /\ x[k] = results[i][k])
      <4>1. results[i] \in Seq(Foreign..MaxCalls) /\ r \in Foreign..MaxCalls
        BY <1>6, <3>1, MaxCallsAssumption DEF CallIds, Foreign
      <4>2. /\ Len(results[i]) \in Nat /\ Len(x) = Len(results[i]) + 1
            /\ x[Len(results[i]) + 1] = r
            /\ \A k \in 1..Len(results[i]) : x[k] = results[i][k]
        BY <3>4, <4>1, AppendElements
      <4> QED BY <4>2
    <3>6. ASSUME NEW n \in CallIds, NEW k \in 1..Len(results'[n])
          PROVE  Allowed(results'[n][k], n, posted')
      <4>1. \A j \in 1..Len(results[n]) : Allowed(results[n][j], n, posted)
        BY DEF OInv, ReturnedUnlessPosted, Allowed
      <4>2. CASE n = i
        <5>1. k \in 1..Len(x) /\ results'[n][k] = x[k]
          BY <3>3, <3>4, <3>6, <4>2
        <5> QED BY <1>1, <3>1, <3>5, <4>1, <4>2, <5>1
      <4>3. CASE n # i
        BY <1>1, <3>3, <4>1, <4>3
      <4> QED BY <4>2, <4>3
    <3>7. /\ Called(i)' /\ \A n \in CallIds : Called(n) => Called(n)'
      BY <3>1, <3>3, <3>4, <3>5 DEF Called
    <3>8. \A n \in CallIds : Waiting(n) => Waiting(n)' \/ n = i
      BY <1>6, <3>2 DEF Waiting
    <3>9. r \in CallIds => r = i
      BY <1>6 DEF CallIds, Foreign
    <3> QED BY <1>6, <3>2, <3>6, <3>7, <3>8, <3>9
  <2>2. CASE i \notin DOMAIN m_map
    <3>1. UNCHANGED <<results, m_map, posted>>
      BY <1>1, <1>5, <2>2
    <3>2. r \in CallIds => Called(r)
      <4>1. r \in CallIds => r # Foreign
        BY DEF CallIds, Foreign
      <4>2. r \in CallIds => ~Waiting(r)
        BY <1>6, <2>2, <4>1 DEF Waiting
      <4> QED BY <1>6, <4>1, <4>2
    <3> QED BY <1>6, <3>1, <3>2 DEF OInv, ReturnedUnlessPosted, Allowed, Called, Waiting
  <2> QED BY <2>1, <2>2
<1>8. \A n : ~Registers(Head(ready), n)
  BY <1>1 DEF Registers
<1>9. CallerOK' /\ NumbersOK' /\ AnswersOK'
  BY <1>1, <1>7, <1>8, TakeAnswers
<1>10. \A n \in handled' : Called(n)'
  BY <1>1, <1>5, <1>6, <1>7 DEF OInv, ReturnedUnlessPosted
<1> QED BY <1>7, <1>8, <1>9, <1>10 DEF OInv, ReturnedUnlessPosted, Allowed

(* After an error everyone who waited was called.                          *)
LEMMA RunErrorOInv == IInv /\ OInv /\ RunError => OInv'
<1> SUFFICES ASSUME IInv, OInv, RunError PROVE OInv'
  OBVIOUS
<1>1. /\ ready # <<>> /\ ready' = Tail(ready) /\ Head(ready).what = "error"
      /\ Close /\ UNCHANGED <<local, writes, peer, back, lost, handled, posted>>
  BY DEF RunError, IoRuns
<1>2. /\ \A n \in CallIds : \A i \in 1..Len(results'[n]) : Allowed(results'[n][i], n, posted')
      /\ \A n \in CallIds : Called(n)' <=> Called(n) \/ Waiting(n)
      /\ \A id \in DOMAIN m_map' : m_map'[id] = id
  BY <1>1, CloseErrors
<1>3. \A n : ~Registers(Head(ready), n)
  BY <1>1 DEF Registers
<1>4. CallerOK' /\ NumbersOK' /\ AnswersOK'
  BY <1>1, <1>2, <1>3, TakeAnswers
<1>5. handled \subseteq CallIds
  BY DEF IInv, TypeOK
<1> QED BY <1>1, <1>2, <1>4, <1>5 DEF OInv, ReturnedUnlessPosted, Allowed

(* As long as no call has raced, the order of completions is kept.         *)
LEMMA OrderInductive == Spec => [](~raced => OInv)
<1>1. Init => (~raced => OInv)
  BY InitOInv
<1>2. IInv /\ (~raced => OInv) /\ [Next]_vars => (~raced => OInv)'
  <2> SUFFICES ASSUME IInv, ~raced => OInv, [Next]_vars, ~raced' PROVE OInv'
    OBVIOUS
  <2>1. ~raced
    BY DEF Next, Pack, Enqueue, Load, Store, Write, PeerHandles, PeerPosts, Arrive, Break,
       RunWritten, RunWriteFailed, RunResponse, RunError, local, vars
  <2>2. ASSUME NEW t \in Threads,
               (\E kind \in AllKinds : Pack(t, kind)) \/ Enqueue(t) \/ Load(t) \/ Store(t)
        PROVE  OInv'
    BY <2>1, <2>2, CallOInv
  <2>3. CASE Write
    BY <2>1, <2>3, WriteOInv
  <2>4. CASE PeerHandles \/ PeerPosts \/ Arrive \/ Break
    BY <2>1, <2>4, EnvironmentOInv, PeerPostsOInv
  <2>5. CASE RunWritten \/ RunWriteFailed \/ RunResponse \/ RunError
    BY <2>1, <2>5, RunWrittenOInv, RunWriteFailedOInv, RunResponseOInv, RunErrorOInv
  <2>6. CASE UNCHANGED vars
    <3>1. UNCHANGED <<m_id, m_map, calls, asked, pc, cur, writes, ready, peer, back,
                      results, handled, posted>>
      BY <2>6 DEF vars
    <3>2. AnswersOK' /\ ReturnedUnlessPosted'
      BY <2>1, <3>1, AnswersStay
    <3> QED BY <2>1, <3>1, <3>2 DEF OInv, CallerOK, NumbersOK
  <2> QED BY <2>2, <2>3, <2>4, <2>5, <2>6 DEF Next
<1> QED BY <1>1, <1>2, Inductive, PTL DEF Spec

(* Every response reaches its own handler, unless an error or a raw post   *)
(* of the peer (requester.hpp:117, dispatcher.hpp:73) called it before     *)
(* (README.org:119), for any threads and any number of calls and wherever  *)
(* the connection breaks, as long as no two calls overlap: the race on     *)
(* m_id (requester.hpp:96, 102, 111) and the raw posts are all that break  *)
(* the promise.                                                            *)
THEOREM OnlyTheRaceLoses == Spec => []ReturnedUnlessRaced
<1>1. (~raced => OInv) => ReturnedUnlessRaced
  BY DEF OInv, ReturnedUnlessRaced
<1> QED BY <1>1, OrderInductive, PTL

(* At most one thread calls.                                               *)
OneCaller == \A t, u \in Threads : Kinds[t] # {} /\ Kinds[u] # {} => t = u

(* Only a thread that calls is in a call, and no call met another.         *)
Alone == ~raced /\ \A t \in Threads : pc[t] # "idle" => Kinds[t] # {}

(* With one calling thread a handler gets its own response, an error, or a *)
(* raw post of the peer: calling from one thread only would keep the race  *)
(* away, and only the raw posts (requester.hpp:117) would still mislead.   *)
THEOREM OneCallerReturned ==
  ASSUME OneCaller
  PROVE  Spec => []ReturnedUnlessPosted
<1>1. Init => Alone
  BY DEF Init, Alone
<1>2. IInv /\ Alone /\ [Next]_vars => Alone'
  <2> SUFFICES ASSUME IInv, Alone, [Next]_vars PROVE Alone'
    OBVIOUS
  <2>1. pc \in [Threads -> {"idle", "packed", "queued", "loaded"}]
    BY DEF IInv, TypeOK
  <2>2. ASSUME NEW t \in Threads, NEW kind \in AllKinds, Pack(t, kind)
        PROVE  Alone'
    <3>1. /\ Kinds[t] # {} /\ pc' = [pc EXCEPT ![t] = "packed"]
          /\ raced' = (raced \/ \E u \in Threads \ {t} : pc[u] # "idle")
      BY <2>2 DEF Pack
    <3>2. \A u \in Threads \ {t} : pc[u] = "idle"
      BY <3>1 DEF Alone, OneCaller
    <3> QED BY <2>1, <3>1, <3>2 DEF Alone
  <2>3. ASSUME NEW t \in Threads, Enqueue(t) \/ Load(t) \/ Store(t)
        PROVE  Alone'
    BY <2>1, <2>3 DEF Alone, Enqueue, Load, Store
  <2>4. CASE UNCHANGED local
    BY <2>4 DEF Alone, local
  <2> QED
    BY <2>2, <2>3, <2>4 DEF Next, Write, PeerHandles, PeerPosts, Arrive, Break, RunWritten,
       RunWriteFailed, RunResponse, RunError, local, vars
<1>3. Alone /\ ReturnedUnlessRaced => ReturnedUnlessPosted
  BY DEF Alone, ReturnedUnlessRaced
<1> QED BY <1>1, <1>2, <1>3, Inductive, OnlyTheRaceLoses, PTL DEF Spec

(* Without raw posts of the peer (the server, and every client but the     *)
(* hint client, makes none) one calling thread is all it takes for the     *)
(* promise of README.org:119.                                              *)
THEOREM OneCallerKeepsPromise ==
  ASSUME OneCaller, PeerIds = {}
  PROVE  Spec => []ResponseReturned
<1>1. Init => posted = 0
  BY DEF Init
<1>2. posted = 0 /\ [Next]_vars => (posted = 0)'
  BY DEF Next, Pack, Enqueue, Load, Store, Write, PeerHandles, PeerPosts, Arrive, Break,
     RunWritten, RunWriteFailed, RunResponse, RunError, vars
<1>3. posted = 0 /\ ReturnedUnlessPosted => ResponseReturned
  BY DEF ReturnedUnlessPosted, ResponseReturned
<1>4. Spec => []ReturnedUnlessPosted
  BY OneCallerReturned
<1> QED BY <1>1, <1>2, <1>3, <1>4, PTL DEF Spec

-----------------------------------------------------------------------------
(* What tells of a broken connection comes when it is no longer open.      *)
BrokenKnown ==
  \A i \in 1..Len(ready) :
    ready[i].what = "error" \/ (ready[i].what = "written" /\ ~ready[i].ok) =>
      conn # "open"

(* It is kept by every step.                                               *)
LEMMA BrokenKnownKept == IInv /\ BrokenKnown /\ [Next]_vars => BrokenKnown'
<1> SUFFICES ASSUME IInv, BrokenKnown, [Next]_vars PROVE BrokenKnown'
  OBVIOUS
<1>1. ready \in Seq(Ready) /\ writes \in Seq(Call)
  BY DEF IInv, TypeOK
<1>2. CASE ready' = ready /\ conn' = conn
  BY <1>2 DEF BrokenKnown
<1>3. ASSUME NEW e \in Ready, ready' = Append(ready, e),
             e.what = "error" \/ (e.what = "written" /\ ~e.ok) => conn' # "open",
             conn # "open" => conn' # "open"
      PROVE  BrokenKnown'
  BY <1>1, <1>3, AppendElements DEF BrokenKnown
<1>4. ASSUME ready # <<>>, ready' = Tail(ready), conn # "open" => conn' # "open"
      PROVE  BrokenKnown'
  BY <1>1, <1>4, TailElements DEF BrokenKnown
<1>5. ASSUME NEW t \in Threads,
             (\E kind \in AllKinds : Pack(t, kind)) \/ Enqueue(t) \/ Load(t) \/ Store(t)
      PROVE  BrokenKnown'
  BY <1>2, <1>5 DEF Pack, Enqueue, Load, Store
<1>6. CASE Write
  <2>1. PICK ok \in BOOLEAN :
          /\ ready' = Append(ready, [what |-> "written", call |-> Head(writes), ok |-> ok])
          /\ ~ok => conn # "open"
    BY <1>6 DEF Write, IInv, TypeOK
  <2>2. [what |-> "written", call |-> Head(writes), ok |-> ok] \in Ready
    BY <1>1, <1>6, TailElements DEF Write, Ready
  <2>3. conn' = conn
    BY <1>6 DEF Write
  <2> QED BY <1>3, <2>1, <2>2, <2>3
<1>7. CASE PeerHandles \/ PeerPosts
  BY <1>2, <1>7 DEF PeerHandles, PeerPosts
<1>8. CASE Arrive
  <2>1. [what |-> "response", msg |-> Head(back)] \in Ready
    BY <1>8, TailElements DEF Arrive, Ready, IInv, TypeOK
  <2> QED BY <1>3, <1>8, <2>1 DEF Arrive
<1>9. CASE Break
  <2>1. [what |-> "error"] \in Ready
    BY DEF Ready
  <2> QED BY <1>3, <1>9, <2>1 DEF Break
<1>10. CASE RunWritten \/ RunWriteFailed \/ RunResponse \/ RunError
  BY <1>4, <1>10 DEF RunWritten, RunWriteFailed, RunResponse, RunError, IoRuns
<1>11. CASE UNCHANGED vars
  BY <1>2, <1>11 DEF vars
<1> QED BY <1>5, <1>6, <1>7, <1>8, <1>9, <1>10, <1>11 DEF Next

(* What passes for a response was posted by the peer.                      *)
FromPost(m) == m.re = Foreign => posted > 0
PostsKnown ==
  /\ \A i \in 1..Len(peer) : FromPost(peer[i])
  /\ \A i \in 1..Len(back) : FromPost(back[i])
  /\ \A i \in 1..Len(ready) : ready[i].what = "response" => FromPost(ready[i].msg)

(* It is kept by every step.                                               *)
LEMMA PostsKnownKept == IInv /\ PostsKnown /\ [Next]_vars => PostsKnown'
<1> SUFFICES ASSUME IInv, PostsKnown, [Next]_vars PROVE PostsKnown'
  OBVIOUS
<1>1. /\ ready \in Seq(Ready) /\ writes \in Seq(Call)
      /\ peer \in Seq(Message) /\ back \in Seq(Message) /\ posted \in Nat
  BY MaxPostsAssumption DEF IInv, TypeOK
<1>2. CASE UNCHANGED <<peer, back, ready, posted>>
  BY <1>2 DEF PostsKnown, FromPost
<1>3. CASE Write
  <2> DEFINE c == Head(writes)
  <2>1. c \in Call
    BY <1>1, <1>3, TailElements DEF Write
  <2>2. PICK ok \in BOOLEAN :
          ready' = Append(ready, [what |-> "written", call |-> c, ok |-> ok])
    BY <1>3 DEF Write, IInv, TypeOK
  <2>3. PICK r : r = [what |-> "written", call |-> c, ok |-> ok]
    OBVIOUS
  <2>4. r \in Ready /\ r.what = "written" /\ ready' = Append(ready, r)
    BY <2>1, <2>2, <2>3, ReadyTypes
  <2>5. PICK m : m = [id |-> c.pid, re |-> c.n]
    OBVIOUS
  <2>6. m \in Message /\ FromPost(m) /\ (peer' = peer \/ peer' = Append(peer, m))
    BY <1>3, <2>1, <2>5 DEF Call, CallIds, Message, FromPost, Foreign, Write
  <2>7. back' = back /\ posted' = posted
    BY <1>3 DEF Write
  <2> HIDE DEF c
  <2>8. \A i \in 1..Len(peer') : peer'[i] = m \/ (i \in 1..Len(peer) /\ peer'[i] = peer[i])
    BY <1>1, <2>6, AppendElements
  <2>9. \A i \in 1..Len(ready') : ready'[i] = r \/ (i \in 1..Len(ready) /\ ready'[i] = ready[i])
    BY <1>1, <2>4, AppendElements
  <2> QED BY <2>4, <2>6, <2>7, <2>8, <2>9 DEF PostsKnown, FromPost
<1>4. CASE PeerHandles
  <2>1. /\ Head(peer) \in Message /\ Head(peer) = peer[1] /\ 1 \in 1..Len(peer)
        /\ \A i \in 1..Len(peer') : i + 1 \in 1..Len(peer) /\ peer'[i] = peer[i + 1]
    BY <1>1, <1>4, TailElements DEF PeerHandles
  <2>2. /\ UNCHANGED <<ready, posted>>
        /\ back' = back \/ back' = Append(back, Head(peer))
    BY <1>4 DEF PeerHandles
  <2>3. \A i \in 1..Len(back') : back'[i] = peer[1] \/ (i \in 1..Len(back) /\ back'[i] = back[i])
    <3>1. CASE back' = Append(back, Head(peer))
      <4>1. /\ Len(back) \in Nat /\ Len(back') = Len(back) + 1
            /\ back'[Len(back) + 1] = peer[1] /\ \A i \in 1..Len(back) : back'[i] = back[i]
        BY <1>1, <2>1, <3>1, AppendElements
      <4> QED BY <4>1
    <3> QED BY <2>2, <3>1
  <2> QED BY <2>1, <2>2, <2>3 DEF PostsKnown, FromPost
<1>5. CASE PeerPosts
  <2>1. PICK id \in PeerIds : back' = Append(back, [id |-> id, re |-> Foreign])
    BY <1>5 DEF PeerPosts
  <2>2. [id |-> id, re |-> Foreign] \in Message
    BY PeerIdsAssumption DEF Message
  <2>3. UNCHANGED <<ready, peer>> /\ posted' > 0
    BY <1>1, <1>5 DEF PeerPosts
  <2> QED BY <2>3 DEF PostsKnown, FromPost
<1>6. CASE Arrive
  <2>1. /\ Head(back) \in Message /\ Head(back) = back[1] /\ 1 \in 1..Len(back)
        /\ \A i \in 1..Len(back') : i + 1 \in 1..Len(back) /\ back'[i] = back[i + 1]
    BY <1>1, <1>6, TailElements DEF Arrive
  <2>2. PICK r : r = [what |-> "response", msg |-> Head(back)]
    OBVIOUS
  <2>3. r \in Ready /\ r.msg = back[1] /\ ready' = Append(ready, r) /\ UNCHANGED <<peer, posted>>
    BY <1>6, <2>1, <2>2, ReadyTypes DEF Arrive
  <2>4. \A i \in 1..Len(ready') : ready'[i] = r \/ (i \in 1..Len(ready) /\ ready'[i] = ready[i])
    BY <1>1, <2>3, AppendElements
  <2> QED BY <2>1, <2>3, <2>4 DEF PostsKnown, FromPost
<1>7. CASE Break
  <2>1. PICK r : r = [what |-> "error"]
    OBVIOUS
  <2>2. r \in Ready /\ r.what = "error" /\ ready' = Append(ready, r)
        /\ UNCHANGED <<peer, back, posted>>
    BY <1>7, <2>1, ReadyTypes DEF Break
  <2>3. \A i \in 1..Len(ready') : ready'[i] = r \/ (i \in 1..Len(ready) /\ ready'[i] = ready[i])
    BY <1>1, <2>2, AppendElements
  <2> QED BY <2>2, <2>3 DEF PostsKnown, FromPost
<1>8. CASE RunWritten \/ RunWriteFailed \/ RunResponse \/ RunError
  <2>1. ready # <<>> /\ ready' = Tail(ready) /\ UNCHANGED <<peer, back, posted>>
    BY <1>8 DEF RunWritten, RunWriteFailed, RunResponse, RunError, IoRuns
  <2>2. \A i \in 1..Len(ready') : i + 1 \in 1..Len(ready) /\ ready'[i] = ready[i + 1]
    BY <1>1, <2>1, TailElements
  <2> QED BY <2>1, <2>2 DEF PostsKnown, FromPost
<1>9. ASSUME NEW t \in Threads,
             (\E kind \in AllKinds : Pack(t, kind)) \/ Enqueue(t) \/ Load(t) \/ Store(t)
      PROVE  PostsKnown'
  BY <1>2, <1>9 DEF Pack, Enqueue, Load, Store
<1>10. CASE UNCHANGED vars
  BY <1>2, <1>10 DEF vars
<1> QED BY <1>3, <1>4, <1>5, <1>6, <1>7, <1>8, <1>9, <1>10 DEF Next

-----------------------------------------------------------------------------
(* A handler that waits, and one that is still in the writer.              *)
LEMMA FateOfHandler ==
  ASSUME IInv, NEW n \in asked
  PROVE  /\ n \in CallIds
         /\ Fate(n) = "waiting" <=> Waiting(n)
         /\ Fate(n) = "made" <=> ~Waiting(n) /\ ~Called(n) /\ n \notin lost
<1>1. n \in CallIds
  BY MaxCallsAssumption DEF IInv, TypeOK, CallIds
<1>2. Exclusive(n)
  BY <1>1 DEF IInv
<1>3. CalledWith(n) \in {"error", "answered", "posted", "called twice", "misled"}
  BY DEF CalledWith
<1> QED BY <1>1, <1>2, <1>3 DEF Fate, Exclusive

(* One request's fate changes.                                             *)
LEMMA OneBecomes ==
  ASSUME NEW k \in CallIds, NEW a, NEW b, Fate(k) = a, Fate(k)' = b,
         \A n \in CallIds : n # k => Fate(n)' = Fate(n)
  PROVE  Fates!Becomes(k, a, b)
BY DEF Fates!Becomes

(* The fate is that of the call's results, map and loss.                   *)
LEMMA SameFate ==
  ASSUME NEW n, n \in asked' <=> n \in asked, results'[n] = results[n],
         n \in lost' <=> n \in lost, Waiting(n)' <=> Waiting(n)
  PROVE  Fate(n)' = Fate(n)
<1>1. CalledWith(n)' = CalledWith(n)
  BY DEF CalledWith
<1> QED BY <1>1 DEF Fate, Called

(* Whether the connection is open, as a value.                             *)
LEMMA SameBroken ==
  ASSUME conn' # "open" <=> conn # "open"
  PROVE  (conn # "open")' = (conn # "open")
OBVIOUS

(* What touches none of these is no step of the abstract requests.         *)
LEMMA FatesStay ==
  ASSUME UNCHANGED <<asked, results, lost, m_map, posted, raced>>, conn' # "open" <=> conn # "open"
  PROVE  UNCHANGED Fates!vars
<1>1. \A n : Fate(n)' = Fate(n)
  BY SameFate DEF Waiting
<1>2. [n \in CallIds |-> Fate(n)]' = [n \in CallIds |-> Fate(n)]
  BY <1>1
<1> QED BY <1>2, SameBroken DEF Fates!vars

(* A request is made; a post may race.                                     *)
LEMMA PackFates ==
  ASSUME IInv, NEW t \in Threads, NEW kind \in AllKinds, Pack(t, kind)
  PROVE  [Fates!Next]_(Fates!vars)
<1>0. PICK k : k = calls + 1
  OBVIOUS
<1>1. /\ asked' = IF kind \in Requests THEN asked \cup {k} ELSE asked
      /\ raced' \in {raced, TRUE} /\ k \in CallIds /\ k \notin asked /\ k > calls
      /\ UNCHANGED <<m_map, results, lost, conn, posted>>
  <2>1. calls \in Nat /\ MaxCalls \in Nat /\ calls < MaxCalls /\ asked \subseteq 1..calls
    BY MaxCallsAssumption DEF Pack, IInv, TypeOK
  <2>2. k \in CallIds /\ k \notin asked /\ k > calls
    BY <1>0, <2>1 DEF CallIds
  <2>3. raced' \in {raced, TRUE}
    BY DEF Pack, IInv, TypeOK
  <2> QED BY <1>0, <2>2, <2>3 DEF Pack
<1>2. conn' # "open" <=> conn # "open"
  BY <1>1
<1>3. (conn # "open")' = (conn # "open")
  BY <1>2, SameBroken
<1>4. CASE kind \in Requests
  <2>1. \A n \in CallIds : n # k => Fate(n)' = Fate(n)
    BY <1>1, <1>4, SameFate DEF Waiting
  <2>2. Fate(k) = "none"
    BY <1>1 DEF Fate
  <2>3. ~Waiting(k) /\ ~Called(k) /\ k \notin lost
    BY <1>1 DEF IInv, Exclusive
  <2>4. Fate(k)' = "made"
    BY <1>1, <1>4, <2>3 DEF Fate, Waiting, Called
  <2>5. Fates!Becomes(k, "none", "made")
    BY <1>1, <2>1, <2>2, <2>4, OneBecomes
  <2>6. Fates!Make(k)
    BY <1>1, <1>3, <2>5, Zenon DEF Fates!Make
  <2> QED BY <1>1, <2>6 DEF Fates!Next
<1>5. CASE kind \notin Requests
  <2>1. UNCHANGED <<asked, results, lost, m_map, posted>>
    BY <1>1, <1>5
  <2>2. CASE raced' = raced
    BY <1>2, <2>1, <2>2, FatesStay
  <2>3. CASE raced' = TRUE
    <3>1. \A n : Fate(n)' = Fate(n)
      BY <2>1, SameFate DEF Waiting
    <3>2. [n \in CallIds |-> Fate(n)]' = [n \in CallIds |-> Fate(n)]
      BY <3>1
    <3>3. Fates!Race
      BY <1>3, <2>1, <2>3, <3>2, Zenon DEF Fates!Race
    <3> QED BY <3>3 DEF Fates!Next
  <2> QED BY <1>1, <2>2, <2>3
<1> QED BY <1>4, <1>5

(* The peer makes a raw post.                                              *)
LEMMA PostFates == IInv /\ PeerPosts => [Fates!Next]_(Fates!vars)
<1> SUFFICES ASSUME IInv, PeerPosts PROVE Fates!Next
  OBVIOUS
<1>1. /\ UNCHANGED <<asked, results, lost, m_map, conn, raced>>
      /\ posted \in Nat /\ posted' = posted + 1
  BY MaxPostsAssumption DEF PeerPosts, IInv, TypeOK, local
<1>2. \A n : Fate(n)' = Fate(n)
  BY <1>1, SameFate DEF Waiting
<1>3. [n \in CallIds |-> Fate(n)]' = [n \in CallIds |-> Fate(n)]
  BY <1>2
<1>4. (posted > 0)' = TRUE /\ (conn # "open")' = (conn # "open")
  BY <1>1
<1>5. Fates!Post
  BY <1>1, <1>3, <1>4, Zenon DEF Fates!Post
<1> QED BY <1>5 DEF Fates!Next

(* The connection breaks.                                                  *)
LEMMA BreakFates == Break => [Fates!Next]_(Fates!vars)
<1> SUFFICES ASSUME Break PROVE Fates!Next
  OBVIOUS
<1>1. UNCHANGED <<asked, results, lost, m_map, posted, raced>> /\ conn' = "broken"
  BY DEF Break, local
<1>2. \A n : Fate(n)' = Fate(n)
  BY <1>1, SameFate DEF Waiting
<1>3. [n \in CallIds |-> Fate(n)]' = [n \in CallIds |-> Fate(n)]
  BY <1>2
<1>4. (conn # "open")' = TRUE
  BY <1>1
<1>5. Fates!Break
  BY <1>1, <1>3, <1>4, Zenon DEF Fates!Break
<1> QED BY <1>5 DEF Fates!Next

(* The handler of a written request waits, or is dropped: then calls have  *)
(* raced.                                                                  *)
LEMMA RunWrittenFates ==
  ASSUME IInv, ~raced => OInv, RunWritten
  PROVE  [Fates!Next]_(Fates!vars)
<1> DEFINE c     == Head(ready).call
           taken == c.reg \in DOMAIN m_map
<1>1. /\ ready # <<>> /\ ready' = Tail(ready) /\ Head(ready).what = "written"
      /\ m_map' = IF c.kind \in Requests /\ ~taken THEN With(m_map, c.reg, c.n) ELSE m_map
      /\ lost' = IF c.kind \in Requests /\ taken THEN lost \cup {c.n} ELSE lost
      /\ UNCHANGED <<local, writes, conn, results, posted>>
  BY DEF RunWritten, IoRuns
<1>2. /\ RequestKind(c) /\ HasWritten(ready, c.n)
  BY <1>1, TakeReady
<1>3. c \in Call
  BY <1>1, TakeReady, ReadyTypes
<1>4. /\ c.n \in CallIds /\ ~Waiting(c.n) /\ ~Called(c.n) /\ c.n \notin lost
  BY <1>2, <1>3 DEF IInv, Exclusive, Call
<1>5. taken => raced
  <2>1. Head(ready) = ready[1] /\ 1 \in 1..Len(ready)
    BY <1>1, TailElements DEF IInv, TypeOK
  <2>2. ~raced => c.reg = c.n /\ \A id \in DOMAIN m_map : m_map[id] = id
    BY <1>1, <2>1 DEF OInv, NumbersOK, Own
  <2> QED BY <1>4, <2>2 DEF Waiting
<1>6. asked' = asked /\ posted' = posted /\ raced' = raced /\ (conn # "open")' = (conn # "open")
  BY <1>1, SameBroken DEF local
<1>11. PICK k : k = c.n
  OBVIOUS
<1> HIDE DEF c
<1>7. \A n : n # k => (Waiting(n)' <=> Waiting(n)) /\ (n \in lost' <=> n \in lost)
  BY <1>1, <1>4, <1>11 DEF Waiting, With
<1> HIDE DEF taken
<1>8. \A n : n # k => Fate(n)' = Fate(n)
  BY <1>1, <1>6, <1>7, SameFate
<1>9. CASE k \notin asked
  <2>1. Fate(k) = "none" /\ Fate(k)' = "none"
    BY <1>6, <1>9 DEF Fate
  <2>2. \A n : Fate(n)' = Fate(n)
    BY <1>8, <2>1
  <2>3. [n \in CallIds |-> Fate(n)]' = [n \in CallIds |-> Fate(n)]
    BY <2>2
  <2>4. UNCHANGED Fates!vars
    BY <1>6, <2>3, Zenon DEF Fates!vars
  <2> QED BY <2>4
<1>10. CASE k \in asked
  <2>1. c.kind \in Requests /\ Fate(k) = "made"
    BY <1>2, <1>4, <1>10, <1>11 DEF RequestKind, Fate
  <2>2. CASE taken
    <3>1. k \in lost' /\ ~Called(k)'
      BY <1>1, <1>4, <1>11, <2>1, <2>2 DEF Called
    <3>2. Fate(k)' = "dropped"
      BY <1>6, <1>10, <3>1 DEF Fate
    <3>3. Fates!Becomes(k, "made", "dropped")
      BY <1>4, <1>8, <1>11, <2>1, <3>2, OneBecomes
    <3>4. Fates!Drop(k)
      BY <1>5, <1>6, <2>2, <3>3, Zenon DEF Fates!Drop
    <3> QED BY <1>4, <1>11, <3>4 DEF Fates!Next
  <2>3. CASE ~taken
    <3>1. Waiting(k)' /\ k \notin lost' /\ ~Called(k)'
      BY <1>1, <1>4, <1>11, <2>1, <2>3 DEF Called, Waiting, With
    <3>2. Fate(k)' = "waiting"
      BY <1>6, <1>10, <3>1 DEF Fate
    <3>3. Fates!Becomes(k, "made", "waiting")
      BY <1>4, <1>8, <1>11, <2>1, <3>2, OneBecomes
    <3>4. Fates!Written(k)
      BY <1>6, <3>3, Zenon DEF Fates!Written
    <3> QED BY <1>4, <1>11, <3>4 DEF Fates!Next
  <2> QED BY <2>2, <2>3
<1> QED BY <1>9, <1>10

(* close calls those that wait with an error, and nobody else.             *)
LEMMA CloseResults ==
  ASSUME IInv, Close, NEW n \in CallIds
  PROVE  /\ Waiting(n) => results'[n] = <<0>>
         /\ ~Waiting(n) => results'[n] = results[n]
         /\ ~Waiting(n)'
<1> DEFINE k == Cardinality({id \in DOMAIN m_map : m_map[id] = n})
           z == [i \in 1..k |-> 0]
<1>1. results'[n] = results[n] \o z
  BY DEF Close, CallWaiting
<1>2. /\ results[n] \in Seq(Foreign..MaxCalls)
      /\ Waiting(n) => results[n] = <<>>
  BY DEF IInv, TypeOK, Exclusive, Called
<1>3. ASSUME Waiting(n)
      PROVE  k = 1
  <2>1. PICK id \in DOMAIN m_map : m_map[id] = n
    BY <1>3 DEF Waiting
  <2>2. {i \in DOMAIN m_map : m_map[i] = n} = {id}
    BY <2>1 DEF IInv, Once, WaitingOnce
  <2> QED BY <2>2, FS_Singleton
<1>4. ASSUME ~Waiting(n)
      PROVE  k = 0
  <2>1. {i \in DOMAIN m_map : m_map[i] = n} = {}
    BY <1>4 DEF Waiting
  <2> QED BY <2>1, FS_EmptySet
<1>5. ~Waiting(n)'
  BY CloseCalls
<1> HIDE DEF k
<1>6. ASSUME Waiting(n)
      PROVE  results'[n] = <<0>>
  <2>1. z \in Seq({0}) /\ Len(z) = 1 /\ z[1] = 0
    BY <1>3, <1>6
  <2> HIDE DEF z
  <2>2. results'[n] = z
    <3>1. <<>> \o z = z
      BY <2>1, ConcatEmptySeq
    <3> QED BY <1>1, <1>2, <1>6, <3>1
  <2>3. z = <<0>>
    BY <2>1
  <2> QED BY <2>2, <2>3
<1>7. ASSUME ~Waiting(n)
      PROVE  results'[n] = results[n]
  BY <1>1, <1>2, <1>4, <1>7
<1> QED BY <1>5, <1>6, <1>7

(* The requests when close is called by a write that failed, or by an end. *)
LEMMA CloseFates ==
  ASSUME IInv, Close, conn # "open", conn' # "open", UNCHANGED <<asked, posted, raced>>,
         NEW D \in {{}} \cup {{n} : n \in CallIds},
         \A n \in D : n \in asked /\ ~Waiting(n) /\ ~Called(n) /\ n \notin lost,
         \A n \in asked : n \in lost' <=> n \in lost \/ n \in D
  PROVE  Fates!Next
<1>1. ASSUME NEW n \in CallIds
      PROVE  Fate(n)' = IF Fate(n) = "waiting" THEN "error"
                        ELSE IF n \in D THEN "dropped" ELSE Fate(n)
  <2>1. CASE n \notin asked
    <3>1. Fate(n) = "none" /\ Fate(n)' = "none" /\ n \notin D
      BY <2>1 DEF Fate
    <3> QED BY <3>1
  <2>2. CASE n \in asked /\ Waiting(n)
    <3>1. results'[n] = <<0>>
      BY <2>2, CloseResults
    <3>2. Called(n)' /\ CalledWith(n)' = "error"
      <4>0. n # 0 /\ Foreign # 0
        BY DEF CallIds, Foreign
      <4>1. /\ <<0>> # <<n>> /\ <<0>> # <<Foreign>>
            /\ ~(Len(<<0>>) > 1) /\ <<0>> # <<>>
        BY <4>0
      <4> QED BY <3>1, <4>1 DEF Called, CalledWith
    <3>3. Fate(n)' = "error"
      BY <2>2, <3>2 DEF Fate
    <3> QED BY <2>2, <3>3, FateOfHandler
  <2>3. CASE n \in asked /\ n \in D
    <3>1. ~Called(n)' /\ n \in lost'
      BY <2>3, CloseResults DEF Called
    <3>2. Fate(n)' = "dropped"
      BY <2>3, <3>1 DEF Fate
    <3> QED BY <2>3, <3>2, FateOfHandler
  <2>4. CASE n \in asked /\ ~Waiting(n) /\ n \notin D
    <3>1. results'[n] = results[n] /\ ~Waiting(n)' /\ (n \in lost' <=> n \in lost)
      BY <2>4, CloseResults
    <3>2. Fate(n)' = Fate(n)
      BY <2>4, <3>1, SameFate
    <3> QED BY <2>4, <3>2, FateOfHandler
  <2> QED BY <2>1, <2>2, <2>3, <2>4
<1>2. \A n \in D : Fate(n) = "made" /\ n \in CallIds
  BY FateOfHandler
<1>3. (conn # "open")' = (conn # "open")
  BY SameBroken
<1>4. [n \in CallIds |-> Fate(n)]' =
        [n \in CallIds |-> IF Fate(n) = "waiting" THEN "error"
                           ELSE IF n \in D THEN "dropped" ELSE Fate(n)]
  BY <1>1
<1>5. Fates!Fail(D)
  <2> DEFINE f == [n \in CallIds |-> Fate(n)]
  <2>1. \A n \in CallIds : f[n] = Fate(n)
    OBVIOUS
  <2>2. f' = [n \in CallIds |-> IF f[n] = "waiting" THEN "error"
                                ELSE IF n \in D THEN "dropped" ELSE f[n]]
    BY <1>4, <2>1
  <2>3. \A n \in D : f[n] = "made"
    BY <1>2, <2>1
  <2> HIDE DEF f
  <2>4. Fates!Fail(D) <=>
          /\ conn # "open" /\ \A n \in D : f[n] = "made"
          /\ f' = [n \in CallIds |-> IF f[n] = "waiting" THEN "error"
                                     ELSE IF n \in D THEN "dropped" ELSE f[n]]
          /\ UNCHANGED <<(conn # "open"), (posted > 0), raced>>
    BY DEF Fates!Fail, f
  <2>5. UNCHANGED <<(conn # "open"), (posted > 0), raced>>
    BY <1>3, Zenon
  <2> QED BY <2>2, <2>3, <2>4, <2>5
<1> QED BY <1>5 DEF Fates!Next

(* A write that failed drops its own request.                              *)
LEMMA RunWriteFailedFates ==
  ASSUME IInv, BrokenKnown, RunWriteFailed
  PROVE  [Fates!Next]_(Fates!vars)
<1> DEFINE c    == Head(ready).call
           drop == c.kind \in Requests
<1>1. /\ ready # <<>> /\ ready' = Tail(ready)
      /\ Head(ready).what = "written" /\ ~Head(ready).ok
      /\ lost' = IF drop THEN lost \cup {c.n} ELSE lost
      /\ Close \/ UNCHANGED <<m_map, results>>
      /\ UNCHANGED <<local, writes, conn, posted>>
  BY DEF RunWriteFailed, IoRuns
<1>2. /\ RequestKind(c) /\ HasWritten(ready, c.n)
  BY <1>1, TakeReady
<1>3. c \in Call
  BY <1>1, TakeReady, ReadyTypes
<1>4. /\ c.n \in CallIds /\ ~Waiting(c.n) /\ ~Called(c.n) /\ c.n \notin lost
  BY <1>2, <1>3 DEF IInv, Exclusive, Call
<1>5. conn # "open" /\ conn' # "open"
  <2>1. Head(ready) = ready[1] /\ 1 \in 1..Len(ready)
    BY <1>1, TailElements DEF IInv, TypeOK
  <2> QED BY <1>1, <2>1 DEF BrokenKnown
<1>6. asked' = asked /\ posted' = posted /\ raced' = raced /\ (conn # "open")' = (conn # "open")
  BY <1>1, SameBroken DEF local
<1>7. PICK k : k = c.n
  OBVIOUS
<1>8. k \in asked => drop
  BY <1>2, <1>7 DEF RequestKind
<1>9. PICK D : D = IF k \in asked THEN {k} ELSE {}
  OBVIOUS
<1>10. /\ D \in {{}} \cup {{n} : n \in CallIds}
       /\ \A n \in D : n \in asked /\ ~Waiting(n) /\ ~Called(n) /\ n \notin lost
       /\ \A n \in asked : n \in lost' <=> n \in lost \/ n \in D
  BY <1>1, <1>4, <1>7, <1>8, <1>9
<1>11. CASE Close
  BY <1>5, <1>6, <1>10, <1>11, CloseFates
<1>12. CASE UNCHANGED <<m_map, results>>
  <2>1. \A n : n # k => Fate(n)' = Fate(n)
    <3> HIDE DEF c, drop
    <3> QED BY <1>1, <1>6, <1>7, <1>12, SameFate DEF Waiting
  <2> HIDE DEF c, drop
  <2>2. CASE k \in asked
    <3>1. Fate(k) = "made"
      BY <1>4, <1>7, <2>2 DEF Fate
    <3>2. k \in lost' /\ ~Called(k)'
      BY <1>1, <1>4, <1>7, <1>8, <1>12, <2>2 DEF Called
    <3>3. Fate(k)' = "dropped"
      BY <1>6, <2>2, <3>2 DEF Fate
    <3>4. Fates!Becomes(k, "made", "dropped")
      BY <1>4, <1>7, <2>1, <3>1, <3>3, OneBecomes
    <3>5. Fates!Drop(k)
      BY <1>5, <1>6, <3>4, Zenon DEF Fates!Drop
    <3> QED BY <1>4, <1>7, <3>5 DEF Fates!Next
  <2>3. CASE k \notin asked
    <3>1. Fate(k)' = Fate(k)
      BY <1>6, <2>3 DEF Fate
    <3>2. [n \in CallIds |-> Fate(n)]' = [n \in CallIds |-> Fate(n)]
      BY <2>1, <3>1
    <3>3. UNCHANGED Fates!vars
      BY <1>6, <3>2, Zenon DEF Fates!vars
    <3> QED BY <3>3
  <2> QED BY <2>2, <2>3
<1> QED BY <1>1, <1>11, <1>12

(* An end calls all that wait.                                             *)
LEMMA RunErrorFates ==
  ASSUME IInv, BrokenKnown, RunError
  PROVE  [Fates!Next]_(Fates!vars)
<1>1. /\ ready # <<>> /\ Head(ready).what = "error" /\ Close /\ conn' = "closed"
      /\ UNCHANGED <<asked, posted, raced, lost>>
  BY DEF RunError, IoRuns, local
<1>2. conn # "open"
  <2>1. Head(ready) = ready[1] /\ 1 \in 1..Len(ready)
    BY <1>1, TailElements DEF IInv, TypeOK
  <2> QED BY <1>1, <2>1 DEF BrokenKnown
<1>3. conn' # "open"
  BY <1>1
<1>4. \A D : D = {} => Fates!Next
  BY <1>1, <1>2, <1>3, CloseFates
<1> QED BY <1>4

(* A response is called: with the request's own answer, unless calls have  *)
(* raced, or with a raw post that the peer has made.                       *)
LEMMA RunResponseFates ==
  ASSUME IInv, PostsKnown, ~raced => OInv, RunResponse
  PROVE  [Fates!Next]_(Fates!vars)
<1> DEFINE msg == Head(ready).msg
<1>1. /\ ready # <<>> /\ Head(ready).what = "response"
      /\ IF msg.id \in DOMAIN m_map
           THEN /\ results' = [results EXCEPT ![m_map[msg.id]] = Append(@, msg.re)]
                /\ m_map' = Without(m_map, msg.id)
           ELSE UNCHANGED <<results, m_map>>
      /\ UNCHANGED <<local, conn, lost, posted>>
  BY DEF RunResponse, IoRuns
<1>2. Head(ready) = ready[1] /\ 1 \in 1..Len(ready) /\ Head(ready) \in Ready
  BY <1>1, TailElements DEF IInv, TypeOK
<1>3. msg \in Message
  BY <1>1, <1>2, ReadyTypes
<1>4. asked' = asked /\ posted' = posted /\ raced' = raced /\ (conn # "open")' = (conn # "open")
  BY <1>1, SameBroken DEF local
<1>5. /\ msg.re = Foreign => posted > 0
      /\ ~raced /\ msg.re # Foreign => msg.id = msg.re
      /\ ~raced => \A id \in DOMAIN m_map : m_map[id] = id
  BY <1>1, <1>2 DEF OInv, AnswersOK, ReadyOK, Answer, NumbersOK, PostsKnown, FromPost
<1>6. PICK i, r : i = msg.id /\ r = msg.re
  OBVIOUS
<1>7. r \in CallIds \cup {Foreign} /\ r # 0 /\ Foreign \notin CallIds
  BY <1>3, <1>6 DEF Message, CallIds, Foreign
<1> HIDE DEF msg
<1>8. CASE i \notin DOMAIN m_map
  <2>1. UNCHANGED <<asked, results, lost, m_map, posted, raced>>
    BY <1>1, <1>4, <1>6, <1>8
  <2> QED BY <1>1, <2>1, FatesStay
<1>9. CASE i \in DOMAIN m_map
  <2>1. PICK k \in CallIds : k = m_map[i]
    BY <1>9 DEF IInv, TypeOK
  <2>2. Waiting(k) /\ results[k] = <<>> /\ k \notin lost /\ results \in [CallIds -> Seq(Foreign..MaxCalls)]
    BY <1>9, <2>1 DEF IInv, TypeOK, Exclusive, Called, Waiting
  <2>3. /\ results' = [results EXCEPT ![k] = Append(results[k], r)]
        /\ DOMAIN m_map' = DOMAIN m_map \ {i}
        /\ \A id \in DOMAIN m_map' : m_map'[id] = m_map[id]
    BY <1>1, <1>6, <1>9, <2>1 DEF Without
  <2>4. /\ results'[k] = <<r>>
        /\ \A n \in CallIds : n # k => results'[n] = results[n]
    BY <2>2, <2>3
  <2>5. \A n \in CallIds : n # k => (Waiting(n)' <=> Waiting(n))
    BY <1>9, <2>1, <2>3 DEF Waiting
  <2>6. \A n \in CallIds : n # k => Fate(n)' = Fate(n)
    BY <1>1, <1>4, <2>4, <2>5, SameFate
  <2>7. CASE k \notin asked
    <3>1. Fate(k) = "none" /\ Fate(k)' = "none"
      BY <1>4, <2>7 DEF Fate
    <3>2. [n \in CallIds |-> Fate(n)]' = [n \in CallIds |-> Fate(n)]
      BY <2>6, <3>1
    <3>3. UNCHANGED Fates!vars
      BY <1>4, <3>2, Zenon DEF Fates!vars
    <3> QED BY <3>3
  <2>8. CASE k \in asked
    <3>1. Fate(k) = "waiting"
      BY <2>2, <2>8, FateOfHandler
    <3>2. Called(k)' /\ Fate(k)' = CalledWith(k)'
      BY <1>4, <2>4, <2>8 DEF Fate, Called
    <3>3. CASE r = k
      <4>1. CalledWith(k)' = "answered"
        BY <1>7, <2>4, <3>3 DEF CalledWith
      <4>2. Fates!Becomes(k, "waiting", "answered")
        BY <2>6, <3>1, <3>2, <4>1, OneBecomes
      <4>3. Fates!Answer(k)
        BY <1>4, <4>2, Zenon DEF Fates!Answer
      <4> QED BY <4>3 DEF Fates!Next
    <3>5. CASE r = Foreign
      <4>1. CalledWith(k)' = "posted"
        BY <1>7, <2>4, <3>5 DEF CalledWith
      <4>2. Fates!Becomes(k, "waiting", "posted")
        BY <2>6, <3>1, <3>2, <4>1, OneBecomes
      <4>3. posted > 0
        BY <1>5, <1>6, <3>5
      <4>4. Fates!TakePost(k)
        BY <1>4, <4>2, <4>3, Zenon DEF Fates!TakePost
      <4> QED BY <4>4 DEF Fates!Next
    <3>4. CASE r # k /\ r # Foreign
      <4>1. raced
        BY <1>5, <1>6, <1>9, <2>1, <3>4
      <4>2. CalledWith(k)' = "misled"
        BY <1>7, <2>4, <3>4 DEF CalledWith
      <4>3. Fates!Becomes(k, "waiting", "misled")
        BY <2>6, <3>1, <3>2, <4>2, OneBecomes
      <4>4. Fates!Mislead(k)
        BY <1>4, <4>1, <4>3, Zenon DEF Fates!Mislead
      <4> QED BY <4>4 DEF Fates!Next
    <3> QED BY <3>3, <3>4, <3>5
  <2> QED BY <2>7, <2>8
<1> QED BY <1>8, <1>9

(* The requester keeps the promise of RequestFates: no handler is called   *)
(* twice or vanishes; an error comes after the connection broke, to all    *)
(* that wait; only there, or when calls race, is a handler dropped; only   *)
(* raced calls give one the answer to another request, and only a raw post *)
(* of the peer (requester.hpp:117) calls one with what is no answer        *)
(* (requester.hpp:26-159), for any threads and number of calls.            *)
THEOREM RequesterKeepsFates == Spec => KeepsFates
<1>1. Init => Fates!Init
  <2> SUFFICES ASSUME Init PROVE Fates!Init
    OBVIOUS
  <2>1. asked = {} /\ raced = FALSE /\ conn = "open" /\ posted = 0
    BY DEF Init
  <2>2. \A n : Fate(n) = "none"
    BY <2>1 DEF Fate
  <2>3. (conn # "open") = FALSE /\ (posted > 0) = FALSE
    BY <2>1
  <2> QED BY <2>1, <2>2, <2>3 DEF Fates!Init
<1>2. Init => BrokenKnown
  BY DEF Init, BrokenKnown
<1>3. IInv /\ BrokenKnown /\ PostsKnown /\ (~raced => OInv) /\ [Next]_vars
        => [Fates!Next]_(Fates!vars)
  <2> SUFFICES ASSUME IInv, BrokenKnown, PostsKnown, ~raced => OInv, [Next]_vars
               PROVE  [Fates!Next]_(Fates!vars)
    OBVIOUS
  <2>1. ASSUME NEW t \in Threads, NEW kind \in AllKinds, Pack(t, kind)
        PROVE  [Fates!Next]_(Fates!vars)
    BY <2>1, PackFates
  <2>2. ASSUME NEW t \in Threads, Enqueue(t) \/ Load(t) \/ Store(t)
        PROVE  [Fates!Next]_(Fates!vars)
    <3>1. UNCHANGED <<asked, results, lost, m_map, posted, raced, conn>>
      BY <2>2 DEF Enqueue, Load, Store
    <3> QED BY <3>1, FatesStay
  <2>7. CASE PeerPosts
    BY <2>7, PostFates
  <2>3. CASE Write \/ PeerHandles \/ Arrive \/ UNCHANGED vars
    <3>1. UNCHANGED <<asked, results, lost, m_map, posted, raced, conn>>
      BY <2>3 DEF Write, PeerHandles, Arrive, local, vars
    <3> QED BY <3>1, FatesStay
  <2>4. CASE Break
    BY <2>4, BreakFates
  <2>5. CASE RunWritten \/ RunResponse
    BY <2>5, RunWrittenFates, RunResponseFates
  <2>6. CASE RunWriteFailed \/ RunError
    BY <2>6, RunWriteFailedFates, RunErrorFates
  <2> QED BY <2>1, <2>2, <2>3, <2>4, <2>5, <2>6, <2>7 DEF Next
<1>4. Spec => []BrokenKnown
  BY <1>2, BrokenKnownKept, Inductive, PTL DEF Spec
<1>5. Init => PostsKnown
  BY DEF Init, PostsKnown
<1>6. Spec => []PostsKnown
  BY <1>5, PostsKnownKept, Inductive, PTL DEF Spec
<1> QED BY <1>1, <1>3, <1>4, <1>6, Inductive, OrderInductive, PTL DEF Spec, KeepsFates, Fates!Spec
=============================================================================
