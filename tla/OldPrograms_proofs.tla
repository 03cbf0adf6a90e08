--------------------------- MODULE OldPrograms_proofs ---------------------------
(***************************************************************************)
(* Proofs about the programs before the ones that are built: the chat      *)
(* servers, the window, the first version of the connection and the        *)
(* clients with a console.  Each has an inductive invariant of its own     *)
(* (ChatInv, ShowerInv, RpcInv, ClientInv); a behaviour is one of one of   *)
(* them, so a step of Next is a step of one and leaves the others.         *)
(***************************************************************************)
EXTENDS OldPrograms, FiniteSetTheorems, TLAPS

(* What a sequence keeps when it loses its head or gains an element.       *)
LEMMA TailElements ==
  ASSUME NEW S, NEW s \in Seq(S), s # <<>>
  PROVE  /\ Head(s) \in S /\ Head(s) = s[1]
         /\ Tail(s) \in Seq(S) /\ Len(Tail(s)) = Len(s) - 1
         /\ Len(s) \in Nat \ {0}
         /\ \A i \in 1..Len(Tail(s)) : i + 1 \in 1..Len(s) /\ Tail(s)[i] = s[i + 1]
OBVIOUS

(* The same of a sequence that gains one.                                  *)
LEMMA AppendElements ==
  ASSUME NEW S, NEW s \in Seq(S), NEW e \in S
  PROVE  /\ Append(s, e) \in Seq(S) /\ Append(s, e) # <<>>
         /\ Len(s) \in Nat /\ Len(Append(s, e)) = Len(s) + 1
         /\ Append(s, e)[Len(s) + 1] = e
         /\ \A i \in 1..Len(s) : Append(s, e)[i] = s[i]
OBVIOUS

-----------------------------------------------------------------------------
(* How often a value is in a sequence.                                     *)
Places(s, v) == {i \in 1..Len(s) : s[i] = v}

(* The counting of the chat server's module is that of this one.           *)
LEMMA Counts == \A s, v : Chat!Occurrences(s, v) = Cardinality(Places(s, v))
  BY DEF Chat!Occurrences, Chat!Cardinality, Cardinality, Places

(* It is a number, and none in an empty sequence.                          *)
LEMMA OccurrencesNat ==
  ASSUME NEW S, NEW s \in Seq(S), NEW v
  PROVE  /\ IsFiniteSet(Places(s, v)) /\ Chat!Occurrences(s, v) \in Nat
         /\ s = <<>> => Chat!Occurrences(s, v) = 0
<1>1. Places(s, v) \subseteq 1..Len(s) /\ IsFiniteSet(1..Len(s))
  BY FS_Interval DEF Places
<1>2. IsFiniteSet(Places(s, v)) /\ Chat!Occurrences(s, v) \in Nat
  BY <1>1, FS_Subset, FS_CardinalityType, Counts
<1>3. ASSUME s = <<>>
      PROVE  Chat!Occurrences(s, v) = 0
  <2>1. Places(s, v) = {}
    BY <1>3 DEF Places
  <2> QED BY <2>1, FS_EmptySet, Counts
<1> QED BY <1>2, <1>3

(* Appending adds what is appended.                                        *)
LEMMA OccurrencesAppended ==
  ASSUME NEW S, NEW s \in Seq(S), NEW e \in S, NEW v
  PROVE  /\ e = v => Chat!Occurrences(Append(s, e), v) = Chat!Occurrences(s, v) + 1
         /\ e # v => Chat!Occurrences(Append(s, e), v) = Chat!Occurrences(s, v)
<1> DEFINE u == Append(s, e)
<1>1. /\ Len(s) \in Nat /\ Len(u) = Len(s) + 1 /\ u[Len(s) + 1] = e
      /\ \A i \in 1..Len(s) : u[i] = s[i]
  BY AppendElements
<1> HIDE DEF u
<1>2. 1..Len(u) = 1..Len(s) \cup {Len(s) + 1} /\ Len(s) + 1 \notin 1..Len(s)
  BY <1>1
<1>3. IsFiniteSet(Places(s, v)) /\ Len(s) + 1 \notin Places(s, v)
  BY <1>2, OccurrencesNat DEF Places
<1>4. ASSUME e = v
      PROVE  Chat!Occurrences(u, v) = Chat!Occurrences(s, v) + 1
  <2>1. Places(u, v) = Places(s, v) \cup {Len(s) + 1}
    BY <1>1, <1>2, <1>4 DEF Places
  <2> QED BY <1>3, <2>1, FS_AddElement, Counts
<1>5. ASSUME e # v
      PROVE  Chat!Occurrences(u, v) = Chat!Occurrences(s, v)
  <2>1. Places(u, v) = Places(s, v)
    BY <1>1, <1>2, <1>5 DEF Places
  <2> QED BY <2>1, Counts
<1> QED BY <1>4, <1>5 DEF u

(* The tail has all but the head.                                          *)
LEMMA OccurrencesTail ==
  ASSUME NEW S, NEW s \in Seq(S), s # <<>>, NEW v
  PROVE  /\ Head(s) = v => Chat!Occurrences(s, v) = Chat!Occurrences(Tail(s), v) + 1
         /\ Head(s) # v => Chat!Occurrences(s, v) = Chat!Occurrences(Tail(s), v)
<1> DEFINE A == Places(Tail(s), v)
           B == Places(s, v) \ {1}
           f == [i \in A |-> i + 1]
<1>1. /\ Head(s) = s[1] /\ Tail(s) \in Seq(S) /\ Len(Tail(s)) = Len(s) - 1
      /\ Len(s) \in Nat \ {0}
      /\ \A i \in 1..Len(Tail(s)) : i + 1 \in 1..Len(s) /\ Tail(s)[i] = s[i + 1]
  BY TailElements
<1>2. IsFiniteSet(A) /\ IsFiniteSet(Places(s, v))
  BY <1>1, OccurrencesNat
<1>3. \A i \in A : i \in 1..Len(Tail(s)) /\ i + 1 \in B
  BY <1>1 DEF Places
<1>4. ASSUME NEW j \in B
      PROVE  j - 1 \in A /\ f[j - 1] = j
  <2>1. j \in 1..Len(s) /\ j # 1 /\ s[j] = v
    BY DEF Places
  <2>2. j - 1 \in 1..Len(Tail(s)) /\ (j - 1) + 1 = j
    BY <1>1, <2>1
  <2>3. Tail(s)[j - 1] = s[(j - 1) + 1]
    BY <1>1, <2>2
  <2>4. j - 1 \in A
    BY <2>1, <2>2, <2>3 DEF Places
  <2> QED BY <2>2, <2>4
<1>5. f \in Bijection(A, B)
  <2>1. f \in [A -> B] /\ \A i \in A : f[i] = i + 1
    BY <1>3
  <2>2. \A i, j \in A : f[i] = f[j] => i = j
    BY <1>3, <2>1
  <2>3. \A j \in B : \E i \in A : f[i] = j
    BY <1>4
  <2> HIDE DEF f, A, B
  <2> QED BY <2>1, <2>2, <2>3 DEF Bijection, Injection, Surjection, IsInjective
<1>6. Cardinality(B) = Cardinality(A) /\ IsFiniteSet(B)
  BY <1>2, <1>5, FS_Bijection DEF ExistsBijection
<1>7. ASSUME Head(s) = v
      PROVE  Chat!Occurrences(s, v) = Chat!Occurrences(Tail(s), v) + 1
  <2>1. Places(s, v) = B \cup {1} /\ 1 \notin B
    BY <1>1, <1>7 DEF Places
  <2> HIDE DEF A, B
  <2>2. Cardinality(Places(s, v)) = Cardinality(B) + 1
    BY <1>6, <2>1, FS_AddElement
  <2> QED BY <1>6, <2>2, Counts DEF A
<1>8. ASSUME Head(s) # v
      PROVE  Chat!Occurrences(s, v) = Chat!Occurrences(Tail(s), v)
  <2>1. Places(s, v) = B
    BY <1>1, <1>8 DEF Places
  <2> QED BY <1>6, <2>1, Counts
<1> QED BY <1>7, <1>8

-----------------------------------------------------------------------------
(* The window.                                                             *)

(* The thread that has ended has found the flag cleared.                   *)
ShowerInv ==
  /\ Shower!TypeOK
  /\ pc = "ended" => ~m_is_running

LEMMA ShowerBegins ==
  ASSUME BoundsAssumption, Shower!Init
  PROVE  ShowerInv
<1>1. /\ m_ios = <<>> /\ stopped = FALSE /\ m_is_running = FALSE
      /\ pc = "none" /\ closing = "open" /\ streaming = TRUE
  BY DEF Shower!Init
<1>2. {stopped, m_is_running, streaming} \subseteq BOOLEAN
  BY <1>1, Zenon
<1>3. Room \in Nat
  BY DEF BoundsAssumption
<1> QED BY <1>1, <1>2, <1>3 DEF ShowerInv, Shower!TypeOK

(* A step of the window or of its callers, which never ends the thread     *)
(* once the io_service is stopped and the flag is set.                     *)
LEMMA ShowerInductive ==
  ASSUME BoundsAssumption, ShowerInv, Shower!Next \/ UNCHANGED shower_vars
  PROVE  /\ ShowerInv'
         /\ stopped /\ m_is_running => m_is_running' /\ pc' # "ended"
<1>1. CASE Shower!Open
  BY <1>1, Zenon DEF Shower!Open, ShowerInv, Shower!TypeOK
<1>2. CASE \E m \in Shower!Images : Shower!Show(m)
  <2>1. PICK m \in Shower!Images : Shower!Show(m)
    BY <1>2
  <2>2. m_ios \in Seq(Shower!Images \cup {"close"}) /\ Len(m_ios) < Room /\ Room \in Nat
        /\ m_ios' = Append(m_ios, m)
    BY <2>1 DEF Shower!Show, ShowerInv, Shower!TypeOK, BoundsAssumption
  <2>3. m_ios' \in Seq(Shower!Images \cup {"close"}) /\ Len(m_ios') <= Room
    BY <2>2, AppendElements
  <2> QED BY <2>1, <2>3, Zenon DEF Shower!Show, ShowerInv, Shower!TypeOK
<1>3. CASE Shower!StreamEnds
  BY <1>3, Zenon DEF Shower!StreamEnds, ShowerInv, Shower!TypeOK
<1>4. CASE Shower!Close
  <2>1. m_ios' \in Seq(Shower!Images \cup {"close"}) /\ Len(m_ios') <= Room
    BY <1>4 DEF Shower!Close, ShowerInv, Shower!TypeOK, BoundsAssumption
  <2> QED BY <1>4, <2>1, Zenon DEF Shower!Close, ShowerInv, Shower!TypeOK
<1>5. CASE Shower!Joined
  BY <1>5, Zenon DEF Shower!Joined, ShowerInv, Shower!TypeOK
<1>6. CASE Shower!Check
  <2>1. CASE m_is_running
    BY <1>6, <2>1, Zenon DEF Shower!Check, ShowerInv, Shower!TypeOK
  <2>2. CASE ~m_is_running
    BY <1>6, <2>2, Zenon DEF Shower!Check, ShowerInv, Shower!TypeOK
  <2> QED BY <2>1, <2>2
<1>7. CASE Shower!RunTask
  <2>1. m_ios' \in Seq(Shower!Images \cup {"close"}) /\ Len(m_ios') <= Room
    BY <1>7 DEF Shower!RunTask, ShowerInv, Shower!TypeOK, BoundsAssumption
  <2>2. m_is_running' \in BOOLEAN
    BY <1>7, Zenon DEF Shower!RunTask
  <2>3. pc' \in {"aborted", "run"} /\ closing # "joined"
    BY <1>7 DEF Shower!RunTask, ShowerInv, Shower!TypeOK
  <2> QED BY <1>7, <2>1, <2>2, <2>3, Zenon DEF Shower!RunTask, ShowerInv, Shower!TypeOK
<1>8. CASE Shower!RunReturns
  BY <1>8, Zenon DEF Shower!RunReturns, ShowerInv, Shower!TypeOK
<1>9. CASE UNCHANGED shower_vars
  BY <1>9, Zenon DEF shower_vars, ShowerInv, Shower!TypeOK
<1> QED BY <1>1, <1>2, <1>3, <1>4, <1>5, <1>6, <1>7, <1>8, <1>9
        DEF Shower!Next, Shower!Window

-----------------------------------------------------------------------------
(* The chat servers.                                                       *)

(* The values in a sequence.                                               *)
Posted(s) == {s[i] : i \in 1..Len(s)}

(* A value that is appended is posted, and what stays in the tail was.     *)
LEMMA PostedAppended ==
  ASSUME NEW S, NEW s \in Seq(S), NEW e \in S
  PROVE  Posted(Append(s, e)) = Posted(s) \cup {e}
<1> DEFINE u == Append(s, e)
<1>1. /\ Len(s) \in Nat /\ Len(u) = Len(s) + 1 /\ u[Len(s) + 1] = e
      /\ \A i \in 1..Len(s) : u[i] = s[i]
  BY AppendElements
<1> HIDE DEF u
<1>2. 1..Len(u) = 1..Len(s) \cup {Len(s) + 1}
  BY <1>1
<1>3. Posted(u) = Posted(s) \cup {e}
  BY <1>1, <1>2 DEF Posted
<1> QED BY <1>3 DEF u

LEMMA PostedTail ==
  ASSUME NEW S, NEW s \in Seq(S), s # <<>>
  PROVE  /\ Posted(Tail(s)) \subseteq Posted(s) /\ Head(s) \in Posted(s)
         /\ Posted(s) = Posted(Tail(s)) \cup {Head(s)}
<1>1. /\ Head(s) = s[1] /\ Len(s) \in Nat \ {0} /\ Len(Tail(s)) = Len(s) - 1
      /\ \A i \in 1..Len(Tail(s)) : i + 1 \in 1..Len(s) /\ Tail(s)[i] = s[i + 1]
  BY TailElements
<1>2. 1 \in 1..Len(s)
  BY <1>1
<1>3. Posted(Tail(s)) \subseteq Posted(s) /\ Head(s) \in Posted(s)
  BY <1>1, <1>2 DEF Posted
<1>4. ASSUME NEW i \in 1..Len(s)
      PROVE  s[i] \in Posted(Tail(s)) \cup {Head(s)}
  <2>1. CASE i = 1
    BY <1>1, <2>1
  <2>2. CASE i # 1
    <3>1. i - 1 \in 1..Len(Tail(s)) /\ (i - 1) + 1 = i
      BY <1>1, <2>2
    <3>2. Tail(s)[i - 1] = s[(i - 1) + 1]
      BY <1>1, <3>1
    <3> QED BY <3>1, <3>2 DEF Posted
  <2> QED BY <2>1, <2>2
<1>5. Posted(s) \subseteq Posted(Tail(s)) \cup {Head(s)}
  BY <1>4 DEF Posted
<1> QED BY <1>3, <1>5

(* What is posted occurs.                                                  *)
LEMMA PostedOccurs ==
  ASSUME NEW S, NEW s \in Seq(S), NEW v
  PROVE  Chat!Occurrences(s, v) = 0 <=> v \notin Posted(s)
<1>1. Places(s, v) = {} <=> v \notin Posted(s)
  BY DEF Places, Posted
<1>2. IsFiniteSet(Places(s, v))
  BY OccurrencesNat
<1> QED BY <1>1, <1>2, FS_EmptySet, Counts

(* The tasks of the chat server.                                           *)
ChatTasks == [op : Chat!Ops, c : Clients \cup {None}]

(* Who is in the set, in focus or in a task has connected; the set holds   *)
(* one session.                                                            *)
ChatKnown ==
  /\ \A c \in m_sessions : sock[c] # "none"
  /\ m_wp # None => sock[m_wp] # "none"
  /\ \A t \in Posted(tasks) : t.op \in Chat!Owning \cup {"close", "exit"} =>
       t.c \in Clients /\ sock[t.c] # "none"
  /\ \A c, d \in m_sessions : c = d

(* As long as no client came while the set was full and nobody has typed   *)
(* exit, a session that reads is in the set, and a session that has ended  *)
(* stays in it until its one task takes it out: no handler is without its  *)
(* session.                                                                *)
ChatSafe ==
  ~refused /\ ~exited =>
    /\ io # "aborted"
    /\ reads \subseteq m_sessions
    /\ \A t \in Posted(tasks) :
         /\ t.op \notin {"close", "server close"}
         /\ t.op = "exit" => t.c \in m_sessions /\ reads = {}
    /\ \A c \in Clients : Chat!Occurrences(tasks, Chat!Task("exit", c)) <= 1

ChatInv == Chat!TypeOK /\ ChatKnown /\ Chat!ChainsBounded /\ ChatSafe

LEMMA ChatBegins ==
  ASSUME BoundsAssumption, Chat!Init
  PROVE  ChatInv
<1>1. /\ sock = [c \in Clients |-> "none"] /\ reads = {}
      /\ m_sessions = {} /\ m_wp = None
      /\ m_stop = [c \in Clients |-> TRUE] /\ requests = [c \in Clients |-> 0]
      /\ asked = [c \in Clients |-> 0]
      /\ tasks = <<>> /\ accepting = TRUE /\ accepted = None /\ io = "running"
      /\ main = "typing" /\ window = "fresh"
      /\ typed = <<>> /\ refused = FALSE /\ exited = FALSE
  BY DEF Chat!Init
<1>2. Chat!TypeOK
  <2>1. {accepting, refused, exited} \subseteq BOOLEAN
    BY <1>1, Zenon
  <2>2. m_stop \in [Clients -> BOOLEAN]
    BY <1>1, Zenon
  <2>3. MaxOwning \in Nat
    BY DEF BoundsAssumption
  <2> QED BY <1>1, <2>1, <2>2, <2>3 DEF Chat!TypeOK
<1>3. Posted(tasks) = {}
  BY <1>1 DEF Posted
<1>4. \A v : Chat!Occurrences(tasks, v) = 0 /\ Chat!Occurrences(typed, v) = 0
  <2>1. <<>> \in Seq({1})
    OBVIOUS
  <2> QED BY <1>1, <2>1, OccurrencesNat
<1>5. Chat!ChainsBounded
  <2> SUFFICES ASSUME NEW c \in Clients
               PROVE  requests[c] + Chat!Occurrences(tasks, Chat!Task("show", c))
                        <= Chat!Occurrences(typed, "show")
    BY DEF Chat!ChainsBounded
  <2>1. requests[c] = 0
    BY <1>1
  <2>2. /\ Chat!Occurrences(tasks, Chat!Task("show", c)) = 0
        /\ Chat!Occurrences(typed, "show") = 0
    BY <1>4, Zenon
  <2> QED BY <2>1, <2>2
<1>6. ChatKnown
  BY <1>1, <1>3 DEF ChatKnown
<1>7. ChatSafe
  <2>1. \A c \in Clients : Chat!Occurrences(tasks, Chat!Task("exit", c)) <= 1
    <3> SUFFICES ASSUME NEW c \in Clients
                 PROVE  Chat!Occurrences(tasks, Chat!Task("exit", c)) <= 1
      OBVIOUS
    <3> QED BY <1>4
  <2> QED BY <1>1, <1>3, <2>1 DEF ChatSafe
<1> QED BY <1>2, <1>5, <1>6, <1>7 DEF ChatInv

(* Who has connected stays so.                                             *)
Stays == \A c \in Clients : sock[c] # "none" => sock'[c] # "none"

(* What a task does to the list of tasks, when it posts nothing.           *)
LEMMA TaskTaken ==
  ASSUME Chat!TypeOK, tasks # <<>>
  PROVE  /\ tasks \in Seq(ChatTasks) /\ Head(tasks) \in ChatTasks
         /\ Head(tasks) \in Posted(tasks)
         /\ Tail(tasks) \in Seq(ChatTasks) /\ Posted(Tail(tasks)) \subseteq Posted(tasks)
         /\ \A v : /\ Chat!Occurrences(tasks, v) \in Nat
                   /\ Chat!Occurrences(Tail(tasks), v) \in Nat
                   /\ Head(tasks) = v =>
                        Chat!Occurrences(tasks, v) = Chat!Occurrences(Tail(tasks), v) + 1
                   /\ Head(tasks) # v =>
                        Chat!Occurrences(tasks, v) = Chat!Occurrences(Tail(tasks), v)
<1>1. tasks \in Seq(ChatTasks)
  BY DEF Chat!TypeOK, ChatTasks
<1>2. Head(tasks) \in ChatTasks /\ Tail(tasks) \in Seq(ChatTasks)
  BY <1>1, TailElements
<1>3. \A v : Chat!Occurrences(tasks, v) \in Nat /\ Chat!Occurrences(Tail(tasks), v) \in Nat
  BY <1>1, <1>2, OccurrencesNat
<1> QED BY <1>1, <1>2, <1>3, PostedTail, OccurrencesTail

(* What posting a task does.                                               *)
LEMMA TaskPosted ==
  ASSUME Chat!TypeOK, NEW op \in Chat!Ops, NEW c \in Clients \cup {None},
         tasks' = Append(tasks, Chat!Task(op, c))
  PROVE  /\ tasks' \in Seq(ChatTasks)
         /\ Posted(tasks') = Posted(tasks) \cup {Chat!Task(op, c)}
         /\ Chat!Task(op, c).op = op /\ Chat!Task(op, c).c = c
         /\ \A v : /\ Chat!Occurrences(tasks, v) \in Nat
                   /\ v = Chat!Task(op, c) =>
                        Chat!Occurrences(tasks', v) = Chat!Occurrences(tasks, v) + 1
                   /\ v # Chat!Task(op, c) =>
                        Chat!Occurrences(tasks', v) = Chat!Occurrences(tasks, v)
<1>1. tasks \in Seq(ChatTasks)
  BY DEF Chat!TypeOK, ChatTasks
<1>2. Chat!Task(op, c) \in ChatTasks /\ Chat!Task(op, c).op = op /\ Chat!Task(op, c).c = c
  BY DEF Chat!Task, ChatTasks
<1>3. tasks' \in Seq(ChatTasks)
  BY <1>1, <1>2, AppendElements
<1>4. \A v : Chat!Occurrences(tasks, v) \in Nat
  BY <1>1, OccurrencesNat
<1>5. Posted(tasks') = Posted(tasks) \cup {Chat!Task(op, c)}
  BY <1>1, <1>2, PostedAppended
<1>6. \A v : /\ Chat!Task(op, c) = v =>
                  Chat!Occurrences(tasks', v) = Chat!Occurrences(tasks, v) + 1
             /\ Chat!Task(op, c) # v =>
                  Chat!Occurrences(tasks', v) = Chat!Occurrences(tasks, v)
  BY <1>1, <1>2, OccurrencesAppended
<1> QED BY <1>2, <1>3, <1>4, <1>5, <1>6

(* A client comes or goes; the handler of its accept runs later.           *)
LEMMA AcceptedKeeps ==
  ASSUME ChatInv, NEW c \in Clients, Chat!Accept(c)
  PROVE  ChatInv'
<1>1. /\ accepted' = c
      /\ UNCHANGED <<sock, reads, m_sessions, m_wp, m_stop, requests, asked, tasks,
                     accepting, io, main, window, typed, refused, exited>>
  BY DEF Chat!Accept, Chat!session, Chat!console, Chat!history
<1> QED BY <1>1 DEF ChatInv, Chat!TypeOK, ChatKnown, Chat!ChainsBounded, ChatSafe

LEMMA AcceptKeeps ==
  ASSUME ChatInv, Chat!RunAccept
  PROVE  ChatInv'
<1>1. PICK c \in Clients :
        /\ sock' = [sock EXCEPT ![c] = "open"] /\ accepted' = None
        /\ m_sessions' = (IF m_sessions = {} THEN {c} ELSE m_sessions)
        /\ reads' = reads \cup {c}
        /\ refused' = (refused \/ m_sessions # {})
        /\ UNCHANGED <<m_wp, m_stop, requests, asked, tasks, accepting, io, main, window,
                       typed, exited>>
  BY DEF Chat!RunAccept, Chat!Insert, Chat!session, Chat!console, ChatInv, Chat!TypeOK
<1>2. Chat!TypeOK'
  <2>1. refused' \in BOOLEAN
    BY <1>1, Zenon
  <2>2. {accepting', refused', exited'} \subseteq BOOLEAN
    BY <1>1, <2>1, Zenon DEF ChatInv, Chat!TypeOK
  <2>3. sock' \in [Clients -> {"none", "open", "left", "closed"}]
    BY <1>1 DEF ChatInv, Chat!TypeOK
  <2>4. reads' \subseteq {d \in Clients : sock'[d] # "none"}
    BY <1>1 DEF ChatInv, Chat!TypeOK
  <2>5. m_sessions' \subseteq Clients
    BY <1>1 DEF ChatInv, Chat!TypeOK
  <2> QED BY <1>1, <2>2, <2>3, <2>4, <2>5 DEF ChatInv, Chat!TypeOK
<1>3. ChatKnown'
  <2>1. \A d \in Clients : sock[d] # "none" \/ d = c => sock'[d] # "none"
    BY <1>1 DEF ChatInv, Chat!TypeOK
  <2>2. m_sessions \subseteq Clients /\ m_wp \in Clients \cup {None}
    BY DEF ChatInv, Chat!TypeOK
  <2>3. \A d \in m_sessions' : d = c \/ d \in m_sessions
    BY <1>1
  <2>4. \A d, e \in m_sessions' : d = e
    BY <1>1 DEF ChatInv, ChatKnown
  <2> QED BY <1>1, <2>1, <2>2, <2>3, <2>4 DEF ChatInv, ChatKnown
<1>4. Chat!ChainsBounded'
  BY <1>1 DEF ChatInv, Chat!ChainsBounded
<1>5. ChatSafe'
  <2> SUFFICES ASSUME ~refused', ~exited'
               PROVE  /\ io' # "aborted"
                      /\ reads' \subseteq m_sessions'
                      /\ \A t \in Posted(tasks') :
                           /\ t.op \notin {"close", "server close"}
                           /\ t.op = "exit" => t.c \in m_sessions' /\ reads' = {}
                      /\ \A d \in Clients :
                           Chat!Occurrences(tasks', Chat!Task("exit", d)) <= 1
    BY DEF ChatSafe
  <2>1. ~refused /\ m_sessions = {} /\ m_sessions' = {c} /\ ~exited
    BY <1>1
  <2>2. reads = {} /\ \A t \in Posted(tasks) : t.op # "exit"
    BY <2>1 DEF ChatInv, ChatSafe
  <2> QED BY <1>1, <2>1, <2>2 DEF ChatInv, ChatSafe
<1> QED BY <1>2, <1>3, <1>4, <1>5 DEF ChatInv

LEMMA LeaveKeeps ==
  ASSUME ChatInv, NEW c \in Clients, Chat!Leave(c)
  PROVE  ChatInv'
<1>1. /\ sock' = [sock EXCEPT ![c] = "left"]
      /\ UNCHANGED <<reads, m_sessions, m_wp, m_stop, requests, asked, tasks, accepting,
                     accepted, io, main, window, typed, refused, exited>>
  BY DEF Chat!Leave, Chat!session, Chat!acceptor, Chat!console, Chat!history
<1>2. \A d \in Clients : sock[d] # "none" => sock'[d] # "none"
  BY <1>1 DEF ChatInv, Chat!TypeOK
<1>3. Chat!TypeOK'
  <2>1. sock' \in [Clients -> {"none", "open", "left", "closed"}]
    BY <1>1 DEF ChatInv, Chat!TypeOK
  <2>2. reads' \subseteq {d \in Clients : sock'[d] # "none"}
    BY <1>1, <1>2 DEF ChatInv, Chat!TypeOK
  <2> QED BY <1>1, <2>1, <2>2 DEF ChatInv, Chat!TypeOK
<1>4. ChatKnown'
  <2>1. m_sessions \subseteq Clients /\ m_wp \in Clients \cup {None}
    BY DEF ChatInv, Chat!TypeOK
  <2> QED BY <1>1, <1>2, <2>1 DEF ChatInv, ChatKnown
<1>5. Chat!ChainsBounded' /\ ChatSafe'
  BY <1>1 DEF ChatInv, Chat!ChainsBounded, ChatSafe
<1> QED BY <1>3, <1>4, <1>5 DEF ChatInv

(* A read fails: its session is alive, or the program may abort.           *)
LEMMA ReadFailedKeeps ==
  ASSUME ChatInv, NEW c \in Clients, Chat!ReadFailed(c)
  PROVE  ChatInv'
<1>1. /\ io = "running" /\ c \in reads /\ reads' = reads \ {c}
      /\ UNCHANGED <<m_sessions, m_wp, m_stop, requests, asked, accepting, accepted, main,
                     window, typed, refused, exited>>
  BY DEF Chat!ReadFailed, Chat!session, Chat!acceptor, Chat!console, Chat!history
<1>2. CASE Chat!Alive(c)
  <2>1. /\ tasks' = Append(tasks, Chat!Task("exit", c))
        /\ sock' = [sock EXCEPT ![c] = "closed"] /\ io' = io
    BY <1>2 DEF Chat!ReadFailed
  <2>2. "exit" \in Chat!Ops /\ "exit" # "show"
    BY DEF Chat!Ops
  <2>3. /\ tasks' \in Seq(ChatTasks)
        /\ Posted(tasks') = Posted(tasks) \cup {Chat!Task("exit", c)}
        /\ Chat!Task("exit", c).op = "exit" /\ Chat!Task("exit", c).c = c
        /\ \A v : /\ Chat!Occurrences(tasks, v) \in Nat
                  /\ v = Chat!Task("exit", c) =>
                       Chat!Occurrences(tasks', v) = Chat!Occurrences(tasks, v) + 1
                  /\ v # Chat!Task("exit", c) =>
                       Chat!Occurrences(tasks', v) = Chat!Occurrences(tasks, v)
    BY <2>1, <2>2, TaskPosted DEF ChatInv
  <2>4. \A d \in Clients : sock[d] # "none" => sock'[d] # "none"
    BY <2>1 DEF ChatInv, Chat!TypeOK
  <2>5. Chat!TypeOK'
    <3>1. sock' \in [Clients -> {"none", "open", "left", "closed"}]
      BY <2>1 DEF ChatInv, Chat!TypeOK
    <3>2. reads' \subseteq {d \in Clients : sock'[d] # "none"}
      BY <1>1, <2>4 DEF ChatInv, Chat!TypeOK
    <3> QED BY <1>1, <2>1, <2>3, <3>1, <3>2 DEF ChatInv, Chat!TypeOK, ChatTasks
  <2>6. ChatKnown'
    <3>1. m_sessions \subseteq Clients /\ m_wp \in Clients \cup {None}
      BY DEF ChatInv, Chat!TypeOK
    <3>2. sock'[c] # "none"
      BY <1>1, <2>4 DEF ChatInv, Chat!TypeOK
    <3>3. \A t \in Posted(tasks') : t.op \in Chat!Owning \cup {"close", "exit"} =>
            t.c \in Clients /\ sock'[t.c] # "none"
      BY <2>3, <2>4, <3>2 DEF ChatInv, ChatKnown
    <3> QED BY <1>1, <2>4, <3>1, <3>3 DEF ChatInv, ChatKnown
  <2>7. Chat!ChainsBounded'
    <3> SUFFICES ASSUME NEW d \in Clients
                 PROVE  requests'[d] + Chat!Occurrences(tasks', Chat!Task("show", d))
                          <= Chat!Occurrences(typed', "show")
      BY DEF Chat!ChainsBounded
    <3>1. Chat!Task("show", d) # Chat!Task("exit", c)
      BY DEF Chat!Task
    <3>2. Chat!Occurrences(tasks', Chat!Task("show", d))
            = Chat!Occurrences(tasks, Chat!Task("show", d))
      BY <2>3, <3>1
    <3> QED BY <1>1, <3>2 DEF ChatInv, Chat!ChainsBounded
  <2>8. ChatSafe'
    <3> SUFFICES ASSUME ~refused', ~exited'
                 PROVE  /\ io' # "aborted"
                        /\ reads' \subseteq m_sessions'
                        /\ \A t \in Posted(tasks') :
                             /\ t.op \notin {"close", "server close"}
                             /\ t.op = "exit" => t.c \in m_sessions' /\ reads' = {}
                        /\ \A d \in Clients :
                             Chat!Occurrences(tasks', Chat!Task("exit", d)) <= 1
      BY DEF ChatSafe
    <3>1. /\ reads \subseteq m_sessions
          /\ \A t \in Posted(tasks) : t.op \notin {"close", "server close", "exit"}
      BY <1>1 DEF ChatInv, ChatSafe
    <3>2. reads' = {} /\ c \in m_sessions'
      BY <1>1, <3>1 DEF ChatInv, ChatKnown
    <3>3. ASSUME NEW d \in Clients
          PROVE  Chat!Occurrences(tasks', Chat!Task("exit", d)) <= 1
      <4>1. tasks \in Seq(ChatTasks)
        BY DEF ChatInv, Chat!TypeOK, ChatTasks
      <4>2. Chat!Task("exit", d).op = "exit"
        BY DEF Chat!Task
      <4>3. Chat!Task("exit", d) \notin Posted(tasks)
        BY <3>1, <4>2
      <4>4. Chat!Occurrences(tasks, Chat!Task("exit", d)) = 0
        BY <4>1, <4>3, PostedOccurs
      <4> QED BY <2>3, <4>4
    <3> QED BY <1>1, <2>1, <2>3, <3>1, <3>2, <3>3
  <2> QED BY <2>5, <2>6, <2>7, <2>8 DEF ChatInv
<1>3. CASE ~Chat!Alive(c)
  <2>1. io' \in {"running", "aborted"} /\ UNCHANGED <<tasks, sock>>
    BY <1>3 DEF Chat!ReadFailed, Chat!Undefined
  <2>2. c \notin m_sessions
    BY <1>3 DEF Chat!Alive
  <2>3. refused \/ exited
    BY <1>1, <2>2 DEF ChatInv, ChatSafe
  <2>4. Chat!TypeOK'
    BY <1>1, <2>1 DEF ChatInv, Chat!TypeOK
  <2>5. ChatKnown' /\ Chat!ChainsBounded'
    BY <1>1, <2>1 DEF ChatInv, ChatKnown, Chat!ChainsBounded
  <2> QED BY <1>1, <2>3, <2>4, <2>5 DEF ChatInv, ChatSafe
<1> QED BY <1>2, <1>3

(* An answer comes.                                                        *)
LEMMA AnswerKeeps ==
  ASSUME ChatInv, NEW c \in Clients, Chat!OnImageArrived(c) \/ Chat!OnAnswer(c)
  PROVE  ChatInv'
<1>1. /\ UNCHANGED <<sock, reads, m_sessions, m_wp, m_stop, tasks, accepting, accepted, io,
                     main, typed, refused, exited>>
      /\ window' \in {window, "showing"}
      /\ requests' = requests
           \/ (requests[c] > 0 /\ requests' = [requests EXCEPT ![c] = @ - 1])
      /\ asked' = asked \/ (asked[c] > 0 /\ asked' = [asked EXCEPT ![c] = @ - 1])
  BY DEF Chat!OnImageArrived, Chat!OnAnswer, Chat!acceptor, Chat!console, Chat!history
<1>2. /\ requests' \in [Clients -> Nat] /\ asked' \in [Clients -> Nat]
      /\ \A d \in Clients : requests'[d] <= requests[d]
  <2>1. requests \in [Clients -> Nat] /\ asked \in [Clients -> Nat]
    BY DEF ChatInv, Chat!TypeOK
  <2> QED BY <1>1, <2>1
<1>3. Chat!TypeOK'
  BY <1>1, <1>2 DEF ChatInv, Chat!TypeOK
<1>4. ChatKnown' /\ ChatSafe'
  BY <1>1 DEF ChatInv, ChatKnown, ChatSafe
<1>5. Chat!ChainsBounded'
  <2> SUFFICES ASSUME NEW d \in Clients
               PROVE  requests'[d] + Chat!Occurrences(tasks', Chat!Task("show", d))
                        <= Chat!Occurrences(typed', "show")
    BY DEF Chat!ChainsBounded
  <2>1. tasks \in Seq(ChatTasks) /\ typed \in Seq(Chat!Owning) /\ requests \in [Clients -> Nat]
    BY DEF ChatInv, Chat!TypeOK, ChatTasks
  <2>2. /\ Chat!Occurrences(tasks, Chat!Task("show", d)) \in Nat
        /\ Chat!Occurrences(typed, "show") \in Nat
    BY <2>1, OccurrencesNat
  <2>3. requests[d] + Chat!Occurrences(tasks, Chat!Task("show", d))
          <= Chat!Occurrences(typed, "show")
    BY DEF ChatInv, Chat!ChainsBounded
  <2>4. requests[d] \in Nat /\ requests'[d] \in Nat /\ requests'[d] <= requests[d]
    BY <1>2, <2>1
  <2> QED BY <1>1, <2>2, <2>3, <2>4
<1> QED BY <1>3, <1>4, <1>5 DEF ChatInv

(* What a task keeps that posts none.                                      *)
LEMMA KnownTail ==
  ASSUME ChatInv, tasks # <<>>, tasks' = Tail(tasks), UNCHANGED <<m_sessions, m_wp>>,
         Stays
  PROVE  ChatKnown'
<1>1. Posted(tasks') \subseteq Posted(tasks)
  BY TaskTaken DEF ChatInv
<1>2. m_sessions \subseteq Clients /\ m_wp \in Clients \cup {None}
  BY DEF ChatInv, Chat!TypeOK
<1> QED BY <1>1, <1>2 DEF ChatInv, ChatKnown, Stays

LEMMA ChainsTail ==
  ASSUME ChatInv, tasks # <<>>, tasks' = Tail(tasks), typed' = typed,
         requests' \in [Clients -> Nat],
         \A d \in Clients :
           \/ requests'[d] = requests[d]
           \/ requests'[d] = requests[d] + 1 /\ Head(tasks) = Chat!Task("show", d)
  PROVE  Chat!ChainsBounded'
<1> SUFFICES ASSUME NEW d \in Clients
             PROVE  requests'[d] + Chat!Occurrences(tasks', Chat!Task("show", d))
                      <= Chat!Occurrences(typed', "show")
  BY DEF Chat!ChainsBounded
<1>1. LET v == Chat!Task("show", d)
      IN  /\ Chat!Occurrences(tasks, v) \in Nat
          /\ Chat!Occurrences(Tail(tasks), v) \in Nat
          /\ Head(tasks) = v =>
               Chat!Occurrences(tasks, v) = Chat!Occurrences(Tail(tasks), v) + 1
          /\ Head(tasks) # v =>
               Chat!Occurrences(tasks, v) = Chat!Occurrences(Tail(tasks), v)
  BY TaskTaken DEF ChatInv
<1>2. typed \in Seq(Chat!Owning) /\ requests \in [Clients -> Nat]
  BY DEF ChatInv, Chat!TypeOK
<1>3. Chat!Occurrences(typed, "show") \in Nat
  BY <1>2, OccurrencesNat
<1>4. requests[d] + Chat!Occurrences(tasks, Chat!Task("show", d))
        <= Chat!Occurrences(typed, "show")
  BY DEF ChatInv, Chat!ChainsBounded
<1>5. requests[d] \in Nat
  BY <1>2
<1>6. requests'[d] = requests[d]
        \/ (requests'[d] = requests[d] + 1 /\ Head(tasks) = Chat!Task("show", d))
  OBVIOUS
<1> QED BY <1>1, <1>3, <1>4, <1>5, <1>6

LEMMA SafeTail ==
  ASSUME ChatInv, tasks # <<>>, tasks' = Tail(tasks),
         UNCHANGED <<reads, m_sessions, io, refused, exited>>
  PROVE  ChatSafe'
<1>1. Posted(tasks') \subseteq Posted(tasks)
  BY TaskTaken DEF ChatInv
<1>2. ASSUME NEW d \in Clients, ~refused, ~exited
      PROVE  Chat!Occurrences(tasks', Chat!Task("exit", d)) <= 1
  <2>1. LET v == Chat!Task("exit", d)
        IN  /\ Chat!Occurrences(tasks, v) \in Nat
            /\ Chat!Occurrences(Tail(tasks), v) \in Nat
            /\ Head(tasks) = v =>
                 Chat!Occurrences(tasks, v) = Chat!Occurrences(Tail(tasks), v) + 1
            /\ Head(tasks) # v =>
                 Chat!Occurrences(tasks, v) = Chat!Occurrences(Tail(tasks), v)
    BY TaskTaken DEF ChatInv
  <2>2. Chat!Occurrences(tasks, Chat!Task("exit", d)) <= 1
    BY <1>2 DEF ChatInv, ChatSafe
  <2> QED BY <2>1, <2>2
<1> QED BY <1>1, <1>2 DEF ChatInv, ChatSafe

(* The head of the tasks, by its fields.                                   *)
LEMMA HeadSays ==
  ASSUME ChatInv, NEW op, Chat!Run(op)
  PROVE  /\ tasks # <<>> /\ io = "running" /\ Head(tasks).op = op
         /\ UNCHANGED <<reads, accepted, main, window, typed, refused, exited>>
         /\ Head(tasks) = Chat!Task(op, Chat!Oldest)
         /\ op \in Chat!Owning \cup {"close", "exit"} =>
              Chat!Oldest \in Clients /\ sock[Chat!Oldest] # "none"
<1>1. /\ tasks # <<>> /\ io = "running" /\ Head(tasks).op = op
      /\ UNCHANGED <<reads, accepted, main, window, typed, refused, exited>>
  BY DEF Chat!Run, Chat!console, Chat!history
<1>2. Head(tasks) \in ChatTasks /\ Head(tasks) \in Posted(tasks)
  BY <1>1, TaskTaken DEF ChatInv
<1>3. Head(tasks) = Chat!Task(op, Chat!Oldest)
  BY <1>1, <1>2 DEF Chat!Task, Chat!Oldest, ChatTasks
<1>4. op \in Chat!Owning \cup {"close", "exit"} =>
        Chat!Oldest \in Clients /\ sock[Chat!Oldest] # "none"
  BY <1>1, <1>2 DEF ChatInv, ChatKnown, Chat!Oldest
<1> QED BY <1>1, <1>3, <1>4

(* A request that is written adds a handler at most.                       *)
LEMMA KeptSays ==
  ASSUME ChatInv, Chat!Oldest \in Clients, sock[Chat!Oldest] # "none",
         NEW r \in [Clients -> Nat], NEW q \in Chat!Kept(r)
  PROVE  /\ q \in [Clients -> Nat]
         /\ \A d \in Clients : q[d] = r[d] \/ (q[d] = r[d] + 1 /\ d = Chat!Oldest)
<1>1. sock[Chat!Oldest] \in {"open", "left", "closed"}
  BY DEF ChatInv, Chat!TypeOK
<1>2. q = r \/ q = [r EXCEPT ![Chat!Oldest] = @ + 1]
  BY <1>1 DEF Chat!Kept
<1> QED BY <1>2

(* The tasks of shows, requests and stops.                                 *)
LEMMA OwningKeeps ==
  ASSUME ChatInv, Chat!RunShow \/ Chat!RunRequest \/ Chat!RunStop
  PROVE  ChatInv'
<1>1. /\ tasks' = Tail(tasks) /\ tasks # <<>>
      /\ UNCHANGED <<sock, m_sessions, m_wp, accepting, accepted, io, reads, main, window,
                     typed, refused, exited>>
      /\ Chat!Oldest \in Clients /\ sock[Chat!Oldest] # "none"
  <2>1. PICK op \in Chat!Owning : Chat!Run(op)
    BY DEF Chat!RunShow, Chat!RunRequest, Chat!RunStop, Chat!Owning
  <2> QED BY <2>1, HeadSays DEF Chat!RunShow, Chat!RunRequest, Chat!RunStop
<1>2. tasks' \in Seq(ChatTasks)
  BY <1>1, TaskTaken DEF ChatInv
<1>3. requests \in [Clients -> Nat] /\ asked \in [Clients -> Nat]
      /\ m_stop \in [Clients -> BOOLEAN]
  BY DEF ChatInv, Chat!TypeOK
<1>4. /\ requests' \in [Clients -> Nat]
      /\ \A d \in Clients :
           \/ requests'[d] = requests[d]
           \/ requests'[d] = requests[d] + 1 /\ Head(tasks) = Chat!Task("show", d)
  <2>1. CASE Chat!RunShow
    <3>1. requests' \in Chat!Kept(requests) /\ Chat!Run("show")
      BY <2>1 DEF Chat!RunShow
    <3>2. Head(tasks) = Chat!Task("show", Chat!Oldest)
      BY <3>1, HeadSays
    <3>3. /\ requests' \in [Clients -> Nat]
          /\ \A d \in Clients : requests'[d] = requests[d]
                                 \/ (requests'[d] = requests[d] + 1 /\ d = Chat!Oldest)
      BY <1>1, <1>3, <3>1, KeptSays
    <3> QED BY <3>2, <3>3
  <2>2. CASE requests' = requests
    BY <1>3, <2>2
  <2> QED BY <2>1, <2>2 DEF Chat!RunRequest, Chat!RunStop
<1>5. asked' \in [Clients -> Nat]
  <2>1. CASE Chat!RunRequest
    <3>1. asked' \in Chat!Kept(asked)
      BY <2>1 DEF Chat!RunRequest
    <3> QED BY <1>1, <1>3, <3>1, KeptSays
  <2>2. CASE asked' = asked
    BY <1>3, <2>2
  <2> QED BY <2>1, <2>2 DEF Chat!RunShow, Chat!RunStop
<1>6. m_stop' \in [Clients -> BOOLEAN]
  <2>1. \/ m_stop' = m_stop \/ m_stop' = [m_stop EXCEPT ![Chat!Oldest] = FALSE]
        \/ m_stop' = [m_stop EXCEPT ![Chat!Oldest] = TRUE]
    BY DEF Chat!RunShow, Chat!RunRequest, Chat!RunStop
  <2> QED BY <1>3, <2>1
<1>7. Chat!TypeOK'
  BY <1>1, <1>2, <1>4, <1>5, <1>6 DEF ChatInv, Chat!TypeOK, ChatTasks
<1>8. ChatKnown'
  BY <1>1, KnownTail DEF Stays
<1>9. Chat!ChainsBounded'
  BY <1>1, <1>4, ChainsTail
<1>10. ChatSafe'
  BY <1>1, SafeTail
<1> QED BY <1>7, <1>8, <1>9, <1>10 DEF ChatInv

(* The task that sets the focus.                                           *)
LEMMA FocusKeeps ==
  ASSUME ChatInv, Chat!RunFocus
  PROVE  ChatInv'
<1>1. /\ tasks' = Tail(tasks) /\ tasks # <<>>
      /\ m_wp' = (IF m_sessions = {} THEN None ELSE CHOOSE c \in m_sessions : TRUE)
      /\ UNCHANGED <<sock, m_sessions, m_stop, requests, asked, accepting, accepted, io,
                     reads, main, window, typed, refused, exited>>
  BY HeadSays DEF Chat!RunFocus, Chat!session, Chat!acceptor, Chat!console
<1>2. tasks' \in Seq(ChatTasks)
  BY <1>1, TaskTaken DEF ChatInv
<1>3. m_wp' = None \/ m_wp' \in m_sessions
  <2>1. m_sessions # {} => (CHOOSE c \in m_sessions : TRUE) \in m_sessions
    OBVIOUS
  <2> QED BY <1>1, <2>1
<1>4. Chat!TypeOK'
  BY <1>1, <1>2, <1>3 DEF ChatInv, Chat!TypeOK, ChatTasks
<1>5. ChatKnown'
  <2>1. Posted(tasks') \subseteq Posted(tasks)
    BY <1>1, TaskTaken DEF ChatInv
  <2> QED BY <1>1, <1>3, <2>1 DEF ChatInv, ChatKnown
<1>6. Chat!ChainsBounded'
  <2>1. requests \in [Clients -> Nat]
    BY DEF ChatInv, Chat!TypeOK
  <2> QED BY <1>1, <2>1, ChainsTail
<1> QED BY <1>1, <1>4, <1>5, <1>6, SafeTail DEF ChatInv

(* The task of a session's close: it comes only when the server is closed. *)
LEMMA SessionCloseKeeps ==
  ASSUME ChatInv, Chat!RunSessionClose
  PROVE  ChatInv'
<1>1. /\ tasks' = Tail(tasks) /\ tasks # <<>> /\ Head(tasks).op = "close"
      /\ io = "running"
      /\ UNCHANGED <<m_sessions, m_wp, m_stop, requests, asked, accepting, accepted, reads,
                     main, window, typed, refused, exited>>
      /\ Chat!Oldest \in Clients /\ sock[Chat!Oldest] # "none"
  BY HeadSays DEF Chat!RunSessionClose, Chat!session, Chat!acceptor, Chat!console
<1>2. /\ sock' = sock \/ sock' = [sock EXCEPT ![Chat!Oldest] = "closed"]
      /\ io' \in {"running", "aborted"}
  BY <1>1 DEF Chat!RunSessionClose, Chat!Undefined
<1>3. tasks' \in Seq(ChatTasks) /\ Head(tasks) \in Posted(tasks)
  BY <1>1, TaskTaken DEF ChatInv
<1>4. Stays /\ sock' \in [Clients -> {"none", "open", "left", "closed"}]
  BY <1>1, <1>2 DEF ChatInv, Chat!TypeOK, Stays
<1>5. Chat!TypeOK'
  <2>1. reads' \subseteq {d \in Clients : sock'[d] # "none"}
    BY <1>1, <1>4 DEF ChatInv, Chat!TypeOK, Stays
  <2> QED BY <1>1, <1>2, <1>3, <1>4, <2>1 DEF ChatInv, Chat!TypeOK, ChatTasks
<1>6. ChatKnown'
  BY <1>1, <1>4, KnownTail
<1>7. Chat!ChainsBounded'
  <2>1. requests \in [Clients -> Nat]
    BY DEF ChatInv, Chat!TypeOK
  <2> QED BY <1>1, <2>1, ChainsTail
<1>8. refused \/ exited
  BY <1>1, <1>3 DEF ChatInv, ChatSafe
<1> QED BY <1>1, <1>5, <1>6, <1>7, <1>8 DEF ChatInv, ChatSafe

(* The task that takes a session out of the set, which is empty then.      *)
LEMMA ExitKeeps ==
  ASSUME ChatInv, Chat!RunExit
  PROVE  ChatInv'
<1>1. /\ tasks' = Tail(tasks) /\ tasks # <<>> /\ io = "running"
      /\ Head(tasks) = Chat!Task("exit", Chat!Oldest) /\ Head(tasks).op = "exit"
      /\ UNCHANGED <<sock, m_wp, m_stop, requests, asked, accepting, accepted, reads, main,
                     window, typed, refused, exited>>
      /\ Chat!Oldest \in Clients
  BY HeadSays DEF Chat!RunExit, Chat!session, Chat!acceptor, Chat!console
<1>2. /\ m_sessions' \in {{}, m_sessions} /\ io' \in {"running", "aborted"}
      /\ Chat!Alive(Chat!Oldest) => m_sessions' = {} /\ io' = "running"
  BY <1>1 DEF Chat!RunExit, Chat!Undefined, Chat!Erase
<1>3. /\ tasks' \in Seq(ChatTasks) /\ Head(tasks) \in Posted(tasks)
      /\ Posted(tasks') \subseteq Posted(tasks)
  BY <1>1, TaskTaken DEF ChatInv
<1>4. Chat!TypeOK'
  BY <1>1, <1>2, <1>3 DEF ChatInv, Chat!TypeOK, ChatTasks
<1>5. ChatKnown'
  <2>1. m_sessions' \subseteq m_sessions
    BY <1>2
  <2> QED BY <1>1, <1>3, <2>1 DEF ChatInv, ChatKnown
<1>6. Chat!ChainsBounded'
  <2>1. requests \in [Clients -> Nat]
    BY DEF ChatInv, Chat!TypeOK
  <2> QED BY <1>1, <2>1, ChainsTail
<1>7. ChatSafe'
  <2> SUFFICES ASSUME ~refused, ~exited
               PROVE  /\ io' # "aborted"
                      /\ reads' \subseteq m_sessions'
                      /\ \A t \in Posted(tasks') :
                           /\ t.op \notin {"close", "server close"}
                           /\ t.op = "exit" => t.c \in m_sessions' /\ reads' = {}
                      /\ \A d \in Clients :
                           Chat!Occurrences(tasks', Chat!Task("exit", d)) <= 1
    BY <1>1 DEF ChatSafe
  <2> DEFINE v == Chat!Task("exit", Chat!Oldest)
  <2>1. Chat!Oldest \in m_sessions /\ reads = {}
    BY <1>1, <1>3 DEF ChatInv, ChatSafe, Chat!Oldest
  <2>2. m_sessions' = {} /\ io' = "running"
    BY <1>2, <2>1 DEF Chat!Alive
  <2>3. Chat!Occurrences(tasks', v) = 0
    <3>1. /\ Chat!Occurrences(tasks, v) \in Nat
          /\ Chat!Occurrences(Tail(tasks), v) \in Nat
          /\ Chat!Occurrences(tasks, v) = Chat!Occurrences(Tail(tasks), v) + 1
      BY <1>1, TaskTaken DEF ChatInv
    <3>2. Chat!Occurrences(tasks, v) <= 1
      BY <1>1 DEF ChatInv, ChatSafe
    <3> QED BY <1>1, <3>1, <3>2
  <2>4. v \notin Posted(tasks')
    BY <1>3, <2>3, PostedOccurs
  <2>5. ASSUME NEW t \in Posted(tasks'), t.op = "exit"
        PROVE  FALSE
    <3>1. t \in ChatTasks
      BY <1>3 DEF Posted
    <3>2. t.c \in m_sessions
      BY <1>3, <2>5 DEF ChatInv, ChatSafe
    <3>3. t.c = Chat!Oldest
      BY <2>1, <3>2 DEF ChatInv, ChatKnown
    <3>4. t = v
      BY <2>5, <3>1, <3>3 DEF ChatTasks, Chat!Task
    <3> QED BY <2>4, <3>4
  <2>6. ASSUME NEW d \in Clients
        PROVE  Chat!Occurrences(tasks', Chat!Task("exit", d)) <= 1
    <3>1. Chat!Task("exit", d).op = "exit"
      BY DEF Chat!Task
    <3>2. Chat!Task("exit", d) \notin Posted(tasks')
      BY <2>5, <3>1
    <3>3. Chat!Occurrences(tasks', Chat!Task("exit", d)) = 0
      BY <1>3, <3>2, PostedOccurs
    <3> QED BY <3>3
  <2>7. \A t \in Posted(tasks') : t.op \notin {"close", "server close"}
    BY <1>3 DEF ChatInv, ChatSafe
  <2> QED BY <1>1, <2>1, <2>2, <2>5, <2>6, <2>7
<1> QED BY <1>4, <1>5, <1>6, <1>7 DEF ChatInv

(* The counting of the server's module, again.                             *)
LEMMA SetCounts == \A S : Chat!Cardinality(S) = Cardinality(S)
  BY DEF Chat!Cardinality, Cardinality

(* The task of the server's close posts the close of the session, if there *)
(* is one.                                                                 *)
LEMMA ServerClosePosts ==
  ASSUME ChatInv, Chat!RunServerClose
  PROVE  \/ tasks' = Tail(tasks)
         \/ \E c \in m_sessions : tasks' = Append(Tail(tasks), Chat!Task("close", c))
<1> DEFINE closes == [i \in 1..Chat!Cardinality(m_sessions) |->
                        Chat!Task("close", CHOOSE c \in m_sessions : TRUE)]
<1>1. tasks' = Tail(tasks) \o closes /\ Tail(tasks) \in Seq(ChatTasks)
  <2>1. tasks # <<>>
    BY DEF Chat!RunServerClose, Chat!Run
  <2> QED BY <2>1, TaskTaken DEF ChatInv, Chat!RunServerClose
<1>2. CASE m_sessions = {}
  <2>1. Chat!Cardinality(m_sessions) = 0
    BY <1>2, FS_EmptySet, SetCounts
  <2>2. closes = <<>>
    BY <2>1
  <2> HIDE DEF closes
  <2> QED BY <1>1, <2>2
<1>3. CASE m_sessions # {}
  <2>1. PICK c \in m_sessions : c = CHOOSE d \in m_sessions : TRUE
    BY <1>3
  <2>2. m_sessions = {c}
    BY <2>1 DEF ChatInv, ChatKnown
  <2>3. Chat!Cardinality(m_sessions) = 1
    BY <2>2, FS_Singleton, SetCounts
  <2>4. closes = <<Chat!Task("close", c)>>
    BY <2>1, <2>3
  <2>5. Chat!Task("close", c) \in ChatTasks
    BY <2>1 DEF Chat!Task, ChatTasks, Chat!Ops, ChatInv, Chat!TypeOK
  <2> HIDE DEF closes
  <2>6. Tail(tasks) \o <<Chat!Task("close", c)>> = Append(Tail(tasks), Chat!Task("close", c))
    BY <1>1, <2>5
  <2> QED BY <1>1, <2>1, <2>4, <2>6
<1> QED BY <1>2, <1>3

(* Appending a task posts it, and nothing else.                            *)
LEMMA TaskAddsOne ==
  ASSUME NEW s \in Seq(ChatTasks), NEW t \in ChatTasks
  PROVE  Posted(Append(s, t)) = Posted(s) \cup {t}
BY PostedAppended

LEMMA ServerCloseKeeps ==
  ASSUME ChatInv, Chat!RunServerClose
  PROVE  ChatInv'
<1>1. /\ tasks # <<>> /\ Head(tasks).op = "server close"
      /\ m_sessions' = {} /\ accepting' = FALSE
      /\ UNCHANGED <<sock, m_wp, m_stop, requests, asked, accepted, io, reads, main, window,
                     typed, refused, exited>>
  BY HeadSays DEF Chat!RunServerClose, Chat!session, Chat!acceptor, Chat!console
<1>2. /\ Tail(tasks) \in Seq(ChatTasks) /\ Head(tasks) \in Posted(tasks)
      /\ Posted(Tail(tasks)) \subseteq Posted(tasks)
  BY <1>1, TaskTaken DEF ChatInv
<1>3. refused \/ exited
  BY <1>1, <1>2 DEF ChatInv, ChatSafe
<1>4. PICK more \in {{}} \cup {{Chat!Task("close", c)} : c \in m_sessions} :
        /\ tasks' \in Seq(ChatTasks)
        /\ Posted(tasks') = Posted(Tail(tasks)) \cup more
        /\ \A d \in Clients : Chat!Occurrences(tasks', Chat!Task("show", d))
                                <= Chat!Occurrences(tasks, Chat!Task("show", d))
  <2>1. \A d \in Clients : LET v == Chat!Task("show", d)
        IN  /\ Chat!Occurrences(tasks, v) \in Nat
            /\ Chat!Occurrences(Tail(tasks), v) \in Nat
            /\ Chat!Occurrences(Tail(tasks), v) <= Chat!Occurrences(tasks, v)
    <3> SUFFICES ASSUME NEW d \in Clients
                 PROVE  LET v == Chat!Task("show", d)
                        IN  /\ Chat!Occurrences(tasks, v) \in Nat
                            /\ Chat!Occurrences(Tail(tasks), v) \in Nat
                            /\ Chat!Occurrences(Tail(tasks), v) <= Chat!Occurrences(tasks, v)
      OBVIOUS
    <3> DEFINE v == Chat!Task("show", d)
    <3>1. /\ Chat!Occurrences(tasks, v) \in Nat
          /\ Chat!Occurrences(Tail(tasks), v) \in Nat
          /\ Head(tasks) = v =>
               Chat!Occurrences(tasks, v) = Chat!Occurrences(Tail(tasks), v) + 1
          /\ Head(tasks) # v =>
               Chat!Occurrences(tasks, v) = Chat!Occurrences(Tail(tasks), v)
      BY <1>1, TaskTaken DEF ChatInv
    <3> QED BY <3>1
  <2>2. CASE tasks' = Tail(tasks)
    <3>1. Posted(tasks') = Posted(Tail(tasks)) \cup {}
      BY <2>2
    <3> QED BY <1>2, <2>1, <2>2, <3>1
  <2>3. CASE \E c \in m_sessions : tasks' = Append(Tail(tasks), Chat!Task("close", c))
    <3>1. PICK c \in m_sessions : tasks' = Append(Tail(tasks), Chat!Task("close", c))
      BY <2>3
    <3>2. Chat!Task("close", c) \in ChatTasks
      BY DEF Chat!Task, ChatTasks, Chat!Ops, ChatInv, Chat!TypeOK
    <3>3. /\ tasks' \in Seq(ChatTasks)
          /\ Posted(tasks') = Posted(Tail(tasks)) \cup {Chat!Task("close", c)}
      <4>1. tasks' \in Seq(ChatTasks)
        BY <1>2, <3>1, <3>2, AppendElements
      <4>2. Posted(Append(Tail(tasks), Chat!Task("close", c)))
              = Posted(Tail(tasks)) \cup {Chat!Task("close", c)}
        BY <1>2, <3>2, TaskAddsOne
      <4> QED BY <3>1, <4>1, <4>2
    <3>4. ASSUME NEW d \in Clients
          PROVE  Chat!Occurrences(tasks', Chat!Task("show", d))
                   <= Chat!Occurrences(tasks, Chat!Task("show", d))
      <4>1. Chat!Task("close", c) # Chat!Task("show", d)
        BY DEF Chat!Task
      <4>2. Chat!Occurrences(tasks', Chat!Task("show", d))
              = Chat!Occurrences(Tail(tasks), Chat!Task("show", d))
        BY <1>2, <3>1, <3>2, <4>1, OccurrencesAppended
      <4> QED BY <2>1, <4>2
    <3> QED BY <3>3, <3>4
  <2> QED BY <2>2, <2>3, ServerClosePosts
<1>5. Chat!TypeOK'
  <2>1. accepting' \in BOOLEAN
    BY <1>1, Zenon
  <2>2. {accepting', refused', exited'} \subseteq BOOLEAN
    BY <1>1, <2>1, Zenon DEF ChatInv, Chat!TypeOK
  <2> QED BY <1>1, <1>4, <2>2 DEF ChatInv, Chat!TypeOK, ChatTasks
<1>6. ChatKnown'
  <2>1. \A t \in more : t.c \in Clients /\ sock[t.c] # "none"
    BY DEF Chat!Task, ChatInv, ChatKnown, Chat!TypeOK
  <2>2. \A t \in Posted(tasks') : t.op \in Chat!Owning \cup {"close", "exit"} =>
          t.c \in Clients /\ sock[t.c] # "none"
    BY <1>2, <1>4, <2>1 DEF ChatInv, ChatKnown
  <2> QED BY <1>1, <2>2 DEF ChatInv, ChatKnown
<1>7. Chat!ChainsBounded'
  <2> SUFFICES ASSUME NEW d \in Clients
               PROVE  requests'[d] + Chat!Occurrences(tasks', Chat!Task("show", d))
                        <= Chat!Occurrences(typed', "show")
    BY DEF Chat!ChainsBounded
  <2>1. /\ requests \in [Clients -> Nat] /\ typed \in Seq(Chat!Owning)
        /\ tasks \in Seq(ChatTasks)
    BY DEF ChatInv, Chat!TypeOK, ChatTasks
  <2>2. /\ Chat!Occurrences(typed, "show") \in Nat /\ requests[d] \in Nat
        /\ Chat!Occurrences(tasks, Chat!Task("show", d)) \in Nat
        /\ Chat!Occurrences(tasks', Chat!Task("show", d)) \in Nat
    BY <1>4, <2>1, OccurrencesNat
  <2>3. requests[d] + Chat!Occurrences(tasks, Chat!Task("show", d))
          <= Chat!Occurrences(typed, "show")
    BY DEF ChatInv, Chat!ChainsBounded
  <2>4. Chat!Occurrences(tasks', Chat!Task("show", d))
          <= Chat!Occurrences(tasks, Chat!Task("show", d))
    BY <1>4
  <2>5. requests[d] + Chat!Occurrences(tasks', Chat!Task("show", d))
          <= Chat!Occurrences(typed, "show")
    BY <2>2, <2>3, <2>4
  <2> QED BY <1>1, <2>5
<1> QED BY <1>1, <1>3, <1>5, <1>6, <1>7 DEF ChatInv, ChatSafe

LEMMA OneMore ==
  ASSUME NEW r \in Nat, NEW a \in Nat, NEW b, NEW t \in Nat, r + a <= t, b = a \/ b = a + 1
  PROVE  r + b <= t + 1
OBVIOUS

(* The console posts what the user types: a show adds to both counts.      *)
LEMMA TypedKeeps ==
  ASSUME ChatInv, NEW op \in Chat!Ops \ {"exit", "close"},
         NEW c \in Clients \cup {None}, op \in Chat!Owning => c \in Clients /\ c = m_wp,
         tasks' = Append(tasks, Chat!Task(op, c)),
         UNCHANGED <<sock, reads, m_sessions, m_wp, m_stop, requests, asked, accepting,
                     accepted, io, window, refused>>,
         main' \in {"typing", "joining", "closing", "done"}, exited' \in BOOLEAN,
         exited => exited', op = "server close" => exited',
         typed' \in Seq(Chat!Owning), Len(typed') <= MaxOwning,
         \/ typed' = typed /\ op # "show"
         \/ typed' = Append(typed, op) /\ op \in Chat!Owning
  PROVE  ChatInv'
<1>1. /\ tasks' \in Seq(ChatTasks)
      /\ Posted(tasks') = Posted(tasks) \cup {Chat!Task(op, c)}
      /\ Chat!Task(op, c).op = op /\ Chat!Task(op, c).c = c
      /\ \A v : /\ Chat!Occurrences(tasks, v) \in Nat
                /\ v = Chat!Task(op, c) =>
                     Chat!Occurrences(tasks', v) = Chat!Occurrences(tasks, v) + 1
                /\ v # Chat!Task(op, c) =>
                     Chat!Occurrences(tasks', v) = Chat!Occurrences(tasks, v)
  BY TaskPosted DEF ChatInv
<1>2. Chat!TypeOK'
  <2>1. {accepting', refused', exited'} \subseteq BOOLEAN
    BY Zenon DEF ChatInv, Chat!TypeOK
  <2> QED BY <1>1, <2>1 DEF ChatInv, Chat!TypeOK, ChatTasks
<1>3. ChatKnown'
  <2>1. op \in Chat!Owning => c \in Clients /\ sock[c] # "none"
    <3>1. None \notin Clients
      BY ClientsAssumption DEF ClientsAssumption
    <3> QED BY <3>1 DEF ChatInv, ChatKnown
  <2>2. \A t \in Posted(tasks') : t.op \in Chat!Owning \cup {"close", "exit"} =>
          t.c \in Clients /\ sock'[t.c] # "none"
    BY <1>1, <2>1 DEF ChatInv, ChatKnown
  <2> QED BY <2>2 DEF ChatInv, ChatKnown
<1>4. Chat!ChainsBounded'
  <2> SUFFICES ASSUME NEW d \in Clients
               PROVE  requests'[d] + Chat!Occurrences(tasks', Chat!Task("show", d))
                        <= Chat!Occurrences(typed', "show")
    BY DEF Chat!ChainsBounded
  <2>1. requests \in [Clients -> Nat] /\ typed \in Seq(Chat!Owning)
    BY DEF ChatInv, Chat!TypeOK
  <2>2. /\ Chat!Occurrences(typed, "show") \in Nat /\ requests[d] \in Nat
        /\ Chat!Occurrences(tasks, Chat!Task("show", d)) \in Nat
    BY <1>1, <2>1, OccurrencesNat
  <2>3. requests[d] + Chat!Occurrences(tasks, Chat!Task("show", d))
          <= Chat!Occurrences(typed, "show")
    BY DEF ChatInv, Chat!ChainsBounded
  <2>4. op # "show" => Chat!Task("show", d) # Chat!Task(op, c)
    BY DEF Chat!Task
  <2>5. CASE op # "show"
    <3>1. Chat!Occurrences(tasks', Chat!Task("show", d))
            = Chat!Occurrences(tasks, Chat!Task("show", d))
      BY <1>1, <2>4, <2>5
    <3>2. Chat!Occurrences(typed', "show") = Chat!Occurrences(typed, "show")
      <4>1. CASE typed' = typed
        BY <4>1
      <4>2. CASE typed' = Append(typed, op) /\ op \in Chat!Owning
        <5>1. Chat!Occurrences(Append(typed, op), "show") = Chat!Occurrences(typed, "show")
          BY <2>1, <2>5, <4>2, OccurrencesAppended
        <5> QED BY <4>2, <5>1
      <4> QED BY <4>1, <4>2
    <3> QED BY <2>3, <3>1, <3>2
  <2>6. CASE op = "show"
    <3>1. typed' = Append(typed, "show") /\ "show" \in Chat!Owning
      BY <2>6
    <3>2. Chat!Occurrences(Append(typed, "show"), "show")
            = Chat!Occurrences(typed, "show") + 1
      BY <2>1, <3>1, OccurrencesAppended
    <3>3. \/ Chat!Occurrences(tasks', Chat!Task("show", d))
               = Chat!Occurrences(tasks, Chat!Task("show", d))
          \/ Chat!Occurrences(tasks', Chat!Task("show", d))
               = Chat!Occurrences(tasks, Chat!Task("show", d)) + 1
      BY <1>1
    <3>4. requests[d] + Chat!Occurrences(tasks', Chat!Task("show", d))
            <= Chat!Occurrences(typed, "show") + 1
      <4>1. /\ requests[d] \in Nat /\ Chat!Occurrences(typed, "show") \in Nat
            /\ Chat!Occurrences(tasks, Chat!Task("show", d)) \in Nat
        BY <2>2
      <4> QED BY <4>1, <2>3, <3>3, OneMore
    <3> QED BY <3>1, <3>2, <3>4
  <2> QED BY <2>5, <2>6
<1>5. ChatSafe'
  <2> SUFFICES ASSUME ~refused', ~exited'
               PROVE  /\ io' # "aborted"
                      /\ reads' \subseteq m_sessions'
                      /\ \A t \in Posted(tasks') :
                           /\ t.op \notin {"close", "server close"}
                           /\ t.op = "exit" => t.c \in m_sessions' /\ reads' = {}
                      /\ \A d \in Clients :
                           Chat!Occurrences(tasks', Chat!Task("exit", d)) <= 1
    BY DEF ChatSafe
  <2>1. ~refused /\ ~exited /\ op \notin {"close", "server close", "exit"}
    OBVIOUS
  <2>2. ASSUME NEW d \in Clients
        PROVE  Chat!Occurrences(tasks', Chat!Task("exit", d)) <= 1
    <3>1. Chat!Task("exit", d) # Chat!Task(op, c)
      BY DEF Chat!Task
    <3>2. Chat!Occurrences(tasks', Chat!Task("exit", d))
            = Chat!Occurrences(tasks, Chat!Task("exit", d))
      BY <1>1, <3>1
    <3> QED BY <2>1, <3>2 DEF ChatInv, ChatSafe
  <2>3. /\ io # "aborted" /\ reads \subseteq m_sessions
        /\ \A t \in Posted(tasks) :
             /\ t.op \notin {"close", "server close"}
             /\ t.op = "exit" => t.c \in m_sessions /\ reads = {}
    BY <2>1 DEF ChatInv, ChatSafe
  <2> QED BY <1>1, <2>1, <2>2, <2>3
<1> QED BY <1>2, <1>3, <1>4, <1>5 DEF ChatInv

(* The end of the input, and what follows when the io thread is joined.    *)
LEMMA EndingKeeps ==
  ASSUME ChatInv,
         Chat!EndOfInput \/ \E next \in {"closing", "done"} : Chat!JoinThen(next)
  PROVE  ChatInv'
<1>1. /\ main' \in {"joining", "closing", "done"}
      /\ UNCHANGED <<sock, reads, m_sessions, m_wp, m_stop, requests, asked, tasks, accepting,
                     accepted, io, window, typed, refused, exited>>
  BY DEF Chat!EndOfInput, Chat!JoinThen, Chat!session, Chat!acceptor, Chat!history
<1> QED BY <1>1 DEF ChatInv, Chat!TypeOK, ChatKnown, Chat!ChainsBounded, ChatSafe

(* What the window does.                                                   *)
LEMMA WindowKeeps ==
  ASSUME ChatInv, Chat!Window
  PROVE  ChatInv'
<1>1. /\ main' \in {main, "done"} /\ window' \in {window, "idle", "ended"}
      /\ io' \in {io, "terminated"}
      /\ UNCHANGED <<sock, reads, m_sessions, m_wp, m_stop, requests, asked, tasks, accepting,
                     accepted, typed, refused, exited>>
  BY DEF Chat!Window, Chat!WindowEnds, Chat!WindowIdles, Chat!WindowThrows, Chat!session,
         Chat!acceptor, Chat!console, Chat!history
<1> QED BY <1>1 DEF ChatInv, Chat!TypeOK, ChatKnown, Chat!ChainsBounded, ChatSafe

LEMMA ConsoleKeeps ==
  ASSUME ChatInv, Chat!Console
  PROVE  ChatInv'
<1>1. CASE Chat!TypeFocus
  <2>1. /\ tasks' = Append(tasks, Chat!Task("focus", None))
        /\ UNCHANGED <<sock, reads, m_sessions, m_wp, m_stop, requests, asked, accepting,
                       accepted, io, main, window, typed, refused, exited>>
    BY <1>1 DEF Chat!TypeFocus, Chat!Type, Chat!session, Chat!acceptor, Chat!console, Chat!history
  <2>2. "focus" \in Chat!Ops \ {"exit", "close"} /\ "focus" \notin Chat!Owning
    BY DEF Chat!Ops, Chat!Owning
  <2>3. /\ main \in {"typing", "joining", "closing", "done"} /\ typed \in Seq(Chat!Owning)
        /\ Len(typed) <= MaxOwning
    BY DEF ChatInv, Chat!TypeOK
  <2>4. exited' \in BOOLEAN /\ (exited => exited')
    BY <2>1, Zenon DEF ChatInv, Chat!TypeOK
  <2> QED BY <2>1, <2>2, <2>3, <2>4, TypedKeeps
<1>2. ASSUME NEW op \in Chat!Owning, Chat!TypeOwning(op)
      PROVE  ChatInv'
  <2>1. /\ tasks' = Append(tasks, Chat!Task(op, m_wp)) /\ m_wp # None
        /\ typed' = Append(typed, op) /\ Len(typed) < MaxOwning
        /\ UNCHANGED <<sock, reads, m_sessions, m_wp, m_stop, requests, asked, accepting,
                       accepted, io, main, window, refused, exited>>
    BY <1>2 DEF Chat!TypeOwning, Chat!Type, Chat!session, Chat!acceptor, Chat!console
  <2>2. op \in Chat!Ops \ {"exit", "close"} /\ op # "server close"
    BY DEF Chat!Ops, Chat!Owning
  <2>3. m_wp \in Clients
    BY <2>1 DEF ChatInv, Chat!TypeOK
  <2>4. /\ main \in {"typing", "joining", "closing", "done"} /\ typed' \in Seq(Chat!Owning)
        /\ Len(typed') <= MaxOwning
    <3>1. typed \in Seq(Chat!Owning) /\ MaxOwning \in Nat
      BY BoundsAssumption DEF ChatInv, Chat!TypeOK, BoundsAssumption
    <3> QED BY <2>1, <3>1, AppendElements DEF ChatInv, Chat!TypeOK
  <2>5. exited' \in BOOLEAN /\ (exited => exited')
    BY <2>1, Zenon DEF ChatInv, Chat!TypeOK
  <2> QED BY <2>1, <2>2, <2>3, <2>4, <2>5, TypedKeeps
<1>3. CASE Chat!Exit
  <2>1. /\ tasks' = Append(tasks, Chat!Task("server close", None))
        /\ main' = "joining"
        /\ UNCHANGED <<sock, reads, m_sessions, m_wp, m_stop, requests, asked, accepting,
                       accepted, io, window, typed, refused>>
    BY <1>3 DEF Chat!Exit, Chat!Type, Chat!session, Chat!acceptor, Chat!console
  <2>2. /\ "server close" \in Chat!Ops \ {"exit", "close"}
        /\ "server close" \notin Chat!Owning /\ "server close" # "show"
    BY DEF Chat!Ops, Chat!Owning
  <2>3. typed \in Seq(Chat!Owning) /\ Len(typed) <= MaxOwning
    BY DEF ChatInv, Chat!TypeOK
  <2>4. exited' \in BOOLEAN /\ exited'
    BY <1>3, Zenon DEF Chat!Exit
  <2> QED BY <2>1, <2>2, <2>3, <2>4, TypedKeeps
<1>4. CASE Chat!EndOfInput \/ Chat!Join
  BY <1>4, EndingKeeps DEF Chat!Join
<1> QED BY <1>1, <1>2, <1>3, <1>4 DEF Chat!Console

LEMMA ChatStays ==
  ASSUME ChatInv, UNCHANGED chat_vars
  PROVE  ChatInv'
BY DEF chat_vars, ChatInv, Chat!TypeOK, ChatKnown, Chat!ChainsBounded, ChatSafe

LEMMA ChatStep ==
  ASSUME ChatInv, Chat!Next
  PROVE  ChatInv'
<1>1. CASE Chat!IoEnds
  <2>1. /\ io = "running" /\ io' = "ended"
        /\ UNCHANGED <<sock, reads, m_sessions, m_wp, m_stop, requests, asked, tasks,
                       accepting, accepted, main, window, typed, refused, exited>>
    BY <1>1 DEF Chat!IoEnds, Chat!session, Chat!acceptor, Chat!console, Chat!history
  <2> QED BY <2>1 DEF ChatInv, Chat!TypeOK, ChatKnown, Chat!ChainsBounded, ChatSafe
<1>2. CASE \E c \in Clients : \/ Chat!Accept(c) \/ Chat!Leave(c) \/ Chat!ReadFailed(c)
                              \/ Chat!OnImageArrived(c) \/ Chat!OnAnswer(c)
  BY <1>2, AcceptedKeeps, LeaveKeeps, ReadFailedKeeps, AnswerKeeps
<1>3. CASE Chat!RunTask
  BY <1>3, OwningKeeps, FocusKeeps, SessionCloseKeeps, ExitKeeps, ServerCloseKeeps
     DEF Chat!RunTask
<1>4. CASE Chat!Console
  BY <1>4, ConsoleKeeps
<1>5. CASE Chat!RunAccept
  BY <1>5, AcceptKeeps
<1>6. CASE Chat!Window
  BY <1>6, WindowKeeps
<1> QED BY <1>1, <1>2, <1>3, <1>4, <1>5, <1>6 DEF Chat!Next

(* Every step of the servers, of the copies in spike/ too, is a step of    *)
(* the module's, but for the end of s3, which has no window.               *)
LEMMA ChatInductive ==
  ASSUME ChatInv, ServersNext \/ UNCHANGED chat_vars
  PROVE  ChatInv'
<1>1. "request" \in Chat!Owning
  BY DEF Chat!Owning
<1>2. ServersNext => Chat!Next \/ S3Joins
  BY <1>1 DEF ServersNext, S5Session, S5Server, S5Main, S3Session, S3Server, S3Main,
     Chat!Next, Chat!RunTask, Chat!Console
<1>3. S3Joins => ChatInv'
  BY EndingKeeps DEF S3Joins
<1> QED BY <1>2, <1>3, ChatStep, ChatStays

-----------------------------------------------------------------------------
(* Sequences whose elements are in an order.                               *)
Follows(s, R) == \A i, j \in 1..Len(s) : i < j => <<s[i], s[j]>> \in R

LEMMA FollowsAppended ==
  ASSUME NEW S, NEW s \in Seq(S), NEW e \in S, NEW R, Follows(s, R),
         \A x \in Posted(s) : <<x, e>> \in R
  PROVE  Follows(Append(s, e), R)
<1> DEFINE u == Append(s, e)
<1>1. /\ Len(s) \in Nat /\ Len(u) = Len(s) + 1 /\ u[Len(s) + 1] = e
      /\ \A i \in 1..Len(s) : u[i] = s[i]
  BY AppendElements
<1> HIDE DEF u
<1> SUFFICES ASSUME NEW i \in 1..Len(u), NEW j \in 1..Len(u), i < j
             PROVE  <<u[i], u[j]>> \in R
  BY DEF Follows, u
<1>2. i \in 1..Len(s) /\ (j \in 1..Len(s) \/ j = Len(s) + 1)
  BY <1>1
<1>3. CASE j \in 1..Len(s)
  BY <1>1, <1>2, <1>3 DEF Follows
<1>4. CASE j = Len(s) + 1
  BY <1>1, <1>2, <1>4 DEF Posted
<1> QED BY <1>2, <1>3, <1>4

LEMMA FollowsTail ==
  ASSUME NEW S, NEW s \in Seq(S), s # <<>>, NEW R, Follows(s, R)
  PROVE  /\ Follows(Tail(s), R)
         /\ \A x \in Posted(Tail(s)) : <<Head(s), x>> \in R
<1>1. /\ Head(s) = s[1] /\ Len(s) \in Nat \ {0} /\ Len(Tail(s)) = Len(s) - 1
      /\ \A i \in 1..Len(Tail(s)) : i + 1 \in 1..Len(s) /\ Tail(s)[i] = s[i + 1]
  BY TailElements
<1>2. 1 \in 1..Len(s)
  BY <1>1
<1>3. Follows(Tail(s), R)
  <2> SUFFICES ASSUME NEW i \in 1..Len(Tail(s)), NEW j \in 1..Len(Tail(s)), i < j
               PROVE  <<Tail(s)[i], Tail(s)[j]>> \in R
    BY DEF Follows
  <2>1. i + 1 \in 1..Len(s) /\ j + 1 \in 1..Len(s) /\ i + 1 < j + 1
    BY <1>1
  <2> QED BY <1>1, <2>1 DEF Follows
<1>4. \A x \in Posted(Tail(s)) : <<Head(s), x>> \in R
  <2> SUFFICES ASSUME NEW i \in 1..Len(Tail(s))
               PROVE  <<Head(s), Tail(s)[i]>> \in R
    BY DEF Posted
  <2>1. i + 1 \in 1..Len(s) /\ 1 < i + 1
    BY <1>1
  <2> QED BY <1>1, <1>2, <2>1 DEF Follows
<1> QED BY <1>3, <1>4

(* What moves from the front of one sequence to the end of another.        *)
LEMMA MovedElements ==
  ASSUME NEW S, NEW u \in Seq(S), NEW s \in Seq(S), NEW n \in 1..Len(s)
  PROVE  LET v == u \o SubSeq(s, 1, n)
             t == SubSeq(s, n + 1, Len(s))
         IN  /\ v \in Seq(S) /\ t \in Seq(S)
             /\ Len(u) \in Nat /\ Len(s) \in Nat
             /\ Len(v) = Len(u) + n /\ Len(t) = Len(s) - n
             /\ \A i \in 1..Len(v) : v[i] = IF i <= Len(u) THEN u[i] ELSE s[i - Len(u)]
             /\ \A i \in 1..Len(t) : t[i] = s[n + i]
<1> DEFINE h == SubSeq(s, 1, n)
<1>0. Len(u) \in Nat /\ Len(s) \in Nat /\ n \in Nat
  OBVIOUS
<1>1. h \in Seq(S) /\ Len(h) = n /\ \A i \in 1..n : h[i] = s[i]
  BY <1>0
<1>2. /\ SubSeq(s, n + 1, Len(s)) \in Seq(S) /\ Len(SubSeq(s, n + 1, Len(s))) = Len(s) - n
      /\ \A i \in 1..(Len(s) - n) : SubSeq(s, n + 1, Len(s))[i] = s[n + i]
  BY <1>0
<1> HIDE DEF h
<1>3. /\ u \o h \in Seq(S) /\ Len(u \o h) = Len(u) + n
      /\ \A i \in 1..(Len(u) + n) : (u \o h)[i] = IF i <= Len(u) THEN u[i] ELSE h[i - Len(u)]
  BY <1>0, <1>1
<1>4. \A i \in 1..(Len(u) + n) : i <= Len(u) \/ i - Len(u) \in 1..n
  BY <1>0
<1> QED BY <1>0, <1>1, <1>2, <1>3, <1>4 DEF h

Moved(u, s, n, v, t) == v = u \o SubSeq(s, 1, n) /\ t = SubSeq(s, n + 1, Len(s))

LEMMA FollowsMoved ==
  ASSUME NEW S, NEW u \in Seq(S), NEW s \in Seq(S), NEW n \in 1..Len(s), NEW R,
         Follows(u, R), Follows(s, R), \A x \in Posted(u), y \in Posted(s) : <<x, y>> \in R,
         NEW v, NEW t, Moved(u, s, n, v, t)
  PROVE  /\ v \in Seq(S) /\ t \in Seq(S) /\ v # <<>>
         /\ Follows(v, R) /\ Follows(t, R)
         /\ \A x \in Posted(v), y \in Posted(t) : <<x, y>> \in R
         /\ Posted(v) \cup Posted(t) = Posted(u) \cup Posted(s)
<1>1. /\ v \in Seq(S) /\ t \in Seq(S)
      /\ Len(u) \in Nat /\ Len(s) \in Nat
      /\ Len(v) = Len(u) + n /\ Len(t) = Len(s) - n
      /\ \A i \in 1..Len(v) : v[i] = IF i <= Len(u) THEN u[i] ELSE s[i - Len(u)]
      /\ \A i \in 1..Len(t) : t[i] = s[n + i]
  BY MovedElements DEF Moved
<1>2. n \in Nat \ {0}
  BY <1>1
<1>3. v # <<>>
  <2>1. Len(v) # 0
    BY <1>1, <1>2
  <2>2. Len(<<>>) = 0
    OBVIOUS
  <2> QED BY <2>1, <2>2, Zenon
<1>4. Follows(v, R)
  <2> SUFFICES ASSUME NEW i \in 1..Len(v), NEW j \in 1..Len(v), i < j
               PROVE  <<v[i], v[j]>> \in R
    BY DEF Follows
  <2>1. CASE j <= Len(u)
    <3>1. i \in 1..Len(u) /\ j \in 1..Len(u) /\ v[i] = u[i] /\ v[j] = u[j]
      BY <1>1, <1>2, <2>1
    <3> QED BY <3>1 DEF Follows
  <2>2. CASE i <= Len(u) /\ ~(j <= Len(u))
    <3>1. i \in 1..Len(u) /\ j - Len(u) \in 1..Len(s) /\ v[i] = u[i] /\ v[j] = s[j - Len(u)]
      BY <1>1, <1>2, <2>2
    <3>2. u[i] \in Posted(u) /\ s[j - Len(u)] \in Posted(s)
      BY <3>1 DEF Posted
    <3> QED BY <3>1, <3>2
  <2>3. CASE ~(i <= Len(u))
    <3>1. /\ i - Len(u) \in 1..Len(s) /\ j - Len(u) \in 1..Len(s) /\ i - Len(u) < j - Len(u)
          /\ v[i] = s[i - Len(u)] /\ v[j] = s[j - Len(u)]
      BY <1>1, <1>2, <2>3
    <3> QED BY <3>1 DEF Follows
  <2> QED BY <1>1, <2>1, <2>2, <2>3
<1>5. Follows(t, R)
  <2> SUFFICES ASSUME NEW i \in 1..Len(t), NEW j \in 1..Len(t), i < j
               PROVE  <<t[i], t[j]>> \in R
    BY DEF Follows
  <2>1. /\ n + i \in 1..Len(s) /\ n + j \in 1..Len(s) /\ n + i < n + j
        /\ t[i] = s[n + i] /\ t[j] = s[n + j]
    BY <1>1, <1>2
  <2> QED BY <2>1 DEF Follows
<1>6. \A i \in 1..Len(t) : n + i \in 1..Len(s) /\ t[i] = s[n + i]
  BY <1>1, <1>2
<1>7. \A x \in Posted(v), y \in Posted(t) : <<x, y>> \in R
  <2> SUFFICES ASSUME NEW i \in 1..Len(v), NEW j \in 1..Len(t)
               PROVE  <<v[i], t[j]>> \in R
    BY DEF Posted
  <2>1. n + j \in 1..Len(s) /\ t[j] = s[n + j] /\ s[n + j] \in Posted(s)
    BY <1>6 DEF Posted
  <2>2. CASE i <= Len(u)
    <3>1. i \in 1..Len(u) /\ v[i] = u[i]
      BY <1>1, <2>2
    <3>2. u[i] \in Posted(u)
      BY <3>1 DEF Posted
    <3> QED BY <2>1, <3>1, <3>2
  <2>3. CASE ~(i <= Len(u))
    <3>1. i - Len(u) \in 1..Len(s) /\ v[i] = s[i - Len(u)] /\ i - Len(u) < n + j
      BY <1>1, <1>2, <2>3
    <3> QED BY <2>1, <3>1 DEF Follows
  <2> QED BY <2>2, <2>3
<1>8. Posted(v) \cup Posted(t) = Posted(u) \cup Posted(s)
  <2>1. ASSUME NEW i \in 1..Len(v)
        PROVE  v[i] \in Posted(u) \cup Posted(s)
    <3>1. i <= Len(u) => i \in 1..Len(u) /\ v[i] = u[i]
      BY <1>1
    <3>2. ~(i <= Len(u)) => i - Len(u) \in 1..Len(s) /\ v[i] = s[i - Len(u)]
      BY <1>1, <1>2
    <3> QED BY <3>1, <3>2 DEF Posted
  <2>2. \A i \in 1..Len(t) : t[i] \in Posted(s)
    BY <1>6 DEF Posted
  <2>3. ASSUME NEW i \in 1..Len(u)
        PROVE  u[i] \in Posted(v)
    <3>1. i \in 1..Len(v) /\ i <= Len(u)
      BY <1>1, <1>2
    <3>2. v[i] = u[i]
      BY <1>1, <3>1
    <3> QED BY <3>1, <3>2 DEF Posted
  <2>4. ASSUME NEW i \in 1..Len(s)
        PROVE  s[i] \in Posted(v) \cup Posted(t)
    <3>1. CASE i <= n
      <4>1. Len(u) + i \in 1..Len(v) /\ ~(Len(u) + i <= Len(u)) /\ (Len(u) + i) - Len(u) = i
        BY <1>1, <1>2, <3>1
      <4>2. v[Len(u) + i] = s[(Len(u) + i) - Len(u)]
        BY <1>1, <4>1
      <4>3. v[Len(u) + i] = s[i]
        BY <4>1, <4>2
      <4> QED BY <4>1, <4>3 DEF Posted
    <3>2. CASE ~(i <= n)
      <4>1. i - n \in 1..Len(t) /\ n + (i - n) = i
        BY <1>1, <1>2, <3>2
      <4>2. t[i - n] = s[n + (i - n)]
        BY <1>1, <4>1
      <4>3. t[i - n] = s[i]
        BY <4>1, <4>2
      <4> QED BY <4>1, <4>3 DEF Posted
    <3> QED BY <3>1, <3>2
  <2>5. Posted(v) \subseteq Posted(u) \cup Posted(s)
    BY <2>1 DEF Posted
  <2>6. Posted(t) \subseteq Posted(s)
    BY <2>2 DEF Posted
  <2>7. Posted(u) \subseteq Posted(v)
    BY <2>3 DEF Posted
  <2>8. Posted(s) \subseteq Posted(v) \cup Posted(t)
    BY <2>4 DEF Posted
  <2> QED BY <2>5, <2>6, <2>7, <2>8
<1> QED BY <1>1, <1>3, <1>4, <1>5, <1>7, <1>8

(* The list of tasks after a task that posts one or two.                   *)
LEMMA PostsAppend ==
  ASSUME NEW S, NEW s \in Seq(S), NEW x \in S, NEW y \in S
  PROVE  /\ s \o <<x>> \o <<>> = Append(s, x)
         /\ s \o <<x>> \o <<y>> = Append(Append(s, x), y)
         /\ s \o <<x>> = Append(s, x) /\ s \o <<>> = s
<1>1. s \o <<x>> = Append(s, x) /\ s \o <<>> = s
  OBVIOUS
<1>2. Append(s, x) \in Seq(S)
  OBVIOUS
<1>3. /\ Append(s, x) \o <<>> = Append(s, x)
      /\ Append(s, x) \o <<y>> = Append(Append(s, x), y)
  <2> DEFINE z == Append(s, x)
  <2>1. z \in Seq(S)
    BY <1>2
  <2> HIDE DEF z
  <2>2. z \o <<>> = z /\ z \o <<y>> = Append(z, y)
    BY <2>1
  <2> QED BY <2>2 DEF z
<1> QED BY <1>1, <1>3

-----------------------------------------------------------------------------
(* The first version of the connection.                                    *)
RpcTasks == [what : Rpc!What, m : Rpc!Message]

(* The tasks of the dispatcher's one read, on its way, and of an answer.   *)
Reads(t) == t.what \in {"read", "parse", "data", "error"}
Answers(t) == t.what = "push" /\ t.m.type = "response"

(* A task that is posted after another: there is one read, a call is in    *)
(* one task, and the answers are in the order of the requests.             *)
Related(t, u) ==
  /\ ~(Reads(t) /\ Reads(u))
  /\ t.m.type = "request" /\ u.m.type = "request" => t.m.n # u.m.n
  /\ Answers(t) /\ Answers(u) => t.m.id < u.m.id

TaskOrder == {p \in RpcTasks \X RpcTasks : Related(p[1], p[2])}

(* What the other end makes up comes in its order.                         *)
MessageOrder ==
  {p \in Rpc!Message \X Rpc!Message :
     p[1].type # "response" /\ p[2].type # "response" => p[1].id < p[2].id}

(* The calls in the tasks, those that have only packed, and those of the   *)
(* handlers in a set.                                                      *)
Carried(s) == {t.m.n : t \in {u \in Posted(s) : u.m.type = "request"}}
Begun == {cur[t].n : t \in {u \in Rpc!Threads : at[u] = "packed"}}
Names(S) == {h.n : h \in S}

(* Five sets make up a sixth, and no two overlap.                          *)
Split(all, A, B, C, D, E) ==
  /\ all = A \cup B \cup C \cup D \cup E
  /\ \A x \in A : x \notin B /\ x \notin C /\ x \notin D /\ x \notin E
  /\ \A x \in B : x \notin C /\ x \notin D /\ x \notin E
  /\ \A x \in C : x \notin D /\ x \notin E
  /\ \A x \in D : x \notin E

(* Nothing waits in the writer, which pops a frame when its write starts;  *)
(* data that came is in the unpacker until it is read.                     *)
RpcKnown ==
  /\ Rpc!TypeOK /\ m_wq = <<>>
  /\ \A t \in Rpc!Threads : at[t] = "packed" => cur[t].type = "request"
  /\ \A t \in Posted(rpc_tasks) :
       /\ t.what # "resume"
       /\ t.m.type = "request" => t.what \in {"push", "written", "failed"}
       /\ t.m.type = "response" => t.m.id \in 1..rpc_asked
       /\ t.what = "data" => unp # <<>>
  /\ \A m \in Posted(unp) \cup Posted(net) : m.type # "response" => m.id \in 1..rpc_asked

(* A read that waits for data, or that has failed, is in no task.          *)
RpcReads ==
  /\ waiting \/ ended => \A t \in Posted(rpc_tasks) : ~Reads(t)
  /\ ~(waiting /\ ended)

(* The calls begun, by where their handlers are; a call has one handler.   *)
RpcFates ==
  /\ Split(1..calls, Begun, Carried(rpc_tasks), Names(m_map), Names(called), lost)
  /\ \A h, k \in m_map : h.n = k.n => h = k
  /\ \A t, u \in Rpc!Threads :
       at[t] = "packed" /\ at[u] = "packed" /\ cur[t].n = cur[u].n => t = u

(* As long as no calls overlapped, one thread is in a call at a time and   *)
(* it packs, captures and increments the number of its call.               *)
StraightCalls ==
  /\ \A t, u \in Rpc!Threads : at[t] # "idle" /\ at[u] # "idle" => t = u
  /\ (\A t \in Rpc!Threads : at[t] = "idle") => m_id = calls + 1
  /\ \A t \in Rpc!Threads : at[t] # "idle" => m_id = calls
  /\ \A t \in Rpc!Threads : at[t] = "packed" => cur[t].id = calls /\ cur[t].n = calls
  /\ \A t \in Rpc!Threads : at[t] = "loaded" => cur[t].reg = calls

(* The frames, the answers and the handlers have it then, and nothing is   *)
(* lost while the connection is up.                                        *)
StraightFrames ==
  /\ \A t \in Posted(rpc_tasks) : t.m.type = "request" =>
       t.m.id = t.m.n /\ t.m.reg = t.m.n /\ (link => t.what # "failed")
  /\ \A m \in Posted(peer) : m.id = m.n
  /\ \A m \in Posted(unp) \cup Posted(net) : m.type = "response" => m.id = m.n
  /\ \A h \in m_map : h.id = h.n
  /\ \A c \in called : c.re = c.n
  /\ link => lost = {}

RpcStraight == ~raced => StraightCalls /\ StraightFrames

(* The order holds from the answers that are written over those in the     *)
(* tasks and the requests in the unpacker to those on their way.           *)
RpcOrder ==
  /\ Follows(rpc_tasks, TaskOrder) /\ Follows(unp, MessageOrder) /\ Follows(net, MessageOrder)
  /\ \A m \in Posted(unp), n \in Posted(net) : <<m, n>> \in MessageOrder
  /\ \A t \in Posted(rpc_tasks), m \in Posted(unp) \cup Posted(net) :
       Answers(t) /\ m.type # "response" => t.m.id < m.id
  /\ Rpc!AnswersInOrder
  /\ \A n \in Posted(answers) :
       /\ \A t \in Posted(rpc_tasks) : Answers(t) => n < t.m.id
       /\ \A m \in Posted(unp) \cup Posted(net) : m.type # "response" => n < m.id

RpcInv == RpcKnown /\ RpcReads /\ RpcFates /\ RpcStraight /\ RpcOrder

LEMMA RpcBegins ==
  ASSUME BoundsAssumption, Rpc!Init
  PROVE  RpcInv
<1>1. /\ rpc_tasks = <<Rpc!Task("read", Rpc!NoMessage)>> /\ m_wq = <<>>
      /\ m_id = 1 /\ calls = 0 /\ at = [t \in Rpc!Threads |-> "idle"]
      /\ cur = [t \in Rpc!Threads |-> Rpc!NoMessage]
      /\ m_map = {} /\ called = {} /\ lost = {} /\ raced = FALSE
      /\ waiting = FALSE /\ unp = <<>> /\ net = <<>> /\ peer = <<>> /\ rpc_asked = 0
      /\ answers = <<>> /\ link = TRUE /\ ended = FALSE
  BY DEF Rpc!Init
<1>2. /\ Posted(unp) = {} /\ Posted(net) = {} /\ Posted(answers) = {} /\ Posted(peer) = {}
      /\ Posted(rpc_tasks) = {Rpc!Task("read", Rpc!NoMessage)}
  BY <1>1 DEF Posted
<1>3. /\ Rpc!Task("read", Rpc!NoMessage) \in RpcTasks
      /\ Rpc!Task("read", Rpc!NoMessage).what = "read"
      /\ Rpc!Task("read", Rpc!NoMessage).m.type = "other"
      /\ Rpc!NoMessage \in Rpc!Message
  BY DEF Rpc!Task, Rpc!NoMessage, Rpc!Made, RpcTasks, Rpc!What, Rpc!Message, Rpc!Types
<1>4. Rpc!TypeOK
  <2>1. {waiting, link, ended, raced} \subseteq BOOLEAN
    BY <1>1, Zenon
  <2>2. calls \in 0..MaxCalls /\ rpc_asked \in 0..MaxAsked
    BY <1>1 DEF BoundsAssumption
  <2>3. rpc_tasks \in Seq([what : Rpc!What, m : Rpc!Message])
    BY <1>1, <1>3 DEF RpcTasks
  <2>4. /\ at \in [Rpc!Threads -> {"idle", "packed", "queued", "loaded"}]
        /\ cur \in [Rpc!Threads -> Rpc!Message] /\ m_id \in Nat
    BY <1>1, <1>3
  <2>5. /\ m_wq \in Seq(Rpc!Message) /\ unp \in Seq(Rpc!Message)
        /\ net \in Seq(Rpc!Message) /\ peer \in Seq(Rpc!Message)
        /\ answers \in Seq(1..rpc_asked)
    BY <1>1
  <2>6. /\ m_map \subseteq [id : Nat, n : Nat] /\ called \subseteq [n : Nat, re : Nat]
        /\ lost \subseteq Nat
    BY <1>1
  <2> QED BY <2>1, <2>2, <2>3, <2>4, <2>5, <2>6 DEF Rpc!TypeOK
<1>5. RpcKnown
  BY <1>1, <1>2, <1>3, <1>4 DEF RpcKnown
<1>6. RpcReads
  BY <1>1, Zenon DEF RpcReads
<1>7. RpcFates
  <2>1. Carried(rpc_tasks) = {}
    BY <1>2, <1>3 DEF Carried
  <2>2. \A t \in Rpc!Threads : at[t] = "idle"
    BY <1>1
  <2>3. Begun = {} /\ Names(m_map) = {} /\ Names(called) = {}
    BY <1>1, <2>2 DEF Begun, Names
  <2>4. 1..calls = {}
    BY <1>1
  <2>5. Split({}, {}, {}, {}, {}, {})
    BY DEF Split
  <2> QED BY <1>1, <2>1, <2>2, <2>3, <2>4, <2>5 DEF RpcFates
<1>9. RpcStraight
  <2>1. \A t \in Rpc!Threads : at[t] = "idle"
    BY <1>1
  <2> QED BY <1>1, <1>2, <1>3, <2>1 DEF RpcStraight, StraightCalls, StraightFrames
<1>8. RpcOrder
  BY <1>1, <1>2 DEF RpcOrder, Follows, Rpc!AnswersInOrder
<1> QED BY <1>5, <1>6, <1>7, <1>8, <1>9 DEF RpcInv

-----------------------------------------------------------------------------
LEMMA SeqGrows ==
  ASSUME NEW S, NEW T, S \subseteq T, NEW s \in Seq(S)
  PROVE  s \in Seq(T)
OBVIOUS

LEMMA RpcTaskAdds ==
  ASSUME NEW s \in Seq(RpcTasks), NEW t \in RpcTasks
  PROVE  Posted(Append(s, t)) = Posted(s) \cup {t}
BY PostedAppended

LEMMA CarriedAppended ==
  ASSUME NEW s \in Seq(RpcTasks), NEW t \in RpcTasks
  PROVE  /\ t.m.type = "request" => Carried(Append(s, t)) = Carried(s) \cup {t.m.n}
         /\ t.m.type # "request" => Carried(Append(s, t)) = Carried(s)
<1>1. Posted(Append(s, t)) = Posted(s) \cup {t}
  BY PostedAppended
<1> QED BY <1>1 DEF Carried

(* The oldest task, and the list without it.                               *)
LEMMA RpcTaken ==
  ASSUME RpcInv, rpc_tasks # <<>>
  PROVE  /\ rpc_tasks \in Seq(RpcTasks)
         /\ Head(rpc_tasks) \in RpcTasks /\ Tail(rpc_tasks) \in Seq(RpcTasks)
         /\ Posted(rpc_tasks) = Posted(Tail(rpc_tasks)) \cup {Head(rpc_tasks)}
         /\ Follows(Tail(rpc_tasks), TaskOrder)
         /\ \A t \in Posted(Tail(rpc_tasks)) :
              t \in RpcTasks /\ Related(Head(rpc_tasks), t)
<1>1. rpc_tasks \in Seq(RpcTasks) /\ Follows(rpc_tasks, TaskOrder)
  BY DEF RpcInv, RpcKnown, RpcOrder, Rpc!TypeOK, RpcTasks
<1>2. Head(rpc_tasks) \in RpcTasks /\ Tail(rpc_tasks) \in Seq(RpcTasks)
  BY <1>1, TailElements
<1>3. Posted(rpc_tasks) = Posted(Tail(rpc_tasks)) \cup {Head(rpc_tasks)}
  BY <1>1, PostedTail
<1>4. /\ Follows(Tail(rpc_tasks), TaskOrder)
      /\ \A t \in Posted(Tail(rpc_tasks)) : <<Head(rpc_tasks), t>> \in TaskOrder
  BY <1>1, FollowsTail
<1>5. \A t \in Posted(Tail(rpc_tasks)) : t \in RpcTasks /\ Related(Head(rpc_tasks), t)
  BY <1>4 DEF TaskOrder
<1> QED BY <1>1, <1>2, <1>3, <1>4, <1>5

LEMMA CarriedTail ==
  ASSUME RpcInv, rpc_tasks # <<>>
  PROVE  LET h == Head(rpc_tasks)
         IN  /\ h.m.type = "request" =>
                  /\ h.m.n \in Carried(rpc_tasks)
                  /\ Carried(Tail(rpc_tasks)) = Carried(rpc_tasks) \ {h.m.n}
             /\ h.m.type # "request" => Carried(Tail(rpc_tasks)) = Carried(rpc_tasks)
<1> DEFINE h == Head(rpc_tasks)
<1>1. /\ Posted(rpc_tasks) = Posted(Tail(rpc_tasks)) \cup {h}
      /\ \A t \in Posted(Tail(rpc_tasks)) : t \in RpcTasks /\ Related(h, t)
  BY RpcTaken
<1> HIDE DEF h
<1>2. CASE h.m.type = "request"
  <2>1. \A t \in Posted(Tail(rpc_tasks)) : t.m.type = "request" => t.m.n # h.m.n
    BY <1>1, <1>2 DEF Related
  <2> QED BY <1>1, <1>2, <2>1 DEF Carried, h
<1>3. CASE h.m.type # "request"
  BY <1>1, <1>3 DEF Carried, h
<1> QED BY <1>2, <1>3 DEF h

(* A task that takes the place of the one that runs.                       *)
LEMMA PutBack ==
  ASSUME RpcInv, rpc_tasks # <<>>, NEW x \in RpcTasks, ~Answers(x),
         Reads(x) => Reads(Head(rpc_tasks)),
         x.m.type = "request" => x.m = Head(rpc_tasks).m
  PROVE  /\ Append(Tail(rpc_tasks), x) \in Seq(RpcTasks)
         /\ Follows(Append(Tail(rpc_tasks), x), TaskOrder)
         /\ Posted(Append(Tail(rpc_tasks), x)) = Posted(Tail(rpc_tasks)) \cup {x}
         /\ Tail(rpc_tasks) \in Seq(RpcTasks)
<1>1. /\ Tail(rpc_tasks) \in Seq(RpcTasks) /\ Follows(Tail(rpc_tasks), TaskOrder)
      /\ \A t \in Posted(Tail(rpc_tasks)) :
           t \in RpcTasks /\ Related(Head(rpc_tasks), t)
  BY RpcTaken
<1>2. \A t \in Posted(Tail(rpc_tasks)) : Related(t, x)
  BY <1>1 DEF Related
<1>3. \A t \in Posted(Tail(rpc_tasks)) : <<t, x>> \in TaskOrder
  BY <1>1, <1>2 DEF TaskOrder
<1>4. Follows(Append(Tail(rpc_tasks), x), TaskOrder)
  BY <1>1, <1>3, FollowsAppended
<1>5. Posted(Append(Tail(rpc_tasks), x)) = Posted(Tail(rpc_tasks)) \cup {x}
  BY <1>1, RpcTaskAdds
<1>6. Append(Tail(rpc_tasks), x) \in Seq(RpcTasks)
  BY <1>1, AppendElements
<1> QED BY <1>1, <1>4, <1>5, <1>6

(* The order depends on the answers and messages only.                     *)
LEMMA OrderStays ==
  ASSUME RpcInv, Follows(rpc_tasks', TaskOrder),
         \A t \in Posted(rpc_tasks') : Answers(t) => t \in Posted(rpc_tasks),
         UNCHANGED <<unp, net, answers>>
  PROVE  RpcOrder'
<1>1. Posted(unp') = Posted(unp) /\ Posted(net') = Posted(net) /\ Posted(answers') = Posted(answers)
  OBVIOUS
<1>2. TaskOrder' = TaskOrder /\ MessageOrder' = MessageOrder
  BY DEF TaskOrder, MessageOrder
<1> QED BY <1>1, <1>2 DEF RpcInv, RpcOrder, Rpc!AnswersInOrder

(* The types of a thread's call.                                           *)
LEMMA CallTypes ==
  ASSUME RpcInv
  PROVE  /\ m_id \in Nat /\ calls \in Nat /\ raced \in BOOLEAN
         /\ at \in [Rpc!Threads -> {"idle", "packed", "queued", "loaded"}]
         /\ cur \in [Rpc!Threads -> Rpc!Message]
<1>1. {waiting, link, ended, raced} \subseteq BOOLEAN /\ calls \in 0..MaxCalls
  BY DEF RpcInv, RpcKnown, Rpc!TypeOK
<1>2. raced \in BOOLEAN
  BY <1>1, Zenon
<1> QED BY <1>1, <1>2 DEF RpcInv, RpcKnown, Rpc!TypeOK

(* A call begins: its number is new.                                       *)
LEMMA PackKeeps ==
  ASSUME RpcInv, BoundsAssumption, NEW t \in Rpc!Threads, Rpc!Pack(t)
  PROVE  RpcInv'
<1> DEFINE m == [type |-> "request", id |-> m_id, reg |-> 0, n |-> calls + 1]
<1>1. /\ calls < MaxCalls /\ calls' = calls + 1 /\ at[t] = "idle"
      /\ at' = [at EXCEPT ![t] = "packed"]
      /\ cur' = [cur EXCEPT ![t] = m]
      /\ raced' = (raced \/ \E u \in Rpc!Threads : u # t /\ at[u] # "idle")
      /\ UNCHANGED <<rpc_tasks, m_wq, m_id, called, lost, m_map, waiting, unp, net, peer,
                     rpc_asked, link, answers, ended>>
  BY DEF Rpc!Pack, Rpc!other, Rpc!fates
<1>2. calls \in 0..MaxCalls /\ MaxCalls \in Nat /\ calls' \in 0..MaxCalls /\ calls \in Nat
  BY <1>1 DEF RpcInv, RpcKnown, Rpc!TypeOK, BoundsAssumption
<1>3. /\ m_id \in Nat /\ at \in [Rpc!Threads -> {"idle", "packed", "queued", "loaded"}]
      /\ cur \in [Rpc!Threads -> Rpc!Message]
  BY CallTypes
<1>4. m \in Rpc!Message /\ m.n = calls + 1 /\ m.id = m_id /\ m.type = "request"
  BY <1>2, <1>3 DEF Rpc!Message, Rpc!Types
<1> HIDE DEF m
<1>5. /\ at' \in [Rpc!Threads -> {"idle", "packed", "queued", "loaded"}]
      /\ cur' \in [Rpc!Threads -> Rpc!Message]
      /\ at'[t] = "packed" /\ cur'[t] = m
      /\ \A u \in Rpc!Threads \ {t} : at'[u] = at[u] /\ cur'[u] = cur[u]
  BY <1>1, <1>3, <1>4
<1>6. 1..calls' = 1..calls \cup {calls + 1} /\ calls + 1 \notin 1..calls
  BY <1>1, <1>2
<1>7. RpcKnown'
  <2>1. raced' \in BOOLEAN
    BY <1>1, Zenon
  <2>2. {waiting', link', ended', raced'} \subseteq BOOLEAN
    BY <1>1, <2>1, Zenon DEF RpcInv, RpcKnown, Rpc!TypeOK
  <2>3. Rpc!TypeOK'
    BY <1>1, <1>2, <1>5, <2>2 DEF RpcInv, RpcKnown, Rpc!TypeOK
  <2>4. \A u \in Rpc!Threads : at'[u] = "packed" => cur'[u].type = "request"
    BY <1>4, <1>5 DEF RpcInv, RpcKnown
  <2> QED BY <1>1, <2>3, <2>4 DEF RpcInv, RpcKnown
<1>8. RpcReads'
  BY <1>1 DEF RpcInv, RpcReads
<1>9. RpcFates'
  <2>1. Begun' = Begun \cup {calls + 1}
    BY <1>1, <1>3, <1>4, <1>5 DEF Begun
  <2>2. Split(1..calls, Begun, Carried(rpc_tasks), Names(m_map), Names(called), lost)
    BY DEF RpcInv, RpcFates
  <2>3. Split(1..calls', Begun', Carried(rpc_tasks), Names(m_map), Names(called), lost)
    BY <1>6, <2>1, <2>2 DEF Split
  <2>4. \A u \in Rpc!Threads : at[u] = "packed" => cur[u].n \in 1..calls
    BY <2>2 DEF Split, Begun
  <2>5. \A u, v \in Rpc!Threads :
          at'[u] = "packed" /\ at'[v] = "packed" /\ cur'[u].n = cur'[v].n => u = v
    BY <1>4, <1>5, <1>6, <2>4 DEF RpcInv, RpcFates
  <2> QED BY <1>1, <2>3, <2>5 DEF RpcInv, RpcFates
<1>10. RpcStraight'
  <2> SUFFICES ASSUME ~raced'
               PROVE  StraightCalls' /\ StraightFrames'
    BY DEF RpcStraight
  <2>1. ~raced /\ \A u \in Rpc!Threads : at[u] = "idle"
    BY <1>1
  <2>2. m_id = calls'
    BY <1>1, <2>1 DEF RpcInv, RpcStraight, StraightCalls
  <2>3. StraightCalls'
    BY <1>1, <1>4, <1>5, <2>1, <2>2 DEF StraightCalls
  <2>4. StraightFrames'
    BY <1>1, <2>1 DEF RpcInv, RpcStraight, StraightFrames
  <2> QED BY <2>3, <2>4
<1>11. RpcOrder'
  BY <1>1, OrderStays DEF RpcInv, RpcOrder
<1> QED BY <1>7, <1>8, <1>9, <1>10, <1>11 DEF RpcInv

(* The rest of the increment: only the register and the count change.      *)
LEMMA IncrementKeeps ==
  ASSUME RpcInv, NEW t \in Rpc!Threads, Rpc!Load(t) \/ Rpc!Store(t)
  PROVE  RpcInv'
<1>1. /\ at[t] \in {"queued", "loaded"}
      /\ UNCHANGED <<rpc_tasks, m_wq, calls, raced, called, lost, m_map, waiting, unp, net,
                     peer, rpc_asked, link, answers, ended>>
      /\ \/ /\ at[t] = "queued" /\ at' = [at EXCEPT ![t] = "loaded"] /\ m_id' = m_id
            /\ cur' = [cur EXCEPT ![t].reg = m_id]
         \/ /\ at[t] = "loaded" /\ at' = [at EXCEPT ![t] = "idle"] /\ cur' = cur
            /\ m_id' = cur[t].reg + 1
  BY DEF Rpc!Load, Rpc!Store, Rpc!other, Rpc!fates
<1>2. /\ m_id \in Nat /\ at \in [Rpc!Threads -> {"idle", "packed", "queued", "loaded"}]
      /\ cur \in [Rpc!Threads -> Rpc!Message] /\ calls \in Nat
  BY CallTypes
<1>3. /\ at' \in [Rpc!Threads -> {"idle", "packed", "queued", "loaded"}]
      /\ cur' \in [Rpc!Threads -> Rpc!Message] /\ m_id' \in Nat
      /\ at'[t] \in {"loaded", "idle"}
      /\ \A u \in Rpc!Threads \ {t} : at'[u] = at[u] /\ cur'[u] = cur[u]
  BY <1>1, <1>2 DEF Rpc!Message
<1>4. RpcKnown'
  <2>1. {waiting', link', ended', raced'} \subseteq BOOLEAN
    BY <1>1, Zenon DEF RpcInv, RpcKnown, Rpc!TypeOK
  <2>2. Rpc!TypeOK'
    BY <1>1, <1>3, <2>1 DEF RpcInv, RpcKnown, Rpc!TypeOK
  <2>3. \A u \in Rpc!Threads : at'[u] = "packed" => cur'[u].type = "request"
    BY <1>3 DEF RpcInv, RpcKnown
  <2> QED BY <1>1, <2>2, <2>3 DEF RpcInv, RpcKnown
<1>5. RpcReads'
  BY <1>1 DEF RpcInv, RpcReads
<1>6. RpcFates'
  <2>1. \A u \in Rpc!Threads : /\ at'[u] = "packed" <=> at[u] = "packed"
                               /\ at[u] = "packed" => cur'[u] = cur[u]
    BY <1>1, <1>3
  <2>2. Begun' = Begun
    BY <2>1 DEF Begun
  <2> QED BY <1>1, <2>1, <2>2 DEF RpcInv, RpcFates
<1>7. RpcStraight'
  <2> SUFFICES ASSUME ~raced
               PROVE  StraightCalls' /\ StraightFrames'
    BY <1>1 DEF RpcStraight
  <2>1. StraightCalls /\ StraightFrames
    BY DEF RpcInv, RpcStraight
  <2>2. m_id = calls /\ \A u \in Rpc!Threads \ {t} : at[u] = "idle"
    BY <1>1, <2>1 DEF StraightCalls
  <2>3. CASE at[t] = "queued"
    <3>1. at'[t] = "loaded" /\ cur'[t].reg = calls /\ m_id' = calls
      BY <1>1, <1>2, <2>2, <2>3 DEF Rpc!Message
    <3> QED BY <1>1, <1>3, <2>1, <2>2, <3>1 DEF StraightCalls, StraightFrames
  <2>4. CASE at[t] = "loaded"
    <3>1. at'[t] = "idle" /\ m_id' = calls + 1
      BY <1>1, <1>2, <2>1, <2>4 DEF StraightCalls
    <3>2. \A u \in Rpc!Threads : at'[u] = "idle"
      BY <1>3, <2>2, <3>1
    <3> QED BY <1>1, <2>1, <3>1, <3>2 DEF StraightCalls, StraightFrames
  <2> QED BY <1>1, <2>3, <2>4
<1>8. RpcOrder'
  BY <1>1, OrderStays DEF RpcInv, RpcOrder
<1> QED BY <1>4, <1>5, <1>6, <1>7, <1>8 DEF RpcInv

(* The frame goes to the writer with what its handler captures.            *)
LEMMA CaptureKeeps ==
  ASSUME RpcInv, NEW t \in Rpc!Threads, Rpc!Capture(t)
  PROVE  RpcInv'
<1> DEFINE x == Rpc!Task("push", [cur[t] EXCEPT !.reg = m_id])
<1>1. /\ at[t] = "packed" /\ at' = [at EXCEPT ![t] = "queued"]
      /\ rpc_tasks' = Append(rpc_tasks, x)
      /\ UNCHANGED <<m_wq, m_id, calls, cur, raced, called, lost, m_map, waiting, unp, net,
                     peer, rpc_asked, link, answers, ended>>
  BY DEF Rpc!Capture, Rpc!other, Rpc!fates
<1>2. /\ m_id \in Nat /\ at \in [Rpc!Threads -> {"idle", "packed", "queued", "loaded"}]
      /\ cur \in [Rpc!Threads -> Rpc!Message] /\ calls \in Nat
  BY CallTypes
<1>3. cur[t].type = "request"
  BY <1>1 DEF RpcInv, RpcKnown
<1>4. /\ x \in RpcTasks /\ x.what = "push" /\ x.m.type = "request"
      /\ x.m.n = cur[t].n /\ x.m.id = cur[t].id /\ x.m.reg = m_id
      /\ ~Reads(x) /\ ~Answers(x)
  BY <1>2, <1>3 DEF Rpc!Task, RpcTasks, Rpc!What, Rpc!Message, Rpc!Types, Reads, Answers
<1> HIDE DEF x
<1>5. rpc_tasks \in Seq(RpcTasks) /\ Follows(rpc_tasks, TaskOrder)
  BY DEF RpcInv, RpcKnown, RpcOrder, Rpc!TypeOK, RpcTasks
<1>6. /\ Posted(Append(rpc_tasks, x)) = Posted(rpc_tasks) \cup {x}
      /\ Append(rpc_tasks, x) \in Seq(RpcTasks)
      /\ Carried(Append(rpc_tasks, x)) = Carried(rpc_tasks) \cup {cur[t].n}
  BY <1>4, <1>5, RpcTaskAdds, AppendElements, CarriedAppended
<1>7. cur[t].n \in Begun /\ cur[t].n \notin Carried(rpc_tasks)
  <2>1. cur[t].n \in Begun
    BY <1>1 DEF Begun
  <2> QED BY <2>1 DEF RpcInv, RpcFates, Split
<1>8. Follows(Append(rpc_tasks, x), TaskOrder)
  <2>1. ASSUME NEW u \in Posted(rpc_tasks)
        PROVE  <<u, x>> \in TaskOrder
    <3>1. u \in RpcTasks
      BY <1>5 DEF Posted
    <3>2. u.m.type = "request" => u.m.n # x.m.n
      BY <1>4, <1>7 DEF Carried
    <3>3. Related(u, x)
      BY <1>4, <3>2 DEF Related
    <3> QED BY <1>4, <3>1, <3>3 DEF TaskOrder
  <2> QED BY <1>4, <1>5, <2>1, FollowsAppended
<1>9. /\ at' \in [Rpc!Threads -> {"idle", "packed", "queued", "loaded"}]
      /\ at'[t] = "queued" /\ \A u \in Rpc!Threads \ {t} : at'[u] = at[u]
  BY <1>1, <1>2
<1>10. RpcKnown'
  <2>1. {waiting', link', ended', raced'} \subseteq BOOLEAN
    BY <1>1, Zenon DEF RpcInv, RpcKnown, Rpc!TypeOK
  <2>2. Rpc!TypeOK'
    BY <1>1, <1>6, <1>9, <2>1 DEF RpcInv, RpcKnown, Rpc!TypeOK, RpcTasks
  <2>3. \A u \in Rpc!Threads : at'[u] = "packed" => cur'[u].type = "request"
    BY <1>1, <1>9 DEF RpcInv, RpcKnown
  <2> QED BY <1>1, <1>4, <1>6, <2>2, <2>3 DEF RpcInv, RpcKnown
<1>11. RpcReads'
  BY <1>1, <1>4, <1>6 DEF RpcInv, RpcReads
<1>12. RpcFates'
  <2>1. \A u, v \in Rpc!Threads :
          at[u] = "packed" /\ at[v] = "packed" /\ cur[u].n = cur[v].n => u = v
    BY DEF RpcInv, RpcFates
  <2>2. Begun' = Begun \ {cur[t].n}
    BY <1>1, <1>9, <2>1 DEF Begun
  <2>3. Carried(rpc_tasks') = Carried(rpc_tasks) \cup {cur[t].n}
    BY <1>1, <1>6
  <2>4. Split(1..calls, Begun, Carried(rpc_tasks), Names(m_map), Names(called), lost)
    BY DEF RpcInv, RpcFates
  <2>5. Split(1..calls, Begun', Carried(rpc_tasks'), Names(m_map), Names(called), lost)
    BY <1>7, <2>2, <2>3, <2>4 DEF Split
  <2>6. \A u, v \in Rpc!Threads :
          at'[u] = "packed" /\ at'[v] = "packed" /\ cur'[u].n = cur'[v].n => u = v
    BY <1>1, <1>9, <2>1
  <2> QED BY <1>1, <2>5, <2>6 DEF RpcInv, RpcFates
<1>13. RpcStraight'
  <2> SUFFICES ASSUME ~raced
               PROVE  StraightCalls' /\ StraightFrames'
    BY <1>1 DEF RpcStraight
  <2>1. StraightCalls /\ StraightFrames
    BY DEF RpcInv, RpcStraight
  <2>2. m_id = calls /\ cur[t].id = calls /\ cur[t].n = calls
    BY <1>1, <2>1 DEF StraightCalls
  <2>3. StraightCalls'
    BY <1>1, <1>9, <2>1, <2>2 DEF StraightCalls
  <2>4. StraightFrames'
    BY <1>1, <1>4, <1>6, <2>1, <2>2 DEF StraightFrames
  <2> QED BY <2>3, <2>4
<1>14. RpcOrder'
  BY <1>1, <1>4, <1>6, <1>8, OrderStays
<1> QED BY <1>10, <1>11, <1>12, <1>13, <1>14 DEF RpcInv

(* A step that takes a task, or puts another in its place, and does not    *)
(* touch the messages that come.                                           *)
LEMMA TakesKeep ==
  ASSUME RpcInv, rpc_tasks # <<>>,
         UNCHANGED <<m_id, calls, at, cur, raced, m_wq, unp, net, rpc_asked>>,
         m_map' \subseteq [id : Nat, n : Nat], called' \subseteq [n : Nat, re : Nat],
         lost' \subseteq Nat,
         peer' \in Seq(Rpc!Message), answers' \in Seq(1..rpc_asked),
         answers' = answers \/ RpcOrder',
         waiting' \in BOOLEAN, link' \in BOOLEAN, ended' \in BOOLEAN,
         NEW x \in RpcTasks,
         Head(rpc_tasks).what = "data" \/ x.what # "data", x.what # "resume",
         ~Answers(x), x.m.type = "response" => x.m = Head(rpc_tasks).m,
         Reads(x) => Reads(Head(rpc_tasks)),
         x.m.type = "request" =>
           x.m = Head(rpc_tasks).m /\ x.what \in {"push", "written", "failed"},
         \/ rpc_tasks' = Tail(rpc_tasks)
         \/ rpc_tasks' = Append(Tail(rpc_tasks), x),
         RpcFates', RpcStraight', RpcReads'
  PROVE  RpcInv'
<1> DEFINE h == Head(rpc_tasks)
           q == Tail(rpc_tasks)
<1>1. /\ rpc_tasks' \in Seq(RpcTasks) /\ Follows(rpc_tasks', TaskOrder)
      /\ Posted(rpc_tasks') \subseteq Posted(q) \cup {x}
      /\ Posted(rpc_tasks) = Posted(q) \cup {h}
  BY RpcTaken, PutBack
<1> HIDE DEF h, q
<1>3. Rpc!TypeOK'
  <2>1. raced \in BOOLEAN
    BY CallTypes
  <2>2. {waiting', link', ended', raced'} \subseteq BOOLEAN
    BY <2>1, Zenon
  <2> QED BY <1>1, <2>2 DEF RpcInv, RpcKnown, Rpc!TypeOK, RpcTasks
<1>4. h \in Posted(rpc_tasks)
  BY <1>1
<1>5. \A t \in Posted(rpc_tasks') :
        /\ t.what # "resume"
        /\ t.m.type = "request" => t.what \in {"push", "written", "failed"}
        /\ t.m.type = "response" => t.m.id \in 1..rpc_asked'
        /\ t.what = "data" => unp' # <<>>
  <2> SUFFICES ASSUME NEW t \in Posted(rpc_tasks')
               PROVE  /\ t.what # "resume"
                      /\ t.m.type = "request" => t.what \in {"push", "written", "failed"}
                      /\ t.m.type = "response" => t.m.id \in 1..rpc_asked'
                      /\ t.what = "data" => unp' # <<>>
    OBVIOUS
  <2>1. CASE t \in Posted(rpc_tasks)
    BY <2>1 DEF RpcInv, RpcKnown
  <2>2. CASE t = x
    <3>1. h.what = "data" => unp # <<>>
      BY <1>4 DEF RpcInv, RpcKnown
    <3>2. h.m.type = "response" => h.m.id \in 1..rpc_asked
      BY <1>4 DEF RpcInv, RpcKnown
    <3> QED BY <2>2, <3>1, <3>2 DEF h
  <2> QED BY <1>1, <2>1, <2>2
<1>6. RpcKnown'
  BY <1>3, <1>5 DEF RpcInv, RpcKnown
<1>7. RpcOrder'
  BY <1>1, OrderStays
<1> QED BY <1>6, <1>7 DEF RpcInv

(* The types that a step leaves as they are.                               *)
LEMMA RpcTypesNow ==
  ASSUME RpcInv
  PROVE  /\ peer \in Seq(Rpc!Message) /\ answers \in Seq(1..rpc_asked)
         /\ m_map \subseteq [id : Nat, n : Nat] /\ called \subseteq [n : Nat, re : Nat]
         /\ lost \subseteq Nat
         /\ waiting \in BOOLEAN /\ link \in BOOLEAN /\ ended \in BOOLEAN
         /\ unp \in Seq(Rpc!Message) /\ net \in Seq(Rpc!Message)
<1>1. {waiting, link, ended, raced} \subseteq BOOLEAN
  BY DEF RpcInv, RpcKnown, Rpc!TypeOK
<1>2. waiting \in BOOLEAN /\ link \in BOOLEAN /\ ended \in BOOLEAN
  BY <1>1, Zenon
<1> QED BY <1>2 DEF RpcInv, RpcKnown, Rpc!TypeOK

(* The write handlers.                                                     *)
LEMMA WrittenKeeps ==
  ASSUME RpcInv, Rpc!RunWritten \/ Rpc!RunWriteFailed
  PROVE  RpcInv'
<1> DEFINE h == Head(rpc_tasks)
           here == IF h.m.type = "request" THEN {h.m.n} ELSE {}
           more == IF h.m.type = "request" THEN {[id |-> h.m.reg, n |-> h.m.n]} ELSE {}
<1>1. /\ rpc_tasks # <<>> /\ rpc_tasks' = Tail(rpc_tasks) /\ h.what \in {"written", "failed"}
      /\ UNCHANGED <<m_id, calls, at, cur, raced, called, m_wq, waiting, unp, net, peer,
                     rpc_asked, link, answers, ended>>
      /\ \/ m_map' = m_map \cup more /\ lost' = lost
         \/ /\ m_map' = m_map /\ lost' = lost \cup here
            /\ \/ here = {} \/ h.what = "failed"
               \/ \E k \in m_map : k.id = h.m.reg
  BY DEF Rpc!RunWritten, Rpc!RunWriteFailed, Rpc!Run, Rpc!Frame, Rpc!other, Rpc!local
<1>2. /\ Carried(Tail(rpc_tasks)) = Carried(rpc_tasks) \ here
      /\ here \subseteq Carried(rpc_tasks)
  BY <1>1, CarriedTail
<1>3. /\ Posted(rpc_tasks) = Posted(Tail(rpc_tasks)) \cup {h}
      /\ h \in RpcTasks /\ Tail(rpc_tasks) \in Seq(RpcTasks)
  BY <1>1, RpcTaken
<1>4. /\ more \subseteq [id : Nat, n : Nat] /\ here \subseteq Nat
      /\ \A k \in more : here = {k.n} /\ h.m.type = "request" /\ k.id = h.m.reg
      /\ \A k, l \in more : k = l
      /\ Names(more) = here /\ (here # {} => h.m.type = "request" /\ here = {h.m.n})
  <2>1. CASE h.m.type = "request"
    <3> DEFINE k == [id |-> h.m.reg, n |-> h.m.n]
    <3>1. k \in [id : Nat, n : Nat] /\ k.id = h.m.reg /\ k.n = h.m.n /\ h.m.n \in Nat
      BY <1>3 DEF RpcTasks, Rpc!Message
    <3>2. more = {k} /\ here = {h.m.n}
      BY <2>1
    <3> HIDE DEF k, more, here
    <3> QED BY <2>1, <3>1, <3>2 DEF Names
  <2>2. CASE h.m.type # "request"
    <3>1. more = {} /\ here = {}
      BY <2>2
    <3> HIDE DEF more, here
    <3> QED BY <3>1 DEF Names
  <2> QED BY <2>1, <2>2
<1> HIDE DEF h, here, more
<1>5. Split(1..calls, Begun, Carried(rpc_tasks), Names(m_map), Names(called), lost)
  BY DEF RpcInv, RpcFates
<1>6. RpcFates'
  <2>1. Names(m_map \cup more) = Names(m_map) \cup here
    BY <1>4 DEF Names
  <2>2. Begun' = Begun /\ Carried(rpc_tasks') = Carried(rpc_tasks) \ here
    BY <1>1, <1>2 DEF Begun
  <2>3. \/ Names(m_map') = Names(m_map) \cup here /\ lost' = lost
        \/ Names(m_map') = Names(m_map) /\ lost' = lost \cup here
    BY <1>1, <2>1
  <2>4. Split(1..calls, Begun', Carried(rpc_tasks'), Names(m_map'), Names(called), lost')
    BY <1>2, <1>5, <2>2, <2>3 DEF Split
  <2>5. \A k \in m_map, l \in more : k.n # l.n
    BY <1>2, <1>4, <1>5 DEF Split, Names
  <2>6. \A k, l \in m_map' : k.n = l.n => k = l
    BY <1>1, <1>4, <2>5 DEF RpcInv, RpcFates
  <2> QED BY <1>1, <2>4, <2>6 DEF RpcInv, RpcFates
<1>7. RpcReads'
  BY <1>1, <1>3 DEF RpcInv, RpcReads
<1>8. RpcKnown' /\ RpcOrder'
  <2>1. Follows(rpc_tasks', TaskOrder)
    BY <1>1, RpcTaken
  <2>2. RpcOrder'
    BY <1>1, <1>3, <2>1, OrderStays
  <2>3. {waiting', link', ended', raced'} \subseteq BOOLEAN
    BY <1>1, Zenon DEF RpcInv, RpcKnown, Rpc!TypeOK
  <2>4. m_map' \subseteq [id : Nat, n : Nat] /\ lost' \subseteq Nat
    BY <1>1, <1>4 DEF RpcInv, RpcKnown, Rpc!TypeOK
  <2>5. Rpc!TypeOK'
    BY <1>1, <1>3, <2>3, <2>4 DEF RpcInv, RpcKnown, Rpc!TypeOK, RpcTasks
  <2> QED BY <1>1, <1>3, <2>2, <2>5 DEF RpcInv, RpcKnown
<1>9. RpcStraight'
  <2> SUFFICES ASSUME ~raced
               PROVE  StraightCalls' /\ StraightFrames'
    BY <1>1 DEF RpcStraight
  <2>1. StraightCalls /\ StraightFrames
    BY DEF RpcInv, RpcStraight
  <2>2. \A k \in more : k.id = k.n
    BY <1>3, <1>4, <2>1 DEF StraightFrames
  <2>3. \A k \in m_map' : k.id = k.n
    BY <1>1, <2>1, <2>2 DEF StraightFrames
  <2>4. ASSUME link, lost' # lost
        PROVE  FALSE
    <3>1. here # {} /\ lost' = lost \cup here
      BY <1>1, <2>4
    <3>2. h.m.type = "request" /\ h.m.reg = h.m.n /\ h.m.n \in here /\ h.what # "failed"
      BY <1>3, <1>4, <2>1, <2>4, <3>1 DEF StraightFrames
    <3>3. PICK k \in m_map : k.id = h.m.reg
      BY <1>1, <2>4, <3>1, <3>2
    <3>4. h.m.n \in Names(m_map)
      BY <2>1, <3>2, <3>3 DEF StraightFrames, Names
    <3> QED BY <1>2, <1>5, <3>2, <3>4 DEF Split
  <2>5. StraightFrames'
    BY <1>1, <1>3, <2>1, <2>3, <2>4 DEF StraightFrames
  <2>6. StraightCalls'
    BY <1>1, <2>1 DEF StraightCalls
  <2> QED BY <2>5, <2>6
<1> QED BY <1>6, <1>7, <1>8, <1>9 DEF RpcInv

(* A step that changes no handler and no call, but perhaps where a frame   *)
(* waits.                                                                  *)
LEMMA FatesStay ==
  ASSUME RpcInv, Carried(rpc_tasks') = Carried(rpc_tasks),
         UNCHANGED <<calls, at, cur, m_map, called, lost>>
  PROVE  RpcFates'
<1>1. Begun' = Begun
  BY DEF Begun
<1> QED BY <1>1 DEF RpcInv, RpcFates

LEMMA StraightStays ==
  ASSUME RpcInv, UNCHANGED <<m_id, calls, at, cur, raced, m_map, called, lost>>,
         link' => link,
         \A t \in Posted(rpc_tasks') : t.m.type = "request" =>
           \E u \in Posted(rpc_tasks) :
             u.m = t.m /\ (t.what = "failed" => u.what = "failed" \/ ~link'),
         \A m \in Posted(peer') : \/ m \in Posted(peer)
                                  \/ \E u \in Posted(rpc_tasks) :
                                       u.m = m /\ m.type = "request",
         \A m \in Posted(unp') \cup Posted(net') : m.type = "response" =>
           \/ m \in Posted(unp) \cup Posted(net)
           \/ \E k \in Posted(peer) : m.id = k.id /\ m.n = k.n
  PROVE  RpcStraight'
<1> SUFFICES ASSUME ~raced
             PROVE  StraightCalls' /\ StraightFrames'
  BY DEF RpcStraight
<1>1. StraightCalls /\ StraightFrames
  BY DEF RpcInv, RpcStraight
<1>2. StraightCalls'
  BY <1>1 DEF StraightCalls
<1>3. \A t \in Posted(rpc_tasks') : t.m.type = "request" =>
        t.m.id = t.m.n /\ t.m.reg = t.m.n /\ (link' => t.what # "failed")
  BY <1>1 DEF StraightFrames
<1>4. \A m \in Posted(peer') : m.id = m.n
  BY <1>1 DEF StraightFrames
<1>5. \A m \in Posted(unp') \cup Posted(net') : m.type = "response" => m.id = m.n
  BY <1>1 DEF StraightFrames
<1> QED BY <1>1, <1>2, <1>3, <1>4, <1>5 DEF StraightFrames

LEMMA QuietStays ==
  ASSUME RpcInv, UNCHANGED <<m_id, calls, at, cur, raced, m_map, called, lost, peer>>,
         link' => link,
         \A t \in Posted(rpc_tasks') : t.m.type = "request" => t \in Posted(rpc_tasks),
         \A m \in Posted(unp') \cup Posted(net') :
           m.type = "response" => m \in Posted(unp) \cup Posted(net)
  PROVE  RpcStraight'
<1>1. Posted(peer') = Posted(peer)
  OBVIOUS
<1> QED BY <1>1, StraightStays

(* async_read's task.                                                      *)
LEMMA ReadKeeps ==
  ASSUME RpcInv, Rpc!RunRead
  PROVE  RpcInv'
<1> DEFINE x == Rpc!Task("parse", Rpc!NoMessage)
<1>1. /\ rpc_tasks # <<>> /\ rpc_tasks' = Append(Tail(rpc_tasks), x)
      /\ Head(rpc_tasks).what = "read"
      /\ UNCHANGED <<m_id, calls, at, cur, raced, called, lost, m_map, m_wq, waiting, unp,
                     net, peer, rpc_asked, link, answers, ended>>
  BY DEF Rpc!RunRead, Rpc!Run, Rpc!caller, Rpc!local, Rpc!fates, Rpc!other
<1>2. /\ x \in RpcTasks /\ x.what = "parse" /\ x.m.type = "other"
      /\ Reads(x) /\ ~Answers(x) /\ Reads(Head(rpc_tasks))
  BY <1>1 DEF Rpc!Task, Rpc!NoMessage, Rpc!Made, RpcTasks, Rpc!What, Rpc!Message, Rpc!Types,
     Reads, Answers
<1> HIDE DEF x
<1>3. /\ Tail(rpc_tasks) \in Seq(RpcTasks)
      /\ Posted(rpc_tasks) = Posted(Tail(rpc_tasks)) \cup {Head(rpc_tasks)}
      /\ Posted(Append(Tail(rpc_tasks), x)) = Posted(Tail(rpc_tasks)) \cup {x}
  BY <1>1, <1>2, RpcTaken, PutBack
<1>4. RpcReads'
  <2>1. ~waiting /\ ~ended
    BY <1>2, <1>3 DEF RpcInv, RpcReads
  <2> QED BY <1>1, <2>1 DEF RpcReads
<1>5. RpcFates'
  <2>1. Head(rpc_tasks).m.type # "request"
    BY <1>1, <1>3 DEF RpcInv, RpcKnown
  <2>2. Carried(rpc_tasks') = Carried(rpc_tasks)
    BY <1>1, <1>2, <1>3, <2>1, CarriedTail, CarriedAppended
  <2> QED BY <1>1, <2>2, FatesStay
<1>6. /\ x.what # "data" /\ x.what # "resume" /\ x.m.type # "response" /\ x.m.type # "request"
  BY <1>2
<1>7. RpcStraight'
  <2>1. /\ Posted(unp') = Posted(unp) /\ Posted(net') = Posted(net)
        /\ \A t \in Posted(rpc_tasks') : t.m.type = "request" => t \in Posted(rpc_tasks)
    BY <1>1, <1>2, <1>3
  <2> QED BY <1>1, <2>1, QuietStays
<1> QED BY <1>1, <1>2, <1>4, <1>5, <1>6, <1>7, TakesKeep, RpcTypesNow

(* There is no message: the reader waits, or finds the connection broken.  *)
LEMMA EmptyKeeps ==
  ASSUME RpcInv, Rpc!Run("parse"), unp = <<>>, waiting' = link,
         rpc_tasks' = Tail(rpc_tasks)
                        \o (IF link THEN <<>> ELSE <<Rpc!Task("error", Rpc!NoMessage)>>),
         UNCHANGED <<m_id, calls, at, cur, raced, called, lost, m_map, m_wq, unp, net, peer,
                     rpc_asked, link, answers, ended>>
  PROVE  RpcInv'
<1> DEFINE x == Rpc!Task("error", Rpc!NoMessage)
<1>1. rpc_tasks # <<>> /\ Head(rpc_tasks).what = "parse"
  BY DEF Rpc!Run
<1>2. /\ x \in RpcTasks /\ x.what = "error" /\ x.m.type = "other"
      /\ Reads(x) /\ ~Answers(x) /\ Reads(Head(rpc_tasks))
  BY <1>1 DEF Rpc!Task, Rpc!NoMessage, Rpc!Made, RpcTasks, Rpc!What, Rpc!Message, Rpc!Types,
     Reads, Answers
<1>3. /\ Tail(rpc_tasks) \in Seq(RpcTasks)
      /\ Posted(rpc_tasks) = Posted(Tail(rpc_tasks)) \cup {Head(rpc_tasks)}
      /\ \A t \in Posted(Tail(rpc_tasks)) : Related(Head(rpc_tasks), t)
      /\ Posted(Append(Tail(rpc_tasks), x)) = Posted(Tail(rpc_tasks)) \cup {x}
  BY <1>1, <1>2, RpcTaken, PutBack
<1>4. /\ link => rpc_tasks' = Tail(rpc_tasks)
      /\ ~link => rpc_tasks' = Append(Tail(rpc_tasks), x)
  BY <1>2, <1>3, PostsAppend
<1> HIDE DEF x
<1>5. RpcReads'
  <2>1. ~waiting /\ ~ended
    BY <1>2, <1>3 DEF RpcInv, RpcReads
  <2>2. \A t \in Posted(Tail(rpc_tasks)) : ~Reads(t)
    BY <1>2, <1>3 DEF Related
  <2>3. CASE link
    BY <1>4, <2>1, <2>2, <2>3 DEF RpcReads
  <2>4. CASE ~link
    BY <2>1, <2>4 DEF RpcReads
  <2> QED BY <2>3, <2>4
<1>6. RpcFates'
  <2>1. Head(rpc_tasks).m.type # "request"
    BY <1>1, <1>3 DEF RpcInv, RpcKnown
  <2>2. Carried(rpc_tasks') = Carried(rpc_tasks)
    BY <1>1, <1>2, <1>3, <1>4, <2>1, CarriedTail, CarriedAppended
  <2> QED BY <2>2, FatesStay
<1>7. /\ x.what # "data" /\ x.what # "resume" /\ x.m.type # "response" /\ x.m.type # "request"
  BY <1>2
<1>8. waiting' \in BOOLEAN /\ link' \in BOOLEAN /\ ended' \in BOOLEAN
  BY RpcTypesNow, Zenon
<1>9. rpc_tasks' = Tail(rpc_tasks) \/ rpc_tasks' = Append(Tail(rpc_tasks), x)
  BY <1>4
<1>10. /\ peer' \in Seq(Rpc!Message) /\ answers' \in Seq(1..rpc_asked)
       /\ m_map' \subseteq [id : Nat, n : Nat] /\ called' \subseteq [n : Nat, re : Nat]
       /\ lost' \subseteq Nat
  BY RpcTypesNow
<1>11. RpcStraight'
  <2>1. /\ Posted(unp') = Posted(unp) /\ Posted(net') = Posted(net)
        /\ \A t \in Posted(rpc_tasks') : t.m.type = "request" => t \in Posted(rpc_tasks)
    BY <1>2, <1>3, <1>4
  <2> QED BY <2>1, QuietStays
<1> QED BY <1>1, <1>2, <1>5, <1>6, <1>7, <1>8, <1>9, <1>10, <1>11, TakesKeep

(* The error handler.                                                      *)
LEMMA ErrorKeeps ==
  ASSUME RpcInv, Rpc!RunError
  PROVE  RpcInv'
<1> DEFINE x == Rpc!Task("parse", Rpc!NoMessage)
<1>1. /\ rpc_tasks # <<>> /\ rpc_tasks' = Tail(rpc_tasks) /\ ended'
      /\ ended' \in BOOLEAN /\ Head(rpc_tasks).what = "error"
      /\ UNCHANGED <<m_id, calls, at, cur, raced, called, lost, m_map, m_wq, waiting, unp,
                     net, peer, rpc_asked, link, answers>>
  BY DEF Rpc!RunError, Rpc!Run, Rpc!caller, Rpc!local, Rpc!fates, Rpc!other
<1>2. /\ x \in RpcTasks /\ x.what = "parse" /\ x.m.type = "other"
      /\ Reads(x) /\ ~Answers(x) /\ Reads(Head(rpc_tasks))
  BY <1>1 DEF Rpc!Task, Rpc!NoMessage, Rpc!Made, RpcTasks, Rpc!What, Rpc!Message, Rpc!Types,
     Reads, Answers
<1> HIDE DEF x
<1>3. /\ Posted(rpc_tasks) = Posted(Tail(rpc_tasks)) \cup {Head(rpc_tasks)}
      /\ \A t \in Posted(Tail(rpc_tasks)) : Related(Head(rpc_tasks), t)
  BY <1>1, RpcTaken
<1>4. RpcReads'
  <2>1. ~waiting
    BY <1>2, <1>3 DEF RpcInv, RpcReads
  <2>2. \A t \in Posted(rpc_tasks') : ~Reads(t)
    BY <1>1, <1>2, <1>3 DEF Related
  <2> QED BY <1>1, <2>1, <2>2 DEF RpcReads
<1>5. RpcFates'
  <2>1. Head(rpc_tasks).m.type # "request"
    BY <1>1, <1>3 DEF RpcInv, RpcKnown
  <2>2. Carried(rpc_tasks') = Carried(rpc_tasks)
    BY <1>1, <2>1, CarriedTail
  <2> QED BY <1>1, <2>2, FatesStay
<1>6. /\ x.what # "data" /\ x.what # "resume" /\ x.m.type # "response" /\ x.m.type # "request"
  BY <1>2
<1>7. waiting' \in BOOLEAN /\ link' \in BOOLEAN
  BY <1>1, RpcTypesNow
<1>8. /\ peer' \in Seq(Rpc!Message) /\ answers' \in Seq(1..rpc_asked)
      /\ m_map' \subseteq [id : Nat, n : Nat] /\ called' \subseteq [n : Nat, re : Nat]
      /\ lost' \subseteq Nat
  BY <1>1, RpcTypesNow
<1>9. RpcStraight'
  <2>1. /\ Posted(unp') = Posted(unp) /\ Posted(net') = Posted(net)
        /\ \A t \in Posted(rpc_tasks') : t.m.type = "request" => t \in Posted(rpc_tasks)
    BY <1>1, <1>3
  <2> QED BY <1>1, <2>1, QuietStays
<1> QED BY <1>1, <1>2, <1>4, <1>5, <1>6, <1>7, <1>8, <1>9, TakesKeep

LEMMA AnswersAppended ==
  ASSUME NEW S, S \subseteq Nat, answers \in Seq(S), NEW n \in S, Rpc!AnswersInOrder,
         answers' = Append(answers, n), \A a \in Posted(answers) : a < n
  PROVE  /\ Rpc!AnswersInOrder' /\ answers' \in Seq(S)
         /\ Posted(answers') = Posted(answers) \cup {n}
<1> DEFINE u == Append(answers, n)
<1>1. /\ u \in Seq(S) /\ Len(answers) \in Nat /\ Len(u) = Len(answers) + 1
      /\ u[Len(answers) + 1] = n
      /\ \A i \in 1..Len(answers) : u[i] = answers[i]
  BY AppendElements
<1> HIDE DEF u
<1>2. \A i \in 1..Len(answers) : answers[i] < n
  BY DEF Posted
<1>3. \A i \in 1..Len(u) : i \in 1..Len(answers) \/ i = Len(answers) + 1
  BY <1>1
<1>4. ASSUME NEW i \in 1..Len(u), NEW j \in 1..Len(u), i < j
      PROVE  u[i] < u[j]
  <2>1. i \in 1..Len(answers)
    BY <1>1, <1>4
  <2>2. CASE j \in 1..Len(answers)
    BY <1>1, <1>4, <2>1, <2>2 DEF Rpc!AnswersInOrder
  <2>3. CASE j = Len(answers) + 1
    BY <1>1, <1>2, <2>1, <2>3
  <2> QED BY <1>3, <2>2, <2>3
<1>5. answers' = u
  BY DEF u
<1>6. Posted(u) = Posted(answers) \cup {n}
  BY PostedAppended DEF u
<1> QED BY <1>1, <1>4, <1>5, <1>6 DEF Rpc!AnswersInOrder

(* The task of async_write: its frame is written at once.                  *)
LEMMA PushKeeps ==
  ASSUME RpcInv, Rpc!RunPush
  PROVE  RpcInv'
<1> DEFINE h == Head(rpc_tasks)
           x == Rpc!Task(IF link THEN "written" ELSE "failed", h.m)
<1>1. /\ rpc_tasks # <<>> /\ h.what = "push"
      /\ UNCHANGED <<m_id, calls, at, cur, raced, called, lost, m_map, waiting, unp, net,
                     rpc_asked, link, ended>>
  BY DEF Rpc!RunPush, Rpc!Run, Rpc!caller, Rpc!local, Rpc!fates
<1>2. /\ h \in RpcTasks /\ Tail(rpc_tasks) \in Seq(RpcTasks) /\ h \in Posted(rpc_tasks)
      /\ Posted(rpc_tasks) = Posted(Tail(rpc_tasks)) \cup {h}
      /\ \A t \in Posted(Tail(rpc_tasks)) : t \in RpcTasks /\ Related(h, t)
  BY <1>1, RpcTaken
<1>3. /\ x \in RpcTasks /\ x.what \in {"written", "failed"} /\ x.m = h.m
      /\ ~Answers(x) /\ ~Reads(x)
  BY <1>2 DEF Rpc!Task, RpcTasks, Rpc!What, Answers, Reads
<1>4. Rpc!DoWrite(<<h.m>>)
  BY DEF Rpc!RunPush, Rpc!Frame, RpcInv, RpcKnown
<1>5. /\ m_wq' = <<>> /\ rpc_tasks' = Tail(rpc_tasks) \o <<x>> \o <<>>
      /\ peer' = IF link /\ h.m.type = "request" THEN Append(peer, h.m) ELSE peer
      /\ answers' = IF link /\ h.m.type = "response" THEN Append(answers, h.m.id) ELSE answers
  <2>1. Head(<<h.m>>) = h.m /\ Tail(<<h.m>>) = <<>>
    OBVIOUS
  <2> QED BY <1>4, <2>1 DEF Rpc!DoWrite
<1> HIDE DEF h, x
<1>6. rpc_tasks' = Append(Tail(rpc_tasks), x)
  BY <1>2, <1>3, <1>5, PostsAppend
<1>7. /\ Posted(rpc_tasks') = Posted(Tail(rpc_tasks)) \cup {x}
      /\ Follows(rpc_tasks', TaskOrder)
  BY <1>1, <1>3, <1>6, PutBack DEF h
<1>8. h.m.type = "response" => h.m.id \in 1..rpc_asked
  BY <1>2 DEF RpcInv, RpcKnown
<1>9. /\ peer \in Seq(Rpc!Message) /\ answers \in Seq(1..rpc_asked)
      /\ m_map' \subseteq [id : Nat, n : Nat] /\ called' \subseteq [n : Nat, re : Nat]
      /\ lost' \subseteq Nat
      /\ waiting' \in BOOLEAN /\ link' \in BOOLEAN /\ ended' \in BOOLEAN
  BY <1>1, RpcTypesNow
<1>10. peer' \in Seq(Rpc!Message) /\ Posted(peer') \subseteq Posted(peer) \cup {h.m}
       /\ (h.m.type # "request" => peer' = peer)
  <2>0. h.m \in Rpc!Message
    BY <1>2 DEF RpcTasks
  <2>1. CASE link /\ h.m.type = "request"
    BY <1>5, <1>9, <2>0, <2>1, AppendElements, PostedAppended
  <2>2. CASE ~(link /\ h.m.type = "request")
    BY <1>5, <1>9, <2>2
  <2> QED BY <2>1, <2>2
<1>11. RpcReads'
  BY <1>1, <1>2, <1>3, <1>7 DEF RpcInv, RpcReads
<1>12. RpcFates'
  <2>1. Carried(Append(Tail(rpc_tasks), x)) = Carried(rpc_tasks)
    <3>1. CASE h.m.type = "request"
      <4>1. Carried(Append(Tail(rpc_tasks), x)) = Carried(Tail(rpc_tasks)) \cup {h.m.n}
        BY <1>2, <1>3, <3>1, CarriedAppended
      <4>2. /\ h.m.n \in Carried(rpc_tasks)
            /\ Carried(Tail(rpc_tasks)) = Carried(rpc_tasks) \ {h.m.n}
        BY <1>1, <3>1, CarriedTail DEF h
      <4> QED BY <4>1, <4>2
    <3>2. CASE h.m.type # "request"
      BY <1>1, <1>2, <1>3, <3>2, CarriedTail, CarriedAppended DEF h
    <3> QED BY <3>1, <3>2
  <2> QED BY <1>1, <1>6, <2>1, FatesStay
<1>13. answers' \in Seq(1..rpc_asked) /\ (answers' = answers \/ RpcOrder')
  <2>1. CASE link /\ h.m.type = "response"
    <3>1. Answers(h) /\ h.m.id \in 1..rpc_asked /\ answers' = Append(answers, h.m.id)
      BY <1>1, <1>5, <1>8, <2>1 DEF Answers
    <3>2. \A a \in Posted(answers) : a < h.m.id
      BY <1>2, <3>1 DEF RpcInv, RpcOrder
    <3>3. /\ Rpc!AnswersInOrder' /\ answers' \in Seq(1..rpc_asked)
          /\ Posted(answers') = Posted(answers) \cup {h.m.id}
      <4>1. 1..rpc_asked \subseteq Nat
        BY DEF RpcInv, RpcKnown, Rpc!TypeOK
      <4> QED BY <1>9, <3>1, <3>2, <4>1, AnswersAppended DEF RpcInv, RpcOrder
    <3>4. \A t \in Posted(Tail(rpc_tasks)) : Answers(t) => h.m.id < t.m.id
      BY <1>2, <3>1 DEF Related
    <3>5. \A t \in Posted(rpc_tasks') : Answers(t) => t \in Posted(Tail(rpc_tasks))
      BY <1>3, <1>7
    <3>6. \A m \in Posted(unp) \cup Posted(net) : m.type # "response" => h.m.id < m.id
      BY <1>2, <3>1 DEF RpcInv, RpcOrder
    <3>7. MessageOrder' = MessageOrder /\ TaskOrder' = TaskOrder
      BY DEF MessageOrder, TaskOrder
    <3>8. Posted(unp') = Posted(unp) /\ Posted(net') = Posted(net)
      BY <1>1
    <3>9. \A n \in Posted(answers') :
            /\ \A t \in Posted(rpc_tasks') : Answers(t) => n < t.m.id
            /\ \A m \in Posted(unp') \cup Posted(net') : m.type # "response" => n < m.id
      BY <1>2, <3>3, <3>4, <3>5, <3>6, <3>8 DEF RpcInv, RpcOrder
    <3>10. RpcOrder'
      BY <1>1, <1>2, <1>7, <3>3, <3>5, <3>7, <3>8, <3>9 DEF RpcInv, RpcOrder
    <3> QED BY <3>3, <3>10
  <2>2. CASE ~(link /\ h.m.type = "response")
    BY <1>5, <1>9, <2>2
  <2> QED BY <2>1, <2>2
<1>14. /\ h.what = "data" \/ x.what # "data"
       /\ x.what # "resume" /\ m_wq' = m_wq
       /\ x.m.type = "response" => x.m = h.m
       /\ x.m.type = "request" => x.m = h.m /\ x.what \in {"push", "written", "failed"}
  BY <1>3, <1>5 DEF RpcInv, RpcKnown
<1>15. RpcStraight'
  <2>1. x.what = "failed" => ~link
    BY DEF x, Rpc!Task
  <2>2. \A t \in Posted(rpc_tasks') : t.m.type = "request" =>
          \E u \in Posted(rpc_tasks) :
            u.m = t.m /\ (t.what = "failed" => u.what = "failed" \/ ~link')
    BY <1>1, <1>2, <1>3, <1>7, <2>1
  <2>3. \A m \in Posted(peer') : \/ m \in Posted(peer)
                                 \/ \E u \in Posted(rpc_tasks) : u.m = m /\ m.type = "request"
    BY <1>2, <1>10
  <2>4. Posted(unp') = Posted(unp) /\ Posted(net') = Posted(net)
    BY <1>1
  <2> QED BY <1>1, <2>2, <2>3, <2>4, StraightStays
<1> QED BY <1>1, <1>3, <1>6, <1>9, <1>10, <1>11, <1>12, <1>13, <1>14, <1>15, TakesKeep DEF h

(* The read that has a message posts the next read, and the answer to a    *)
(* request that is known.                                                  *)
LEMMA DispatchKeeps ==
  ASSUME RpcInv, rpc_tasks # <<>>, Reads(Head(rpc_tasks)), unp # <<>>, unp' = Tail(unp),
         Rpc!Dispatch(Head(unp))
  PROVE  RpcInv' /\ ~ended /\ ~ended'
<1> DEFINE h == Head(rpc_tasks)
           q == Tail(rpc_tasks)
           m == Head(unp)
           x == Rpc!Task("read", Rpc!NoMessage)
           y == Rpc!Task("push", [m EXCEPT !.type = "response"])
           found == {k \in m_map : k.id = m.id}
<1>1. /\ UNCHANGED <<m_wq, m_id, calls, at, cur, raced, lost, waiting, net, peer,
                     rpc_asked, link, answers, ended>>
      /\ rpc_tasks' = q \o <<x>> \o (IF m.type = "request" THEN <<y>> ELSE <<>>)
      /\ \/ called' = called /\ m_map' = m_map
         \/ /\ m.type = "response" /\ m_map' = m_map \ found
            /\ called' = called \cup {[n |-> k.n, re |-> m.n] : k \in found}
  BY DEF Rpc!Dispatch, Rpc!HandleResponse, Rpc!other, Rpc!local
<1>2. /\ q \in Seq(RpcTasks) /\ h \in Posted(rpc_tasks)
      /\ Posted(rpc_tasks) = Posted(q) \cup {h}
      /\ \A t \in Posted(q) : t \in RpcTasks /\ Related(h, t)
  BY RpcTaken
<1>3. /\ unp \in Seq(Rpc!Message) /\ m \in Rpc!Message /\ Tail(unp) \in Seq(Rpc!Message)
      /\ Posted(unp) = Posted(Tail(unp)) \cup {m}
      /\ Follows(Tail(unp), MessageOrder)
      /\ \A n \in Posted(Tail(unp)) : <<m, n>> \in MessageOrder
  <2>1. unp \in Seq(Rpc!Message) /\ Follows(unp, MessageOrder)
    BY RpcTypesNow DEF RpcInv, RpcOrder
  <2> QED BY <2>1, TailElements, PostedTail, FollowsTail
<1>4. /\ x \in RpcTasks /\ x.what = "read" /\ x.m.type = "other" /\ Reads(x) /\ ~Answers(x)
      /\ y \in RpcTasks /\ y.what = "push" /\ y.m.type = "response" /\ y.m.id = m.id
      /\ ~Reads(y) /\ Answers(y)
  BY <1>3 DEF Rpc!Task, Rpc!NoMessage, Rpc!Made, RpcTasks, Rpc!What, Rpc!Message, Rpc!Types,
     Reads, Answers
<1> DEFINE L == Append(q, x)
<1>5. /\ L \in Seq(RpcTasks) /\ Follows(L, TaskOrder) /\ Posted(L) = Posted(q) \cup {x}
  BY <1>2, <1>4, PutBack
<1>6. h.m.type # "request"
  BY <1>2 DEF RpcInv, RpcKnown, Reads
<1>7. Carried(L) = Carried(rpc_tasks)
  BY <1>2, <1>4, <1>6, CarriedTail, CarriedAppended
<1>8. /\ m.type # "request" => rpc_tasks' = L
      /\ m.type = "request" => rpc_tasks' = Append(L, y)
  BY <1>1, <1>2, <1>4, PostsAppend
<1> HIDE DEF h, q, m, x, y, L, found
<1>9. m \in Posted(unp) /\ (m.type = "request" => m.id \in 1..rpc_asked)
  BY <1>3 DEF RpcInv, RpcKnown
<1>10. ~waiting /\ ~ended
  BY <1>2 DEF RpcInv, RpcReads, h
<1>11. m.type = "request" =>
         /\ Append(L, y) \in Seq(RpcTasks) /\ Posted(Append(L, y)) = Posted(L) \cup {y}
         /\ Carried(Append(L, y)) = Carried(L)
         /\ Follows(Append(L, y), TaskOrder)
  <2> SUFFICES ASSUME m.type = "request"
               PROVE  /\ Append(L, y) \in Seq(RpcTasks)
                      /\ Posted(Append(L, y)) = Posted(L) \cup {y}
                      /\ Carried(Append(L, y)) = Carried(L)
                      /\ Follows(Append(L, y), TaskOrder)
    OBVIOUS
  <2>1. ASSUME NEW t \in Posted(L)
        PROVE  <<t, y>> \in TaskOrder
    <3>1. t \in RpcTasks
      BY <1>2, <1>4, <1>5
    <3>2. CASE t \in Posted(q)
      <4>1. t \in Posted(rpc_tasks)
        BY <1>2, <3>2
      <4>2. Answers(t) => t.m.id < y.m.id
        BY <1>4, <1>9, <4>1 DEF RpcInv, RpcOrder
      <4>3. Related(t, y)
        BY <1>4, <4>2 DEF Related
      <4> QED BY <1>4, <3>1, <4>3 DEF TaskOrder
    <3>3. CASE t = x
      <4>1. Related(t, y)
        BY <1>4, <3>3 DEF Related
      <4> QED BY <1>4, <3>1, <4>1 DEF TaskOrder
    <3> QED BY <1>5, <3>2, <3>3
  <2>2. Follows(Append(L, y), TaskOrder)
    BY <1>4, <1>5, <2>1, FollowsAppended
  <2>3. Append(L, y) \in Seq(RpcTasks)
    BY <1>4, <1>5, AppendElements
  <2> QED BY <1>4, <1>5, <2>2, <2>3, RpcTaskAdds, CarriedAppended
<1>12. /\ rpc_tasks' \in Seq(RpcTasks) /\ Follows(rpc_tasks', TaskOrder)
       /\ Carried(rpc_tasks') = Carried(rpc_tasks)
       /\ \A t \in Posted(rpc_tasks') :
            t \in Posted(q) \/ t = x \/ (t = y /\ m.type = "request")
  <2>1. CASE m.type # "request"
    BY <1>5, <1>7, <1>8, <2>1
  <2>2. CASE m.type = "request"
    BY <1>5, <1>7, <1>8, <1>11, <2>2
  <2> QED BY <2>1, <2>2
<1>13. RpcReads'
  BY <1>1, <1>10 DEF RpcReads
<1>14. RpcFates'
  <2>1. CASE called' = called /\ m_map' = m_map
    BY <1>1, <1>12, <2>1, FatesStay
  <2>2. CASE /\ m_map' = m_map \ found
             /\ called' = called \cup {[n |-> k.n, re |-> m.n] : k \in found}
    <3>1. \A k, l \in m_map : k.n = l.n => k = l
      BY DEF RpcInv, RpcFates
    <3>2. Names(called') = Names(called) \cup Names(found)
      <4> DEFINE new == {[n |-> k.n, re |-> m.n] : k \in found}
      <4>1. Names(new) = Names(found)
        <5>1. \A c \in new : \E k \in found : c.n = k.n
          OBVIOUS
        <5>2. \A k \in found : \E c \in new : c.n = k.n
          <6> SUFFICES ASSUME NEW k \in found
                       PROVE  \E c \in new : c.n = k.n
            OBVIOUS
          <6>1. [n |-> k.n, re |-> m.n] \in new /\ [n |-> k.n, re |-> m.n].n = k.n
            OBVIOUS
          <6> QED BY <6>1
        <5> HIDE DEF new
        <5> QED BY <5>1, <5>2 DEF Names
      <4> HIDE DEF new
      <4>2. called' = called \cup new
        BY <2>2 DEF new
      <4> QED BY <4>1, <4>2 DEF Names
    <3>3. Names(m_map') = Names(m_map) \ Names(found) /\ Names(found) \subseteq Names(m_map)
      BY <2>2, <3>1 DEF Names, found
    <3>4. Begun' = Begun
      BY <1>1 DEF Begun
    <3>5. Split(1..calls, Begun, Carried(rpc_tasks), Names(m_map), Names(called), lost)
      BY DEF RpcInv, RpcFates
    <3>6. Split(1..calls, Begun, Carried(rpc_tasks), Names(m_map'), Names(called'), lost)
      BY <3>2, <3>3, <3>5 DEF Split
    <3> QED BY <1>1, <1>12, <2>2, <3>1, <3>4, <3>6 DEF RpcInv, RpcFates
  <2> QED BY <1>1, <2>1, <2>2
<1>15. RpcKnown'
  <2>1. {waiting', link', ended', raced'} \subseteq BOOLEAN
    BY <1>1, Zenon DEF RpcInv, RpcKnown, Rpc!TypeOK
  <2>2. m_map' \subseteq [id : Nat, n : Nat] /\ called' \subseteq [n : Nat, re : Nat]
    <3>1. m.n \in Nat
      BY <1>3 DEF Rpc!Message
    <3> QED BY <1>1, <3>1, RpcTypesNow DEF found
  <2>3. Rpc!TypeOK'
    BY <1>1, <1>3, <1>12, <2>1, <2>2 DEF RpcInv, RpcKnown, Rpc!TypeOK, RpcTasks
  <2>4. ASSUME NEW t \in Posted(rpc_tasks')
        PROVE  /\ t.what # "resume"
               /\ t.m.type = "request" => t.what \in {"push", "written", "failed"}
               /\ t.m.type = "response" => t.m.id \in 1..rpc_asked'
               /\ t.what = "data" => unp' # <<>>
    <3>1. CASE t \in Posted(q)
      <4>1. t.what # "data"
        BY <1>2, <3>1 DEF Related, Reads, h
      <4>2. t \in Posted(rpc_tasks)
        BY <1>2, <3>1
      <4> QED BY <1>1, <4>1, <4>2 DEF RpcInv, RpcKnown
    <3>2. CASE t = x
      BY <1>4, <3>2
    <3>3. CASE t = y /\ m.type = "request"
      BY <1>1, <1>4, <1>9, <3>3
    <3> QED BY <1>12, <3>1, <3>2, <3>3
  <2>5. \A n \in Posted(unp') \cup Posted(net') : n.type # "response" => n.id \in 1..rpc_asked'
    BY <1>1, <1>3 DEF RpcInv, RpcKnown
  <2> QED BY <1>1, <2>3, <2>4, <2>5 DEF RpcInv, RpcKnown
<1>16. RpcOrder'
  <2>1. TaskOrder' = TaskOrder /\ MessageOrder' = MessageOrder
    BY DEF TaskOrder, MessageOrder
  <2>2. /\ Posted(net') = Posted(net) /\ Posted(answers') = Posted(answers)
        /\ Posted(unp') \subseteq Posted(unp)
    BY <1>1, <1>3
  <2>3. ASSUME NEW t \in Posted(rpc_tasks'), Answers(t)
        PROVE  t \in Posted(rpc_tasks) \/ (t = y /\ m.type = "request")
    BY <1>2, <1>4, <1>12, <2>3
  <2>4. m.type = "request" =>
          \A n \in Posted(unp') \cup Posted(net') : n.type # "response" => y.m.id < n.id
    <3>1. \A n \in Posted(unp') \cup Posted(net') : <<m, n>> \in MessageOrder
      BY <1>1, <1>3, <1>9 DEF RpcInv, RpcOrder
    <3> QED BY <1>4, <3>1 DEF MessageOrder
  <2>5. \A t \in Posted(rpc_tasks'), n \in Posted(unp') \cup Posted(net') :
          Answers(t) /\ n.type # "response" => t.m.id < n.id
    BY <2>2, <2>3, <2>4 DEF RpcInv, RpcOrder
  <2>6. \A n \in Posted(answers') :
          /\ \A t \in Posted(rpc_tasks') : Answers(t) => n < t.m.id
          /\ \A k \in Posted(unp') \cup Posted(net') : k.type # "response" => n < k.id
    <3>1. \A n \in Posted(answers) : m.type = "request" => n < y.m.id
      BY <1>4, <1>9 DEF RpcInv, RpcOrder
    <3> QED BY <2>2, <2>3, <3>1 DEF RpcInv, RpcOrder
  <2>7. Rpc!AnswersInOrder'
    BY <1>1 DEF RpcInv, RpcOrder, Rpc!AnswersInOrder
  <2>8. Follows(unp', MessageOrder) /\ Follows(net', MessageOrder)
    BY <1>1, <1>3 DEF RpcInv, RpcOrder
  <2>9. \A k \in Posted(unp'), n \in Posted(net') : <<k, n>> \in MessageOrder
    BY <2>2 DEF RpcInv, RpcOrder
  <2> QED BY <1>12, <2>1, <2>5, <2>6, <2>7, <2>8, <2>9 DEF RpcOrder
<1>17. RpcStraight'
  <2> SUFFICES ASSUME ~raced
               PROVE  StraightCalls' /\ StraightFrames'
    BY <1>1 DEF RpcStraight
  <2>1. StraightCalls /\ StraightFrames
    BY DEF RpcInv, RpcStraight
  <2>2. StraightCalls'
    BY <1>1, <2>1 DEF StraightCalls
  <2>3. /\ \A k \in m_map' : k.id = k.n
        /\ \A c \in called' : c.re = c.n
    <3>1. \A k \in m_map : k.id = k.n
      BY <2>1 DEF StraightFrames
    <3>2. \A c \in called : c.re = c.n
      BY <2>1 DEF StraightFrames
    <3>3. m.type = "response" => m.id = m.n
      BY <1>9, <2>1 DEF StraightFrames
    <3>4. ASSUME NEW c \in called', c \notin called
          PROVE  c.re = c.n
      <4>1. m.type = "response" /\ c \in {[n |-> k.n, re |-> m.n] : k \in found}
        BY <1>1, <3>4
      <4>2. PICK k \in found : c = [n |-> k.n, re |-> m.n]
        BY <4>1
      <4>3. k \in m_map /\ k.id = m.id
        BY DEF found
      <4>4. c.n = k.n /\ c.re = m.n
        BY <4>2
      <4> QED BY <3>1, <3>3, <4>1, <4>3, <4>4
    <3>5. \A k \in m_map' : k \in m_map
      BY <1>1
    <3> QED BY <3>1, <3>2, <3>4, <3>5
  <2>4. \A t \in Posted(rpc_tasks') : t.m.type = "request" => t \in Posted(rpc_tasks)
    BY <1>2, <1>4, <1>12
  <2>5. Posted(unp') \subseteq Posted(unp) /\ Posted(net') = Posted(net) /\ Posted(peer') = Posted(peer)
    BY <1>1, <1>3
  <2>6. StraightFrames'
    BY <1>1, <2>1, <2>3, <2>4, <2>5 DEF StraightFrames
  <2> QED BY <2>2, <2>6
<1> QED BY <1>1, <1>10, <1>13, <1>14, <1>15, <1>16, <1>17 DEF RpcInv

(* A segment arrives: messages move, in their order.                       *)
LEMMA ArriveKeeps ==
  ASSUME RpcInv, Rpc!Arrive
  PROVE  RpcInv'
<1> DEFINE x == Rpc!Task("data", Rpc!NoMessage)
<1>1. /\ waiting /\ waiting' = FALSE /\ rpc_tasks' = Append(rpc_tasks, x)
      /\ UNCHANGED <<m_wq, m_id, calls, at, cur, raced, called, lost, m_map, peer,
                     rpc_asked, link, answers, ended>>
  BY DEF Rpc!Arrive, Rpc!caller, Rpc!local, Rpc!fates
<1>2. PICK cut \in 1..Len(net) : /\ unp' = unp \o SubSeq(net, 1, cut)
                                 /\ net' = SubSeq(net, cut + 1, Len(net))
  BY DEF Rpc!Arrive
<1>3. /\ unp \in Seq(Rpc!Message) /\ net \in Seq(Rpc!Message)
      /\ Follows(unp, MessageOrder) /\ Follows(net, MessageOrder)
      /\ \A k \in Posted(unp), l \in Posted(net) : <<k, l>> \in MessageOrder
  BY RpcTypesNow DEF RpcInv, RpcOrder
<1>4. /\ unp' \in Seq(Rpc!Message) /\ net' \in Seq(Rpc!Message) /\ unp' # <<>>
      /\ Follows(unp', MessageOrder) /\ Follows(net', MessageOrder)
      /\ \A k \in Posted(unp'), l \in Posted(net') : <<k, l>> \in MessageOrder
      /\ Posted(unp') \cup Posted(net') = Posted(unp) \cup Posted(net)
  <2>1. Moved(unp, net, cut, unp', net')
    BY <1>2 DEF Moved
  <2> HIDE <1>2
  <2> QED BY <1>3, <2>1, FollowsMoved
<1>5. rpc_tasks \in Seq(RpcTasks) /\ Follows(rpc_tasks, TaskOrder)
      /\ \A t \in Posted(rpc_tasks) : t \in RpcTasks /\ ~Reads(t)
  <2>1. rpc_tasks \in Seq(RpcTasks) /\ Follows(rpc_tasks, TaskOrder)
    BY DEF RpcInv, RpcKnown, RpcOrder, Rpc!TypeOK, RpcTasks
  <2>2. \A t \in Posted(rpc_tasks) : ~Reads(t)
    BY <1>1 DEF RpcInv, RpcReads
  <2> QED BY <2>1, <2>2 DEF Posted
<1>6. /\ x \in RpcTasks /\ x.what = "data" /\ x.m.type = "other" /\ ~Answers(x)
  BY DEF Rpc!Task, Rpc!NoMessage, Rpc!Made, RpcTasks, Rpc!What, Rpc!Message, Rpc!Types,
     Answers
<1> HIDE DEF x
<1>7. \A t \in Posted(rpc_tasks) : <<t, x>> \in TaskOrder
  BY <1>5, <1>6 DEF TaskOrder, Related
<1>8. /\ Posted(Append(rpc_tasks, x)) = Posted(rpc_tasks) \cup {x}
      /\ Append(rpc_tasks, x) \in Seq(RpcTasks)
      /\ Carried(Append(rpc_tasks, x)) = Carried(rpc_tasks)
      /\ Follows(Append(rpc_tasks, x), TaskOrder)
  BY <1>5, <1>6, <1>7, RpcTaskAdds, AppendElements, CarriedAppended, FollowsAppended
<1>9. RpcReads'
  <2>1. ~ended
    BY <1>1 DEF RpcInv, RpcReads
  <2> QED BY <1>1, <2>1 DEF RpcReads
<1>10. RpcFates' /\ RpcStraight'
  <2>1. \A t \in Posted(rpc_tasks') : t.m.type = "request" => t \in Posted(rpc_tasks)
    BY <1>1, <1>6, <1>8
  <2> HIDE <1>2
  <2> QED BY <1>1, <1>4, <1>8, <2>1, FatesStay, QuietStays
<1>11. RpcKnown'
  <2>1. {waiting', link', ended', raced'} \subseteq BOOLEAN
    BY <1>1, Zenon DEF RpcInv, RpcKnown, Rpc!TypeOK
  <2>2. Rpc!TypeOK'
    <3>1. rpc_tasks' \in Seq([what : Rpc!What, m : Rpc!Message])
      BY <1>1, <1>8 DEF RpcTasks
    <3> HIDE <1>2
    <3> QED BY <1>1, <1>4, <2>1, <3>1 DEF RpcInv, RpcKnown, Rpc!TypeOK
  <2>3. \A t \in Posted(rpc_tasks') :
          /\ t.what # "resume"
          /\ t.m.type = "request" => t.what \in {"push", "written", "failed"}
          /\ t.m.type = "response" => t.m.id \in 1..rpc_asked'
          /\ t.what = "data" => unp' # <<>>
    BY <1>1, <1>4, <1>6, <1>8 DEF RpcInv, RpcKnown
  <2>4. \A m \in Posted(unp') \cup Posted(net') : m.type # "response" => m.id \in 1..rpc_asked'
    BY <1>1, <1>4 DEF RpcInv, RpcKnown
  <2> QED BY <1>1, <2>2, <2>3, <2>4 DEF RpcInv, RpcKnown
<1>12. RpcOrder'
  <2>1. TaskOrder' = TaskOrder /\ MessageOrder' = MessageOrder
    BY DEF TaskOrder, MessageOrder
  <2>2. Posted(answers') = Posted(answers) /\ Posted(rpc_tasks') = Posted(rpc_tasks) \cup {x}
    BY <1>1, <1>8
  <2>3. \A t \in Posted(rpc_tasks'), m \in Posted(unp') \cup Posted(net') :
          Answers(t) /\ m.type # "response" => t.m.id < m.id
    BY <1>4, <1>6, <2>2 DEF RpcInv, RpcOrder
  <2>4. \A n \in Posted(answers') :
          /\ \A t \in Posted(rpc_tasks') : Answers(t) => n < t.m.id
          /\ \A m \in Posted(unp') \cup Posted(net') : m.type # "response" => n < m.id
    BY <1>4, <1>6, <2>2 DEF RpcInv, RpcOrder
  <2>5. Rpc!AnswersInOrder'
    BY <1>1 DEF RpcInv, RpcOrder, Rpc!AnswersInOrder
  <2> QED BY <1>1, <1>4, <1>8, <2>1, <2>3, <2>4, <2>5 DEF RpcOrder
<1> QED BY <1>9, <1>10, <1>11, <1>12 DEF RpcInv

LEMMA BrokenKeeps ==
  ASSUME RpcInv, Rpc!Broken
  PROVE  RpcInv'
<1> DEFINE x == Rpc!Task("error", Rpc!NoMessage)
<1>1. /\ link' = FALSE /\ waiting' = FALSE
      /\ rpc_tasks' = (IF waiting THEN Append(rpc_tasks, x) ELSE rpc_tasks)
      /\ UNCHANGED <<m_wq, m_id, calls, at, cur, raced, called, lost, m_map, unp, net, peer,
                     rpc_asked, answers, ended>>
  BY DEF Rpc!Broken, Rpc!caller, Rpc!local, Rpc!fates
<1>2. rpc_tasks \in Seq(RpcTasks) /\ Follows(rpc_tasks, TaskOrder)
      /\ \A t \in Posted(rpc_tasks) : t \in RpcTasks
  <2>1. rpc_tasks \in Seq(RpcTasks) /\ Follows(rpc_tasks, TaskOrder)
    BY DEF RpcInv, RpcKnown, RpcOrder, Rpc!TypeOK, RpcTasks
  <2> QED BY <2>1 DEF Posted
<1>3. /\ x \in RpcTasks /\ x.what = "error" /\ x.m.type = "other" /\ ~Answers(x)
  BY DEF Rpc!Task, Rpc!NoMessage, Rpc!Made, RpcTasks, Rpc!What, Rpc!Message, Rpc!Types,
     Answers
<1> HIDE DEF x
<1>4. /\ Posted(Append(rpc_tasks, x)) = Posted(rpc_tasks) \cup {x}
      /\ Append(rpc_tasks, x) \in Seq(RpcTasks)
      /\ Carried(Append(rpc_tasks, x)) = Carried(rpc_tasks)
  BY <1>2, <1>3, RpcTaskAdds, AppendElements, CarriedAppended
<1>5. waiting => Follows(Append(rpc_tasks, x), TaskOrder)
  <2> SUFFICES ASSUME waiting
               PROVE  Follows(Append(rpc_tasks, x), TaskOrder)
    OBVIOUS
  <2>1. \A t \in Posted(rpc_tasks) : ~Reads(t)
    BY DEF RpcInv, RpcReads
  <2>2. \A t \in Posted(rpc_tasks) : <<t, x>> \in TaskOrder
    BY <1>2, <1>3, <2>1 DEF TaskOrder, Related
  <2> QED BY <1>2, <1>3, <2>2, FollowsAppended
<1>6. /\ rpc_tasks' \in Seq(RpcTasks) /\ Follows(rpc_tasks', TaskOrder)
      /\ Carried(rpc_tasks') = Carried(rpc_tasks)
      /\ \A t \in Posted(rpc_tasks') : t \in Posted(rpc_tasks) \/ (t = x /\ waiting)
  <2>1. CASE waiting
    BY <1>1, <1>4, <1>5, <2>1
  <2>2. CASE ~waiting
    BY <1>1, <1>2, <2>2
  <2> QED BY <2>1, <2>2
<1>7. RpcReads'
  <2>1. ASSUME ended
        PROVE  \A t \in Posted(rpc_tasks') : ~Reads(t)
    BY <1>6, <2>1 DEF RpcInv, RpcReads
  <2> QED BY <1>1, <2>1 DEF RpcReads
<1>8. RpcFates' /\ RpcStraight'
  <2>1. /\ Posted(unp') = Posted(unp) /\ Posted(net') = Posted(net)
        /\ \A t \in Posted(rpc_tasks') : t.m.type = "request" => t \in Posted(rpc_tasks)
    BY <1>1, <1>3, <1>6
  <2> QED BY <1>1, <1>6, <2>1, FatesStay, QuietStays
<1>9. RpcKnown'
  <2>1. {waiting', link', ended', raced'} \subseteq BOOLEAN
    BY <1>1, Zenon DEF RpcInv, RpcKnown, Rpc!TypeOK
  <2>2. Rpc!TypeOK'
    BY <1>1, <1>6, <2>1 DEF RpcInv, RpcKnown, Rpc!TypeOK, RpcTasks
  <2> QED BY <1>1, <1>3, <1>6, <2>2 DEF RpcInv, RpcKnown
<1>10. RpcOrder'
  BY <1>1, <1>3, <1>6, OrderStays
<1> QED BY <1>7, <1>8, <1>9, <1>10 DEF RpcInv

(* The other end answers, or makes up a message.                           *)
LEMMA PeerKeeps ==
  ASSUME RpcInv, BoundsAssumption, Rpc!PeerHandles \/ Rpc!PeerSends
  PROVE  RpcInv'
<1>1. /\ UNCHANGED <<rpc_tasks, m_wq, m_id, calls, at, cur, raced, called, lost, m_map,
                     waiting, unp, link, answers, ended>>
      /\ \/ net' = net
         \/ \E m \in Rpc!Message :
              /\ net' = Append(net, m)
              /\ m.type # "response" => rpc_asked' = rpc_asked + 1 /\ m.id = rpc_asked + 1
              /\ m.type = "response" => \E k \in Posted(peer) : m.id = k.id /\ m.n = k.n
      /\ \/ rpc_asked' = rpc_asked
         \/ rpc_asked < MaxAsked /\ rpc_asked' = rpc_asked + 1
      /\ peer' = peer \/ (peer # <<>> /\ peer' = Tail(peer))
  <2>0. calls \in Nat /\ rpc_asked \in Nat /\ peer \in Seq(Rpc!Message)
    BY DEF RpcInv, RpcKnown, Rpc!TypeOK, BoundsAssumption
  <2>1. CASE Rpc!PeerHandles
    <3>1. /\ UNCHANGED <<rpc_tasks, m_wq, m_id, calls, at, cur, raced, called, lost, m_map,
                         waiting, unp, rpc_asked, link, answers, ended>>
          /\ peer # <<>> /\ peer' = Tail(peer)
          /\ net' = net \/ net' = Append(net, [Head(peer) EXCEPT !.type = "response"])
      BY <2>1 DEF Rpc!PeerHandles, Rpc!caller, Rpc!local, Rpc!fates
    <3>2. Head(peer) \in Rpc!Message /\ Head(peer) \in Posted(peer)
      BY <2>0, <3>1, TailElements, PostedTail
    <3> DEFINE m == [Head(peer) EXCEPT !.type = "response"]
    <3>3. /\ m \in Rpc!Message /\ m.type = "response"
          /\ m.id = Head(peer).id /\ m.n = Head(peer).n
      BY <3>2 DEF Rpc!Message, Rpc!Types
    <3> QED BY <3>1, <3>2, <3>3
  <2>2. CASE Rpc!PeerSends
    <3>1. /\ UNCHANGED <<rpc_tasks, m_wq, m_id, calls, at, cur, raced, called, lost, m_map,
                         waiting, unp, peer, link, answers, ended>>
          /\ rpc_asked < MaxAsked /\ rpc_asked' = rpc_asked + 1
      BY <2>2 DEF Rpc!PeerSends, Rpc!caller, Rpc!local, Rpc!fates
    <3>2. PICK type \in Rpc!Types \ {"response"} :
            net' = Append(net, Rpc!Made(type, rpc_asked + 1))
      BY <2>2 DEF Rpc!PeerSends
    <3>3. /\ Rpc!Made(type, rpc_asked + 1) \in Rpc!Message
          /\ Rpc!Made(type, rpc_asked + 1).type # "response"
          /\ Rpc!Made(type, rpc_asked + 1).id = rpc_asked + 1
      BY <2>0 DEF Rpc!Message, Rpc!Made
    <3> QED BY <3>1, <3>2, <3>3
  <2> QED BY <2>1, <2>2
<1>2. /\ net \in Seq(Rpc!Message) /\ unp \in Seq(Rpc!Message)
      /\ Follows(net, MessageOrder) /\ answers \in Seq(1..rpc_asked) /\ peer \in Seq(Rpc!Message)
  BY RpcTypesNow DEF RpcInv, RpcOrder
<1>3. /\ rpc_asked \in 0..MaxAsked /\ MaxAsked \in Nat /\ rpc_asked' \in 0..MaxAsked
      /\ 1..rpc_asked \subseteq 1..rpc_asked'
      /\ rpc_asked' # rpc_asked => rpc_asked + 1 \in 1..rpc_asked'
  <2>1. rpc_asked \in 0..MaxAsked /\ MaxAsked \in Nat
    BY DEF RpcInv, RpcKnown, Rpc!TypeOK, BoundsAssumption
  <2>2. rpc_asked' = rpc_asked \/ (rpc_asked < MaxAsked /\ rpc_asked' = rpc_asked + 1)
    BY <1>1
  <2> QED BY <2>1, <2>2
<1>4. /\ net' \in Seq(Rpc!Message) /\ Follows(net', MessageOrder)
      /\ \A m \in Posted(net') :
           \/ m \in Posted(net)
           \/ /\ m \in Rpc!Message
              /\ m.type # "response" => m.id = rpc_asked + 1 /\ m.id \in 1..rpc_asked'
              /\ m.type = "response" => \E k \in Posted(peer) : m.id = k.id /\ m.n = k.n
  <2>1. CASE net' = net
    BY <1>2, <2>1
  <2>2. ASSUME NEW m \in Rpc!Message, net' = Append(net, m),
               m.type # "response" => rpc_asked' = rpc_asked + 1 /\ m.id = rpc_asked + 1,
               m.type = "response" => \E k \in Posted(peer) : m.id = k.id /\ m.n = k.n
        PROVE  /\ net' \in Seq(Rpc!Message) /\ Follows(net', MessageOrder)
               /\ \A k \in Posted(net') :
                    \/ k \in Posted(net)
                    \/ /\ k \in Rpc!Message
                       /\ k.type # "response" => k.id = rpc_asked + 1 /\ k.id \in 1..rpc_asked'
                       /\ k.type = "response" => \E l \in Posted(peer) : k.id = l.id /\ k.n = l.n
    <3>1. net' \in Seq(Rpc!Message)
      BY <1>2, <2>2, AppendElements
    <3>2. Posted(Append(net, m)) = Posted(net) \cup {m}
      BY <1>2, PostedAppended
    <3>3. ASSUME NEW k \in Posted(net)
          PROVE  <<k, m>> \in MessageOrder
      <4>1. k \in Rpc!Message
        BY <1>2 DEF Posted
      <4>2. k.type # "response" => k.id \in 1..rpc_asked
        BY DEF RpcInv, RpcKnown
      <4>3. k.type # "response" /\ m.type # "response" => k.id < m.id
        BY <1>3, <2>2, <4>2
      <4> QED BY <4>1, <4>3 DEF MessageOrder
    <3>4. Follows(Append(net, m), MessageOrder)
      BY <1>2, <3>3, FollowsAppended
    <3>5. m.type # "response" => m.id = rpc_asked + 1 /\ m.id \in 1..rpc_asked'
      BY <1>3, <2>2
    <3> QED BY <2>2, <3>1, <3>2, <3>4, <3>5
  <2> QED BY <1>1, <2>1, <2>2
<1>5. peer' \in Seq(Rpc!Message) /\ Posted(peer') \subseteq Posted(peer)
  <2>1. peer # <<>> =>
          Tail(peer) \in Seq(Rpc!Message) /\ Posted(Tail(peer)) \subseteq Posted(peer)
    BY <1>2, TailElements, PostedTail
  <2> QED BY <1>1, <1>2, <2>1
<1>6. answers' \in Seq(1..rpc_asked')
  BY <1>1, <1>2, <1>3, SeqGrows
<1>7. RpcReads' /\ RpcFates' /\ RpcStraight'
  <2>1. RpcReads'
    BY <1>1 DEF RpcInv, RpcReads
  <2>2. /\ Posted(unp') = Posted(unp) /\ Posted(rpc_tasks') = Posted(rpc_tasks)
        /\ link' = link
    BY <1>1
  <2>3. \A m \in Posted(unp') \cup Posted(net') : m.type = "response" =>
          \/ m \in Posted(unp) \cup Posted(net)
          \/ \E k \in Posted(peer) : m.id = k.id /\ m.n = k.n
    BY <1>4, <2>2
  <2>4. RpcStraight'
    BY <1>1, <1>5, <2>2, <2>3, StraightStays
  <2>5. Carried(rpc_tasks') = Carried(rpc_tasks)
    BY <1>1
  <2> QED BY <1>1, <2>1, <2>4, <2>5, FatesStay
<1>8. RpcKnown'
  <2>1. {waiting', link', ended', raced'} \subseteq BOOLEAN
    BY <1>1, Zenon DEF RpcInv, RpcKnown, Rpc!TypeOK
  <2>2. Rpc!TypeOK'
    <3>1. /\ rpc_tasks' = rpc_tasks /\ m_wq' = m_wq /\ unp' = unp /\ calls' = calls
          /\ m_map' = m_map /\ called' = called /\ lost' = lost
          /\ m_id' = m_id /\ at' = at /\ cur' = cur
      BY <1>1
    <3> QED BY <1>3, <1>4, <1>5, <1>6, <2>1, <3>1 DEF RpcInv, RpcKnown, Rpc!TypeOK
  <2>3. \A t \in Posted(rpc_tasks') :
          /\ t.what # "resume"
          /\ t.m.type = "request" => t.what \in {"push", "written", "failed"}
          /\ t.m.type = "response" => t.m.id \in 1..rpc_asked'
          /\ t.what = "data" => unp' # <<>>
    BY <1>1, <1>3 DEF RpcInv, RpcKnown
  <2>4. \A m \in Posted(unp') \cup Posted(net') : m.type # "response" => m.id \in 1..rpc_asked'
    BY <1>1, <1>3, <1>4 DEF RpcInv, RpcKnown
  <2> QED BY <1>1, <2>2, <2>3, <2>4 DEF RpcInv, RpcKnown
<1>9. RpcOrder'
  <2>1. TaskOrder' = TaskOrder /\ MessageOrder' = MessageOrder
    BY DEF TaskOrder, MessageOrder
  <2>2. /\ Posted(answers') = Posted(answers) /\ Posted(rpc_tasks') = Posted(rpc_tasks)
        /\ Posted(unp') = Posted(unp)
    BY <1>1
  <2>3. /\ \A k \in Posted(unp) : k \in Rpc!Message /\ (k.type # "response" => k.id \in 1..rpc_asked)
        /\ \A n \in Posted(answers) : n \in 1..rpc_asked
        /\ \A t \in Posted(rpc_tasks) : Answers(t) => t.m.id \in 1..rpc_asked
    <3>1. \A k \in Posted(unp) : k \in Rpc!Message
      BY <1>2 DEF Posted
    <3>2. \A n \in Posted(answers) : n \in 1..rpc_asked
      <4> SUFFICES ASSUME NEW i \in 1..Len(answers)
                   PROVE  answers[i] \in 1..rpc_asked
        BY DEF Posted
      <4> DEFINE S == 1..rpc_asked
      <4>1. answers \in Seq(S)
        BY <1>2
      <4> HIDE DEF S
      <4>2. answers[i] \in S
        BY <4>1
      <4> QED BY <4>2 DEF S
    <3> QED BY <3>1, <3>2 DEF RpcInv, RpcKnown, Answers
  <2>4. \A k \in 1..rpc_asked : k < rpc_asked + 1
    BY <1>3
  <2>5. ASSUME NEW m \in Posted(net'), m \notin Posted(net)
        PROVE  /\ m \in Rpc!Message
               /\ m.type # "response" => m.id = rpc_asked + 1
    BY <1>4, <2>5
  <2>6. \A k \in Posted(unp'), m \in Posted(net') : <<k, m>> \in MessageOrder
    <3> SUFFICES ASSUME NEW k \in Posted(unp), NEW m \in Posted(net'), m \notin Posted(net)
                 PROVE  <<k, m>> \in MessageOrder
      BY <2>2 DEF RpcInv, RpcOrder
    <3> QED BY <2>3, <2>4, <2>5 DEF MessageOrder
  <2>7. \A t \in Posted(rpc_tasks'), m \in Posted(unp') \cup Posted(net') :
          Answers(t) /\ m.type # "response" => t.m.id < m.id
    <3> SUFFICES ASSUME NEW t \in Posted(rpc_tasks), NEW m \in Posted(net'), m \notin Posted(net),
                        Answers(t), m.type # "response"
                 PROVE  t.m.id < m.id
      BY <2>2 DEF RpcInv, RpcOrder
    <3> QED BY <2>3, <2>4, <2>5
  <2>8. \A n \in Posted(answers') :
          /\ \A t \in Posted(rpc_tasks') : Answers(t) => n < t.m.id
          /\ \A m \in Posted(unp') \cup Posted(net') : m.type # "response" => n < m.id
    <3>1. ASSUME NEW n \in Posted(answers), NEW m \in Posted(net'), m \notin Posted(net),
                 m.type # "response"
          PROVE  n < m.id
      BY <2>3, <2>4, <2>5, <3>1
    <3> QED BY <2>2, <3>1 DEF RpcInv, RpcOrder
  <2>9. Rpc!AnswersInOrder'
    BY <1>1 DEF RpcInv, RpcOrder, Rpc!AnswersInOrder
  <2>10. Follows(rpc_tasks', TaskOrder) /\ Follows(unp', MessageOrder)
    BY <1>1 DEF RpcInv, RpcOrder
  <2> QED BY <1>4, <2>1, <2>6, <2>7, <2>8, <2>9, <2>10 DEF RpcOrder
<1> QED BY <1>7, <1>8, <1>9 DEF RpcInv

LEMMA RpcStays ==
  ASSUME RpcInv, UNCHANGED rpc_vars
  PROVE  RpcInv'
<1>1. TaskOrder' = TaskOrder /\ MessageOrder' = MessageOrder
  BY DEF TaskOrder, MessageOrder
<1>2. UNCHANGED <<rpc_tasks, m_wq, m_id, m_map, calls, at, cur, called, lost, raced, waiting,
                  unp, net, peer, rpc_asked, answers, link, ended>>
  BY DEF rpc_vars
<1>3. RpcKnown'
  <2>1. {waiting', link', ended', raced'} \subseteq BOOLEAN
    BY <1>2, Zenon DEF RpcInv, RpcKnown, Rpc!TypeOK
  <2> QED BY <1>2, <2>1 DEF RpcInv, RpcKnown, Rpc!TypeOK
<1>4. RpcReads' /\ RpcFates' /\ RpcStraight'
  <2>1. /\ Posted(unp') = Posted(unp) /\ Posted(net') = Posted(net)
        /\ Posted(rpc_tasks') = Posted(rpc_tasks) /\ Carried(rpc_tasks') = Carried(rpc_tasks)
    BY <1>2
  <2> QED BY <1>2, <2>1, FatesStay, QuietStays DEF RpcInv, RpcReads
<1>5. RpcOrder'
  BY <1>1, <1>2 DEF RpcInv, RpcOrder, Rpc!AnswersInOrder
<1> QED BY <1>3, <1>4, <1>5 DEF RpcInv

(* A message is read, or none is there.                                    *)
LEMMA ParseKeeps ==
  ASSUME RpcInv, Rpc!RunParse \/ Rpc!RunData
  PROVE  /\ RpcInv'
         /\ called' = called \/ (~ended /\ ~ended')
<1>1. /\ rpc_tasks # <<>> /\ Head(rpc_tasks).what \in {"parse", "data"}
      /\ Reads(Head(rpc_tasks))
  BY DEF Rpc!RunParse, Rpc!RunData, Rpc!Run, Reads
<1>2. Head(rpc_tasks) \in Posted(rpc_tasks)
  BY <1>1, RpcTaken
<1>3. CASE unp # <<>> /\ unp' = Tail(unp) /\ Rpc!Dispatch(Head(unp))
  BY <1>1, <1>3, DispatchKeeps
<1>4. CASE Rpc!RunData
  <2>1. Head(rpc_tasks).what = "data" /\ unp' = Tail(unp) /\ Rpc!Dispatch(Head(unp))
    BY <1>4 DEF Rpc!RunData, Rpc!Run
  <2>2. unp # <<>>
    BY <1>2, <2>1 DEF RpcInv, RpcKnown
  <2> QED BY <1>3, <2>1, <2>2
<1>5. CASE /\ Rpc!RunParse /\ unp = <<>> /\ waiting' = link
           /\ rpc_tasks' = Tail(rpc_tasks)
                             \o (IF link THEN <<>> ELSE <<Rpc!Task("error", Rpc!NoMessage)>>)
           /\ UNCHANGED <<m_wq, m_id, calls, at, cur, raced, called, lost, m_map, unp, net,
                          peer, rpc_asked, link, answers, ended>>
  <2>1. Rpc!Run("parse")
    BY <1>5 DEF Rpc!RunParse
  <2> QED BY <1>5, <2>1, EmptyKeeps
<1> QED BY <1>3, <1>4, <1>5 DEF Rpc!RunParse, Rpc!caller, Rpc!local, Rpc!fates, Rpc!other

(* Nothing resumes the writer.                                             *)
LEMMA NoResume ==
  ASSUME RpcInv
  PROVE  ~Rpc!RunResume
<1> SUFFICES ASSUME Rpc!RunResume
             PROVE  FALSE
  OBVIOUS
<1>1. rpc_tasks # <<>> /\ Head(rpc_tasks).what = "resume"
  BY DEF Rpc!RunResume, Rpc!Run
<1>2. Head(rpc_tasks) \in Posted(rpc_tasks)
  BY <1>1, RpcTaken
<1> QED BY <1>1, <1>2 DEF RpcInv, RpcKnown

(* Each step keeps the invariant, and no handler is called by one that the *)
(* end of the connection precedes.                                         *)
LEMMA RpcInductive ==
  ASSUME RpcInv, BoundsAssumption, ConnectionsNext \/ UNCHANGED rpc_vars
  PROVE  RpcInv' /\ (ended' => UNCHANGED called)
<1>1. ASSUME NEW t \in Rpc!Threads, Rpc!Pack(t) \/ Rpc!Calls(t)
      PROVE  RpcInv' /\ UNCHANGED called
  <2>1. called' = called
    BY <1>1 DEF Rpc!Pack, Rpc!Calls, Rpc!Capture, Rpc!Load, Rpc!Store, Rpc!fates
  <2> QED BY <1>1, <2>1, PackKeeps, CaptureKeeps, IncrementKeeps DEF Rpc!Calls
<1>2. CASE Rpc!RunPush
  <2>1. called' = called
    BY <1>2 DEF Rpc!RunPush, Rpc!caller, Rpc!local, Rpc!fates
  <2> QED BY <1>2, <2>1, PushKeeps
<1>3. CASE Rpc!RunResume
  BY <1>3, NoResume
<1>4. CASE Rpc!RunWritten \/ Rpc!RunWriteFailed
  <2>1. called' = called
    BY <1>4 DEF Rpc!RunWritten, Rpc!RunWriteFailed
  <2> QED BY <1>4, <2>1, WrittenKeeps
<1>5. CASE Rpc!RunRead
  <2>1. called' = called
    BY <1>5 DEF Rpc!RunRead, Rpc!caller, Rpc!local, Rpc!fates
  <2> QED BY <1>5, <2>1, ReadKeeps
<1>6. CASE Rpc!RunParse \/ Rpc!RunData
  BY <1>6, ParseKeeps
<1>7. CASE Rpc!RunError
  <2>1. called' = called
    BY <1>7 DEF Rpc!RunError, Rpc!caller, Rpc!local, Rpc!fates
  <2> QED BY <1>7, <2>1, ErrorKeeps
<1>8. CASE Rpc!Arrive
  <2>1. called' = called
    BY <1>8 DEF Rpc!Arrive, Rpc!caller, Rpc!local, Rpc!fates
  <2> QED BY <1>8, <2>1, ArriveKeeps
<1>9. CASE Rpc!Broken
  <2>1. called' = called
    BY <1>9 DEF Rpc!Broken, Rpc!caller, Rpc!local, Rpc!fates
  <2> QED BY <1>9, <2>1, BrokenKeeps
<1>10. CASE Rpc!PeerHandles \/ Rpc!PeerSends
  <2>1. called' = called
    BY <1>10 DEF Rpc!PeerHandles, Rpc!PeerSends, Rpc!caller, Rpc!local, Rpc!fates
  <2> QED BY <1>10, <2>1, PeerKeeps
<1>11. CASE UNCHANGED rpc_vars
  BY <1>11, RpcStays DEF rpc_vars
<1>12. ConnectionsNext => Rpc!Next
  BY DEF ConnectionsNext, BakWriter, BakReader, BakParse, BakRequester, BakDispatcher,
     Rpc!Next, Rpc!IoThread
<1> QED BY <1>1, <1>2, <1>3, <1>4, <1>5, <1>6, <1>7, <1>8, <1>9, <1>10, <1>11, <1>12
        DEF Rpc!Next, Rpc!IoThread

LEMMA RpcSays ==
  ASSUME RpcInv
  PROVE  Rpc!TypeOK /\ Rpc!OneFate /\ Rpc!ReturnedUnlessRaced /\ Rpc!AnswersInOrder
<1>1. ASSUME NEW n \in 1..calls
      PROVE  Rpc!InWriter(n) <=> n \in Begun \/ n \in Carried(rpc_tasks)
  <2>1. Rpc!InWriter(n) <=>
          \/ \E t \in Rpc!Threads : at[t] = "packed" /\ cur[t].n = n
          \/ \E i \in 1..Len(rpc_tasks) :
               rpc_tasks[i].m.type = "request" /\ rpc_tasks[i].m.n = n
    BY DEF RpcInv, RpcKnown, Rpc!InWriter
  <2>2. n \in Carried(rpc_tasks) <=>
          \E i \in 1..Len(rpc_tasks) :
            rpc_tasks[i].m.type = "request" /\ rpc_tasks[i].m.n = n
    BY DEF Carried, Posted
  <2>3. n \in Begun <=> \E t \in Rpc!Threads : at[t] = "packed" /\ cur[t].n = n
    BY DEF Begun
  <2> QED BY <2>1, <2>2, <2>3
<1>2. ASSUME NEW n \in 1..calls
      PROVE  Rpc!Cardinality({p \in {"writer", "waiting", "called", "lost"} :
               CASE p = "writer" -> Rpc!InWriter(n)
                 [] p = "waiting" -> \E h \in m_map : h.n = n
                 [] p = "called" -> Rpc!Called(n) [] p = "lost" -> n \in lost}) = 1
  <2> DEFINE P == {p \in {"writer", "waiting", "called", "lost"} :
               CASE p = "writer" -> Rpc!InWriter(n)
                 [] p = "waiting" -> \E h \in m_map : h.n = n
                 [] p = "called" -> Rpc!Called(n) [] p = "lost" -> n \in lost}
             W == Begun \cup Carried(rpc_tasks)
  <2>0. /\ (\E h \in m_map : h.n = n) <=> n \in Names(m_map)
        /\ Rpc!Called(n) <=> n \in Names(called)
        /\ Rpc!InWriter(n) <=> n \in W
    BY <1>1 DEF Names, Rpc!Called
  <2>1. /\ "writer" \in P <=> n \in W
        /\ "waiting" \in P <=> n \in Names(m_map)
        /\ "called" \in P <=> n \in Names(called)
        /\ "lost" \in P <=> n \in lost
    BY <2>0
  <2>2. P \subseteq {"writer", "waiting", "called", "lost"}
    OBVIOUS
  <2>3. /\ n \in W \/ n \in Names(m_map) \/ n \in Names(called) \/ n \in lost
        /\ ~(n \in W /\ (n \in Names(m_map) \/ n \in Names(called) \/ n \in lost))
        /\ ~(n \in Names(m_map) /\ (n \in Names(called) \/ n \in lost))
        /\ ~(n \in Names(called) /\ n \in lost)
    BY DEF RpcInv, RpcFates, Split
  <2> HIDE DEF P, W
  <2>4. \E p : P = {p}
    <3>1. CASE "writer" \in P
      <4>1. P = {"writer"}
        BY <2>1, <2>2, <2>3, <3>1
      <4> QED BY <4>1
    <3>2. CASE "waiting" \in P
      <4>1. P = {"waiting"}
        BY <2>1, <2>2, <2>3, <3>2
      <4> QED BY <4>1
    <3>3. CASE "called" \in P
      <4>1. P = {"called"}
        BY <2>1, <2>2, <2>3, <3>3
      <4> QED BY <4>1
    <3>4. CASE "lost" \in P
      <4>1. P = {"lost"}
        BY <2>1, <2>2, <2>3, <3>4
      <4> QED BY <4>1
    <3> QED BY <2>1, <2>3, <3>1, <3>2, <3>3, <3>4
  <2>5. Cardinality(P) = 1
    BY <2>4, FS_Singleton
  <2>6. Rpc!Cardinality(P) = Cardinality(P)
    BY DEF Rpc!Cardinality, Cardinality
  <2> QED BY <2>5, <2>6 DEF P
<1>3. Rpc!ReturnedUnlessRaced
  BY DEF RpcInv, RpcStraight, StraightFrames, Rpc!ReturnedUnlessRaced
<1> QED BY <1>2, <1>3 DEF RpcInv, RpcKnown, RpcOrder, Rpc!OneFate

-----------------------------------------------------------------------------
(* The clients with a console.                                             *)
HelloOf == IF program = "audio-client" THEN 1 ELSE 5

(* The frames of the greeting that are posted.                             *)
Said == IF connecting THEN 0 ELSE HelloOf - greeting

Posts == Old!Frames \cup {Old!Close}

(* A frame x that comes before a frame y.                                  *)
Sent(x, y) ==
  /\ x.from = y.from /\ x.from # "close" => x.n < y.n
  /\ y.from = "user" /\ y.n <= early => x.from # "program"

SentOrder == {p \in Posts \X Posts : Sent(p[1], p[2])}

(* The numbers of the frames are of those that were typed and said; what   *)
(* is typed before the connect handler runs is early, and then nothing is  *)
(* said.                                                                   *)
ClientKnown ==
  /\ Old!TypeOK /\ greeting <= HelloOf
  /\ \A x \in (Posted(wire) \cup Posted(client_wq)) \cup Posted(client_tasks) :
       /\ x.from = "user" => x.n <= commands
       /\ x.from = "program" => x.n <= Said
  /\ connecting => early = commands

(* The order holds from the wire over the writer's frames to the tasks.    *)
ClientOrder ==
  /\ Follows(wire, SentOrder) /\ Follows(client_wq, SentOrder)
  /\ Follows(client_tasks, SentOrder)
  /\ \A x \in Posted(wire), y \in Posted(client_wq) : <<x, y>> \in SentOrder
  /\ \A x \in Posted(wire), y \in Posted(client_tasks) : <<x, y>> \in SentOrder
  /\ \A x \in Posted(client_wq), y \in Posted(client_tasks) : <<x, y>> \in SentOrder

ClientWorks == program = "old-client" => client_io = "running" /\ client_main # "done"

ClientInv == ClientKnown /\ ClientOrder /\ ClientWorks

LEMMA ClientBegins ==
  ASSUME BoundsAssumption, Audio!Init
  PROVE  ClientInv
<1>1. /\ m_socket = "connecting" /\ connecting = TRUE /\ greeting = 0 /\ reading = FALSE
      /\ client_tasks = <<>> /\ client_wq = <<>> /\ wire = <<>>
      /\ client_io = "running" /\ client_main = "typing" /\ commands = 0 /\ early = 0
  BY DEF Audio!Init
<1>2. Posted(wire) = {} /\ Posted(client_wq) = {} /\ Posted(client_tasks) = {}
  BY <1>1 DEF Posted
<1>3. Old!TypeOK
  <2>1. {connecting, reading} \subseteq BOOLEAN /\ (connecting => ~reading /\ greeting = 0)
    BY <1>1, Zenon
  <2> QED BY <1>1, <2>1 DEF Old!TypeOK, BoundsAssumption
<1>4. ClientKnown
  BY <1>1, <1>2, <1>3 DEF ClientKnown, HelloOf
<1>5. ClientOrder
  BY <1>1, <1>2 DEF ClientOrder, Follows
<1>6. ClientWorks
  BY <1>1 DEF ClientWorks
<1> QED BY <1>4, <1>5, <1>6 DEF ClientInv

(* What is known of the frames and tasks.                                  *)
LEMMA ClientTypes ==
  ASSUME ClientInv
  PROVE  /\ wire \in Seq(Posts) /\ client_wq \in Seq(Posts) /\ client_tasks \in Seq(Posts)
         /\ wire \in Seq(Old!Frames) /\ client_wq \in Seq(Old!Frames)
         /\ Posted(wire) \subseteq Posts /\ Posted(client_wq) \subseteq Posts
         /\ Posted(client_tasks) \subseteq Posts
         /\ commands \in Nat /\ early \in Int /\ greeting \in Nat
<1>1. /\ wire \in Seq(Old!Frames) /\ client_wq \in Seq(Old!Frames)
      /\ client_tasks \in Seq(Posts) /\ commands \in 0..MaxCommands /\ greeting \in 0..5
  BY DEF ClientInv, ClientKnown, Old!TypeOK, Posts
<1>2. early \in 0..commands /\ MaxCommands \in Nat
  BY BoundsAssumption DEF ClientInv, ClientKnown, Old!TypeOK, BoundsAssumption
<1>3. wire \in Seq(Posts) /\ client_wq \in Seq(Posts)
  BY <1>1, SeqGrows DEF Posts
<1>4. ASSUME NEW s \in Seq(Posts)
      PROVE  Posted(s) \subseteq Posts
  BY DEF Posted
<1> QED BY <1>1, <1>2, <1>3, <1>4

LEMMA FrameFields ==
  ASSUME NEW x \in Posts
  PROVE  /\ x.from \in {"user", "program", "close"} /\ x.n \in Nat
         /\ x.from \in {"user", "program"} => x.n > 0 /\ x \in Old!Frames
         /\ x.from = "close" => x = Old!Close
<1>1. MaxCommands \in Nat
  BY BoundsAssumption DEF BoundsAssumption
<1> QED BY <1>1 DEF Posts, Old!Frames, Old!Command, Old!Greeting, Old!Close

(* What is posted before the connect handler runs is no greeting.          *)
LEMMA NothingSaid ==
  ASSUME ClientInv, connecting,
         NEW x \in (Posted(wire) \cup Posted(client_wq)) \cup Posted(client_tasks)
  PROVE  x.from # "program"
<1>1. x \in Posts
  BY ClientTypes
<1>2. Said = 0
  BY DEF Said
<1>3. x.from = "program" => x.n <= 0
  BY <1>2 DEF ClientInv, ClientKnown
<1> QED BY <1>1, <1>3, FrameFields

LEMMA FrameAdds ==
  ASSUME NEW s \in Seq(Posts), NEW x \in Posts
  PROVE  /\ Append(s, x) \in Seq(Posts)
         /\ Posted(Append(s, x)) = Posted(s) \cup {x}
<1>1. Append(s, x) \in Seq(Posts)
  BY AppendElements
<1> QED BY <1>1, PostedAppended

(* A frame or task is posted.                                              *)
LEMMA PostKeepsOrder ==
  ASSUME ClientInv, NEW f \in Posts, client_tasks' = Append(client_tasks, f),
         UNCHANGED <<wire, client_wq>>,
         \A x, y \in Posts :
           /\ x \in (Posted(wire) \cup Posted(client_wq)) \cup Posted(client_tasks)
           /\ Sent(x, y)
           => Sent(x, y)',
         \A x \in (Posted(wire) \cup Posted(client_wq)) \cup Posted(client_tasks) :
           Sent(x, f)'
  PROVE  ClientOrder' /\ client_tasks' \in Seq(Posts)
         /\ Posted(client_tasks') = Posted(client_tasks) \cup {f}
<1> DEFINE All == (Posted(wire) \cup Posted(client_wq)) \cup Posted(client_tasks)
<1>1. /\ wire \in Seq(Posts) /\ client_wq \in Seq(Posts) /\ client_tasks \in Seq(Posts)
      /\ Posted(wire) \subseteq Posts /\ Posted(client_wq) \subseteq Posts
      /\ Posted(client_tasks) \subseteq Posts
  BY ClientTypes
<1>2. /\ client_tasks' \in Seq(Posts)
      /\ Posted(client_tasks') = Posted(client_tasks) \cup {f}
  BY <1>1, FrameAdds
<1>3. \A x \in All, y \in Posts : <<x, y>> \in SentOrder => <<x, y>> \in SentOrder'
  <2> SUFFICES ASSUME NEW x \in All, NEW y \in Posts, <<x, y>> \in SentOrder
               PROVE  <<x, y>> \in SentOrder'
    OBVIOUS
  <2>1. x \in Posts
    BY <1>1
  <2>2. Sent(x, y)
    BY DEF SentOrder
  <2>3. Sent(x, y)'
    BY <2>1, <2>2
  <2> QED BY <2>1, <2>3 DEF SentOrder
<1>4. \A x \in All : <<x, f>> \in SentOrder'
  BY <1>1 DEF SentOrder
<1>5. /\ Follows(wire, SentOrder') /\ Follows(client_wq, SentOrder')
      /\ Follows(client_tasks, SentOrder')
  <2>1. ASSUME NEW s \in Seq(Posts), Posted(s) \subseteq All, Follows(s, SentOrder)
        PROVE  Follows(s, SentOrder')
    <3> SUFFICES ASSUME NEW i \in 1..Len(s), NEW j \in 1..Len(s), i < j
                 PROVE  <<s[i], s[j]>> \in SentOrder'
      BY DEF Follows
    <3>1. <<s[i], s[j]>> \in SentOrder /\ s[i] \in All /\ s[j] \in Posts
      BY <1>1, <2>1 DEF Follows, Posted
    <3> QED BY <1>3, <3>1
  <2> QED BY <1>1, <2>1 DEF ClientInv, ClientOrder
<1> HIDE DEF All
<1>6. Follows(Append(client_tasks, f), SentOrder')
  <2>1. \A x \in Posted(client_tasks) : <<x, f>> \in SentOrder'
    BY <1>4 DEF All
  <2> QED BY <1>1, <1>5, <2>1, FollowsAppended
<1>7. /\ \A x \in Posted(wire), y \in Posted(client_wq) : <<x, y>> \in SentOrder'
      /\ \A x \in Posted(wire), y \in Posted(client_tasks) : <<x, y>> \in SentOrder'
      /\ \A x \in Posted(client_wq), y \in Posted(client_tasks) : <<x, y>> \in SentOrder'
  BY <1>1, <1>3 DEF ClientInv, ClientOrder, All
<1>8. /\ \A x \in Posted(wire'), y \in Posted(client_wq') : <<x, y>> \in SentOrder'
      /\ \A x \in Posted(wire'), y \in Posted(client_tasks') : <<x, y>> \in SentOrder'
      /\ \A x \in Posted(client_wq'), y \in Posted(client_tasks') : <<x, y>> \in SentOrder'
  BY <1>2, <1>4, <1>7 DEF All
<1> QED BY <1>2, <1>5, <1>6, <1>8 DEF ClientOrder

(* The user types a command.                                               *)
LEMMA TypeKeeps ==
  ASSUME ClientInv, Old!Type, program' = program
  PROVE  ClientInv'
<1>0. PICK f : f = Old!Command(commands + 1)
  OBVIOUS
<1>1. /\ commands < MaxCommands /\ commands' = commands + 1
      /\ early' = (IF connecting THEN commands' ELSE early)
      /\ client_tasks' = Append(client_tasks, f)
      /\ UNCHANGED <<m_socket, connecting, greeting, reading, client_wq, wire, client_io,
                     client_main>>
  BY <1>0 DEF Old!Type, Old!Command
<1>2. commands \in 0..MaxCommands /\ early \in 0..commands /\ MaxCommands \in Nat
  BY BoundsAssumption DEF ClientInv, ClientKnown, Old!TypeOK, BoundsAssumption
<1>3. f \in Posts /\ f.from = "user" /\ f.n = commands + 1 /\ commands + 1 \in 1..MaxCommands
  <2>1. commands + 1 \in 1..MaxCommands
    BY <1>1, <1>2
  <2> QED BY <1>0, <2>1 DEF Posts, Old!Frames, Old!Command
<1> DEFINE All == (Posted(wire) \cup Posted(client_wq)) \cup Posted(client_tasks)
<1>4. ASSUME NEW x \in All
      PROVE  /\ x \in Posts
             /\ x.from = "user" => x.n <= commands
             /\ connecting => x.from # "program"
  <2>1. x \in Posts
    BY ClientTypes
  <2>2. connecting => x.from # "program"
    BY NothingSaid
  <2> QED BY <2>1, <2>2 DEF ClientInv, ClientKnown
<1>5. \A x, y \in Posts : x \in All /\ Sent(x, y) => Sent(x, y)'
  <2> SUFFICES ASSUME NEW x \in All, NEW y \in Posts, Sent(x, y)
               PROVE  Sent(x, y)'
    OBVIOUS
  <2>1. CASE connecting
    <3>1. x.from # "program"
      BY <1>4, <2>1
    <3> QED BY <3>1 DEF Sent
  <2>2. CASE ~connecting
    <3>1. early' = early
      BY <1>1, <2>2
    <3> QED BY <3>1 DEF Sent
  <2> QED BY <2>1, <2>2
<1>6. \A x \in All : Sent(x, f)'
  <2> SUFFICES ASSUME NEW x \in All
               PROVE  Sent(x, f)'
    OBVIOUS
  <2>1. x.from = f.from /\ x.from # "close" => x.n < f.n
    <3>1. x.n \in Nat
      BY <1>4, FrameFields
    <3> QED BY <1>2, <1>3, <1>4, <3>1
  <2>2. ~connecting => ~(f.n <= early')
    BY <1>1, <1>2, <1>3
  <2>3. f.n <= early' => x.from # "program"
    BY <1>4, <2>2
  <2> QED BY <2>1, <2>3 DEF Sent
<1>7. /\ ClientOrder' /\ client_tasks' \in Seq(Posts)
      /\ Posted(client_tasks') = Posted(client_tasks) \cup {f}
  BY <1>1, <1>3, <1>5, <1>6, PostKeepsOrder
<1>8. Old!TypeOK'
  <2>1. {connecting', reading'} \subseteq BOOLEAN
    BY <1>1, Zenon DEF ClientInv, ClientKnown, Old!TypeOK
  <2>2. commands' \in 0..MaxCommands /\ early' \in 0..commands'
    BY <1>1, <1>2
  <2>3. UNCHANGED <<m_socket, connecting, greeting, reading, client_wq, wire, client_io,
                     client_main>>
    BY <1>1
  <2> QED BY <1>7, <2>1, <2>2, <2>3 DEF ClientInv, ClientKnown, Old!TypeOK, Posts
<1>9. ClientKnown'
  <2>1. HelloOf' = HelloOf /\ Said' = Said
    BY <1>1 DEF HelloOf, Said
  <2>2. ASSUME NEW x \in (Posted(wire') \cup Posted(client_wq')) \cup Posted(client_tasks')
        PROVE  /\ x.from = "user" => x.n <= commands'
               /\ x.from = "program" => x.n <= Said'
    <3>1. x \in All \/ x = f
      BY <1>1, <1>7
    <3>2. CASE x \in All
      <4>1. x.n \in Nat
        BY <1>4, <3>2, FrameFields
      <4>2. x.from = "user" => x.n <= commands'
        BY <1>1, <1>2, <1>4, <3>2, <4>1
      <4> QED BY <2>1, <3>2, <4>2 DEF ClientInv, ClientKnown
    <3>3. CASE x = f
      BY <1>1, <1>2, <1>3, <3>3
    <3> QED BY <3>1, <3>2, <3>3
  <2>3. greeting' <= HelloOf' /\ (connecting' => early' = commands')
    BY <1>1, <2>1 DEF ClientInv, ClientKnown
  <2> QED BY <1>8, <2>2, <2>3 DEF ClientKnown
<1>10. ClientWorks'
  BY <1>1 DEF ClientInv, ClientWorks
<1> QED BY <1>7, <1>9, <1>10 DEF ClientInv

(* The loop ends, and the close is posted.                                 *)
LEMMA CloseKeeps ==
  ASSUME ClientInv, Old!Exit, program' = program
  PROVE  ClientInv'
<1>1. /\ client_main' = "joining"
      /\ client_tasks' = Append(client_tasks, Old!Close)
      /\ UNCHANGED <<m_socket, connecting, greeting, reading, client_wq, wire, client_io,
                     commands, early>>
  BY DEF Old!Exit
<1>2. Old!Close \in Posts /\ Old!Close.from = "close"
  BY DEF Posts, Old!Close
<1> DEFINE All == (Posted(wire) \cup Posted(client_wq)) \cup Posted(client_tasks)
<1>3. \A x, y \in Posts : x \in All /\ Sent(x, y) => Sent(x, y)'
  BY <1>1 DEF Sent
<1>4. \A x \in All : Sent(x, Old!Close)'
  BY <1>2 DEF Sent
<1>5. /\ ClientOrder' /\ client_tasks' \in Seq(Posts)
      /\ Posted(client_tasks') = Posted(client_tasks) \cup {Old!Close}
  BY <1>1, <1>2, <1>3, <1>4, PostKeepsOrder
<1>6. Old!TypeOK'
  <2>1. {connecting', reading'} \subseteq BOOLEAN
    BY <1>1, Zenon DEF ClientInv, ClientKnown, Old!TypeOK
  <2>2. UNCHANGED <<m_socket, connecting, greeting, reading, client_wq, wire, client_io,
                    commands, early>>
    BY <1>1
  <2> QED BY <1>1, <1>5, <2>1, <2>2 DEF ClientInv, ClientKnown, Old!TypeOK, Posts
<1>7. ClientKnown'
  <2>1. HelloOf' = HelloOf /\ Said' = Said
    BY <1>1 DEF HelloOf, Said
  <2> QED BY <1>1, <1>2, <1>5, <1>6, <2>1 DEF ClientInv, ClientKnown
<1>8. ClientWorks'
  BY <1>1 DEF ClientInv, ClientWorks
<1> QED BY <1>5, <1>7, <1>8 DEF ClientInv

(* A step that leaves the frames, and takes none back.                     *)
LEMMA FramesStay ==
  ASSUME ClientInv, UNCHANGED <<wire, client_wq, client_tasks, commands, early>>,
         program' = program, Old!TypeOK', greeting' <= HelloOf,
         \/ UNCHANGED <<connecting, greeting>>
         \/ connecting /\ ~connecting'
  PROVE  ClientKnown' /\ ClientOrder'
<1>1. ClientOrder'
  <2>1. SentOrder' = SentOrder
    BY DEF SentOrder, Sent
  <2> QED BY <2>1 DEF ClientInv, ClientOrder
<1>2. ClientKnown'
  <2>1. HelloOf' = HelloOf
    BY DEF HelloOf
  <2>2. ASSUME NEW x \in (Posted(wire) \cup Posted(client_wq)) \cup Posted(client_tasks)
        PROVE  x.from = "program" => x.n <= Said'
    <3>1. CASE UNCHANGED <<connecting, greeting>>
      BY <2>1, <3>1 DEF Said, ClientInv, ClientKnown
    <3>2. CASE connecting /\ ~connecting'
      BY <3>2, NothingSaid
    <3> QED BY <3>1, <3>2
  <2>3. connecting' => early' = commands'
    BY DEF ClientInv, ClientKnown
  <2> QED BY <2>1, <2>2, <2>3 DEF ClientInv, ClientKnown
<1> QED BY <1>1, <1>2

LEMMA JoinKeeps ==
  ASSUME ClientInv, Old!Join, program' = program
  PROVE  ClientInv'
<1>1. /\ client_io = "ended" /\ client_main' = "done"
      /\ UNCHANGED <<m_socket, connecting, greeting, reading, client_tasks, client_wq, wire,
                     client_io, commands, early>>
  BY DEF Old!Join
<1>2. Old!TypeOK'
  <2>1. {connecting', reading'} \subseteq BOOLEAN
    BY <1>1, Zenon DEF ClientInv, ClientKnown, Old!TypeOK
  <2> QED BY <1>1, <2>1 DEF ClientInv, ClientKnown, Old!TypeOK
<1>3. ClientKnown' /\ ClientOrder'
  BY <1>1, <1>2, FramesStay DEF ClientInv, ClientKnown
<1>4. ClientWorks'
  BY <1>1 DEF ClientInv, ClientWorks
<1> QED BY <1>3, <1>4 DEF ClientInv

LEMMA NetworkKeeps ==
  ASSUME ClientInv, Old!Network, program' = program
  PROVE  ClientInv'
<1>1. /\ m_socket' \in {"up", "broken"}
      /\ UNCHANGED <<connecting, greeting, reading, client_tasks, client_wq, wire,
                     client_io, client_main, commands, early>>
  BY DEF Old!Network, Old!console
<1>2. Old!TypeOK'
  <2>1. {connecting', reading'} \subseteq BOOLEAN
    BY <1>1, Zenon DEF ClientInv, ClientKnown, Old!TypeOK
  <2> QED BY <1>1, <2>1 DEF ClientInv, ClientKnown, Old!TypeOK
<1>3. ClientKnown' /\ ClientOrder'
  BY <1>1, <1>2, FramesStay DEF ClientInv, ClientKnown
<1>4. ClientWorks'
  BY <1>1 DEF ClientInv, ClientWorks
<1> QED BY <1>3, <1>4 DEF ClientInv

LEMMA ReadFailsKeeps ==
  ASSUME ClientInv, Old!ReadFailed, program' = program
  PROVE  ClientInv'
<1>1. /\ m_socket' = "closed" /\ reading' = FALSE
      /\ UNCHANGED <<connecting, greeting, client_tasks, client_wq, wire,
                     client_io, client_main, commands, early>>
  BY DEF Old!ReadFailed, Old!console
<1>2. Old!TypeOK'
  <2>1. {connecting', reading'} \subseteq BOOLEAN
    BY <1>1, Zenon DEF ClientInv, ClientKnown, Old!TypeOK
  <2> QED BY <1>1, <2>1 DEF ClientInv, ClientKnown, Old!TypeOK
<1>3. ClientKnown' /\ ClientOrder'
  BY <1>1, <1>2, FramesStay DEF ClientInv, ClientKnown
<1>4. ClientWorks'
  BY <1>1 DEF ClientInv, ClientWorks
<1> QED BY <1>3, <1>4 DEF ClientInv

(* The io thread ends in a client without work.                            *)
LEMMA IoEndsKeeps ==
  ASSUME ClientInv, program # "old-client", program' = program, client_io' = "ended",
         UNCHANGED <<m_socket, connecting, greeting, reading, client_tasks, client_wq, wire,
                     client_main, commands, early>>
  PROVE  ClientInv'
<1>1. Old!TypeOK'
  <2>1. {connecting', reading'} \subseteq BOOLEAN
    BY Zenon DEF ClientInv, ClientKnown, Old!TypeOK
  <2> QED BY <2>1 DEF ClientInv, ClientKnown, Old!TypeOK
<1>2. ClientKnown' /\ ClientOrder'
  BY <1>1, FramesStay DEF ClientInv, ClientKnown
<1>3. ClientWorks'
  BY DEF ClientWorks
<1> QED BY <1>2, <1>3 DEF ClientInv

(* The connect handler.                                                    *)
LEMMA ConnectedKeeps ==
  ASSUME ClientInv, connecting, program' = program, connecting' = FALSE,
         \/ greeting' = HelloOf /\ m_socket' = m_socket
         \/ greeting' = greeting /\ m_socket' = "closed",
         UNCHANGED <<reading, client_tasks, client_wq, wire, client_io, client_main,
                     commands, early>>
  PROVE  ClientInv'
<1>1. HelloOf \in 1..5
  BY DEF HelloOf
<1>2. greeting' \in 0..5 /\ greeting' <= HelloOf
  BY <1>1 DEF ClientInv, ClientKnown, Old!TypeOK
<1>3. Old!TypeOK'
  <2>1. {connecting', reading'} \subseteq BOOLEAN
    BY Zenon DEF ClientInv, ClientKnown, Old!TypeOK
  <2>2. m_socket' \in {"connecting", "up", "broken", "closed"}
    BY DEF ClientInv, ClientKnown, Old!TypeOK
  <2> QED BY <1>2, <2>1, <2>2 DEF ClientInv, ClientKnown, Old!TypeOK
<1>4. ClientKnown' /\ ClientOrder'
  BY <1>2, <1>3, FramesStay
<1>5. ClientWorks'
  BY DEF ClientInv, ClientWorks
<1> QED BY <1>4, <1>5 DEF ClientInv

(* on_connected posts a frame of the greeting.                             *)
LEMMA GreetKeeps ==
  ASSUME ClientInv, greeting > 0, program' = program,
         client_tasks' = Append(client_tasks, Old!Greeting(HelloOf + 1 - greeting)),
         greeting' = greeting - 1, reading' = (greeting' = 0),
         UNCHANGED <<m_socket, connecting, client_wq, wire, client_io, client_main,
                     commands, early>>
  PROVE  ClientInv'
<1>0. PICK f : f = Old!Greeting(HelloOf + 1 - greeting)
  OBVIOUS
<1>1. /\ HelloOf \in 1..5 /\ greeting \in 1..HelloOf /\ ~connecting
      /\ Said = HelloOf - greeting
  <2>1. greeting \in 0..5 /\ greeting <= HelloOf /\ (connecting => greeting = 0)
    BY DEF ClientInv, ClientKnown, Old!TypeOK
  <2>2. HelloOf \in 1..5
    BY DEF HelloOf
  <2> QED BY <2>1, <2>2 DEF Said
<1>2. f \in Posts /\ f.from = "program" /\ f.n = HelloOf + 1 - greeting
  <2>1. HelloOf + 1 - greeting \in 1..5
    BY <1>1
  <2> QED BY <1>0, <2>1 DEF Posts, Old!Frames, Old!Greeting
<1> DEFINE All == (Posted(wire) \cup Posted(client_wq)) \cup Posted(client_tasks)
<1>3. \A x, y \in Posts : x \in All /\ Sent(x, y) => Sent(x, y)'
  BY DEF Sent
<1>4. \A x \in All : Sent(x, f)'
  <2> SUFFICES ASSUME NEW x \in All
               PROVE  Sent(x, f)'
    OBVIOUS
  <2>1. x.from = "program" => x.n <= HelloOf - greeting /\ x.n \in Nat
    <3>1. x \in Posts
      BY ClientTypes
    <3> QED BY <1>1, <3>1, FrameFields DEF ClientInv, ClientKnown
  <2>2. x.from = "program" => x.n < f.n
    BY <1>1, <1>2, <2>1
  <2> QED BY <1>2, <2>2 DEF Sent
<1>5. /\ ClientOrder' /\ client_tasks' \in Seq(Posts)
      /\ Posted(client_tasks') = Posted(client_tasks) \cup {f}
  BY <1>0, <1>2, <1>3, <1>4, PostKeepsOrder
<1>6. Old!TypeOK'
  <2>1. reading' \in BOOLEAN /\ connecting' \in BOOLEAN
    BY Zenon DEF ClientInv, ClientKnown, Old!TypeOK
  <2>2. {connecting', reading'} \subseteq BOOLEAN
    BY <2>1, Zenon
  <2>3. greeting' \in 0..5
    BY <1>1
  <2> QED BY <1>1, <1>5, <2>2, <2>3 DEF ClientInv, ClientKnown, Old!TypeOK, Posts
<1>7. ClientKnown'
  <2>1. HelloOf' = HelloOf /\ Said' = HelloOf - greeting + 1 /\ greeting' <= HelloOf
    <3>1. HelloOf' = HelloOf
      BY DEF HelloOf
    <3>2. Said' = HelloOf - (greeting - 1)
      BY <1>1, <3>1 DEF Said
    <3> QED BY <1>1, <3>1, <3>2
  <2>2. ASSUME NEW x \in All \cup {f}
        PROVE  /\ x.from = "user" => x.n <= commands
               /\ x.from = "program" => x.n <= HelloOf - greeting + 1
    <3>1. CASE x \in All
      <4>1. x \in Posts
        BY <3>1, ClientTypes
      <4>2. x.n \in Nat
        BY <4>1, FrameFields
      <4>3. /\ x.from = "user" => x.n <= commands
            /\ x.from = "program" => x.n <= HelloOf - greeting
        BY <1>1, <3>1 DEF ClientInv, ClientKnown
      <4> QED BY <1>1, <4>2, <4>3
    <3>2. CASE x = f
      BY <1>1, <1>2, <3>2
    <3> QED BY <3>1, <3>2
  <2>3. (Posted(wire') \cup Posted(client_wq')) \cup Posted(client_tasks') \subseteq All \cup {f}
    BY <1>5
  <2>4. connecting' => early' = commands'
    BY DEF ClientInv, ClientKnown
  <2>5. ASSUME NEW x \in (Posted(wire') \cup Posted(client_wq')) \cup Posted(client_tasks')
        PROVE  /\ x.from = "user" => x.n <= commands'
               /\ x.from = "program" => x.n <= Said'
    BY <2>1, <2>2, <2>3
  <2> QED BY <1>6, <2>1, <2>4, <2>5 DEF ClientKnown
<1>8. ClientWorks'
  BY DEF ClientInv, ClientWorks
<1> QED BY <1>5, <1>7, <1>8 DEF ClientInv

(* A task moves a frame to the writer, or closes the socket.               *)
LEMMA ClientTaskKeeps ==
  ASSUME ClientInv, Old!RunTask, program' = program
  PROVE  ClientInv'
<1> DEFINE h == Head(client_tasks)
           q == Tail(client_tasks)
<1>1. /\ client_tasks # <<>> /\ client_tasks' = q
      /\ UNCHANGED <<connecting, greeting, reading, wire, client_io, client_main, commands,
                     early>>
      /\ \/ h = Old!Close /\ m_socket' = "closed" /\ client_wq' = client_wq
         \/ h # Old!Close /\ m_socket' = m_socket /\ client_wq' = Append(client_wq, h)
  BY DEF Old!RunTask, Old!console
<1>2. /\ client_tasks \in Seq(Posts) /\ wire \in Seq(Posts) /\ client_wq \in Seq(Posts)
      /\ client_wq \in Seq(Old!Frames)
  BY ClientTypes
<1>3. /\ h \in Posts /\ q \in Seq(Posts) /\ Posted(client_tasks) = Posted(q) \cup {h}
      /\ Follows(q, SentOrder) /\ \A x \in Posted(q) : <<h, x>> \in SentOrder
  <2>1. Follows(client_tasks, SentOrder)
    BY DEF ClientInv, ClientOrder
  <2> QED BY <1>1, <1>2, <2>1, TailElements, PostedTail, FollowsTail
<1> HIDE DEF h, q
<1>4. /\ Posted(client_wq') \subseteq Posted(client_wq) \cup {h}
      /\ Follows(client_wq', SentOrder)
  <2>1. CASE client_wq' = client_wq
    BY <2>1 DEF ClientInv, ClientOrder
  <2>2. CASE client_wq' = Append(client_wq, h)
    <3>1. Posted(Append(client_wq, h)) = Posted(client_wq) \cup {h}
      BY <1>2, <1>3, FrameAdds
    <3>2. \A x \in Posted(client_wq) : <<x, h>> \in SentOrder
      BY <1>3 DEF ClientInv, ClientOrder
    <3>3. Follows(client_wq, SentOrder)
      BY DEF ClientInv, ClientOrder
    <3>4. Follows(Append(client_wq, h), SentOrder)
      BY <1>2, <1>3, <3>2, <3>3, FollowsAppended
    <3> QED BY <2>2, <3>1, <3>4
  <2> QED BY <1>1, <2>1, <2>2
<1>5. client_wq' \in Seq(Old!Frames)
  <2>1. h # Old!Close => h \in Old!Frames
    BY <1>3 DEF Posts
  <2>2. h # Old!Close => Append(client_wq, h) \in Seq(Old!Frames)
    BY <1>2, <2>1, AppendElements
  <2> QED BY <1>1, <1>2, <2>2
<1>6. SentOrder' = SentOrder
  BY <1>1 DEF SentOrder, Sent
<1>7. ClientOrder'
  <2>1. \A x \in Posted(wire'), y \in Posted(client_wq') : <<x, y>> \in SentOrder
    BY <1>1, <1>3, <1>4 DEF ClientInv, ClientOrder
  <2>2. \A x \in Posted(wire'), y \in Posted(client_tasks') : <<x, y>> \in SentOrder
    BY <1>1, <1>3 DEF ClientInv, ClientOrder
  <2>3. \A x \in Posted(client_wq'), y \in Posted(client_tasks') : <<x, y>> \in SentOrder
    BY <1>1, <1>3, <1>4 DEF ClientInv, ClientOrder
  <2>4. Follows(wire', SentOrder)
    BY <1>1 DEF ClientInv, ClientOrder
  <2> QED BY <1>1, <1>3, <1>4, <1>6, <2>1, <2>2, <2>3, <2>4 DEF ClientOrder
<1>8. Old!TypeOK'
  <2>1. {connecting', reading'} \subseteq BOOLEAN
    BY <1>1, Zenon DEF ClientInv, ClientKnown, Old!TypeOK
  <2>2. m_socket' \in {"connecting", "up", "broken", "closed"}
    BY <1>1 DEF ClientInv, ClientKnown, Old!TypeOK
  <2>3. UNCHANGED <<connecting, greeting, reading, wire, client_io, client_main, commands,
                     early>>
    BY <1>1
  <2> QED BY <1>1, <1>3, <1>5, <2>1, <2>2, <2>3 DEF ClientInv, ClientKnown, Old!TypeOK, Posts
<1>9. ClientKnown'
  <2>1. HelloOf' = HelloOf /\ Said' = Said
    BY <1>1 DEF HelloOf, Said
  <2>2. (Posted(wire') \cup Posted(client_wq')) \cup Posted(client_tasks')
          \subseteq (Posted(wire) \cup Posted(client_wq)) \cup Posted(client_tasks)
    BY <1>1, <1>3, <1>4
  <2> QED BY <1>1, <1>8, <2>1, <2>2 DEF ClientInv, ClientKnown
<1>10. ClientWorks'
  BY <1>1 DEF ClientInv, ClientWorks
<1> QED BY <1>7, <1>9, <1>10 DEF ClientInv

(* The writer's oldest frame goes to the wire, or is dropped.              *)
LEMMA WriteKeeps ==
  ASSUME ClientInv, Old!Write, program' = program
  PROVE  ClientInv'
<1> DEFINE h == Head(client_wq)
           q == Tail(client_wq)
<1>1. /\ client_wq # <<>> /\ client_wq' = q
      /\ UNCHANGED <<m_socket, connecting, greeting, reading, client_tasks, client_io,
                     client_main, commands, early>>
      /\ wire' = wire \/ wire' = Append(wire, h)
  BY DEF Old!Write, Old!console
<1>2. /\ client_tasks \in Seq(Posts) /\ wire \in Seq(Posts) /\ client_wq \in Seq(Posts)
      /\ client_wq \in Seq(Old!Frames) /\ wire \in Seq(Old!Frames)
  BY ClientTypes
<1>3. /\ h \in Old!Frames /\ h \in Posts /\ q \in Seq(Old!Frames)
      /\ Posted(client_wq) = Posted(q) \cup {h}
      /\ Follows(q, SentOrder) /\ \A x \in Posted(q) : <<h, x>> \in SentOrder
  <2>1. Follows(client_wq, SentOrder)
    BY DEF ClientInv, ClientOrder
  <2>2. h \in Old!Frames /\ q \in Seq(Old!Frames)
    BY <1>1, <1>2, TailElements
  <2> QED BY <1>1, <1>2, <2>1, <2>2, PostedTail, FollowsTail DEF Posts
<1> HIDE DEF h, q
<1>4. /\ Posted(wire') \subseteq Posted(wire) \cup {h}
      /\ Follows(wire', SentOrder) /\ wire' \in Seq(Old!Frames)
  <2>1. CASE wire' = wire
    BY <1>2, <2>1 DEF ClientInv, ClientOrder
  <2>2. CASE wire' = Append(wire, h)
    <3>1. Posted(Append(wire, h)) = Posted(wire) \cup {h}
      BY <1>2, <1>3, FrameAdds
    <3>2. \A x \in Posted(wire) : <<x, h>> \in SentOrder
      BY <1>3 DEF ClientInv, ClientOrder
    <3>3. Follows(wire, SentOrder)
      BY DEF ClientInv, ClientOrder
    <3>4. Follows(Append(wire, h), SentOrder)
      BY <1>2, <1>3, <3>2, <3>3, FollowsAppended
    <3>5. Append(wire, h) \in Seq(Old!Frames)
      BY <1>2, <1>3, AppendElements
    <3> QED BY <2>2, <3>1, <3>4, <3>5
  <2> QED BY <1>1, <2>1, <2>2
<1>5. SentOrder' = SentOrder
  BY <1>1 DEF SentOrder, Sent
<1>6. ClientOrder'
  <2>1. \A x \in Posted(wire'), y \in Posted(client_wq') : <<x, y>> \in SentOrder
    BY <1>1, <1>3, <1>4 DEF ClientInv, ClientOrder
  <2>2. \A x \in Posted(wire'), y \in Posted(client_tasks') : <<x, y>> \in SentOrder
    BY <1>1, <1>3, <1>4 DEF ClientInv, ClientOrder
  <2>3. \A x \in Posted(client_wq'), y \in Posted(client_tasks') : <<x, y>> \in SentOrder
    BY <1>1, <1>3 DEF ClientInv, ClientOrder
  <2>4. Follows(client_tasks', SentOrder)
    BY <1>1 DEF ClientInv, ClientOrder
  <2> QED BY <1>1, <1>3, <1>4, <1>5, <2>1, <2>2, <2>3, <2>4 DEF ClientOrder
<1>7. Old!TypeOK'
  <2>1. {connecting', reading'} \subseteq BOOLEAN
    BY <1>1, Zenon DEF ClientInv, ClientKnown, Old!TypeOK
  <2>2. UNCHANGED <<m_socket, connecting, greeting, reading, client_tasks, client_io,
                     client_main, commands, early>>
    BY <1>1
  <2> QED BY <1>1, <1>3, <1>4, <2>1, <2>2 DEF ClientInv, ClientKnown, Old!TypeOK
<1>8. ClientKnown'
  <2>1. HelloOf' = HelloOf /\ Said' = Said
    BY <1>1 DEF HelloOf, Said
  <2>2. (Posted(wire') \cup Posted(client_wq')) \cup Posted(client_tasks')
          \subseteq (Posted(wire) \cup Posted(client_wq)) \cup Posted(client_tasks)
    BY <1>1, <1>3, <1>4
  <2> QED BY <1>1, <1>7, <2>1, <2>2 DEF ClientInv, ClientKnown
<1>9. ClientWorks'
  BY <1>1 DEF ClientInv, ClientWorks
<1> QED BY <1>6, <1>8, <1>9 DEF ClientInv

(* The clients share these steps; what they differ in is the greeting and  *)
(* the work.                                                               *)
LEMMA AudioKeeps ==
  ASSUME ClientInv, program = "audio-client", program' = program, Audio!Next
  PROVE  ClientInv'
<1>1. HelloOf = 1 /\ program # "old-client"
  BY DEF HelloOf
<1>2. CASE Audio!Type
  <2>1. Old!Type
    BY <1>2 DEF Audio!Type, Old!Type, Audio!Command, Old!Command
  <2> QED BY <2>1, TypeKeeps
<1>3. CASE Audio!Exit
  <2>1. Old!Exit
    BY <1>3 DEF Audio!Exit, Old!Exit, Audio!Close, Old!Close
  <2> QED BY <2>1, CloseKeeps
<1>4. CASE Audio!Join
  <2>1. Old!Join
    BY <1>4 DEF Audio!Join, Old!Join
  <2> QED BY <2>1, JoinKeeps
<1>5. CASE Audio!RunTask
  <2>1. Old!RunTask
    BY <1>5 DEF Audio!RunTask, Old!RunTask, Audio!Close, Old!Close, Audio!Idle, Old!Idle,
       Audio!console, Old!console
  <2> QED BY <2>1, ClientTaskKeeps
<1>6. CASE Audio!Connected
  <2>1. /\ connecting /\ connecting' = FALSE
        /\ \/ greeting' = HelloOf /\ m_socket' = m_socket
           \/ greeting' = greeting /\ m_socket' = "closed"
        /\ UNCHANGED <<reading, client_tasks, client_wq, wire, client_io, client_main,
                       commands, early>>
    BY <1>1, <1>6 DEF Audio!Connected, Audio!console
  <2> QED BY <2>1, ConnectedKeeps
<1>7. CASE Audio!Greet
  <2>1. /\ greeting > 0
        /\ client_tasks' = Append(client_tasks, Old!Greeting(HelloOf + 1 - greeting))
        /\ greeting' = greeting - 1 /\ reading' = (greeting' = 0)
        /\ UNCHANGED <<m_socket, connecting, client_wq, wire, client_io, client_main,
                       commands, early>>
    BY <1>1, <1>7 DEF Audio!Greet, Audio!console, Audio!Greeting, Old!Greeting
  <2> QED BY <2>1, GreetKeeps
<1>8. CASE Audio!ReadFailed
  <2>1. Old!ReadFailed
    BY <1>8 DEF Audio!ReadFailed, Old!ReadFailed, Audio!Idle, Old!Idle, Audio!console,
       Old!console
  <2> QED BY <2>1, ReadFailsKeeps
<1>9. CASE Audio!IoEnds
  BY <1>1, <1>9, IoEndsKeeps DEF Audio!IoEnds, Audio!console
<1>10. CASE Audio!Write
  <2>1. Old!Write
    BY <1>10 DEF Audio!Write, Old!Write, Audio!console, Old!console
  <2> QED BY <2>1, WriteKeeps
<1>11. CASE Audio!Network
  <2>1. Old!Network
    BY <1>11 DEF Audio!Network, Old!Network, Audio!console, Old!console
  <2> QED BY <2>1, NetworkKeeps
<1> QED BY <1>2, <1>3, <1>4, <1>5, <1>6, <1>7, <1>8, <1>9, <1>10, <1>11
        DEF Audio!Next, Audio!Console, Audio!IoThread

LEMMA SimpleKeeps ==
  ASSUME ClientInv, program = "simple-client", program' = program,
         SimpleClient \/ SimpleMain
  PROVE  ClientInv'
<1>1. HelloOf = 5 /\ program # "old-client"
  BY DEF HelloOf
<1>2. CASE Simple!Type
  <2>1. Old!Type
    BY <1>2 DEF Simple!Type, Old!Type, Simple!Command, Old!Command
  <2> QED BY <2>1, TypeKeeps
<1>3. CASE Simple!Exit
  <2>1. Old!Exit
    BY <1>3 DEF Simple!Exit, Old!Exit, Simple!Close, Old!Close
  <2> QED BY <2>1, CloseKeeps
<1>4. CASE Simple!Join
  <2>1. Old!Join
    BY <1>4 DEF Simple!Join, Old!Join
  <2> QED BY <2>1, JoinKeeps
<1>5. CASE Simple!RunTask
  <2>1. Old!RunTask
    BY <1>5 DEF Simple!RunTask, Old!RunTask, Simple!Close, Old!Close, Simple!Idle, Old!Idle,
       Simple!console, Old!console
  <2> QED BY <2>1, ClientTaskKeeps
<1>6. CASE Simple!Connected
  <2>1. /\ connecting /\ connecting' = FALSE
        /\ \/ greeting' = HelloOf /\ m_socket' = m_socket
           \/ greeting' = greeting /\ m_socket' = "closed"
        /\ UNCHANGED <<reading, client_tasks, client_wq, wire, client_io, client_main,
                       commands, early>>
    BY <1>1, <1>6 DEF Simple!Connected, Simple!console
  <2> QED BY <2>1, ConnectedKeeps
<1>7. CASE Simple!Greet
  <2>1. /\ greeting > 0
        /\ client_tasks' = Append(client_tasks, Old!Greeting(HelloOf + 1 - greeting))
        /\ greeting' = greeting - 1 /\ reading' = (greeting' = 0)
        /\ UNCHANGED <<m_socket, connecting, client_wq, wire, client_io, client_main,
                       commands, early>>
    BY <1>1, <1>7 DEF Simple!Greet, Simple!console, Simple!Greeting, Old!Greeting
  <2> QED BY <2>1, GreetKeeps
<1>8. CASE Simple!ReadFailed
  <2>1. Old!ReadFailed
    BY <1>8 DEF Simple!ReadFailed, Old!ReadFailed, Simple!Idle, Old!Idle, Simple!console,
       Old!console
  <2> QED BY <2>1, ReadFailsKeeps
<1>9. CASE Simple!IoEnds
  BY <1>1, <1>9, IoEndsKeeps DEF Simple!IoEnds, Simple!console
<1>10. CASE Simple!Write
  <2>1. Old!Write
    BY <1>10 DEF Simple!Write, Old!Write, Simple!console, Old!console
  <2> QED BY <2>1, WriteKeeps
<1> QED BY <1>2, <1>3, <1>4, <1>5, <1>6, <1>7, <1>8, <1>9, <1>10
        DEF SimpleClient, SimpleMain, Simple!Console, Simple!IoThread

LEMMA OldKeeps ==
  ASSUME ClientInv, program # "audio-client", program' = program,
         Old!IoThread \/ Old!Write \/ Old!Console \/ Old!Network
  PROVE  ClientInv'
<1>1. HelloOf = 5
  BY DEF HelloOf
<1>2. CASE Old!Connected
  <2>1. /\ connecting /\ connecting' = FALSE
        /\ \/ greeting' = HelloOf /\ m_socket' = m_socket
           \/ greeting' = greeting /\ m_socket' = "closed"
        /\ UNCHANGED <<reading, client_tasks, client_wq, wire, client_io, client_main,
                       commands, early>>
    BY <1>1, <1>2 DEF Old!Connected, Old!console
  <2> QED BY <2>1, ConnectedKeeps
<1>3. CASE Old!Greet
  <2>1. /\ greeting > 0
        /\ client_tasks' = Append(client_tasks, Old!Greeting(HelloOf + 1 - greeting))
        /\ greeting' = greeting - 1 /\ reading' = (greeting' = 0)
        /\ UNCHANGED <<m_socket, connecting, client_wq, wire, client_io, client_main,
                       commands, early>>
    BY <1>1, <1>3 DEF Old!Greet, Old!console
  <2> QED BY <2>1, GreetKeeps
<1>4. ~Old!IoEnds
  BY DEF Old!IoEnds
<1> QED BY <1>2, <1>3, <1>4, TypeKeeps, CloseKeeps, JoinKeeps, ClientTaskKeeps,
           ReadFailsKeeps, WriteKeeps, NetworkKeeps
        DEF Old!IoThread, Old!Console

LEMMA ClientStays ==
  ASSUME ClientInv, UNCHANGED client_vars, program' = program
  PROVE  ClientInv'
<1>1. UNCHANGED <<m_socket, connecting, greeting, reading, client_tasks, client_wq, wire,
                  client_io, client_main, commands, early>>
  BY DEF client_vars
<1>2. Old!TypeOK'
  <2>1. {connecting', reading'} \subseteq BOOLEAN
    BY <1>1, Zenon DEF ClientInv, ClientKnown, Old!TypeOK
  <2> QED BY <1>1, <2>1 DEF ClientInv, ClientKnown, Old!TypeOK
<1>3. ClientKnown' /\ ClientOrder'
  BY <1>1, <1>2, FramesStay DEF ClientInv, ClientKnown
<1>4. ClientWorks'
  BY <1>1 DEF ClientInv, ClientWorks
<1> QED BY <1>3, <1>4 DEF ClientInv

LEMMA ClientInductive ==
  ASSUME ClientInv, program' = program, ClientsNext \/ UNCHANGED client_vars
  PROVE  ClientInv'
<1>1. CASE program = "audio-client" /\ Audio!Next
  BY <1>1, AudioKeeps
<1>2. CASE program = "simple-client" /\ (SimpleClient \/ SimpleMain)
  BY <1>2, SimpleKeeps
<1>3. CASE program # "audio-client"
           /\ (Old!IoThread \/ Old!Write \/ Old!Console \/ Old!Network)
  BY <1>3, OldKeeps
<1>4. CASE UNCHANGED client_vars
  BY <1>4, ClientStays
<1> QED BY <1>1, <1>2, <1>3, <1>4
        DEF ClientsNext, OldClient, OldMain, C5Client, C5Main, C3Client, C3Main,
            ConsoleClients

LEMMA ClientSays ==
  ASSUME ClientInv
  PROVE  Old!TypeOK /\ Old!EarlyFirst /\ (program = "old-client" => Old!NeverEnds)
<1>1. Old!EarlyFirst
  <2> SUFFICES ASSUME NEW i \in 1..Len(wire), NEW j \in 1..Len(wire), i < j
               PROVE  /\ wire[i].from = wire[j].from => wire[i].n < wire[j].n
                      /\ wire[j].from = "user" /\ wire[j].n <= early => wire[i].from = "user"
    BY DEF Old!EarlyFirst
  <2>1. <<wire[i], wire[j]>> \in SentOrder
    BY DEF ClientInv, ClientOrder, Follows
  <2>2. Sent(wire[i], wire[j])
    BY <2>1 DEF SentOrder
  <2>3. wire[i].from \in {"user", "program"}
    <3>1. wire[i] \in Old!Frames
      BY ClientTypes
    <3> QED BY <3>1 DEF Old!Frames, Old!Command, Old!Greeting
  <2> QED BY <2>2, <2>3 DEF Sent
<1> QED BY <1>1 DEF ClientInv, ClientKnown, ClientWorks, Old!NeverEnds

-----------------------------------------------------------------------------
OldInv == ChatInv /\ ShowerInv /\ RpcInv /\ ClientInv

LEMMA OldBegins == Init => OldInv
BY BoundsAssumption, ChatBegins, ShowerBegins, RpcBegins, ClientBegins DEF Init, OldInv

LEMMA OldInductive == OldInv /\ [Next]_vars => OldInv'
<1> SUFFICES ASSUME OldInv, [Next]_vars
             PROVE  OldInv'
  OBVIOUS
<1>1. /\ program' = program
      /\ ServersNext \/ UNCHANGED chat_vars
      /\ Shower!Next \/ UNCHANGED shower_vars
      /\ ConnectionsNext \/ UNCHANGED rpc_vars
      /\ ClientsNext \/ UNCHANGED client_vars
  BY DEF Next, vars
<1> QED BY <1>1, BoundsAssumption, ChatInductive, ShowerInductive, RpcInductive,
           ClientInductive DEF OldInv

LEMMA OldInvHolds == Spec => []OldInv
<1> QED BY OldBegins, OldInductive, PTL DEF Spec

(* The chains of requests of a chat server do not multiply, and a client   *)
(* that leaves is no danger to it as long as no other came while it was    *)
(* there (old-server/main.cpp:160-162,178-235).                            *)
THEOREM SessionsAreKept == Spec => []SessionsKept
<1>1. ASSUME OldInv
      PROVE  SessionsKept
  <2>1. Chat!TypeOK /\ Chat!ChainsBounded
    BY <1>1 DEF OldInv, ChatInv
  <2>2. Chat!LeavingIsSafe
    BY <1>1 DEF OldInv, ChatInv, ChatSafe, Chat!LeavingIsSafe
  <2> QED BY <2>1, <2>2 DEF SessionsKept
<1> QED BY <1>1, OldInvHolds, PTL

(* The handler of a request is in one place, also when two calls took one  *)
(* identifier; it gets the answer to its own request, and only a broken    *)
(* connection drops it, unless two calls overlapped; the answers are in    *)
(* order; what was typed before the connection is sent before the          *)
(* greeting, and a client with work never ends                             *)
(* (spike/include/api/asio_msgpack.hpp:225-245,341-477).                   *)
THEOREM HandlersAreKept == Spec => []HandlersKept
<1>1. ASSUME OldInv
      PROVE  HandlersKept
  <2>1. Shower!TypeOK
    BY <1>1 DEF OldInv, ShowerInv
  <2> QED BY <1>1, <2>1, RpcSays, ClientSays DEF OldInv, HandlersKept
<1> QED BY <1>1, OldInvHolds, PTL

(* The window whose io_service was idle once goes round for ever: the      *)
(* close that is posted later is never run (old-server/main.cpp:42-46).    *)
THEOREM IdleWindowNeverEnds == Spec => Shower!IdleOnceNeverEnds
<1>1. OldInv /\ [Next]_vars =>
        [stopped /\ m_is_running => m_is_running' /\ pc' # "ended"]_(Shower!vars)
  <2> SUFFICES ASSUME OldInv, [Next]_vars
               PROVE  stopped /\ m_is_running => m_is_running' /\ pc' # "ended"
    OBVIOUS
  <2>1. Shower!Next \/ UNCHANGED shower_vars
    BY DEF Next, vars
  <2> QED BY <2>1, BoundsAssumption, ShowerInductive DEF OldInv
<1> QED BY <1>1, OldInvHolds, PTL DEF Spec, Shower!IdleOnceNeverEnds

(* The end of the connection calls no handler, and nothing does after it   *)
(* (spike/include/api/asio_msgpack.hpp:510-519).                           *)
THEOREM NoCallAfterEnd == Spec => Rpc!NothingAfterEnd
<1>1. OldInv /\ [Next]_vars => [ended' => UNCHANGED called]_(Rpc!vars)
  <2> SUFFICES ASSUME OldInv, [Next]_vars
               PROVE  ended' => UNCHANGED called
    OBVIOUS
  <2>1. ConnectionsNext \/ UNCHANGED rpc_vars
    BY DEF Next, vars
  <2> QED BY <2>1, BoundsAssumption, RpcInductive DEF OldInv
<1> QED BY <1>1, OldInvHolds, PTL DEF Spec, Rpc!NothingAfterEnd
=============================================================================
