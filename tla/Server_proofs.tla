----------------------------- MODULE Server_proofs -----------------------------
(* Theorems about the server, for any clients, logins and console          *)
(* commands: what the comparator makes of the session map, and that what   *)
(* it makes of it still sends no name to a session that is not an audio    *)
(* client; which tasks there can be for a session in each stage of its     *)
(* life, so that a raw pointer dangles only when its connection has ended; *)
(* and, for clients of one room, that names reach a connected listener.    *)
EXTENDS Server, FiniteSetTheorems, SequenceTheorems, TLAPS

(* No two entries.                                                         *)
OneKey(map) == \A a, b \in DOMAIN map : a = b

(* The rooms, and the map's and the numbers' references to them.           *)
MemoryOK ==
  /\ heap \in Seq([Roles -> Clients \cup {0}])
  /\ \A c \in DOMAIN m_mgr : m_mgr[c] \in 0..Len(heap)
  /\ rooms \in [RoomIds -> 0..Len(heap)]
  /\ logged \subseteq Clients
  /\ names \in Seq([from : Clients, to : Clients \cup {0}])

(* Who is in a room logged in with the role of the place.                  *)
Placed(room, who) ==
  \A r \in Roles : room[r] # 0 => room[r] \in who /\ Login[room[r]].role = r

IInv ==
  /\ OneKey(m_mgr)
  /\ MemoryOK
  /\ \A o \in 1..Len(heap) : Placed(heap[o], logged)
  /\ NamesGoToAudio

-----------------------------------------------------------------------------
(* Every key is the same key to the map.                                   *)
LEMMA AllEquivalent == \A map, c : Equivalent(map, c) = DOMAIN map
BY DEF Equivalent, Less

(* insert adds an entry without a room to an empty map only.               *)
LEMMA InsertOne ==
  ASSUME NEW map, OneKey(map), NEW c
  PROVE  /\ OneKey(Insert(map, c))
         /\ \A k \in DOMAIN Insert(map, c) :
              Insert(map, c)[k] = 0 \/ (k \in DOMAIN map /\ Insert(map, c)[k] = map[k])
<1>1. CASE DOMAIN map = {}
  <2>1. Insert(map, c) = [i \in {c} |-> 0]
    BY <1>1, AllEquivalent DEF Insert, Put
  <2> QED BY <2>1 DEF OneKey
<1>2. CASE DOMAIN map # {}
  <2>1. Insert(map, c) = map
    BY <1>2, AllEquivalent DEF Insert
  <2> QED BY <2>1
<1> QED BY <1>1, <1>2

(* An assignment leaves one entry, with the room assigned, whichever       *)
(* session it was made for.                                                *)
LEMMA AssignOne ==
  ASSUME NEW map, OneKey(map), NEW c, NEW room
  PROVE  /\ OneKey(Assign(map, c, room))
         /\ \A k \in DOMAIN Assign(map, c, room) : Assign(map, c, room)[k] = room
<1> DEFINE found == Equivalent(map, c)
           key   == IF found = {} THEN c ELSE CHOOSE k \in found : TRUE
<1>1. found = DOMAIN map
  BY AllEquivalent
<1>2. DOMAIN map \cup {key} = {key}
  <2>1. CASE found = {}
    BY <1>1, <2>1
  <2>2. CASE found # {}
    <3>1. key \in found
      BY <2>2
    <3> HIDE DEF key
    <3> QED BY <1>1, <3>1 DEF OneKey
  <2> QED BY <2>1, <2>2
<1>3. Assign(map, c, room) = Put(map, key, room)
  BY DEF Assign
<1> HIDE DEF key
<1>4. Assign(map, c, room) = [i \in {key} |-> room]
  BY <1>2, <1>3 DEF Put
<1> QED BY <1>4 DEF OneKey

(* erase leaves nothing, whichever session it was asked for.               *)
LEMMA EraseAll == \A map, c : DOMAIN Erase(map, c) = {}
BY AllEquivalent DEF Erase

(* The room of a session is the room of some entry, or none.               *)
LEMMA RoomOfSome ==
  ASSUME IInv, NEW c
  PROVE  RoomOf(m_mgr, c) \in 0..Len(heap)
<1>1. Len(heap) \in Nat
  BY DEF IInv, MemoryOK
<1>2. CASE DOMAIN m_mgr = {}
  BY <1>1, <1>2, AllEquivalent DEF RoomOf
<1>3. CASE DOMAIN m_mgr # {}
  <2>1. PICK k \in DOMAIN m_mgr : RoomOf(m_mgr, c) = m_mgr[k]
    BY <1>3, AllEquivalent DEF RoomOf
  <2> QED BY <2>1 DEF IInv, MemoryOK
<1> QED BY <1>2, <1>3

-----------------------------------------------------------------------------
(* The server starts with an empty map and no rooms.                       *)
LEMMA InitIInv == Init => IInv
<1> SUFFICES ASSUME Init PROVE IInv
  OBVIOUS
<1>1. DOMAIN m_mgr = {} /\ Len(heap) = 0 /\ Len(names) = 0
  BY DEF Init
<1> QED BY <1>1 DEF Init, IInv, OneKey, MemoryOK, NamesGoToAudio

(* What the map may become without an assignment.                          *)
Unassigned ==
  \/ m_mgr' = m_mgr
  \/ \E c : m_mgr' = Insert(m_mgr, c)
  \/ \E c : m_mgr' = Erase(m_mgr, c)
  \/ m_mgr' = <<>>

(* Then it keeps one entry at most, with a room that was made.             *)
LEMMA UnassignedOK ==
  ASSUME IInv, Unassigned
  PROVE  OneKey(m_mgr)' /\ \A c \in DOMAIN m_mgr' : m_mgr'[c] \in 0..Len(heap)
<1>0. Len(heap) \in Nat /\ OneKey(m_mgr)
  BY DEF IInv, MemoryOK
<1>1. CASE m_mgr' = m_mgr
  BY <1>1 DEF IInv, MemoryOK, OneKey
<1>2. ASSUME NEW c, m_mgr' = Insert(m_mgr, c)
      PROVE  OneKey(m_mgr)' /\ \A k \in DOMAIN m_mgr' : m_mgr'[k] \in 0..Len(heap)
  <2>1. /\ OneKey(m_mgr')
        /\ \A k \in DOMAIN m_mgr' : m_mgr'[k] = 0 \/ (k \in DOMAIN m_mgr /\ m_mgr'[k] = m_mgr[k])
    BY <1>0, <1>2, InsertOne
  <2> QED BY <1>0, <2>1 DEF IInv, MemoryOK, OneKey
<1>3. CASE DOMAIN m_mgr' = {}
  BY <1>3 DEF OneKey
<1>4. (\E c : m_mgr' = Erase(m_mgr, c)) \/ m_mgr' = <<>> => DOMAIN m_mgr' = {}
  BY EraseAll
<1> QED BY <1>1, <1>2, <1>3, <1>4 DEF Unassigned

(* A step that puts nobody in a room and passes no name on.                *)
LEMMA OtherIInv ==
  ASSUME IInv, Unassigned, UNCHANGED <<heap, rooms, logged, names>>
  PROVE  IInv'
BY UnassignedOK DEF IInv, MemoryOK, NamesGoToAudio, OneKey

(* The client takes the place of its role, in a room of the heap or in a   *)
(* new one.                                                                *)
LEMMA LoginIInv ==
  ASSUME IInv, NEW c \in Clients, RunLogin(c)
  PROVE  IInv'
<1> DEFINE id    == Login[c].room
           role  == Login[c].role
           who   == logged \cup {c}
           empty == [r \in Roles |-> 0]
<1>1. /\ heap \in Seq([Roles -> Clients \cup {0}]) /\ Len(heap) \in Nat
      /\ rooms \in [RoomIds -> 0..Len(heap)] /\ id \in RoomIds
      /\ logged' = who /\ who \subseteq Clients /\ names' = names /\ EnterRoom(c)
  BY DEF IInv, MemoryOK, RunLogin, RoomIds
<1>2. NamesGoToAudio' /\ names' \in Seq([from : Clients, to : Clients \cup {0}])
  BY <1>1 DEF IInv, MemoryOK, NamesGoToAudio
<1>3. ASSUME NEW room \in [Roles -> Clients \cup {0}], role \in Roles, Placed(room, logged)
      PROVE  Place(room, role, c) \in [Roles -> Clients \cup {0}] /\ Placed(Place(room, role, c), who)
  <2> DEFINE p == Place(room, role, c)
  <2>1. /\ p \in [Roles -> Clients \cup {0}] /\ p[role] = c
        /\ \A r \in Roles \ {role} : p[r] = room[r]
    BY <1>3 DEF Place
  <2> HIDE DEF p
  <2>2. ASSUME NEW r \in Roles, p[r] # 0 PROVE p[r] \in who /\ Login[p[r]].role = r
    <3>1. CASE r = role
      BY <2>1, <3>1
    <3>2. CASE r # role
      BY <1>3, <2>1, <2>2, <3>2 DEF Placed
    <3> QED BY <3>1, <3>2
  <2> QED BY <2>1, <2>2 DEF Placed, p
<1>4. CASE role \in Roles
  <2>1. PICK o : /\ \/ o = Len(heap) + 1 /\ heap' = Append(heap, Place(empty, role, c))
                    \/ o = rooms[id] /\ o # 0 /\ heap' = [heap EXCEPT ![o] = Place(@, role, c)]
                 /\ m_mgr' = Assign(m_mgr, c, o)
                 /\ rooms' = [rooms EXCEPT ![id] = o]
    BY <1>1, <1>4 DEF EnterRoom
  <2>2. /\ heap' \in Seq([Roles -> Clients \cup {0}])
        /\ Len(heap') \in Nat /\ Len(heap) <= Len(heap') /\ o \in 1..Len(heap')
        /\ \A i \in 1..Len(heap') : Placed(heap'[i], who)
    <3>1. \A i \in 1..Len(heap) : Placed(heap[i], logged) /\ Placed(heap[i], who)
      BY DEF IInv, Placed
    <3>2. CASE o = Len(heap) + 1 /\ heap' = Append(heap, Place(empty, role, c))
      <4>1. empty \in [Roles -> Clients \cup {0}] /\ Placed(empty, logged)
        BY DEF Placed
      <4> HIDE DEF empty
      <4>2. PICK p : p = Place(empty, role, c)
        OBVIOUS
      <4>3. p \in [Roles -> Clients \cup {0}] /\ Placed(p, who)
        BY <1>3, <1>4, <4>1, <4>2
      <4>4. /\ heap' \in Seq([Roles -> Clients \cup {0}]) /\ Len(heap') = Len(heap) + 1
            /\ heap'[Len(heap) + 1] = p /\ \A i \in 1..Len(heap) : heap'[i] = heap[i]
        BY <1>1, <3>2, <4>2, <4>3
      <4>5. ASSUME NEW i \in 1..Len(heap') PROVE Placed(heap'[i], who)
        <5>1. i = Len(heap) + 1 \/ i \in 1..Len(heap)
          BY <1>1, <4>4
        <5> QED BY <3>1, <4>3, <4>4, <5>1
      <4>6. Len(heap') \in Nat /\ Len(heap) <= Len(heap') /\ o \in 1..Len(heap')
        BY <1>1, <3>2, <4>4
      <4> QED BY <4>4, <4>5, <4>6
    <3>3. CASE o = rooms[id] /\ o # 0 /\ heap' = [heap EXCEPT ![o] = Place(@, role, c)]
      <4>1. o \in 1..Len(heap) /\ heap[o] \in [Roles -> Clients \cup {0}]
        BY <1>1, <3>3
      <4>2. PICK p : p = Place(heap[o], role, c)
        OBVIOUS
      <4>3. p \in [Roles -> Clients \cup {0}] /\ Placed(p, who)
        BY <1>3, <1>4, <3>1, <4>1, <4>2
      <4>4. /\ heap' \in Seq([Roles -> Clients \cup {0}]) /\ Len(heap') = Len(heap)
            /\ heap'[o] = p /\ \A i \in 1..Len(heap) \ {o} : heap'[i] = heap[i]
        BY <1>1, <3>3, <4>1, <4>2, <4>3
      <4>5. ASSUME NEW i \in 1..Len(heap') PROVE Placed(heap'[i], who)
        <5>1. i = o \/ i \in 1..Len(heap) \ {o}
          BY <4>4
        <5> QED BY <3>1, <4>3, <4>4, <5>1
      <4>6. Len(heap') \in Nat /\ Len(heap) <= Len(heap') /\ o \in 1..Len(heap')
        BY <1>1, <4>1, <4>4
      <4> QED BY <4>4, <4>5, <4>6
    <3> QED BY <2>1, <3>2, <3>3
  <2>3. OneKey(m_mgr)' /\ \A k \in DOMAIN m_mgr' : m_mgr'[k] = o
    <3>1. OneKey(m_mgr)
      BY DEF IInv
    <3>2. OneKey(Assign(m_mgr, c, o))
          /\ \A k \in DOMAIN Assign(m_mgr, c, o) : Assign(m_mgr, c, o)[k] = o
      BY <3>1, AssignOne
    <3> QED BY <2>1, <3>2 DEF OneKey
  <2>4. rooms' \in [RoomIds -> 0..Len(heap')]
    BY <1>1, <2>1, <2>2
  <2>5. \A k \in DOMAIN m_mgr' : m_mgr'[k] \in 0..Len(heap')
    BY <2>2, <2>3
  <2>6. MemoryOK'
    BY <1>1, <1>2, <2>2, <2>4, <2>5 DEF MemoryOK
  <2>7. \A i \in 1..Len(heap') : Placed(heap'[i], logged')
    BY <1>1, <2>2
  <2> HIDE DEF who
  <2> QED BY <1>2, <2>3, <2>6, <2>7 DEF IInv
<1>5. CASE role \notin Roles
  <2>1. Unassigned /\ UNCHANGED <<heap, rooms>>
    BY <1>1, <1>5 DEF EnterRoom, Unassigned
  <2>2. \A i \in 1..Len(heap') : Placed(heap'[i], who)
    BY <2>1 DEF IInv, Placed
  <2> QED BY <1>1, <1>2, <2>1, <2>2, UnassignedOK DEF IInv, MemoryOK, OneKey
<1> QED BY <1>4, <1>5

(* The name goes to who is in the audio client's place of some room.       *)
LEMMA NamesIInv ==
  ASSUME IInv, NEW c \in Clients, RunNames(c)
  PROVE  IInv'
<1>1. UNCHANGED <<heap, rooms, logged>> /\ Unassigned
  BY DEF RunNames, Unassigned
<1>2. CASE names' = names
  BY <1>1, <1>2, OtherIInv
<1>3. CASE names' # names
  <2> DEFINE o == RoomOf(m_mgr, c)
             a == IF o = 0 THEN 0 ELSE Lock(heap[o]["audio-client"])
  <2>1. names' = Append(names, [from |-> c, to |-> a])
    BY <1>3 DEF RunNames
  <2>2. o \in 0..Len(heap) /\ heap \in Seq([Roles -> Clients \cup {0}])
    BY RoomOfSome DEF IInv, MemoryOK
  <2> HIDE DEF o
  <2>3. /\ a \in Clients \cup {0}
        /\ a # 0 => a \in logged /\ Login[a].role = "audio-client"
    <3>1. CASE o = 0
      BY <3>1
    <3>2. CASE o # 0
      <4>1. "audio-client" \in Roles /\ o \in 1..Len(heap)
        BY <2>2, <3>2 DEF Roles
      <4>2. heap[o]["audio-client"] \in Clients \cup {0} /\ Placed(heap[o], logged)
        BY <2>2, <4>1 DEF IInv
      <4>3. a = 0 \/ a = heap[o]["audio-client"]
        BY <3>2 DEF Lock
      <4> QED BY <4>1, <4>2, <4>3 DEF Placed
    <3> QED BY <3>1, <3>2
  <2> HIDE DEF a
  <2>4. PICK n : n = [from |-> c, to |-> a]
    OBVIOUS
  <2>5. n \in [from : Clients, to : Clients \cup {0}] /\ n.to = a
    BY <2>3, <2>4
  <2>6. /\ names' \in Seq([from : Clients, to : Clients \cup {0}])
        /\ Len(names') = Len(names) + 1 /\ Len(names) \in Nat
        /\ names'[Len(names) + 1] = n /\ \A i \in 1..Len(names) : names'[i] = names[i]
    BY <2>1, <2>4, <2>5 DEF IInv, MemoryOK
  <2>7. NamesGoToAudio'
    BY <1>1, <2>3, <2>5, <2>6 DEF IInv, NamesGoToAudio
  <2> QED BY <1>1, <2>6, <2>7, UnassignedOK DEF IInv, MemoryOK, OneKey
<1> QED BY <1>2, <1>3

-----------------------------------------------------------------------------
(* The invariant holds in every reachable state.                           *)
THEOREM Inductive == Spec => []IInv
<1>1. IInv /\ [Next]_vars => IInv'
  <2> SUFFICES ASSUME IInv, [Next]_vars PROVE IInv'
    OBVIOUS
  <2> USE DEF network, memory, console, history
  <2>1. ASSUME NEW c \in Clients, Connect(c) \/ Arrive(c) \/ Leave(c) PROVE IInv'
    BY <2>1, OtherIInv DEF Connect, Arrive, Leave, Unassigned
  <2>2. ASSUME NEW c \in Clients,
               RunAccept(c) \/ RunError(c) \/ RunRemove(c) \/ RunStart(c)
                 \/ RunStop(c) \/ RunWrite(c) \/ RunSocketClose(c)
        PROVE  IInv'
    <3>1. Unassigned
      BY <2>2 DEF RunAccept, RunError, RunRemove, RunStart, RunStop, RunWrite,
                  RunSocketClose, Unassigned
    <3>2. UNCHANGED <<heap, rooms, logged, names>>
      BY <2>2 DEF RunAccept, RunError, RunRemove, RunStart, RunStop, RunWrite,
                  RunSocketClose
    <3> QED BY <3>1, <3>2, OtherIInv
  <2>3. ASSUME NEW c \in Clients, RunLogin(c) \/ RunNames(c) PROVE IInv'
    BY <2>3, LoginIInv, NamesIInv
  <2>4. ASSUME RunClose \/ \E p \in Clients \cup {0} : RunFocus(p) PROVE IInv'
    BY <2>4, OtherIInv DEF RunClose, RunFocus, Unassigned
  <2>5. ASSUME (\E p \in Clients \cup {0} : TypeFocus(p)) \/ TypeStop \/ TypeShow
                 \/ Show \/ TypeExit \/ Join
        PROVE  IInv'
    BY <2>5, OtherIInv DEF TypeFocus, TypeStop, TypeShow, Show, TypeExit, Join, Unassigned
  <2>6. CASE UNCHANGED vars
    BY <2>6, OtherIInv DEF vars, Unassigned
  <2> QED BY <2>1, <2>2, <2>3, <2>4, <2>5, <2>6 DEF Next, IoThread
<1> QED BY <1>1, InitIInv, PTL DEF Spec

(* Names reach nobody but logged in audio clients, although a session's    *)
(* room is looked up under another session's entry.                        *)
THEOREM NamesOnlyToAudio == Spec => []NamesGoToAudio
<1>1. IInv => NamesGoToAudio
  BY DEF IInv
<1> QED BY <1>1, Inductive, PTL

-----------------------------------------------------------------------------
(* From here on: what the tasks hold.  The tasks that may be queued when   *)
(* n rooms were made, and what a queue says of a session.                  *)
Items(n) == [t : TaskKinds, c : Clients \cup {0},
             room : 0..n, image : Clients \cup {0}]
Is(x, K, d) == x.t \in K /\ x.c = d
No(s, K, d) == \A i \in 1..Len(s) : ~Is(s[i], K, d)
One(s, K, d) == \A i, j \in 1..Len(s) : Is(s[i], K, d) /\ Is(s[j], K, d) => i = j
NoImage(s, d) == \A i \in 1..Len(s) : s[i].image # d

Accepts == {"accept"}
Reads == {"message", "error"}
Uses == TaskKinds \ {"accept", "focus"}

(* The parts of the type invariant that IInv does not have.                *)
NetOK ==
  /\ acceptor \in {"open", "closed"}
  /\ sock \in [Clients -> {"away", "open", "closed"}]
  /\ reading \in [Clients -> {"none", "waiting", "ready"}]
  /\ \A c \in Clients : sock[c] = "open" => reading[c] # "none"
  /\ \A c \in Clients : sock[c] # "open" => reading[c] # "waiting"
  /\ count \in [Clients -> 0..(MaxMessages + 1)]
  /\ m_stop \in [Clients -> BOOLEAN]

ConsoleOK ==
  /\ DOMAIN m_mgr \subseteq Clients
  /\ m_wp \in Clients \cup {0}
  /\ main \in [pc : {"idle", "show", "joining", "done"}, sp : Clients \cup {0}]
  /\ main.pc = "show" => main.sp # 0
  /\ commands \in 0..MaxCommands
  /\ dangling \subseteq Clients

TasksOK == tasks \in Seq(Items(Len(heap)))

(* Nothing knows a client before it was accepted, it is accepted once, and *)
(* it has one read at a time.                                              *)
Life(d) ==
  /\ sock[d] = "away" =>
       /\ d \notin DOMAIN m_mgr /\ d \notin logged /\ m_wp # d /\ main.sp # d
       /\ NoImage(tasks, d) /\ No(tasks, Uses, d)
  /\ sock[d] # "away" => No(tasks, Accepts, d)
  /\ reading[d] # "ready" => No(tasks, Reads, d)
  /\ One(tasks, Accepts, d)
  /\ One(tasks, Reads, d)

LInv ==
  /\ NetOK /\ ConsoleOK /\ TasksOK
  /\ \A d \in Clients : Life(d)
  /\ DanglingOnlyAfterEnd

(* What is in a queue that is put behind another.                          *)
LEMMA ConcatItems ==
  ASSUME NEW n \in Nat, NEW a \in Seq(Items(n)), NEW b \in Seq(Items(n)), NEW d
  PROVE  /\ a \o b \in Seq(Items(n))
         /\ NoImage(a, d) /\ NoImage(b, d) => NoImage(a \o b, d)
         /\ \A K \in SUBSET TaskKinds :
              /\ No(a, K, d) /\ No(b, K, d) => No(a \o b, K, d)
              /\ One(a, K, d) /\ No(b, K, d) => One(a \o b, K, d)
              /\ No(a, K, d) /\ One(b, K, d) => One(a \o b, K, d)
<1> DEFINE x == a \o b
<1>1. /\ x \in Seq(Items(n)) /\ Len(x) = Len(a) + Len(b)
      /\ Len(a) \in Nat /\ Len(b) \in Nat
  BY ConcatProperties
<1>2. ASSUME NEW i \in 1..Len(x)
      PROVE  \/ i \in 1..Len(a) /\ x[i] = a[i]
             \/ i > Len(a) /\ i - Len(a) \in 1..Len(b) /\ x[i] = b[i - Len(a)]
  <2>1. i \in 1..Len(a) + Len(b)
    BY <1>1
  <2>2. x[i] = IF i <= Len(a) THEN a[i] ELSE b[i - Len(a)]
    BY <2>1, ConcatProperties
  <2> QED BY <1>1, <2>1, <2>2
<1> HIDE DEF x
<1>3. NoImage(a, d) /\ NoImage(b, d) => NoImage(x, d)
  BY <1>2 DEF NoImage
<1>4. ASSUME NEW K \in SUBSET TaskKinds
      PROVE  /\ No(a, K, d) /\ No(b, K, d) => No(x, K, d)
             /\ One(a, K, d) /\ No(b, K, d) => One(x, K, d)
             /\ No(a, K, d) /\ One(b, K, d) => One(x, K, d)
  <2>1. No(a, K, d) /\ No(b, K, d) => No(x, K, d)
    BY <1>2 DEF No
  <2>2. ASSUME One(a, K, d), No(b, K, d)
        PROVE  One(x, K, d)
    BY <1>2, <2>2 DEF One, No
  <2>3. ASSUME No(a, K, d), One(b, K, d)
        PROVE  One(x, K, d)
    <3> SUFFICES ASSUME NEW i \in 1..Len(x), NEW j \in 1..Len(x),
                        Is(x[i], K, d), Is(x[j], K, d)
                 PROVE  i = j
      BY DEF One
    <3>1. /\ i - Len(a) \in 1..Len(b) /\ Is(b[i - Len(a)], K, d)
          /\ j - Len(a) \in 1..Len(b) /\ Is(b[j - Len(a)], K, d)
      BY <1>2, <2>3 DEF No
    <3>2. i - Len(a) = j - Len(a)
      BY <2>3, <3>1 DEF One
    <3> QED BY <1>1, <3>2
  <2> QED BY <2>1, <2>2, <2>3
<1> QED BY <1>1, <1>3, <1>4 DEF x

(* What is in a queue whose head was taken.                                *)
LEMMA TailItems ==
  ASSUME NEW n \in Nat, NEW s \in Seq(Items(n)), s # <<>>, NEW d
  PROVE  /\ Tail(s) \in Seq(Items(n)) /\ Head(s) \in Items(n)
         /\ NoImage(s, d) => NoImage(Tail(s), d) /\ Head(s).image # d
         /\ \A K \in SUBSET TaskKinds :
              /\ No(s, K, d) => No(Tail(s), K, d) /\ ~Is(Head(s), K, d)
              /\ One(s, K, d) => One(Tail(s), K, d)
              /\ One(s, K, d) /\ Is(Head(s), K, d) => No(Tail(s), K, d)
<1> DEFINE x == Tail(s)
<1>1. /\ x \in Seq(Items(n)) /\ Head(s) \in Items(n)
      /\ Len(s) \in Nat /\ Len(x) = Len(s) - 1 /\ Head(s) = s[1] /\ 1 \in 1..Len(s)
      /\ \A i \in 1..Len(x) : i + 1 \in 1..Len(s) /\ x[i] = s[i + 1]
  OBVIOUS
<1> HIDE DEF x
<1>2. NoImage(s, d) => NoImage(x, d) /\ Head(s).image # d
  BY <1>1 DEF NoImage
<1>3. ASSUME NEW K \in SUBSET TaskKinds
      PROVE  /\ No(s, K, d) => No(x, K, d) /\ ~Is(Head(s), K, d)
             /\ One(s, K, d) => One(x, K, d)
             /\ One(s, K, d) /\ Is(Head(s), K, d) => No(x, K, d)
  <2>1. No(s, K, d) => No(x, K, d) /\ ~Is(Head(s), K, d)
    BY <1>1 DEF No
  <2>2. ASSUME One(s, K, d) PROVE One(x, K, d)
    <3> SUFFICES ASSUME NEW i \in 1..Len(x), NEW j \in 1..Len(x),
                        Is(x[i], K, d), Is(x[j], K, d)
                 PROVE  i = j
      BY DEF One
    <3>1. i + 1 = j + 1
      BY <1>1, <2>2 DEF One
    <3> QED BY <1>1, <3>1
  <2>3. ASSUME One(s, K, d), Is(Head(s), K, d) PROVE No(x, K, d)
    <3> SUFFICES ASSUME NEW i \in 1..Len(x), Is(x[i], K, d)
                 PROVE  FALSE
      BY DEF No
    <3>1. i + 1 = 1
      BY <1>1, <2>3 DEF One
    <3> QED BY <1>1, <3>1
  <2> QED BY <2>1, <2>2, <2>3
<1> QED BY <1>1, <1>2, <1>3 DEF x

(* A queue may refer to more rooms when more were made.                    *)
LEMMA MoreRooms ==
  ASSUME NEW m \in Nat, NEW n \in Nat, m <= n, NEW s \in Seq(Items(m))
  PROVE  s \in Seq(Items(n))
<1>1. Items(m) \subseteq Items(n)
  BY DEF Items
<1>2. \A i \in 1..Len(s) : s[i] \in Items(n)
  BY <1>1
<1> QED BY <1>2

(* A task alone in a queue.                                                *)
LEMMA OneTask ==
  ASSUME NEW n \in Nat, NEW x \in Items(n), NEW d
  PROVE  /\ <<x>> \in Seq(Items(n))
         /\ NoImage(<<x>>, d) <=> x.image # d
         /\ \A K : One(<<x>>, K, d) /\ (No(<<x>>, K, d) <=> ~Is(x, K, d))
<1>1. /\ <<x>> \in Seq(Items(n)) /\ Len(<<x>>) = 1 /\ <<x>>[1] = x
  OBVIOUS
<1>2. \A i \in 1..Len(<<x>>) : i = 1
  BY <1>1
<1> QED BY <1>1, <1>2 DEF NoImage, One, No

(* In the empty queue there is nothing.                                    *)
LEMMA NoTask ==
  ASSUME NEW n, NEW d
  PROVE  /\ <<>> \in Seq(Items(n)) /\ NoImage(<<>>, d)
         /\ \A K : One(<<>>, K, d) /\ No(<<>>, K, d)
BY DEF NoImage, One, No

(* A task without a room may be queued, whatever rooms were made.          *)
LEMMA TaskItem ==
  ASSUME NEW n \in Nat, NEW t \in TaskKinds, NEW c \in Clients \cup {0}
  PROVE  /\ Task(t, c) \in Items(n)
         /\ Task(t, c).t = t /\ Task(t, c).c = c /\ Task(t, c).image = 0
BY DEF Task, Items

(* A client of whose connection and reads a step says nothing: what was    *)
(* queued for it, if it was not accepted, is nothing.                      *)
LEMMA Quiet ==
  ASSUME TasksOK, NEW d \in Clients, Life(d), NEW n \in Nat,
         Len(heap) \in Nat, Len(heap) <= n, NEW ts \in Seq(Items(n)),
         tasks' = tasks \o ts \/ (tasks # <<>> /\ tasks' = Tail(tasks) \o ts),
         sock'[d] = sock[d] \/ (sock[d] # "away" /\ sock'[d] # "away"),
         reading'[d] = reading[d],
         No(ts, Accepts, d), No(ts, Reads, d),
         sock[d] = "away" =>
           /\ d \notin DOMAIN m_mgr' /\ d \notin logged' /\ m_wp' # d /\ main'.sp # d
           /\ NoImage(ts, d) /\ No(ts, Uses, d)
  PROVE  Life(d)'
<1>1. tasks \in Seq(Items(n))
  BY MoreRooms DEF TasksOK
<1>2. PICK a \in Seq(Items(n)) :
        /\ tasks' = a \o ts
        /\ NoImage(tasks, d) => NoImage(a, d)
        /\ \A K \in SUBSET TaskKinds :
             /\ No(tasks, K, d) => No(a, K, d)
             /\ One(tasks, K, d) => One(a, K, d)
  <2>1. CASE tasks' = tasks \o ts
    BY <1>1, <2>1
  <2>2. CASE tasks # <<>> /\ tasks' = Tail(tasks) \o ts
    BY <1>1, <2>2, TailItems
  <2> QED BY <2>1, <2>2
<1>3. /\ Accepts \in SUBSET TaskKinds /\ Reads \in SUBSET TaskKinds
      /\ Uses \in SUBSET TaskKinds
  BY DEF Accepts, Reads, Uses, TaskKinds
<1>4. One(tasks', Accepts, d) /\ One(tasks', Reads, d)
  BY <1>2, <1>3, ConcatItems DEF Life
<1>5. sock'[d] # "away" => No(tasks', Accepts, d)
  BY <1>2, <1>3, ConcatItems DEF Life
<1>6. reading'[d] # "ready" => No(tasks', Reads, d)
  BY <1>2, <1>3, ConcatItems DEF Life
<1>7. sock'[d] = "away" => NoImage(tasks', d) /\ No(tasks', Uses, d)
  BY <1>2, <1>3, ConcatItems DEF Life
<1> QED BY <1>4, <1>5, <1>6, <1>7 DEF Life

(* A client whose read ended or begins.                                    *)
LEMMA Actor ==
  ASSUME NEW d \in Clients, NEW n \in Nat,
         NEW a \in Seq(Items(n)), NEW ts \in Seq(Items(n)),
         tasks' = a \o ts, sock'[d] # "away",
         No(a, Accepts, d), No(a, Reads, d),
         No(ts, Accepts, d), One(ts, Reads, d),
         reading'[d] # "ready" => No(ts, Reads, d)
  PROVE  Life(d)'
<1>1. Accepts \in SUBSET TaskKinds /\ Reads \in SUBSET TaskKinds
  BY DEF Accepts, Reads, TaskKinds
<1>2. No(tasks', Accepts, d) /\ One(tasks', Reads, d)
  BY <1>1, ConcatItems
<1>3. reading'[d] # "ready" => No(tasks', Reads, d)
  BY <1>1, ConcatItems
<1>4. One(tasks', Accepts, d)
  BY <1>2 DEF No, One
<1> QED BY <1>2, <1>3, <1>4 DEF Life

(* The keys of the map are accepted clients and the one it is given.       *)
LEMMA Keys ==
  ASSUME NEW map, NEW c, NEW room
  PROVE  /\ DOMAIN Insert(map, c) \subseteq DOMAIN map \cup {c}
         /\ DOMAIN Assign(map, c, room) \subseteq DOMAIN map \cup {c}
<1>1. DOMAIN Insert(map, c) \subseteq DOMAIN map \cup {c}
  BY DEF Insert, Put
<1>2. DOMAIN Assign(map, c, room) \subseteq DOMAIN map \cup {c}
  <2> DEFINE found == Equivalent(map, c)
             key == IF found = {} THEN c ELSE CHOOSE k \in found : TRUE
  <2>1. key \in DOMAIN map \cup {c}
    <3>1. CASE found = {}
      BY <3>1
    <3>2. CASE found # {}
      <4>1. key \in found
        BY <3>2
      <4> QED BY <4>1, AllEquivalent
    <3> QED BY <3>1, <3>2
  <2>2. Assign(map, c, room) = Put(map, key, room)
    BY DEF Assign
  <2> HIDE DEF key
  <2> QED BY <2>1, <2>2 DEF Put
<1> QED BY <1>1, <1>2

(* A lookup in the map finds a room that was made, or none.                *)
LEMMA RoomOfRange ==
  ASSUME NEW map, NEW n \in Nat, \A k \in DOMAIN map : map[k] \in 0..n, NEW c
  PROVE  RoomOf(map, c) \in 0..n
<1>1. CASE DOMAIN map = {}
  BY <1>1, AllEquivalent DEF RoomOf
<1>2. CASE DOMAIN map # {}
  <2>1. PICK k \in DOMAIN map : RoomOf(map, c) = map[k]
    BY <1>2, AllEquivalent DEF RoomOf
  <2> QED BY <2>1
<1> QED BY <1>1, <1>2

(* A task that tells nobody to read and names no client before it was      *)
(* accepted.                                                               *)
Polite(x) ==
  /\ x.t \notin Accepts \cup Reads
  /\ \A d \in Clients : sock[d] = "away" => x.image # d /\ ~Is(x, Uses, d)
PoliteAll(s) == \A i \in 1..Len(s) : Polite(s[i])

(* Such is a task without a room that is for an accepted client.           *)
LEMMA PoliteTask ==
  ASSUME NetOK, NEW n \in Nat, NEW t \in TaskKinds \ (Accepts \cup Reads),
         NEW c \in Clients \cup {0}, c # 0 /\ t # "focus" => sock[c] # "away"
  PROVE  <<Task(t, c)>> \in Seq(Items(n)) /\ PoliteAll(<<Task(t, c)>>)
<1> DEFINE x == Task(t, c)
<1>1. x \in Items(n) /\ x.t = t /\ x.c = c /\ x.image = 0
  BY TaskItem
<1> HIDE DEF x
<1>2. Polite(x)
  BY <1>1, ClientsAssumption DEF Polite, Is, Uses
<1>3. <<x>> \in Seq(Items(n)) /\ Len(<<x>>) = 1 /\ <<x>>[1] = x
  BY <1>1
<1>4. \A i \in 1..Len(<<x>>) : i = 1
  BY <1>3
<1> QED BY <1>2, <1>3, <1>4 DEF PoliteAll, x

(* The empty queue has no other tasks.                                     *)
LEMMA PoliteNone == \A n : <<>> \in Seq(Items(n)) /\ PoliteAll(<<>>)
BY DEF PoliteAll

(* show_video's task holds accepted clients only.                          *)
LEMMA PoliteShow ==
  ASSUME NetOK, NEW n \in Nat, NEW c \in Clients, sock[c] # "away", NEW o \in 0..n,
         NEW image \in Clients \cup {0}, image # 0 => sock[image] # "away"
  PROVE  /\ ShowVideo(c, o, image) \in Seq(Items(n))
         /\ PoliteAll(ShowVideo(c, o, image))
<1> DEFINE x == [t |-> "start", c |-> c, room |-> o, image |-> image]
<1>1. /\ x \in Items(n) /\ x.t = "start" /\ x.c = c /\ x.image = image
  BY DEF Items, TaskKinds
<1>2. ShowVideo(c, o, image) = <<>> \/ ShowVideo(c, o, image) = <<x>>
  BY DEF ShowVideo
<1> HIDE DEF x
<1>3. Polite(x)
  BY <1>1, ClientsAssumption DEF Polite, Is, Accepts, Reads
<1>4. <<x>> \in Seq(Items(n)) /\ Len(<<x>>) = 1 /\ <<x>>[1] = x
  BY <1>1
<1>5. \A i \in 1..Len(<<x>>) : i = 1
  BY <1>4
<1>6. PoliteAll(<<x>>)
  BY <1>3, <1>4, <1>5 DEF PoliteAll
<1> QED BY <1>2, <1>4, <1>6, PoliteNone

(* Polite tasks say nothing of reads.                                      *)
LEMMA PoliteSaysNothing ==
  ASSUME NEW s, PoliteAll(s), NEW d \in Clients
  PROVE  /\ No(s, Accepts, d) /\ No(s, Reads, d)
         /\ sock[d] = "away" => NoImage(s, d) /\ No(s, Uses, d)
BY DEF PoliteAll, Polite, No, Is, NoImage

(* What the io thread is about to run.                                     *)
LEMMA HeadKnown ==
  ASSUME IInv, LInv, tasks # <<>>
  PROVE  /\ Head(tasks) \in Items(Len(heap))
         /\ \A d \in Clients : sock[d] = "away" =>
              Head(tasks).image # d /\ ~Is(Head(tasks), Uses, d)
<1>1. Len(heap) \in Nat /\ tasks \in Seq(Items(Len(heap)))
  BY DEF IInv, MemoryOK, LInv, TasksOK
<1>2. Head(tasks) \in Items(Len(heap))
  BY <1>1, TailItems
<1>3. ASSUME NEW d \in Clients, sock[d] = "away"
      PROVE  Head(tasks).image # d /\ ~Is(Head(tasks), Uses, d)
  <2>1. NoImage(tasks, d) /\ No(tasks, Uses, d) /\ Uses \in SUBSET TaskKinds
    BY <1>3 DEF LInv, Life, Uses
  <2> QED BY <1>1, <2>1, TailItems
<1> QED BY <1>2, <1>3

(* Who has a place in a room, or an entry in the map, was accepted.        *)
LEMMA PlacedAccepted ==
  ASSUME IInv, LInv
  PROVE  /\ \A o \in 1..Len(heap), r \in Roles :
              /\ heap[o][r] \in Clients \cup {0}
              /\ heap[o][r] # 0 => sock[heap[o][r]] # "away"
         /\ \A c \in DOMAIN m_mgr : c \in Clients /\ sock[c] # "away"
<1>1. ASSUME NEW o \in 1..Len(heap), NEW r \in Roles
      PROVE  /\ heap[o][r] \in Clients \cup {0}
             /\ heap[o][r] # 0 => sock[heap[o][r]] # "away"
  <2>1. heap \in Seq([Roles -> Clients \cup {0}]) /\ Placed(heap[o], logged)
    BY DEF IInv, MemoryOK
  <2>2. heap[o] \in [Roles -> Clients \cup {0}]
    BY <2>1
  <2>3. heap[o][r] # 0 => heap[o][r] \in logged /\ heap[o][r] \in Clients
    BY <2>1, <2>2 DEF Placed
  <2> QED BY <2>2, <2>3 DEF LInv, Life
<1>2. \A c \in DOMAIN m_mgr : c \in Clients /\ sock[c] # "away"
  BY DEF LInv, ConsoleOK, Life
<1> QED BY <1>1, <1>2

(* A step that posts polite tasks and touches no connection.               *)
LEMMA QuietStep ==
  ASSUME IInv, LInv, NEW ts \in Seq(Items(Len(heap))), PoliteAll(ts),
         tasks' = tasks \o ts \/ (tasks # <<>> /\ tasks' = Tail(tasks) \o ts),
         UNCHANGED <<sock, reading, heap, logged>>,
         \A d \in Clients : sock[d] = "away" =>
           d \notin DOMAIN m_mgr' /\ m_wp' # d /\ main'.sp # d
  PROVE  TasksOK' /\ \A d \in Clients : Life(d)'
<1>1. Len(heap) \in Nat /\ tasks \in Seq(Items(Len(heap)))
  BY DEF IInv, MemoryOK, LInv, TasksOK
<1>2. TasksOK'
  <2>1. CASE tasks' = tasks \o ts
    BY <1>1, <2>1, ConcatItems DEF TasksOK
  <2>2. CASE tasks # <<>> /\ tasks' = Tail(tasks) \o ts
    <3>1. Tail(tasks) \in Seq(Items(Len(heap)))
      BY <1>1, <2>2, TailItems
    <3> QED BY <1>1, <2>2, <3>1, ConcatItems DEF TasksOK
  <2> QED BY <2>1, <2>2
<1>3. ASSUME NEW d \in Clients PROVE Life(d)'
  <2>1. /\ No(ts, Accepts, d) /\ No(ts, Reads, d)
        /\ sock[d] = "away" => NoImage(ts, d) /\ No(ts, Uses, d)
    BY PoliteSaysNothing
  <2>2. sock[d] = "away" => d \notin logged
    BY DEF LInv, Life
  <2> QED BY <1>1, <2>1, <2>2, Quiet DEF LInv
<1> QED BY <1>2, <1>3

(* The other tasks of the io thread.                                       *)
LEMMA RunOtherLInv ==
  ASSUME IInv, LInv, NEW c \in Clients,
         RunRemove(c) \/ RunStart(c) \/ RunStop(c) \/ RunWrite(c)
  PROVE  LInv'
<1> USE DEF network, memory, console, history
<1>1. /\ tasks # <<>> /\ Head(tasks).c = c /\ Len(heap) \in Nat
      /\ NetOK /\ ConsoleOK
      /\ UNCHANGED <<acceptor, sock, reading, count, heap, logged, m_wp, main, commands>>
  BY DEF RunRemove, RunStart, RunStop, RunWrite, Runs, IInv, MemoryOK, LInv
<1>2. /\ Head(tasks) \in Items(Len(heap))
      /\ \A d \in Clients : sock[d] = "away" =>
           Head(tasks).image # d /\ ~Is(Head(tasks), Uses, d)
  BY <1>1, HeadKnown
<1>3. sock[c] # "away"
  BY <1>1, <1>2 DEF RunRemove, RunStart, RunStop, RunWrite, Runs, Is, Uses, TaskKinds
<1>4. DOMAIN m_mgr' \subseteq DOMAIN m_mgr
  <2>1. DOMAIN Erase(m_mgr, c) = {}
    BY EraseAll
  <2> QED BY <2>1 DEF RunRemove, RunStart, RunStop, RunWrite
<1>5. PICK ts \in Seq(Items(Len(heap))) : PoliteAll(ts) /\ tasks' = Tail(tasks) \o ts
  <2>1. CASE RunRemove(c) \/ RunWrite(c)
    BY <2>1, PoliteNone DEF RunRemove, RunWrite, Done
  <2>2. CASE RunStart(c)
    <3>1. tasks' = Tail(tasks) \o <<Task("write", Head(tasks).image)>>
      BY <2>2 DEF RunStart, Done
    <3>2. /\ Head(tasks).image \in Clients \cup {0}
          /\ Head(tasks).image # 0 => sock[Head(tasks).image] # "away"
      BY <1>2 DEF Items
    <3>3. "write" \in TaskKinds \ (Accepts \cup Reads)
      BY DEF TaskKinds, Accepts, Reads
    <3> QED BY <1>1, <3>1, <3>2, <3>3, PoliteTask
  <2>3. CASE RunStop(c)
    <3>1. tasks' = Tail(tasks) \o <<Task("write", c)>>
      BY <2>3 DEF RunStop, Done
    <3>2. "write" \in TaskKinds \ (Accepts \cup Reads)
      BY DEF TaskKinds, Accepts, Reads
    <3> QED BY <1>1, <1>3, <3>1, <3>2, PoliteTask
  <2> QED BY <2>1, <2>2, <2>3
<1>6. TasksOK' /\ \A d \in Clients : Life(d)'
  <2>1. \A d \in Clients : sock[d] = "away" =>
          d \notin DOMAIN m_mgr' /\ m_wp' # d /\ main'.sp # d
    BY <1>1, <1>4 DEF LInv, Life
  <2> QED BY <1>1, <1>5, <2>1, QuietStep
<1>7. NetOK'
  <2>1. m_stop' \in [Clients -> BOOLEAN]
    BY <1>1 DEF NetOK, RunRemove, RunStart, RunStop, RunWrite
  <2> QED BY <1>1, <2>1 DEF NetOK
<1>8. /\ dangling' \subseteq Clients
      /\ \A d \in dangling' : sock[d] = "closed" /\ reading[d] = "none"
  <2>1. CASE dangling' = dangling
    BY <2>1 DEF LInv, ConsoleOK, DanglingOnlyAfterEnd
  <2>2. CASE RunWrite(c) /\ ~Alive(c) /\ dangling' = dangling \cup {c}
    <3>1. reading[c] = "none"
      BY <2>2 DEF Alive
    <3>2. sock[c] = "closed"
      BY <1>1, <1>3, <3>1 DEF NetOK
    <3> QED BY <2>2, <3>1, <3>2 DEF LInv, ConsoleOK, DanglingOnlyAfterEnd
  <2> QED BY <2>1, <2>2 DEF RunRemove, RunStart, RunStop, RunWrite
<1>9. ConsoleOK' /\ DanglingOnlyAfterEnd'
  BY <1>1, <1>4, <1>8 DEF ConsoleOK, DanglingOnlyAfterEnd
<1> QED BY <1>6, <1>7, <1>9 DEF LInv

(* Closing the server posts a task for each session of the map.            *)
LEMMA RunCloseLInv ==
  ASSUME IInv, LInv, RunClose
  PROVE  LInv'
<1> USE DEF network, memory, console, history
<1>1. PICK order \in Bijection(1..Cardinality(DOMAIN m_mgr), DOMAIN m_mgr) :
        Done([i \in DOMAIN order |-> Task("socket_close", order[i])])
  BY DEF RunClose
<1> DEFINE ts == [i \in DOMAIN order |-> Task("socket_close", order[i])]
<1>2. Cardinality(DOMAIN m_mgr) \in Nat
  <2>1. CASE DOMAIN m_mgr = {}
    BY <2>1, FS_EmptySet
  <2>2. ASSUME NEW k \in DOMAIN m_mgr PROVE Cardinality(DOMAIN m_mgr) \in Nat
    <3>1. DOMAIN m_mgr = {k}
      BY DEF IInv, OneKey
    <3>2. Cardinality({k}) = 1
      BY FS_Singleton
    <3> QED BY <3>1, <3>2
  <2>3. DOMAIN m_mgr = {} \/ \E k : k \in DOMAIN m_mgr
    OBVIOUS
  <2> QED BY <2>1, <2>2, <2>3
<1>3. order \in [1..Cardinality(DOMAIN m_mgr) -> DOMAIN m_mgr]
  BY DEF Bijection, Injection
<1>4. Len(heap) \in Nat /\ tasks # <<>> /\ NetOK /\ ConsoleOK
  BY DEF IInv, MemoryOK, RunClose, Runs, LInv
<1>5. ASSUME NEW i \in 1..Cardinality(DOMAIN m_mgr)
      PROVE  Task("socket_close", order[i]) \in Items(Len(heap))
             /\ Polite(Task("socket_close", order[i]))
  <2>1. order[i] \in Clients /\ sock[order[i]] # "away"
    BY <1>3, PlacedAccepted
  <2>2. PICK x : x = Task("socket_close", order[i])
    OBVIOUS
  <2>3. x \in Items(Len(heap)) /\ x.t = "socket_close" /\ x.c = order[i] /\ x.image = 0
    BY <1>4, <2>1, <2>2, TaskItem DEF TaskKinds
  <2>4. Polite(x)
    BY <2>1, <2>3, ClientsAssumption DEF Polite, Is, Accepts, Reads
  <2> QED BY <2>2, <2>3, <2>4
<1>6. ts \in Seq(Items(Len(heap))) /\ PoliteAll(ts)
  <2>1. /\ ts \in [1..Cardinality(DOMAIN m_mgr) -> Items(Len(heap))]
        /\ \A i \in 1..Cardinality(DOMAIN m_mgr) : Polite(ts[i])
    BY <1>3, <1>5
  <2> HIDE DEF ts
  <2>2. ts \in Seq(Items(Len(heap))) /\ Len(ts) = Cardinality(DOMAIN m_mgr)
    BY <1>2, <2>1
  <2> QED BY <2>1, <2>2 DEF PoliteAll
<1>7. tasks' = Tail(tasks) \o ts
  BY <1>1 DEF Done
<1> HIDE DEF ts
<1>8. /\ UNCHANGED <<sock, reading, count, heap, m_stop, m_wp, main, commands,
                     logged, dangling>>
      /\ m_mgr' = <<>> /\ acceptor' = "closed"
  BY DEF RunClose
<1>9. DOMAIN m_mgr' = {}
  BY <1>8
<1>10. TasksOK' /\ \A d \in Clients : Life(d)'
  <2>1. \A d \in Clients : sock[d] = "away" =>
          d \notin DOMAIN m_mgr' /\ m_wp' # d /\ main'.sp # d
    BY <1>8, <1>9 DEF LInv, Life
  <2> QED BY <1>4, <1>6, <1>7, <1>8, <2>1, QuietStep
<1>11. NetOK' /\ ConsoleOK' /\ DanglingOnlyAfterEnd'
  BY <1>4, <1>8, <1>9 DEF NetOK, ConsoleOK, DanglingOnlyAfterEnd, LInv
<1> QED BY <1>10, <1>11 DEF LInv

(* The focus goes to a session of the map or stays.                        *)
LEMMA RunFocusLInv ==
  ASSUME IInv, LInv, NEW p \in Clients \cup {0}, RunFocus(p)
  PROVE  LInv'
<1> USE DEF network, memory, console, history
<1>1. /\ Len(heap) \in Nat /\ tasks # <<>> /\ NetOK /\ ConsoleOK
      /\ UNCHANGED <<acceptor, sock, reading, count, m_mgr, heap, m_stop, main,
                     commands, logged, dangling>>
  BY DEF IInv, MemoryOK, LInv, RunFocus, Runs
<1>2. /\ m_wp' = m_wp \/ m_wp' = 0 \/ m_wp' \in DOMAIN m_mgr
      /\ \E c \in Clients \cup {0} : Done(<<>>) \/ Done(<<Task("focus", c)>>)
  <2>1. CASE p = 0
    <3> DEFINE c == IF DOMAIN m_mgr = {} THEN 0 ELSE CHOOSE k \in DOMAIN m_mgr : TRUE
    <3>1. c = 0 \/ c \in DOMAIN m_mgr
      OBVIOUS
    <3>2. m_wp' = c /\ Done(IF c = 0 THEN <<>> ELSE <<Task("focus", c)>>)
      BY <2>1 DEF RunFocus
    <3> HIDE DEF c
    <3>3. c \in Clients \cup {0}
      BY <3>1, PlacedAccepted
    <3> QED BY <3>1, <3>2, <3>3
  <2>2. CASE p # 0
    BY <2>2, AllEquivalent DEF RunFocus
  <2> QED BY <2>1, <2>2
<1>3. PICK ts \in Seq(Items(Len(heap))) : PoliteAll(ts) /\ tasks' = Tail(tasks) \o ts
  <2>1. PICK c \in Clients \cup {0} : Done(<<>>) \/ Done(<<Task("focus", c)>>)
    BY <1>2
  <2>2. "focus" \in TaskKinds \ (Accepts \cup Reads)
    BY DEF TaskKinds, Accepts, Reads
  <2>3. <<Task("focus", c)>> \in Seq(Items(Len(heap))) /\ PoliteAll(<<Task("focus", c)>>)
    BY <1>1, <2>2, PoliteTask
  <2> QED BY <2>1, <2>3, PoliteNone DEF Done
<1>4. m_wp' \in Clients \cup {0} /\ \A d \in Clients : sock[d] = "away" => m_wp' # d
  BY <1>1, <1>2, PlacedAccepted, ClientsAssumption DEF ConsoleOK, LInv, Life
<1>5. TasksOK' /\ \A d \in Clients : Life(d)'
  <2>1. \A d \in Clients : sock[d] = "away" =>
          d \notin DOMAIN m_mgr' /\ m_wp' # d /\ main'.sp # d
    BY <1>1, <1>4 DEF LInv, Life
  <2> QED BY <1>1, <1>3, <2>1, QuietStep
<1>6. NetOK' /\ ConsoleOK' /\ DanglingOnlyAfterEnd'
  BY <1>1, <1>4 DEF NetOK, ConsoleOK, DanglingOnlyAfterEnd, LInv
<1> QED BY <1>5, <1>6 DEF LInv

(* The console knows accepted clients, or none.                            *)
LEMMA ConsoleLInv ==
  ASSUME IInv, LInv,
         (\E p \in Clients \cup {0} : TypeFocus(p)) \/ TypeStop \/ TypeShow
           \/ Show \/ TypeExit \/ Join
  PROVE  LInv'
<1> USE DEF network, memory, console, history
<1>1. /\ Len(heap) \in Nat /\ tasks \in Seq(Items(Len(heap))) /\ NetOK /\ ConsoleOK
      /\ UNCHANGED <<acceptor, sock, reading, count, heap, m_stop, m_wp, logged, dangling>>
  BY DEF IInv, MemoryOK, LInv, TasksOK, TypeFocus, TypeStop, TypeShow, Show, TypeExit, Join
<1>2. /\ main.sp \in Clients \cup {0}
      /\ main.sp # 0 => sock[main.sp] # "away"
      /\ m_wp \in Clients \cup {0}
      /\ m_wp # 0 => sock[m_wp] # "away"
  BY <1>1 DEF ConsoleOK, LInv, Life
<1>3. PICK ts \in Seq(Items(Len(heap))) : PoliteAll(ts) /\ tasks' = tasks \o ts
  <2>1. ASSUME NEW t \in {"focus", "stop", "close"}, NEW c \in Clients \cup {0},
               c # 0 /\ t # "focus" => sock[c] # "away",
               tasks' = Append(tasks, Task(t, c))
        PROVE  \E ts \in Seq(Items(Len(heap))) : PoliteAll(ts) /\ tasks' = tasks \o ts
    <3>1. t \in TaskKinds \ (Accepts \cup Reads)
      BY DEF TaskKinds, Accepts, Reads
    <3>2. <<Task(t, c)>> \in Seq(Items(Len(heap))) /\ PoliteAll(<<Task(t, c)>>)
      BY <1>1, <2>1, <3>1, PoliteTask
    <3>3. Task(t, c) \in Items(Len(heap))
      BY <1>1, <3>1, TaskItem
    <3>4. tasks' = tasks \o <<Task(t, c)>>
      BY <1>1, <2>1, <3>3, AppendIsConcat
    <3> QED BY <3>2, <3>4
  <2>2. ASSUME tasks' = tasks
        PROVE  \E ts \in Seq(Items(Len(heap))) : PoliteAll(ts) /\ tasks' = tasks \o ts
    <3>1. tasks = tasks \o <<>>
      BY <1>1, ConcatEmptySeq
    <3> QED BY <2>2, <3>1, PoliteNone
  <2>3. ASSUME Show
        PROVE  \E ts \in Seq(Items(Len(heap))) : PoliteAll(ts) /\ tasks' = tasks \o ts
    <3> DEFINE o == RoomOf(m_mgr, main.sp)
               image == IF o = 0 THEN 0 ELSE heap[o]["image-client"]
    <3>1. tasks' = tasks \o ShowVideo(main.sp, o, image)
      BY <2>3 DEF Show
    <3>2. main.sp \in Clients /\ sock[main.sp] # "away"
      BY <1>1, <1>2, <2>3 DEF Show, ConsoleOK
    <3>3. o \in 0..Len(heap)
      BY RoomOfSome
    <3> HIDE DEF o
    <3>4. image \in Clients \cup {0} /\ (image # 0 => sock[image] # "away")
      BY <3>3, PlacedAccepted DEF Roles
    <3> HIDE DEF image
    <3> QED BY <1>1, <3>1, <3>2, <3>3, <3>4, PoliteShow
  <2>4. CASE \E p \in Clients \cup {0} : TypeFocus(p)
    BY <2>1, <2>4 DEF TypeFocus
  <2>5. CASE TypeStop
    BY <1>2, <2>1, <2>5 DEF TypeStop
  <2>6. CASE TypeExit
    BY <2>1, <2>6 DEF TypeExit
  <2>7. CASE TypeShow \/ Join
    BY <2>2, <2>7 DEF TypeShow, Join
  <2> QED BY <2>3, <2>4, <2>5, <2>6, <2>7
<1>4. /\ DOMAIN m_mgr' \subseteq Clients
      /\ \A d \in Clients : sock[d] = "away" => d \notin DOMAIN m_mgr'
  <2>1. CASE m_mgr' = m_mgr
    BY <1>1, <2>1, PlacedAccepted
  <2>2. CASE Show /\ m_mgr' = Insert(m_mgr, main.sp)
    <3>1. main.sp \in Clients /\ sock[main.sp] # "away"
      BY <1>1, <1>2, <2>2 DEF Show, ConsoleOK
    <3>2. DOMAIN m_mgr' \subseteq DOMAIN m_mgr \cup {main.sp}
      BY <2>2, Keys
    <3> QED BY <3>1, <3>2, PlacedAccepted
  <2> QED BY <2>1, <2>2 DEF TypeFocus, TypeStop, TypeShow, Show, TypeExit, Join
<1>5. /\ main' \in [pc : {"idle", "show", "joining", "done"}, sp : Clients \cup {0}]
      /\ main'.pc = "show" => main'.sp # 0
      /\ main'.sp = main.sp \/ main'.sp = m_wp \/ main'.sp = 0
      /\ commands' \in 0..MaxCommands
  <2>1. main \in [pc : {"idle", "show", "joining", "done"}, sp : Clients \cup {0}]
        /\ (main.pc = "show" => main.sp # 0)
        /\ commands \in 0..MaxCommands /\ MaxCommands \in Nat
        /\ m_wp \in Clients \cup {0}
    BY <1>1, BoundsAssumption DEF ConsoleOK
  <2>2. CASE (\E p \in Clients \cup {0} : TypeFocus(p)) \/ TypeStop
    BY <2>1, <2>2 DEF TypeFocus, TypeStop, Types
  <2>3. CASE TypeShow
    <3>1. m_wp # 0 /\ main' = [pc |-> "show", sp |-> m_wp]
          /\ commands < MaxCommands /\ commands' = commands + 1
      BY <2>3 DEF TypeShow, Types, Lock
    <3> QED BY <2>1, <3>1
  <2>4. CASE Show
    BY <2>1, <2>4 DEF Show
  <2>5. CASE TypeExit
    BY <2>1, <2>5 DEF TypeExit
  <2>6. CASE Join
    BY <2>1, <2>6 DEF Join
  <2> QED BY <2>2, <2>3, <2>4, <2>5, <2>6
<1>6. TasksOK' /\ \A d \in Clients : Life(d)'
  <2>1. \A d \in Clients : sock[d] = "away" =>
          d \notin DOMAIN m_mgr' /\ m_wp' # d /\ main'.sp # d
    BY <1>1, <1>2, <1>4, <1>5, ClientsAssumption
  <2> QED BY <1>1, <1>3, <2>1, QuietStep
<1>7. NetOK' /\ ConsoleOK' /\ DanglingOnlyAfterEnd'
  BY <1>1, <1>4, <1>5 DEF NetOK, ConsoleOK, DanglingOnlyAfterEnd, LInv
<1> QED BY <1>6, <1>7 DEF LInv

(* One message, error or accepted connection is queued: own is its task.   *)
LEMMA NetworkLInv ==
  ASSUME IInv, LInv, NEW c \in Clients, Connect(c) \/ Arrive(c) \/ Leave(c)
  PROVE  LInv'
<1> USE DEF network, memory, console, history
<1>1. /\ Len(heap) \in Nat /\ tasks \in Seq(Items(Len(heap))) /\ NetOK /\ ConsoleOK
      /\ c # 0 /\ Life(c)
      /\ UNCHANGED <<acceptor, heap, m_mgr, m_stop, m_wp, main, commands, logged, dangling>>
  BY ClientsAssumption DEF IInv, MemoryOK, LInv, TasksOK, Connect, Arrive, Leave
<1>2. PICK t \in {"accept", "message", "error"} :
        /\ tasks' = Append(tasks, Task(t, c))
        /\ \/ t = "accept" /\ Connect(c)
           \/ t = "message" /\ Arrive(c)
           \/ t = "error" /\ Leave(c)
  BY DEF Connect, Arrive, Leave
<1>3. PICK x : x = Task(t, c)
  OBVIOUS
<1>4. /\ x \in Items(Len(heap)) /\ x.t = t /\ x.c = c /\ x.image = 0
  BY <1>1, <1>3, TaskItem DEF TaskKinds
<1>5. tasks' = tasks \o <<x>> /\ <<x>> \in Seq(Items(Len(heap)))
  BY <1>1, <1>2, <1>3, <1>4, AppendIsConcat
<1>6. TasksOK'
  BY <1>1, <1>5, ConcatItems DEF TasksOK
<1>7. ASSUME NEW d \in Clients \ {c}
      PROVE  Life(d)'
  <2>1. /\ No(<<x>>, Accepts, d) /\ No(<<x>>, Reads, d) /\ No(<<x>>, Uses, d)
        /\ NoImage(<<x>>, d)
    BY <1>1, <1>4, OneTask, ClientsAssumption DEF Is
  <2>2. sock'[d] = sock[d] /\ reading'[d] = reading[d]
    BY <1>1 DEF NetOK, Connect, Arrive, Leave
  <2>3. Life(d) /\ TasksOK
    BY DEF LInv
  <2>4. sock[d] = "away" =>
          /\ d \notin DOMAIN m_mgr' /\ d \notin logged' /\ m_wp' # d /\ main'.sp # d
    BY <1>1, <2>3 DEF Life
  <2>5. Len(heap) <= Len(heap)
    BY <1>1
  <2> QED BY <1>1, <1>5, <2>1, <2>2, <2>3, <2>4, <2>5, Quiet
<1>8. Life(c)'
  <2>1. CASE t = "accept" /\ Connect(c)
    <3>1. sock[c] = "away" /\ UNCHANGED <<sock, reading>>
      BY <2>1 DEF Connect
    <3>2. No(tasks, Accepts, c)
      BY <2>1 DEF Connect, No, Is, Accepts
    <3>3. /\ One(<<x>>, Accepts, c) /\ No(<<x>>, Reads, c) /\ No(<<x>>, Uses, c)
          /\ NoImage(<<x>>, c)
      BY <1>1, <1>4, <2>1, OneTask DEF Is, Reads, Uses
    <3>4. /\ Accepts \in SUBSET TaskKinds /\ Reads \in SUBSET TaskKinds
          /\ Uses \in SUBSET TaskKinds
      BY DEF Accepts, Reads, Uses, TaskKinds
    <3>5. One(tasks', Accepts, c)
      BY <1>1, <1>5, <3>2, <3>3, <3>4, ConcatItems
    <3>6. One(tasks', Reads, c) /\ (reading[c] # "ready" => No(tasks', Reads, c))
      BY <1>1, <1>5, <3>3, <3>4, ConcatItems DEF Life
    <3>7. NoImage(tasks', c) /\ No(tasks', Uses, c)
      BY <1>1, <1>5, <3>1, <3>3, <3>4, ConcatItems DEF Life
    <3> QED BY <1>1, <3>1, <3>5, <3>6, <3>7 DEF Life
  <2>2. CASE t # "accept" /\ (Arrive(c) \/ Leave(c))
    <3>1. reading[c] = "waiting" /\ reading'[c] = "ready"
          /\ sock[c] = "open" /\ sock'[c] # "away"
      BY <1>1, <2>2 DEF Arrive, Leave, NetOK
    <3>2. No(tasks, Accepts, c) /\ No(tasks, Reads, c)
      BY <1>1, <3>1 DEF Life
    <3>3. No(<<x>>, Accepts, c) /\ One(<<x>>, Reads, c)
      BY <1>1, <1>4, <2>2, OneTask DEF Is, Accepts
    <3> QED BY <1>1, <1>5, <3>1, <3>2, <3>3, Actor
  <2> QED BY <1>2, <2>1, <2>2
<1>9. NetOK'
  <2>1. CASE Connect(c)
    BY <1>1, <2>1 DEF Connect, NetOK
  <2>2. CASE Arrive(c)
    <3>1. /\ UNCHANGED <<acceptor, sock, m_stop>>
          /\ reading[c] = "waiting" /\ reading' = [reading EXCEPT ![c] = "ready"]
          /\ count' = [count EXCEPT ![c] = @ + 1] /\ (count[c] = 0 \/ count[c] <= MaxMessages)
      BY <2>2 DEF Arrive
    <3>2. count' \in [Clients -> 0..(MaxMessages + 1)]
      <4>1. count \in [Clients -> 0..(MaxMessages + 1)] /\ MaxMessages \in Nat
        BY <1>1, BoundsAssumption DEF NetOK
      <4>2. count[c] + 1 \in 0..(MaxMessages + 1)
        BY <3>1, <4>1
      <4> QED BY <3>1, <4>1, <4>2
    <3> QED BY <1>1, <3>1, <3>2 DEF NetOK
  <2>3. CASE Leave(c)
    BY <1>1, <2>3 DEF Leave, NetOK
  <2> QED BY <2>1, <2>2, <2>3
<1>10. DanglingOnlyAfterEnd'
  <2>1. Connect(c) \/ reading[c] = "waiting"
    BY DEF Arrive, Leave
  <2> QED BY <1>1, <2>1 DEF LInv, ConsoleOK, NetOK, DanglingOnlyAfterEnd, Connect, Arrive, Leave
<1>11. ConsoleOK'
  BY <1>1 DEF ConsoleOK
<1> QED BY <1>6, <1>7, <1>8, <1>9, <1>10, <1>11 DEF LInv

(* The task of c that is taken from the queue was the only one of its kind.*)
LEMMA HeadTaken ==
  ASSUME IInv, LInv, NEW c \in Clients, NEW t \in TaskKinds \ {"focus"}, Runs(t, c)
  PROVE  /\ Tail(tasks) \in Seq(Items(Len(heap)))
         /\ t = "accept" =>
              /\ sock[c] = "away"
              /\ No(Tail(tasks), Accepts, c) /\ No(Tail(tasks), Reads, c)
         /\ t # "accept" => sock[c] # "away" /\ No(Tail(tasks), Accepts, c)
         /\ t \in Reads => reading[c] = "ready" /\ No(Tail(tasks), Reads, c)
         /\ reading[c] # "ready" => No(Tail(tasks), Reads, c)
<1>1. /\ Len(heap) \in Nat /\ tasks \in Seq(Items(Len(heap))) /\ tasks # <<>>
      /\ Head(tasks).t = t /\ Head(tasks).c = c /\ Life(c)
  BY DEF IInv, MemoryOK, LInv, TasksOK, Runs
<1>2. /\ Accepts \in SUBSET TaskKinds /\ Reads \in SUBSET TaskKinds
      /\ Uses \in SUBSET TaskKinds
  BY DEF Accepts, Reads, Uses, TaskKinds
<1>3. \A K \in SUBSET TaskKinds :
        /\ No(tasks, K, c) => No(Tail(tasks), K, c) /\ ~(t \in K)
        /\ One(tasks, K, c) /\ t \in K => No(Tail(tasks), K, c)
  BY <1>1, TailItems DEF Is
<1>4. Tail(tasks) \in Seq(Items(Len(heap)))
  BY <1>1, TailItems
<1>5. ASSUME t = "accept"
      PROVE  /\ sock[c] = "away"
             /\ No(Tail(tasks), Accepts, c) /\ No(Tail(tasks), Reads, c)
  <2>1. t \in Accepts
    BY <1>5 DEF Accepts
  <2>2. sock[c] = "away" /\ No(Tail(tasks), Accepts, c)
    BY <1>1, <1>2, <1>3, <2>1 DEF Life
  <2>3. No(Tail(tasks), Uses, c)
    BY <1>1, <1>2, <1>3, <2>2 DEF Life
  <2>4. Reads \subseteq Uses
    BY DEF Reads, Uses, TaskKinds
  <2> QED BY <2>2, <2>3, <2>4 DEF No, Is
<1>6. ASSUME t # "accept"
      PROVE  sock[c] # "away" /\ No(Tail(tasks), Accepts, c)
  <2>1. t \in Uses
    BY <1>6 DEF Uses
  <2> QED BY <1>1, <1>2, <1>3, <2>1 DEF Life
<1>7. t \in Reads => reading[c] = "ready" /\ No(Tail(tasks), Reads, c)
  BY <1>1, <1>2, <1>3 DEF Life
<1>8. reading[c] # "ready" => No(Tail(tasks), Reads, c)
  BY <1>1, <1>2, <1>3 DEF Life
<1> QED BY <1>4, <1>5, <1>6, <1>7, <1>8

(* The others, while c accepts, reads or closes.                           *)
LEMMA OthersQuiet ==
  ASSUME IInv, LInv, NEW c \in Clients, NEW n \in Nat, Len(heap) <= n,
         NEW ts \in Seq(Items(n)), tasks # <<>>, tasks' = Tail(tasks) \o ts,
         \A d \in Clients \ {c} :
           /\ sock'[d] = sock[d] /\ reading'[d] = reading[d]
           /\ No(ts, Accepts, d) /\ No(ts, Reads, d)
           /\ sock[d] = "away" => NoImage(ts, d) /\ No(ts, Uses, d),
         DOMAIN m_mgr' \subseteq DOMAIN m_mgr \cup {c},
         logged' \subseteq logged \cup {c}, UNCHANGED <<m_wp, main>>
  PROVE  \A d \in Clients \ {c} : Life(d)'
<1> SUFFICES ASSUME NEW d \in Clients \ {c} PROVE Life(d)'
  OBVIOUS
<1>1. Life(d) /\ TasksOK /\ Len(heap) \in Nat
  BY DEF LInv, IInv, MemoryOK
<1>2. sock[d] = "away" =>
        /\ d \notin DOMAIN m_mgr' /\ d \notin logged' /\ m_wp' # d /\ main'.sp # d
  BY <1>1 DEF Life
<1> QED BY <1>1, <1>2, Quiet

(* A connection is accepted, has ended or is closed.                       *)
LEMMA ConnectionLInv ==
  ASSUME IInv, LInv, NEW c \in Clients,
         RunAccept(c) \/ RunError(c) \/ RunSocketClose(c)
  PROVE  LInv'
<1> USE DEF network, memory, console, history
<1>1. /\ Len(heap) \in Nat /\ NetOK /\ ConsoleOK /\ tasks # <<>> /\ c # 0
      /\ UNCHANGED <<count, heap, m_stop, m_wp, main, commands, logged>>
  BY ClientsAssumption
     DEF IInv, MemoryOK, LInv, RunAccept, RunError, RunSocketClose, Runs
<1>2. PICK t \in {"accept", "error", "socket_close"} :
        /\ Runs(t, c)
        /\ \/ t = "accept" /\ RunAccept(c)
           \/ t = "error" /\ RunError(c)
           \/ t = "socket_close" /\ RunSocketClose(c)
  BY DEF RunAccept, RunError, RunSocketClose
<1>3. /\ Tail(tasks) \in Seq(Items(Len(heap)))
      /\ t = "accept" =>
           /\ sock[c] = "away"
           /\ No(Tail(tasks), Accepts, c) /\ No(Tail(tasks), Reads, c)
      /\ t # "accept" => sock[c] # "away" /\ No(Tail(tasks), Accepts, c)
      /\ t \in Reads => reading[c] = "ready" /\ No(Tail(tasks), Reads, c)
      /\ reading[c] # "ready" => No(Tail(tasks), Reads, c)
  <2>1. t \in TaskKinds \ {"focus"}
    BY DEF TaskKinds
  <2> QED BY <1>2, <2>1, HeadTaken
<1>4. /\ DOMAIN m_mgr' \subseteq DOMAIN m_mgr \cup {c}
      /\ DOMAIN m_mgr' \subseteq Clients
  <2>1. DOMAIN Insert(m_mgr, c) \subseteq DOMAIN m_mgr \cup {c}
    BY Keys
  <2>2. m_mgr' = m_mgr \/ m_mgr' = Insert(m_mgr, c)
    BY DEF RunAccept, RunError, RunSocketClose
  <2> QED BY <1>1, <2>1, <2>2 DEF ConsoleOK
<1>5. PICK ts : /\ tasks' = Tail(tasks) \o ts
                /\ \/ ts = <<>> /\ (t # "socket_close" => t = "accept")
                                /\ (t = "socket_close" => reading'[c] = reading[c])
                   \/ t = "error" /\ ts = <<Task("remove", c)>>
                   \/ t = "socket_close" /\ reading[c] = "waiting"
                        /\ reading'[c] = "ready" /\ ts = <<Task("error", c)>>
  <2>1. CASE t = "accept" /\ RunAccept(c)
    BY <2>1 DEF RunAccept, Done
  <2>2. CASE t = "error" /\ RunError(c)
    BY <2>2 DEF RunError, Done
  <2>3. CASE t = "socket_close" /\ RunSocketClose(c)
    <3>1. reading \in [Clients -> {"none", "waiting", "ready"}]
      BY <1>1 DEF NetOK
    <3>2. CASE reading[c] = "waiting" /\ Alive(c)
      BY <2>3, <3>1, <3>2 DEF RunSocketClose, Done
    <3>3. CASE ~(reading[c] = "waiting" /\ Alive(c))
      BY <2>3, <3>1, <3>3 DEF RunSocketClose, Done
    <3> QED BY <3>2, <3>3
  <2> QED BY <1>2, <2>1, <2>2, <2>3
<1>6. /\ ts \in Seq(Items(Len(heap)))
      /\ \A d \in Clients \ {c} :
           /\ No(ts, Accepts, d) /\ No(ts, Reads, d)
           /\ NoImage(ts, d) /\ No(ts, Uses, d)
      /\ No(ts, Accepts, c) /\ One(ts, Reads, c)
      /\ t = "error" \/ ts = <<>> => No(ts, Reads, c)
  <2>1. CASE ts = <<>>
    BY <2>1, NoTask
  <2>2. ASSUME NEW k \in {"remove", "error"}, ts = <<Task(k, c)>>,
               k = "error" => t = "socket_close"
        PROVE  /\ ts \in Seq(Items(Len(heap)))
               /\ \A d \in Clients \ {c} :
                    /\ No(ts, Accepts, d) /\ No(ts, Reads, d)
                    /\ NoImage(ts, d) /\ No(ts, Uses, d)
               /\ No(ts, Accepts, c) /\ One(ts, Reads, c)
               /\ t = "error" \/ ts = <<>> => No(ts, Reads, c)
    <3>1. PICK x : x = Task(k, c)
      OBVIOUS
    <3>2. x \in Items(Len(heap)) /\ x.t = k /\ x.c = c /\ x.image = 0
      BY <1>1, <3>1, TaskItem DEF TaskKinds
    <3>3. ts = <<x>> /\ ts # <<>>
      BY <2>2, <3>1
    <3>4. \A d \in Clients \ {c} :
           /\ No(ts, Accepts, d) /\ No(ts, Reads, d)
           /\ NoImage(ts, d) /\ No(ts, Uses, d)
      BY <1>1, <3>2, <3>3, OneTask, ClientsAssumption DEF Is
    <3>5. /\ ts \in Seq(Items(Len(heap)))
          /\ No(ts, Accepts, c) /\ One(ts, Reads, c)
          /\ k = "remove" => No(ts, Reads, c)
      BY <1>1, <3>2, <3>3, OneTask DEF Is, Accepts, Reads
    <3> QED BY <2>2, <3>3, <3>4, <3>5
  <2> QED BY <1>5, <2>1, <2>2
<1>7. TasksOK'
  BY <1>1, <1>3, <1>5, <1>6, ConcatItems DEF TasksOK
<1>8. \A d \in Clients \ {c} : sock'[d] = sock[d] /\ reading'[d] = reading[d]
  BY <1>1 DEF NetOK, RunAccept, RunError, RunSocketClose
<1>9. \A d \in Clients \ {c} : Life(d)'
  <2>1. logged' \subseteq logged \cup {c}
    BY <1>1
  <2> QED BY <1>1, <1>4, <1>5, <1>6, <1>8, <2>1, OthersQuiet
<1>10. sock'[c] # "away" /\ (t = "error" => reading'[c] = "none")
       /\ (t = "accept" => sock'[c] = "open" /\ reading'[c] = "waiting")
       /\ (t # "accept" => sock'[c] \in {sock[c], "closed"})
  BY <1>1, <1>2, <1>3 DEF NetOK, RunAccept, RunError, RunSocketClose
<1>11. Life(c)'
  <2>1. CASE No(Tail(tasks), Reads, c)
    <3>1. reading'[c] # "ready" => No(ts, Reads, c)
      BY <1>5, <1>6
    <3> QED BY <1>1, <1>3, <1>5, <1>6, <1>10, <2>1, <3>1, Actor
  <2>2. CASE ~No(Tail(tasks), Reads, c)
    <3>1. t = "socket_close" /\ reading[c] = "ready" /\ ts = <<>>
          /\ reading'[c] = reading[c]
      BY <1>3, <1>5, <2>2 DEF Reads
    <3>2. Life(c) /\ TasksOK
      BY DEF LInv
    <3>3. No(ts, Accepts, c) /\ No(ts, Reads, c)
      BY <3>1, NoTask
    <3>4. sock[c] # "away" /\ sock'[c] # "away" /\ Len(heap) <= Len(heap)
      BY <1>1, <1>3, <1>10, <3>1
    <3> QED BY <1>1, <1>5, <1>6, <3>1, <3>2, <3>3, <3>4, Quiet
  <2> QED BY <2>1, <2>2
<1>12. NetOK'
  <2>1. CASE RunAccept(c)
    BY <1>1, <2>1 DEF RunAccept, NetOK
  <2>2. CASE RunError(c)
    BY <1>1, <2>2 DEF RunError, NetOK
  <2>3. CASE RunSocketClose(c)
    BY <1>1, <2>3 DEF RunSocketClose, NetOK
  <2> QED BY <2>1, <2>2, <2>3
<1>13. /\ dangling' \subseteq Clients
       /\ \A d \in dangling' : sock'[d] = "closed" /\ reading'[d] = "none"
  <2>1. \A d \in dangling : d \in Clients /\ sock[d] = "closed" /\ reading[d] = "none"
    BY <1>1 DEF LInv, ConsoleOK, DanglingOnlyAfterEnd
  <2>2. \A d \in dangling : sock'[d] = "closed" /\ reading'[d] = "none"
    <3>1. c \in dangling => t = "socket_close"
      BY <1>2, <1>3, <2>1 DEF Reads
    <3>2. c \in dangling => sock'[c] = "closed" /\ reading'[c] = "none"
      BY <1>1, <1>5, <1>10, <2>1, <3>1
    <3> QED BY <1>8, <2>1, <3>2
  <2>3. CASE dangling' = dangling
    BY <2>1, <2>2, <2>3
  <2>4. CASE RunSocketClose(c) /\ ~Alive(c) /\ dangling' = dangling \cup {c}
    <3>1. reading[c] = "none" /\ UNCHANGED <<sock, reading>>
      BY <2>4 DEF Alive, RunSocketClose
    <3>2. t = "socket_close"
      BY <1>2, <2>4 DEF Runs, RunSocketClose
    <3>3. sock[c] = "closed"
      BY <1>1, <1>3, <3>1, <3>2 DEF NetOK
    <3> QED BY <2>1, <2>2, <2>4, <3>1, <3>3
  <2> QED BY <2>3, <2>4 DEF RunAccept, RunError, RunSocketClose
<1>14. ConsoleOK' /\ DanglingOnlyAfterEnd'
  BY <1>1, <1>4, <1>13 DEF ConsoleOK, DanglingOnlyAfterEnd
<1> QED BY <1>7, <1>9, <1>11, <1>12, <1>14 DEF LInv

(* A message is handled after the read for the next was started; what it   *)
(* posts is polite.                                                        *)
LEMMA MessageLInv ==
  ASSUME IInv, LInv, NEW c \in Clients, NEW n \in Nat, Len(heap) <= n, n = Len(heap'),
         Runs("message", c), ReadOn(c),
         NEW ts \in Seq(Items(n)), PoliteAll(ts), Done(Failed(c) \o ts),
         DOMAIN m_mgr' \subseteq DOMAIN m_mgr \cup {c},
         logged' \subseteq logged \cup {c},
         UNCHANGED <<acceptor, sock, count, m_stop, m_wp, main, commands, dangling>>
  PROVE  LInv'
<1>1. /\ Len(heap) \in Nat /\ NetOK /\ ConsoleOK /\ tasks # <<>> /\ c # 0
  BY ClientsAssumption DEF IInv, MemoryOK, LInv, Runs
<1>2. /\ Tail(tasks) \in Seq(Items(Len(heap)))
      /\ sock[c] # "away" /\ reading[c] = "ready"
      /\ No(Tail(tasks), Accepts, c) /\ No(Tail(tasks), Reads, c)
  <2>1. "message" \in TaskKinds \ {"focus"} /\ "message" \in Reads
    BY DEF TaskKinds, Reads
  <2> QED BY <2>1, HeadTaken
<1>3. Tail(tasks) \in Seq(Items(n))
  BY <1>1, <1>2, MoreRooms
<1>4. /\ reading \in [Clients -> {"none", "waiting", "ready"}]
      /\ reading'[c] = (IF sock[c] = "open" THEN "waiting" ELSE "ready")
      /\ \A d \in Clients \ {c} : reading'[d] = reading[d]
  BY <1>1 DEF NetOK, ReadOn
<1>5. /\ Failed(c) \in Seq(Items(n))
      /\ \A d \in Clients \ {c} :
           /\ No(Failed(c), Accepts, d) /\ No(Failed(c), Reads, d)
           /\ NoImage(Failed(c), d) /\ No(Failed(c), Uses, d)
      /\ No(Failed(c), Accepts, c) /\ One(Failed(c), Reads, c)
      /\ sock[c] = "open" => No(Failed(c), Reads, c)
  <2>1. CASE sock[c] = "open"
    BY <2>1, NoTask DEF Failed
  <2>2. CASE sock[c] # "open"
    <3>1. PICK x : x = Task("error", c)
      OBVIOUS
    <3>2. x \in Items(n) /\ x.t = "error" /\ x.c = c /\ x.image = 0
      BY <1>1, <3>1, TaskItem DEF TaskKinds
    <3>3. Failed(c) = <<x>>
      BY <2>2, <3>1 DEF Failed
    <3>4. \A d \in Clients \ {c} :
           /\ No(<<x>>, Accepts, d) /\ No(<<x>>, Reads, d)
           /\ NoImage(<<x>>, d) /\ No(<<x>>, Uses, d)
      BY <1>1, <3>2, OneTask, ClientsAssumption DEF Is
    <3>5. <<x>> \in Seq(Items(n)) /\ No(<<x>>, Accepts, c) /\ One(<<x>>, Reads, c)
      BY <1>1, <3>2, OneTask DEF Is, Accepts
    <3> QED BY <2>2, <3>3, <3>4, <3>5
  <2> QED BY <2>1, <2>2
<1>6. /\ Accepts \in SUBSET TaskKinds /\ Reads \in SUBSET TaskKinds
      /\ Uses \in SUBSET TaskKinds
  BY DEF Accepts, Reads, Uses, TaskKinds
<1>7. PICK own : own = Failed(c) \o ts
  OBVIOUS
<1>8. own \in Seq(Items(n)) /\ tasks' = Tail(tasks) \o own
  BY <1>5, <1>7, ConcatItems DEF Done
<1>9. ASSUME NEW d \in Clients \ {c}
      PROVE  /\ No(own, Accepts, d) /\ No(own, Reads, d)
             /\ sock[d] = "away" => NoImage(own, d) /\ No(own, Uses, d)
  <2>1. /\ No(ts, Accepts, d) /\ No(ts, Reads, d)
        /\ sock[d] = "away" => NoImage(ts, d) /\ No(ts, Uses, d)
    BY PoliteSaysNothing
  <2> QED BY <1>5, <1>6, <1>7, <2>1, ConcatItems
<1>10. /\ No(own, Accepts, c) /\ One(own, Reads, c)
       /\ sock[c] = "open" => No(own, Reads, c)
  <2>1. No(ts, Accepts, c) /\ No(ts, Reads, c)
    BY PoliteSaysNothing
  <2> QED BY <1>5, <1>6, <1>7, <2>1, ConcatItems
<1>11. TasksOK'
  BY <1>3, <1>8, ConcatItems DEF TasksOK
<1>12. \A d \in Clients \ {c} : Life(d)'
  BY <1>1, <1>4, <1>8, <1>9, OthersQuiet
<1>13. Life(c)'
  <2>1. sock'[c] # "away" /\ (reading'[c] # "ready" => No(own, Reads, c))
    BY <1>2, <1>4, <1>10
  <2> QED BY <1>2, <1>3, <1>8, <1>10, <2>1, Actor
<1>14. NetOK'
  BY <1>1, <1>4 DEF NetOK, ReadOn
<1>15. ConsoleOK'
  BY <1>1 DEF ConsoleOK
<1>16. DanglingOnlyAfterEnd'
  BY <1>1, <1>2, <1>4 DEF LInv, ConsoleOK, DanglingOnlyAfterEnd
<1> QED BY <1>11, <1>12, <1>13, <1>14, <1>15, <1>16 DEF LInv

(* A login posts the showing of the room's image client.                   *)
LEMMA RunLoginLInv ==
  ASSUME IInv, IInv', LInv, NEW c \in Clients, RunLogin(c)
  PROVE  LInv'
<1> USE DEF network, memory, console, history
<1> DEFINE n == Len(heap')
           o == RoomOf(m_mgr', c)
           image == IF o = 0 THEN 0 ELSE heap'[o]["image-client"]
<1>1. /\ Runs("message", c) /\ ReadOn(c)
      /\ logged' = logged \cup {c} /\ EnterRoom(c)
      /\ Done(Failed(c) \o ShowVideo(c, o, image))
      /\ UNCHANGED <<acceptor, sock, count, m_stop, m_wp, main, commands, dangling>>
  BY DEF RunLogin
<1>2. /\ heap \in Seq([Roles -> Clients \cup {0}]) /\ Len(heap) \in Nat
      /\ heap' \in Seq([Roles -> Clients \cup {0}]) /\ n \in Nat
      /\ \A k \in DOMAIN m_mgr' : m_mgr'[k] \in 0..n
      /\ \A i \in 1..n : Placed(heap'[i], logged')
      /\ NetOK /\ sock[c] # "away"
  <2>1. "message" \in TaskKinds \ {"focus"}
    BY DEF TaskKinds
  <2>2. sock[c] # "away"
    BY <1>1, <2>1, HeadTaken
  <2> QED BY <2>2 DEF IInv, MemoryOK, LInv
<1>3. Len(heap) <= n
  <2>1. CASE heap' = heap
    BY <1>2, <2>1
  <2>2. ASSUME NEW x, heap' = Append(heap, x)
        PROVE  Len(heap) <= n
    <3>1. Len(heap') = Len(heap) + 1
      BY <1>2, <2>2
    <3> QED BY <1>2, <3>1
  <2>3. ASSUME NEW i, NEW x, heap' = [heap EXCEPT ![i] = x]
        PROVE  Len(heap) <= n
    <3>1. DOMAIN heap' = DOMAIN heap
      BY <2>3
    <3>2. DOMAIN heap = 1..Len(heap) /\ DOMAIN heap' = 1..Len(heap')
      BY <1>2
    <3> QED BY <1>2, <3>1, <3>2
  <2> QED BY <1>1, <2>1, <2>2, <2>3 DEF EnterRoom
<1>4. /\ DOMAIN m_mgr' \subseteq DOMAIN m_mgr \cup {c}
  <2>1. DOMAIN Insert(m_mgr, c) \subseteq DOMAIN m_mgr \cup {c}
    BY Keys
  <2>2. \A room : DOMAIN Assign(m_mgr, c, room) \subseteq DOMAIN m_mgr \cup {c}
    BY Keys
  <2> QED BY <1>1, <2>1, <2>2 DEF EnterRoom
<1>5. o \in 0..n
  BY <1>2, RoomOfRange
<1> HIDE DEF o
<1>6. image \in Clients \cup {0} /\ (image # 0 => sock[image] # "away")
  <2>1. CASE o = 0
    BY <2>1
  <2>2. CASE o # 0
    <3>1. /\ o \in 1..n /\ "image-client" \in Roles
          /\ heap'[o] \in [Roles -> Clients \cup {0}] /\ Placed(heap'[o], logged')
      BY <1>2, <1>5, <2>2 DEF Roles
    <3>2. image = heap'[o]["image-client"] /\ image \in Clients \cup {0}
      BY <2>2, <3>1
    <3> HIDE DEF image
    <3>3. image # 0 => image \in logged \cup {c} /\ image \in Clients
      BY <1>1, <3>1, <3>2 DEF Placed
    <3> QED BY <1>2, <3>2, <3>3 DEF LInv, Life
  <2> QED BY <2>1, <2>2
<1> HIDE DEF image
<1>7. ShowVideo(c, o, image) \in Seq(Items(n)) /\ PoliteAll(ShowVideo(c, o, image))
  BY <1>2, <1>5, <1>6, PoliteShow
<1> QED BY <1>1, <1>2, <1>3, <1>4, <1>7, MessageLInv

(* An image or a hint posts what is written to the listener.               *)
LEMMA RunNamesLInv ==
  ASSUME IInv, LInv, NEW c \in Clients, RunNames(c)
  PROVE  LInv'
<1> USE DEF network, memory, console, history
<1> DEFINE o == RoomOf(m_mgr, c)
           a == IF o = 0 THEN 0 ELSE Lock(heap[o]["audio-client"])
<1>1. /\ Runs("message", c) /\ ReadOn(c)
      /\ Done(Failed(c)) \/ Done(Failed(c) \o (IF a = 0 THEN <<>> ELSE <<Task("write", a)>>))
      /\ m_mgr' = m_mgr \/ m_mgr' = Insert(m_mgr, c)
      /\ UNCHANGED <<acceptor, sock, count, heap, m_stop, m_wp, main, commands, logged,
                     dangling>>
  BY DEF RunNames
<1>2. Len(heap) \in Nat /\ NetOK /\ o \in 0..Len(heap)
  BY RoomOfSome DEF IInv, MemoryOK, LInv
<1>3. DOMAIN m_mgr' \subseteq DOMAIN m_mgr \cup {c}
  <2>1. DOMAIN Insert(m_mgr, c) \subseteq DOMAIN m_mgr \cup {c}
    BY Keys
  <2> QED BY <1>1, <2>1
<1> HIDE DEF o
<1>4. a \in Clients \cup {0} /\ (a # 0 => sock[a] # "away")
  <2>1. CASE o = 0
    BY <2>1
  <2>2. CASE o # 0
    <3>1. o \in 1..Len(heap) /\ "audio-client" \in Roles
      BY <1>2, <2>2 DEF Roles
    <3>2. a = 0 \/ a = heap[o]["audio-client"]
      BY <2>2 DEF Lock
    <3> HIDE DEF a
    <3> QED BY <3>1, <3>2, PlacedAccepted
  <2> QED BY <2>1, <2>2
<1> HIDE DEF a
<1>5. PICK ts \in Seq(Items(Len(heap))) : PoliteAll(ts) /\ Done(Failed(c) \o ts)
  <2>1. Failed(c) = Failed(c) \o <<>>
    <3>1. PICK x : x = Task("error", c)
      OBVIOUS
    <3>2. x \in Items(Len(heap)) /\ (Failed(c) = <<>> \/ Failed(c) = <<x>>)
      BY <1>2, <3>1, TaskItem DEF TaskKinds, Failed
    <3>3. Failed(c) \in Seq(Items(Len(heap)))
      BY <1>2, <3>2, OneTask, NoTask
    <3> QED BY <3>3, ConcatEmptySeq
  <2>2. "write" \in TaskKinds \ (Accepts \cup Reads)
    BY DEF TaskKinds, Accepts, Reads
  <2>3. <<Task("write", a)>> \in Seq(Items(Len(heap))) /\ PoliteAll(<<Task("write", a)>>)
    BY <1>2, <1>4, <2>2, PoliteTask
  <2> QED BY <1>1, <2>1, <2>3, PoliteNone
<1>6. /\ Len(heap) <= Len(heap) /\ Len(heap) = Len(heap') /\ logged' \subseteq logged \cup {c}
  BY <1>1, <1>2
<1> QED BY <1>1, <1>2, <1>3, <1>5, <1>6, MessageLInv

(* At first there are no tasks and nobody was accepted.                    *)
LEMMA InitLInv == Init => LInv
<1> SUFFICES ASSUME Init PROVE LInv
  OBVIOUS
<1>1. DOMAIN m_mgr = {} /\ Len(heap) = 0 /\ tasks = <<>>
  BY DEF Init
<1>2. \A d \in Clients : Life(d)
  BY <1>1, NoTask, ClientsAssumption DEF Init, Life
<1>3. NetOK /\ ConsoleOK /\ TasksOK /\ DanglingOnlyAfterEnd
  BY <1>1, BoundsAssumption DEF Init, NetOK, ConsoleOK, TasksOK, DanglingOnlyAfterEnd
<1> QED BY <1>2, <1>3 DEF LInv

(* In every reachable state nothing knows a client that was not accepted   *)
(* (server.hpp:156-168), and each accepted one has one read at a time        *)
(* (dispatcher.hpp:44-60).                                                 *)
THEOREM LifeInductive == Spec => []LInv
<1>1. IInv /\ IInv' /\ LInv /\ [Next]_vars => LInv'
  <2> SUFFICES ASSUME IInv, IInv', LInv, [Next]_vars PROVE LInv'
    OBVIOUS
  <2>1. ASSUME NEW c \in Clients, Connect(c) \/ Arrive(c) \/ Leave(c) PROVE LInv'
    BY <2>1, NetworkLInv
  <2>2. ASSUME NEW c \in Clients, RunAccept(c) \/ RunError(c) \/ RunSocketClose(c)
        PROVE  LInv'
    BY <2>2, ConnectionLInv
  <2>3. ASSUME NEW c \in Clients, RunLogin(c) PROVE LInv'
    BY <2>3, RunLoginLInv
  <2>4. ASSUME NEW c \in Clients, RunNames(c) PROVE LInv'
    BY <2>4, RunNamesLInv
  <2>5. ASSUME NEW c \in Clients,
               RunRemove(c) \/ RunStart(c) \/ RunStop(c) \/ RunWrite(c)
        PROVE  LInv'
    BY <2>5, RunOtherLInv
  <2>6. CASE RunClose
    BY <2>6, RunCloseLInv
  <2>7. ASSUME NEW p \in Clients \cup {0}, RunFocus(p) PROVE LInv'
    BY <2>7, RunFocusLInv
  <2>8. ASSUME (\E p \in Clients \cup {0} : TypeFocus(p)) \/ TypeStop \/ TypeShow
                 \/ Show \/ TypeExit \/ Join
        PROVE  LInv'
    BY <2>8, ConsoleLInv
  <2>9. CASE UNCHANGED vars
    <3>1. /\ UNCHANGED <<acceptor, sock, reading, count, m_mgr, heap, m_stop, m_wp,
                         tasks, main, commands, logged, dangling>>
      BY <2>9 DEF vars
    <3>2. \A d \in Clients : Life(d)'
      BY <3>1 DEF LInv, Life
    <3> QED BY <3>1, <3>2 DEF LInv, NetOK, ConsoleOK, TasksOK, DanglingOnlyAfterEnd
  <2> QED BY <2>1, <2>2, <2>3, <2>4, <2>5, <2>6, <2>7, <2>8, <2>9 DEF Next, IoThread
<1> QED BY <1>1, InitLInv, Inductive, PTL DEF Spec

(* The server's state keeps its types: a session reads while its socket is *)
(* open, and no task refers to a room that was not made.                   *)
THEOREM TypeCorrect == Spec => []TypeOK
<1>1. IInv /\ LInv => TypeOK
  BY DEF IInv, MemoryOK, LInv, NetOK, ConsoleOK, TasksOK, Items, TypeOK
<1> QED BY <1>1, Inductive, LifeInductive, PTL

(* A task with a raw pointer (session.hpp:74, queued_writer.hpp:43) finds  *)
(* its session destroyed only when the session's connection has ended,     *)
(* whoever comes, goes, shows and closes.                                  *)
THEOREM RawPointersDangleLate == Spec => []DanglingOnlyAfterEnd
<1>1. LInv => DanglingOnlyAfterEnd
  BY DEF LInv
<1> QED BY <1>1, LifeInductive, PTL
-----------------------------------------------------------------------------
(* From here on: the names reach the listener while it is connected, if    *)
(* the clients are in one room and only the listener leaves.               *)

(* The clients whose role enters a room name the same room (the programs'  *)
(* default is one number).                                                 *)
OneRoom ==
  \A a, b \in Clients :
    Login[a].role \in Roles /\ Login[b].role \in Roles => Login[a].room = Login[b].room

(* Nobody leaves, or only the one audio client there is does.              *)
OnlyListenerLeaves ==
  \A l \in Leaves, a \in Clients : Login[a].role = "audio-client" => a = l

Listeners == {a \in logged : Login[a].role = "audio-client" /\ sock[a] = "open"}

Closes == {"socket_close"}
Endings == {"error", "remove"}

(* Until the server is closed only leaving closes a socket, and what ends  *)
(* a session is queued only after it.                                      *)
EndOK(d) ==
  acceptor = "open" =>
    /\ No(tasks, Closes, d)
    /\ sock[d] = "closed" => d \in Leaves
    /\ sock[d] # "closed" => No(tasks, Endings, d)

(* Then, while somebody listens, the one entry of the map is the room of   *)
(* everyone, and the listener in it is connected.                          *)
Kept ==
  acceptor = "open" /\ Listeners # {} =>
    /\ DOMAIN m_mgr # {}
    /\ \A k \in DOMAIN m_mgr :
         /\ m_mgr[k] \in 1..Len(heap)
         /\ heap[m_mgr[k]]["audio-client"] \in Listeners
         /\ \A c \in Clients : Login[c].role \in Roles => rooms[Login[c].room] = m_mgr[k]

KInv == Kept /\ \A d \in Clients : EndOK(d)

(* A queue holds what it held and what was put behind it.                  *)
LEMMA Queued ==
  ASSUME LInv, Len(heap) \in Nat, NEW n \in Nat, Len(heap) <= n, NEW ts \in Seq(Items(n)),
         tasks' = tasks \o ts \/ (tasks # <<>> /\ tasks' = Tail(tasks) \o ts)
  PROVE  \A d : \A K \in SUBSET TaskKinds : No(tasks, K, d) /\ No(ts, K, d) => No(tasks', K, d)
<1> SUFFICES ASSUME NEW d, NEW K \in SUBSET TaskKinds, No(tasks, K, d), No(ts, K, d)
             PROVE  No(tasks', K, d)
  OBVIOUS
<1>1. tasks \in Seq(Items(n))
  BY MoreRooms DEF LInv, TasksOK
<1>2. PICK a \in Seq(Items(n)) : tasks' = a \o ts /\ No(a, K, d)
  <2>1. CASE tasks' = tasks \o ts
    BY <1>1, <2>1
  <2>2. CASE tasks # <<>> /\ tasks' = Tail(tasks) \o ts
    BY <1>1, <2>2, TailItems
  <2> QED BY <2>1, <2>2
<1> QED BY <1>2, ConcatItems

(* A step that closes nothing and posts the end of nobody.                 *)
LEMMA EndStays ==
  ASSUME IInv, LInv, KInv, NEW n \in Nat, Len(heap) <= n, NEW ts \in Seq(Items(n)),
         tasks' = tasks \o ts \/ (tasks # <<>> /\ tasks' = Tail(tasks) \o ts),
         UNCHANGED acceptor,
         NEW d \in Clients, No(ts, Closes, d),
         sock'[d] = "closed" => sock[d] = "closed" \/ d \in Leaves,
         sock'[d] # "closed" => sock[d] # "closed" /\ No(ts, Endings, d)
  PROVE  EndOK(d)'
<1> SUFFICES ASSUME acceptor = "open" PROVE EndOK(d)'
  BY DEF EndOK
<1>1. /\ Len(heap) \in Nat /\ EndOK(d)
      /\ Closes \in SUBSET TaskKinds /\ Endings \in SUBSET TaskKinds
  BY DEF IInv, MemoryOK, KInv, Closes, Endings, TaskKinds
<1>2. \A K \in SUBSET TaskKinds : No(tasks, K, d) /\ No(ts, K, d) => No(tasks', K, d)
  BY <1>1, Queued
<1>3. No(tasks', Closes, d)
  BY <1>1, <1>2 DEF EndOK
<1>4. sock'[d] = "closed" => d \in Leaves
  BY <1>1 DEF EndOK
<1>5. sock'[d] # "closed" => No(tasks', Endings, d)
  BY <1>1, <1>2 DEF EndOK
<1> QED BY <1>3, <1>4, <1>5 DEF EndOK

(* A step that leaves the sockets alone and posts no end.                  *)
LEMMA EndQuiet ==
  ASSUME IInv, LInv, KInv, NEW n \in Nat, Len(heap) <= n, NEW ts \in Seq(Items(n)),
         tasks' = tasks \o ts \/ (tasks # <<>> /\ tasks' = Tail(tasks) \o ts),
         UNCHANGED <<acceptor, sock>>,
         \A i \in 1..Len(ts) : ts[i].t \notin Closes \cup Endings
  PROVE  \A d \in Clients : EndOK(d)'
<1> SUFFICES ASSUME NEW d \in Clients PROVE EndOK(d)'
  OBVIOUS
<1>1. No(ts, Closes, d) /\ No(ts, Endings, d)
  BY DEF No, Is
<1> QED BY <1>1, EndStays

(* A step that keeps the map, or inserts into it, and adds no listener.    *)
LEMMA KeptStays ==
  ASSUME Kept, UNCHANGED <<heap, rooms>>,
         acceptor' = "open" => acceptor = "open",
         m_mgr' = m_mgr \/ \E c : m_mgr' = Insert(m_mgr, c),
         Listeners' = Listeners \/ Listeners' = {}
  PROVE  Kept'
<1> SUFFICES ASSUME acceptor' = "open", Listeners' # {} PROVE Kept'
  BY DEF Kept
<1>1. acceptor = "open" /\ Listeners' = Listeners /\ DOMAIN m_mgr # {}
  BY DEF Kept
<1>2. m_mgr' = m_mgr
  BY <1>1, AllEquivalent DEF Insert
<1> QED BY <1>1, <1>2 DEF Kept

(* show_video posts the end of nobody.                                     *)
LEMMA ShowPosts ==
  ASSUME NEW n \in Nat, NEW c \in Clients, NEW o \in 0..n, NEW image \in Clients \cup {0}
  PROVE  /\ ShowVideo(c, o, image) \in Seq(Items(n))
         /\ \A i \in 1..Len(ShowVideo(c, o, image)) :
              ShowVideo(c, o, image)[i].t \notin Closes \cup Endings
<1> DEFINE x == [t |-> "start", c |-> c, room |-> o, image |-> image]
           ts == ShowVideo(c, o, image)
<1>1. x \in Items(n) /\ x.t \notin Closes \cup Endings
  BY DEF Items, TaskKinds, Closes, Endings
<1>2. ts = <<>> \/ ts = <<x>>
  BY DEF ShowVideo
<1> HIDE DEF x, ts
<1>3. <<x>> \in Seq(Items(n)) /\ \A i \in 1..Len(<<x>>) : <<x>>[i] = x
  BY <1>1
<1>4. <<>> \in Seq(Items(n)) /\ Len(<<>>) = 0
  OBVIOUS
<1>5. ts \in Seq(Items(n)) /\ \A i \in 1..Len(ts) : ts[i].t \notin Closes \cup Endings
  <2>1. CASE ts = <<>>
    BY <1>4, <2>1
  <2>2. CASE ts = <<x>>
    BY <1>1, <1>3, <2>2
  <2> QED BY <1>2, <2>1, <2>2
<1> QED BY <1>5 DEF ts

(* A client connects, sends or leaves.                                     *)
LEMMA NetworkKInv ==
  ASSUME OnlyListenerLeaves, IInv, LInv, KInv,
         NEW c \in Clients, Connect(c) \/ Arrive(c) \/ Leave(c)
  PROVE  KInv'
<1> USE DEF network, memory, console, history
<1>1. /\ Len(heap) \in Nat /\ tasks \in Seq(Items(Len(heap))) /\ NetOK
      /\ UNCHANGED <<acceptor, heap, rooms, m_mgr, logged>>
  BY DEF IInv, MemoryOK, LInv, TasksOK, Connect, Arrive, Leave
<1>2. PICK t \in {"accept", "message", "error"} :
        /\ tasks' = Append(tasks, Task(t, c))
        /\ t = "error" => Leave(c)
        /\ t # "error" => UNCHANGED sock
  BY DEF Connect, Arrive, Leave
<1>3. PICK x : x = Task(t, c)
  OBVIOUS
<1>4. /\ x \in Items(Len(heap)) /\ x.t = t /\ x.c = c
  BY <1>1, <1>3, TaskItem DEF TaskKinds
<1>5. tasks' = tasks \o <<x>> /\ <<x>> \in Seq(Items(Len(heap)))
  BY <1>1, <1>2, <1>3, <1>4, AppendIsConcat
<1>6. CASE t # "error"
  <2>1. \A i \in 1..Len(<<x>>) : <<x>>[i].t \notin Closes \cup Endings
    <3>1. \A i \in 1..Len(<<x>>) : <<x>>[i] = x
      OBVIOUS
    <3>2. x.t \notin Closes \cup Endings
      BY <1>4, <1>6 DEF Closes, Endings
    <3> QED BY <3>1, <3>2
  <2>2. \A d \in Clients : EndOK(d)'
    <3>1. Len(heap) <= Len(heap)
      BY <1>1
    <3> HIDE DEF network
    <3> QED BY <1>1, <1>2, <1>5, <1>6, <2>1, <3>1, EndQuiet
  <2>3. Listeners' = Listeners
    BY <1>1, <1>2, <1>6 DEF Listeners
  <2>4. Kept'
    BY <1>1, <2>3, KeptStays DEF KInv
  <2> QED BY <2>2, <2>4 DEF KInv
<1>7. CASE t = "error"
  <2>1. c \in Leaves /\ sock' = [sock EXCEPT ![c] = "closed"]
    BY <1>2, <1>7 DEF Leave
  <2>2. ASSUME NEW d \in Clients PROVE EndOK(d)'
    <3>1. No(<<x>>, Closes, d) /\ (d # c => No(<<x>>, Endings, d))
      BY <1>1, <1>4, <1>7, OneTask DEF Is, Closes
    <3>2. IF d = c THEN sock'[d] = "closed" ELSE sock'[d] = sock[d]
      BY <1>1, <2>1 DEF NetOK
    <3>3. Len(heap) <= Len(heap)
      BY <1>1
    <3> QED BY <1>1, <1>5, <2>1, <3>1, <3>2, <3>3, EndStays
  <2>3. Listeners' = {}
    BY <1>1, <2>1 DEF Listeners, OnlyListenerLeaves, NetOK, IInv, MemoryOK
  <2>4. Kept'
    BY <1>1, <2>3, KeptStays DEF KInv
  <2> QED BY <2>2, <2>4 DEF KInv
<1> QED BY <1>6, <1>7

(* The console never touches an entry of the map.                          *)
LEMMA ConsoleKInv ==
  ASSUME IInv, LInv, KInv,
         (\E p \in Clients \cup {0} : TypeFocus(p)) \/ TypeStop \/ TypeShow \/ Show
           \/ TypeExit \/ Join
  PROVE  KInv'
<1> USE DEF network, memory, console, history
<1>1. /\ Len(heap) \in Nat /\ tasks \in Seq(Items(Len(heap))) /\ NetOK /\ ConsoleOK
      /\ UNCHANGED <<acceptor, sock, heap, rooms, logged>>
  BY DEF IInv, MemoryOK, LInv, TasksOK, TypeFocus, TypeStop, TypeShow, Show, TypeExit, Join
<1>2. m_mgr' = m_mgr \/ \E c : m_mgr' = Insert(m_mgr, c)
  BY DEF TypeFocus, TypeStop, TypeShow, Show, TypeExit, Join
<1>3. Kept'
  BY <1>1, <1>2, KeptStays DEF KInv, Listeners
<1>4. PICK ts \in Seq(Items(Len(heap))) :
        /\ tasks' = tasks \o ts
        /\ \A i \in 1..Len(ts) : ts[i].t \notin Closes \cup Endings
  <2>1. ASSUME NEW t \in {"focus", "stop", "close"}, NEW p \in Clients \cup {0},
               tasks' = Append(tasks, Task(t, p))
        PROVE  \E ts \in Seq(Items(Len(heap))) :
                 /\ tasks' = tasks \o ts
                 /\ \A i \in 1..Len(ts) : ts[i].t \notin Closes \cup Endings
    <3>1. PICK x : x = Task(t, p)
      OBVIOUS
    <3>2. x \in Items(Len(heap)) /\ x.t = t
      BY <1>1, <3>1, TaskItem DEF TaskKinds
    <3>3. tasks' = tasks \o <<x>> /\ <<x>> \in Seq(Items(Len(heap)))
      BY <1>1, <2>1, <3>1, <3>2, AppendIsConcat
    <3>4. \A i \in 1..Len(<<x>>) : <<x>>[i] = x
      OBVIOUS
    <3> QED BY <3>2, <3>3, <3>4 DEF Closes, Endings
  <2>2. ASSUME tasks' = tasks
        PROVE  \E ts \in Seq(Items(Len(heap))) :
                 /\ tasks' = tasks \o ts
                 /\ \A i \in 1..Len(ts) : ts[i].t \notin Closes \cup Endings
    <3>1. PICK e : e = <<>>
      OBVIOUS
    <3>2. tasks = tasks \o e /\ e \in Seq(Items(Len(heap))) /\ Len(e) = 0
      BY <1>1, <3>1, ConcatEmptySeq
    <3>3. \A i \in 1..Len(e) : e[i].t \notin Closes \cup Endings
      BY <3>2
    <3>4. tasks' = tasks \o e
      BY <2>2, <3>2
    <3> QED BY <3>2, <3>3, <3>4
  <2>3. ASSUME Show
        PROVE  \E ts \in Seq(Items(Len(heap))) :
                 /\ tasks' = tasks \o ts
                 /\ \A i \in 1..Len(ts) : ts[i].t \notin Closes \cup Endings
    <3> DEFINE o == RoomOf(m_mgr, main.sp)
               image == IF o = 0 THEN 0 ELSE heap[o]["image-client"]
    <3>1. tasks' = tasks \o ShowVideo(main.sp, o, image)
      BY <2>3 DEF Show
    <3>2. o \in 0..Len(heap)
      BY RoomOfSome
    <3>3. main.sp \in Clients
      BY <1>1, <2>3 DEF Show, ConsoleOK
    <3> HIDE DEF o
    <3>4. image \in Clients \cup {0}
      <4>1. CASE o = 0
        BY <4>1
      <4>2. CASE o # 0
        <5>1. o \in 1..Len(heap) /\ "image-client" \in Roles
          BY <1>1, <3>2, <4>2 DEF Roles
        <5> QED BY <4>2, <5>1, PlacedAccepted
      <4> QED BY <4>1, <4>2
    <3> HIDE DEF image
    <3> QED BY <1>1, <3>1, <3>2, <3>3, <3>4, ShowPosts
  <2> QED BY <1>1, <2>1, <2>2, <2>3 DEF TypeFocus, TypeStop, TypeShow, TypeExit, Join, ConsoleOK
<1>5. Len(heap) <= Len(heap)
  BY <1>1
<1>6. \A d \in Clients : EndOK(d)'
  BY <1>1, <1>4, <1>5, EndQuiet
<1> QED BY <1>3, <1>6 DEF KInv

(* A task of the io thread ends only who has left.                         *)
LEMMA HeadEnds ==
  ASSUME IInv, LInv, KInv, acceptor = "open",
         NEW c \in Clients, NEW t \in {"error", "remove", "socket_close"}, Runs(t, c)
  PROVE  t # "socket_close" /\ sock[c] = "closed" /\ c \in Leaves
<1>1. /\ Len(heap) \in Nat /\ tasks \in Seq(Items(Len(heap))) /\ tasks # <<>>
      /\ Head(tasks).t = t /\ Head(tasks).c = c /\ EndOK(c)
      /\ Closes \in SUBSET TaskKinds /\ Endings \in SUBSET TaskKinds
  BY DEF IInv, MemoryOK, LInv, TasksOK, KInv, Runs, Closes, Endings, TaskKinds
<1>2. \A K \in SUBSET TaskKinds : No(tasks, K, c) => t \notin K
  BY <1>1, TailItems DEF Is
<1>3. t # "socket_close"
  BY <1>1, <1>2 DEF EndOK, Closes
<1>4. sock[c] = "closed"
  BY <1>1, <1>2, <1>3 DEF EndOK, Endings
<1> QED BY <1>1, <1>3, <1>4 DEF EndOK

(* What is posted for nobody's end may be nothing or one task.             *)
LEMMA Posts ==
  ASSUME NEW n \in Nat, NEW t \in TaskKinds \ (Closes \cup Endings), NEW p \in Clients \cup {0},
         NEW ts, ts = <<>> \/ ts = <<Task(t, p)>>
  PROVE  /\ ts \in Seq(Items(n))
         /\ \A i \in 1..Len(ts) : ts[i].t \notin Closes \cup Endings
<1>1. PICK x : x = Task(t, p)
  OBVIOUS
<1>2. x \in Items(n) /\ x.t = t
  BY <1>1, TaskItem
<1>3. <<x>> \in Seq(Items(n)) /\ \A i \in 1..Len(<<x>>) : <<x>>[i] = x
  BY <1>2
<1>4. CASE ts = <<>>
  <2>1. ts \in Seq(Items(n)) /\ Len(ts) = 0
    BY <1>4
  <2> QED BY <2>1
<1>5. CASE ts = <<x>>
  BY <1>2, <1>3, <1>5
<1> QED BY <1>1, <1>4, <1>5

(* The io thread accepts, ends and removes connections.                    *)
LEMMA ConnectionKInv ==
  ASSUME OnlyListenerLeaves, IInv, LInv, KInv, acceptor = "open",
         NEW c \in Clients,
         RunAccept(c) \/ RunError(c) \/ RunRemove(c) \/ RunSocketClose(c)
  PROVE  KInv'
<1> USE DEF network, memory, console, history
<1>1. /\ Len(heap) \in Nat /\ NetOK /\ tasks # <<>> /\ Len(heap) <= Len(heap)
  BY DEF IInv, MemoryOK, LInv, RunAccept, RunError, RunRemove, RunSocketClose, Runs
<1>2. CASE RunAccept(c)
  <2>1. /\ tasks' = Tail(tasks) \o <<>> /\ m_mgr' = Insert(m_mgr, c)
        /\ sock' = [sock EXCEPT ![c] = "open"] /\ UNCHANGED <<acceptor, heap, rooms, logged>>
    BY <1>2 DEF RunAccept, Done
  <2>2. sock[c] = "away" /\ c \notin logged
    <3>1. "accept" \in TaskKinds \ {"focus"} /\ Runs("accept", c)
      BY <1>2 DEF TaskKinds, RunAccept
    <3>2. sock[c] = "away"
      BY <3>1, HeadTaken
    <3> QED BY <3>2 DEF LInv, Life
  <2>3. \A d \in Clients : IF d = c THEN sock'[d] = "open" ELSE sock'[d] = sock[d]
    BY <1>1, <2>1 DEF NetOK
  <2>4. Listeners' = Listeners
    BY <2>1, <2>2, <2>3 DEF Listeners, IInv, MemoryOK
  <2>5. Kept'
    BY <2>1, <2>4, KeptStays DEF KInv
  <2>6. PICK ts \in Seq(Items(Len(heap))) :
          tasks' = Tail(tasks) \o ts /\ Len(ts) = 0
    <3>1. <<>> \in Seq(Items(Len(heap))) /\ Len(<<>>) = 0
      OBVIOUS
    <3> QED BY <2>1, <3>1
  <2>7. ASSUME NEW d \in Clients PROVE EndOK(d)'
    <3>1. No(ts, Closes, d) /\ No(ts, Endings, d)
      BY <2>6 DEF No
    <3> QED BY <1>1, <2>1, <2>2, <2>3, <2>6, <3>1, EndStays
  <2> QED BY <2>5, <2>7 DEF KInv
<1>3. CASE RunError(c)
  <2>1. sock[c] = "closed" /\ c \in Leaves
    BY <1>3, HeadEnds DEF RunError
  <2>2. /\ tasks' = Tail(tasks) \o <<Task("remove", c)>>
        /\ sock' = [sock EXCEPT ![c] = "closed"]
        /\ UNCHANGED <<acceptor, m_mgr, heap, rooms, logged>>
    BY <1>3 DEF RunError, Done
  <2>3. \A d \in Clients : sock'[d] = sock[d]
    BY <1>1, <2>1, <2>2 DEF NetOK
  <2>4. Listeners' = Listeners
    BY <2>2, <2>3 DEF Listeners, IInv, MemoryOK
  <2>5. Kept'
    BY <2>2, <2>4, KeptStays DEF KInv
  <2>6. PICK x : x = Task("remove", c)
    OBVIOUS
  <2>7. x \in Items(Len(heap)) /\ x.t = "remove" /\ x.c = c
    BY <1>1, <2>6, TaskItem DEF TaskKinds
  <2>8. ASSUME NEW d \in Clients PROVE EndOK(d)'
    <3>1. <<x>> \in Seq(Items(Len(heap))) /\ No(<<x>>, Closes, d)
          /\ (d # c => No(<<x>>, Endings, d))
      BY <1>1, <2>7, OneTask DEF Is, Closes
    <3> QED BY <1>1, <2>1, <2>2, <2>3, <2>6, <3>1, EndStays
  <2> QED BY <2>5, <2>8 DEF KInv
<1>4. CASE RunRemove(c)
  <2>1. sock[c] = "closed" /\ c \in Leaves
    BY <1>4, HeadEnds DEF RunRemove
  <2>2. tasks' = Tail(tasks) \o <<>> /\ UNCHANGED <<acceptor, sock, heap, rooms, logged>>
    BY <1>4 DEF RunRemove, Done
  <2>3. Listeners' = {}
    BY <2>1, <2>2 DEF Listeners, OnlyListenerLeaves, IInv, MemoryOK
  <2>4. Kept'
    BY <2>3 DEF Kept
  <2>5. PICK ts \in Seq(Items(Len(heap))) :
          tasks' = Tail(tasks) \o ts /\ Len(ts) = 0
    <3>1. <<>> \in Seq(Items(Len(heap))) /\ Len(<<>>) = 0
      OBVIOUS
    <3> QED BY <2>2, <3>1
  <2>6. \A i \in 1..Len(ts) : ts[i].t \notin Closes \cup Endings
    BY <2>5
  <2>7. \A d \in Clients : EndOK(d)'
    BY <1>1, <2>2, <2>5, <2>6, EndQuiet
  <2> QED BY <2>4, <2>7 DEF KInv
<1>5. CASE RunSocketClose(c)
  <2>1. Runs("socket_close", c)
    BY <1>5 DEF RunSocketClose
  <2> QED BY <2>1, HeadEnds
<1> QED BY <1>2, <1>3, <1>4, <1>5

(* The other tasks, but for the messages.                                  *)
LEMMA OtherKInv ==
  ASSUME IInv, LInv, KInv,
         \/ \E c \in Clients : RunStart(c) \/ RunStop(c) \/ RunWrite(c)
         \/ \E p \in Clients \cup {0} : RunFocus(p)
  PROVE  KInv'
<1> USE DEF network, memory, console, history
<1>1. /\ Len(heap) \in Nat /\ tasks # <<>> /\ Len(heap) <= Len(heap)
      /\ UNCHANGED <<acceptor, sock, m_mgr, heap, rooms, logged>>
  <2>1. Len(heap) \in Nat /\ Len(heap) <= Len(heap)
    BY DEF IInv, MemoryOK
  <2>2. tasks # <<>> /\ UNCHANGED <<acceptor, sock, m_mgr, heap, rooms, logged>>
    BY DEF RunStart, RunStop, RunWrite, RunFocus, Runs
  <2> QED BY <2>1, <2>2
<1>2. Kept'
  <2>1. Listeners' = Listeners
    BY <1>1 DEF Listeners
  <2> QED BY <1>1, <2>1, KeptStays DEF KInv
<1>3. PICK ts \in Seq(Items(Len(heap))) :
        /\ tasks' = Tail(tasks) \o ts
        /\ \A i \in 1..Len(ts) : ts[i].t \notin Closes \cup Endings
  <2>1. PICK t \in {"write", "focus"}, p \in Clients \cup {0} :
          tasks' = Tail(tasks) \o <<>> \/ tasks' = Tail(tasks) \o <<Task(t, p)>>
    <3>1. ASSUME NEW c \in Clients, RunStart(c) \/ RunStop(c) \/ RunWrite(c)
          PROVE  \E p \in Clients \cup {0} :
                   tasks' = Tail(tasks) \o <<>> \/ tasks' = Tail(tasks) \o <<Task("write", p)>>
      <4>1. Head(tasks).image \in Clients \cup {0}
        BY <1>1, HeadKnown DEF Items
      <4> QED BY <3>1, <4>1 DEF RunStart, RunStop, RunWrite, Done
    <3>2. ASSUME NEW q \in Clients \cup {0}, RunFocus(q)
          PROVE  \E p \in Clients \cup {0} :
                   tasks' = Tail(tasks) \o <<>> \/ tasks' = Tail(tasks) \o <<Task("focus", p)>>
      <4> DEFINE k == IF DOMAIN m_mgr = {} THEN 0 ELSE CHOOSE k \in DOMAIN m_mgr : TRUE
      <4>1. k \in Clients \cup {0}
        BY DEF LInv, ConsoleOK
      <4>2. \/ tasks' = Tail(tasks) \o <<>>
            \/ tasks' = Tail(tasks) \o <<Task("focus", k)>>
        BY <3>2 DEF RunFocus, Done
      <4> QED BY <4>1, <4>2
    <3> QED BY <3>1, <3>2
  <2>2. t \in TaskKinds \ (Closes \cup Endings)
    BY DEF TaskKinds, Closes, Endings
  <2>3. PICK ts : tasks' = Tail(tasks) \o ts /\ (ts = <<>> \/ ts = <<Task(t, p)>>)
    BY <2>1
  <2> QED BY <1>1, <2>2, <2>3, Posts
<1>4. \A d \in Clients : EndOK(d)'
  BY <1>1, <1>3, EndQuiet
<1> QED BY <1>2, <1>4 DEF KInv

(* What a message posts before its own: the error of a closed socket.      *)
LEMMA MessageEnds ==
  ASSUME IInv, LInv, KInv, NEW c \in Clients, Runs("message", c),
         NEW n \in Nat, Len(heap) <= n, NEW ts \in Seq(Items(n)),
         \A i \in 1..Len(ts) : ts[i].t \notin Closes \cup Endings,
         Done(Failed(c) \o ts), UNCHANGED <<acceptor, sock>>
  PROVE  \A d \in Clients : EndOK(d)'
<1>1. tasks # <<>> /\ tasks' = Tail(tasks) \o (Failed(c) \o ts) /\ sock[c] # "away" /\ NetOK
  <2>1. "message" \in TaskKinds \ {"focus"}
    BY DEF TaskKinds
  <2> QED BY <2>1, HeadTaken DEF Runs, Done, LInv
<1>2. PICK x : x = Task("error", c)
  OBVIOUS
<1>3. x \in Items(n) /\ x.t = "error" /\ x.c = c
  BY <1>2, TaskItem DEF TaskKinds
<1>4. /\ Failed(c) = <<>> \/ Failed(c) = <<x>>
      /\ sock[c] = "open" => Failed(c) = <<>>
  BY <1>2 DEF Failed
<1>5. ASSUME NEW d \in Clients PROVE EndOK(d)'
  <2>1. Closes \in SUBSET TaskKinds /\ Endings \in SUBSET TaskKinds
    BY DEF Closes, Endings, TaskKinds
  <2>2. /\ Failed(c) \in Seq(Items(n)) /\ No(Failed(c), Closes, d)
        /\ sock[d] # "closed" => No(Failed(c), Endings, d)
    <3>1. CASE Failed(c) = <<>>
      BY <3>1, NoTask
    <3>2. CASE Failed(c) = <<x>>
      <4>1. sock[c] = "closed"
        <5>1. <<x>> # <<>>
          OBVIOUS
        <5> QED BY <1>1, <1>4, <3>2, <5>1 DEF NetOK
      <4> QED BY <1>3, <3>2, <4>1, OneTask DEF Is, Closes
    <3> QED BY <1>4, <3>1, <3>2
  <2>3. No(ts, Closes, d) /\ No(ts, Endings, d)
    BY DEF No, Is
  <2>4. /\ Failed(c) \o ts \in Seq(Items(n)) /\ No(Failed(c) \o ts, Closes, d)
        /\ sock[d] # "closed" => No(Failed(c) \o ts, Endings, d)
    BY <2>1, <2>2, <2>3, ConcatItems
  <2> QED BY <1>1, <2>4, EndStays
<1> QED BY <1>5

(* An image or a hint changes no room.                                     *)
LEMMA RunNamesKInv ==
  ASSUME IInv, LInv, KInv, NEW c \in Clients, RunNames(c)
  PROVE  KInv'
<1> USE DEF network, memory, console, history
<1> DEFINE o == RoomOf(m_mgr, c)
           a == IF o = 0 THEN 0 ELSE Lock(heap[o]["audio-client"])
<1>1. /\ Runs("message", c)
      /\ Done(Failed(c)) \/ Done(Failed(c) \o (IF a = 0 THEN <<>> ELSE <<Task("write", a)>>))
      /\ m_mgr' = m_mgr \/ m_mgr' = Insert(m_mgr, c)
      /\ UNCHANGED <<acceptor, sock, heap, rooms, logged>>
  BY DEF RunNames
<1>2. Len(heap) \in Nat /\ o \in 0..Len(heap)
  BY RoomOfSome DEF IInv, MemoryOK
<1> HIDE DEF o
<1>3. a \in Clients \cup {0}
  <2>1. CASE o = 0
    BY <2>1
  <2>2. CASE o # 0
    <3>1. o \in 1..Len(heap) /\ "audio-client" \in Roles
      BY <1>2, <2>2 DEF Roles
    <3>2. a = 0 \/ a = heap[o]["audio-client"]
      BY <2>2 DEF Lock
    <3> HIDE DEF a
    <3> QED BY <3>1, <3>2, PlacedAccepted
  <2> QED BY <2>1, <2>2
<1> HIDE DEF a
<1>4. PICK ts \in Seq(Items(Len(heap))) :
        /\ Done(Failed(c) \o ts)
        /\ \A i \in 1..Len(ts) : ts[i].t \notin Closes \cup Endings
  <2>1. Failed(c) = Failed(c) \o <<>>
    <3>1. PICK x : x = Task("error", c)
      OBVIOUS
    <3>2. x \in Items(Len(heap)) /\ (Failed(c) = <<>> \/ Failed(c) = <<x>>)
      BY <1>2, <3>1, TaskItem DEF TaskKinds, Failed
    <3>3. Failed(c) \in Seq(Items(Len(heap)))
      BY <1>2, <3>2, OneTask, NoTask
    <3> QED BY <3>3, ConcatEmptySeq
  <2>2. PICK ts : (ts = <<>> \/ ts = <<Task("write", a)>>) /\ Done(Failed(c) \o ts)
    BY <1>1, <2>1
  <2>3. "write" \in TaskKinds \ (Closes \cup Endings)
    BY DEF TaskKinds, Closes, Endings
  <2> QED BY <1>2, <1>3, <2>2, <2>3, Posts
<1>5. \A d \in Clients : EndOK(d)'
  <2>1. Len(heap) <= Len(heap)
    BY <1>2
  <2> HIDE DEF network
  <2> QED BY <1>1, <1>2, <1>4, <2>1, MessageEnds
<1>6. Kept'
  <2>1. Listeners' = Listeners
    BY <1>1 DEF Listeners
  <2> QED BY <1>1, <2>1, KeptStays DEF KInv
<1> QED BY <1>5, <1>6 DEF KInv

(* After an assignment there is an entry, and every entry is the room.     *)
LEMMA AssignSome ==
  ASSUME NEW map, OneKey(map), NEW c, NEW o
  PROVE  DOMAIN Assign(map, c, o) # {} /\ \A k \in DOMAIN Assign(map, c, o) : Assign(map, c, o)[k] = o
<1> DEFINE key == IF Equivalent(map, c) = {} THEN c ELSE CHOOSE k \in Equivalent(map, c) : TRUE
<1>1. Assign(map, c, o) = Put(map, key, o)
  BY DEF Assign
<1> HIDE DEF key
<1>2. key \in DOMAIN Assign(map, c, o)
  BY <1>1 DEF Put
<1> QED BY <1>2, AssignOne

(* A login that enters a room while somebody listens enters the room of    *)
(* everyone; the listener's own login opens it.                            *)
LEMMA EnterKept ==
  ASSUME OneRoom, OnlyListenerLeaves, IInv, IInv', LInv, KInv, acceptor = "open",
         NEW c \in Clients, c \notin logged, sock[c] # "away", Login[c].role \in Roles,
         EnterRoom(c), logged' = logged \cup {c}, UNCHANGED <<acceptor, sock>>
  PROVE  Kept'
<1> DEFINE id    == Login[c].room
           role  == Login[c].role
           old   == rooms[id]
           fresh == old = 0 \/ ~RoomAlive(old)
           o     == IF fresh THEN Len(heap) + 1 ELSE old
           empty == [r \in Roles |-> 0]
<1>1. /\ heap \in Seq([Roles -> Clients \cup {0}]) /\ Len(heap) \in Nat
      /\ rooms \in [RoomIds -> 0..Len(heap)] /\ id \in RoomIds /\ OneKey(m_mgr)
      /\ logged \subseteq Clients /\ NetOK
  BY DEF IInv, MemoryOK, RoomIds, LInv
<1>2. /\ heap' = IF fresh THEN Append(heap, Place(empty, role, c))
                 ELSE [heap EXCEPT ![o] = Place(@, role, c)]
      /\ m_mgr' = Assign(m_mgr, c, o)
      /\ rooms' = [rooms EXCEPT ![id] = o]
  BY DEF EnterRoom
<1>3. /\ o \in 1..Len(heap')
      /\ heap'[o][role] = c
      /\ ~fresh => \A r \in Roles \ {role} : heap'[o][r] = heap[o][r]
  <2>1. CASE fresh
    <3>1. PICK p : p = Place(empty, role, c)
      OBVIOUS
    <3>2. p \in [Roles -> Clients \cup {0}] /\ p[role] = c
      BY <3>1 DEF Place
    <3>3. /\ heap' = Append(heap, p) /\ o = Len(heap) + 1
      BY <1>2, <2>1, <3>1
    <3> HIDE DEF o, fresh
    <3>4. Len(heap') = Len(heap) + 1 /\ heap'[Len(heap) + 1] = p
      BY <1>1, <3>2, <3>3
    <3> QED BY <1>1, <2>1, <3>2, <3>3, <3>4
  <2>2. CASE ~fresh
    <3>1. o \in 1..Len(heap) /\ o = old
      BY <1>1, <2>2
    <3>2. PICK p : p = Place(heap[o], role, c)
      OBVIOUS
    <3>3. heap[o] \in [Roles -> Clients \cup {0}]
      BY <1>1, <3>1
    <3>4. /\ p \in [Roles -> Clients \cup {0}] /\ p[role] = c
          /\ \A r \in Roles \ {role} : p[r] = heap[o][r]
      BY <3>2, <3>3 DEF Place
    <3>5. heap' = [heap EXCEPT ![o] = p]
      BY <1>2, <2>2, <3>2
    <3> HIDE DEF o, fresh
    <3>6. Len(heap') = Len(heap) /\ heap'[o] = p
      BY <1>1, <3>1, <3>4, <3>5
    <3> QED BY <1>1, <3>1, <3>4, <3>6
  <2> QED BY <2>1, <2>2
<1>4. DOMAIN m_mgr' # {} /\ \A k \in DOMAIN m_mgr' : m_mgr'[k] = o
  <2> HIDE DEF o
  <2> QED BY <1>1, <1>2, AssignSome
<1>5. \A d \in Clients : Login[d].role \in Roles => rooms'[Login[d].room] = o
  <2> HIDE DEF o
  <2> QED BY <1>1, <1>2 DEF OneRoom
<1>7. old # 0 /\ RoomAlive(old) => ~fresh /\ o = old
  OBVIOUS
<1> HIDE DEF o, fresh
<1>6. ASSUME Listeners' # {} PROVE heap'[o]["audio-client"] \in Listeners'
  <2>1. CASE role = "audio-client"
    <3>1. sock[c] = "open"
      <4>1. CASE sock[c] = "closed"
        <5>1. c \in Leaves
          BY <4>1 DEF KInv, EndOK
        <5>2. PICK a \in Listeners' : TRUE
          BY <1>6
        <5>3. a \in Clients /\ Login[a].role = "audio-client" /\ sock[a] = "open"
          BY <1>1, <5>2 DEF Listeners
        <5> QED BY <4>1, <5>1, <5>3 DEF OnlyListenerLeaves
      <4> QED BY <1>1, <4>1 DEF NetOK
    <3>2. c \in Listeners'
      BY <2>1, <3>1 DEF Listeners
    <3> QED BY <1>3, <2>1, <3>2
  <2>2. CASE role # "audio-client"
    <3>1. Listeners' = Listeners
      BY <2>2 DEF Listeners
    <3>2. PICK k \in DOMAIN m_mgr : m_mgr[k] = old
      BY <1>6, <3>1 DEF KInv, Kept
    <3>3. old \in 1..Len(heap) /\ heap[old]["audio-client"] \in Listeners
      BY <1>6, <3>1, <3>2 DEF KInv, Kept
    <3>4. ~fresh
      BY <1>1, <1>7, <3>2, <3>3 DEF RoomAlive
    <3>5. "audio-client" \in Roles \ {role}
      BY <2>2 DEF Roles
    <3>6. heap'[o]["audio-client"] = heap[o]["audio-client"] /\ o = old
      <4>1. old # 0 /\ RoomAlive(old)
        BY <1>1, <3>2, <3>3 DEF RoomAlive
      <4> QED BY <1>3, <1>7, <3>4, <3>5, <4>1
    <3> QED BY <3>1, <3>3, <3>6
  <2> QED BY <2>1, <2>2
<1> QED BY <1>3, <1>4, <1>5, <1>6 DEF Kept

(* No room of the heap is lost by a login.                                 *)
LEMMA RoomsStay ==
  ASSUME heap \in Seq([Roles -> Clients \cup {0}]), heap' \in Seq([Roles -> Clients \cup {0}]),
         NEW c, EnterRoom(c)
  PROVE  Len(heap) <= Len(heap')
<1>1. Len(heap) \in Nat /\ Len(heap') \in Nat
  OBVIOUS
<1>2. CASE heap' = heap
  BY <1>1, <1>2
<1>3. ASSUME NEW x, heap' = Append(heap, x)
      PROVE  Len(heap) <= Len(heap')
  <2>1. Len(heap') = Len(heap) + 1
    BY <1>3
  <2> QED BY <1>1, <2>1
<1>4. ASSUME NEW i, NEW x, heap' = [heap EXCEPT ![i] = x]
      PROVE  Len(heap) <= Len(heap')
  <2>1. DOMAIN heap' = DOMAIN heap
    BY <1>4
  <2>2. DOMAIN heap = 1..Len(heap) /\ DOMAIN heap' = 1..Len(heap')
    OBVIOUS
  <2> QED BY <1>1, <2>1, <2>2
<1> QED BY <1>2, <1>3, <1>4 DEF EnterRoom

(* A login keeps the room.                                                 *)
LEMMA RunLoginKInv ==
  ASSUME OneRoom, OnlyListenerLeaves, IInv, IInv', LInv, KInv, acceptor = "open",
         NEW c \in Clients, RunLogin(c)
  PROVE  KInv'
<1> USE DEF network, memory, console, history
<1> DEFINE n == Len(heap')
           o == RoomOf(m_mgr', c)
           image == IF o = 0 THEN 0 ELSE heap'[o]["image-client"]
<1>1. /\ Runs("message", c) /\ c \notin logged
      /\ logged' = logged \cup {c} /\ EnterRoom(c)
      /\ Done(Failed(c) \o ShowVideo(c, o, image))
      /\ UNCHANGED <<acceptor, sock>>
  BY DEF RunLogin
<1>2. /\ heap \in Seq([Roles -> Clients \cup {0}]) /\ Len(heap) \in Nat
      /\ heap' \in Seq([Roles -> Clients \cup {0}]) /\ n \in Nat
      /\ \A k \in DOMAIN m_mgr' : m_mgr'[k] \in 0..n
      /\ sock[c] # "away"
  <2>1. "message" \in TaskKinds \ {"focus"}
    BY DEF TaskKinds
  <2>2. sock[c] # "away"
    BY <1>1, <2>1, HeadTaken
  <2> QED BY <2>2 DEF IInv, MemoryOK
<1>3. Len(heap) <= n
  BY <1>1, <1>2, RoomsStay
<1>4. o \in 0..n
  BY <1>2, RoomOfRange
<1> HIDE DEF o
<1>5. image \in Clients \cup {0}
  <2>1. CASE o = 0
    BY <2>1
  <2>2. CASE o # 0
    <3>1. o \in 1..n /\ "image-client" \in Roles /\ heap'[o] \in [Roles -> Clients \cup {0}]
      BY <1>2, <1>4, <2>2 DEF Roles
    <3> QED BY <2>2, <3>1
  <2> QED BY <2>1, <2>2
<1> HIDE DEF image
<1>6. /\ ShowVideo(c, o, image) \in Seq(Items(n))
      /\ \A i \in 1..Len(ShowVideo(c, o, image)) :
           ShowVideo(c, o, image)[i].t \notin Closes \cup Endings
  BY <1>2, <1>4, <1>5, ShowPosts
<1>7. \A d \in Clients : EndOK(d)'
  <2> HIDE DEF n, network
  <2> QED BY <1>1, <1>2, <1>3, <1>6, MessageEnds
<1>8. Kept'
  <2>1. CASE Login[c].role \in Roles
    BY <1>1, <1>2, <2>1, EnterKept
  <2>2. CASE Login[c].role \notin Roles
    <3>1. m_mgr' = Insert(m_mgr, c) /\ UNCHANGED <<heap, rooms>>
      BY <1>1, <2>2 DEF EnterRoom
    <3>2. Listeners' = Listeners
      BY <1>1, <2>2 DEF Listeners, Roles
    <3> QED BY <1>1, <3>1, <3>2, KeptStays DEF KInv
  <2> QED BY <2>1, <2>2
<1> QED BY <1>7, <1>8 DEF KInv

(* At first nobody listens and nothing is queued.                          *)
LEMMA InitKInv == Init => KInv
<1> SUFFICES ASSUME Init PROVE KInv
  OBVIOUS
<1>1. Len(tasks) = 0 /\ logged = {} /\ sock = [c \in Clients |-> "away"]
  BY DEF Init
<1> QED BY <1>1 DEF KInv, Kept, EndOK, Listeners, No

(* Every step keeps the listener's room.                                   *)
LEMMA NextKInv ==
  ASSUME OneRoom, OnlyListenerLeaves, IInv, IInv', LInv, KInv, [Next]_vars
  PROVE  KInv'
<1>1. CASE acceptor # "open"
  <2>1. acceptor' # "open"
    BY <1>1 DEF Next, IoThread, Connect, Arrive, Leave, RunAccept, RunLogin, RunNames,
       RunError, RunRemove, RunStart, RunStop, RunWrite, RunSocketClose, RunClose, RunFocus,
       TypeFocus, TypeStop, TypeShow, Show, TypeExit, Join, network, memory, console,
       history, vars
  <2> QED BY <2>1 DEF KInv, Kept, EndOK
<1>2. CASE acceptor = "open"
  <2>1. ASSUME NEW c \in Clients, Connect(c) \/ Arrive(c) \/ Leave(c) PROVE KInv'
    BY <2>1, NetworkKInv
  <2>2. ASSUME NEW c \in Clients,
               RunAccept(c) \/ RunError(c) \/ RunRemove(c) \/ RunSocketClose(c)
        PROVE  KInv'
    BY <1>2, <2>2, ConnectionKInv
  <2>3. ASSUME NEW c \in Clients, RunLogin(c) \/ RunNames(c) PROVE KInv'
    BY <1>2, <2>3, RunLoginKInv, RunNamesKInv
  <2>4. ASSUME \/ \E c \in Clients : RunStart(c) \/ RunStop(c) \/ RunWrite(c)
               \/ \E p \in Clients \cup {0} : RunFocus(p)
        PROVE  KInv'
    BY <2>4, OtherKInv
  <2>5. CASE RunClose
    BY <2>5 DEF RunClose, KInv, Kept, EndOK
  <2>6. ASSUME (\E p \in Clients \cup {0} : TypeFocus(p)) \/ TypeStop \/ TypeShow
                 \/ Show \/ TypeExit \/ Join
        PROVE  KInv'
    BY <2>6, ConsoleKInv
  <2>7. CASE UNCHANGED vars
    <3>1. UNCHANGED <<acceptor, sock, m_mgr, heap, rooms, tasks, logged>>
      BY <2>7 DEF vars
    <3>2. Kept'
      BY <3>1, KeptStays DEF KInv, Listeners
    <3>3. \A d \in Clients : EndOK(d)'
      BY <3>1 DEF KInv, EndOK
    <3> QED BY <3>2, <3>3 DEF KInv
  <2> QED BY <2>1, <2>2, <2>3, <2>4, <2>5, <2>6, <2>7 DEF Next, IoThread
<1> QED BY <1>1, <1>2

(* A name that is passed on in such a state goes to a listener.            *)
LEMMA NamesStep ==
  ASSUME OneRoom, IInv, LInv, KInv, NEW c \in Clients, RunNames(c),
         Len(names') > Len(names), Login[c].role = "image-client",
         Listening(c) # {}, acceptor = "open"
  PROVE  names'[Len(names')].from = c /\ names'[Len(names')].to \in Listening(c)
<1> DEFINE o == RoomOf(m_mgr, c)
           a == IF o = 0 THEN 0 ELSE Lock(heap[o]["audio-client"])
<1>1. Listening(c) = Listeners
  <2>1. \A b \in Listeners : b \in Clients
    BY DEF Listeners, IInv, MemoryOK
  <2>2. Login[c].role \in Roles /\ "audio-client" \in Roles
    BY DEF Roles
  <2> QED BY <2>1, <2>2 DEF Listening, Listeners, OneRoom
<1>2. /\ DOMAIN m_mgr # {}
      /\ \A k \in DOMAIN m_mgr :
           m_mgr[k] \in 1..Len(heap) /\ heap[m_mgr[k]]["audio-client"] \in Listeners
  BY <1>1 DEF KInv, Kept
<1>3. PICK k \in DOMAIN m_mgr : o = m_mgr[k]
  BY <1>2, AllEquivalent DEF RoomOf
<1>4. names' = Append(names, [from |-> c, to |-> a])
  BY DEF RunNames
<1> HIDE DEF o
<1>5. a = heap[o]["audio-client"] /\ a \in Listeners
  <2>1. o # 0 /\ heap[o]["audio-client"] \in Listeners
    BY <1>2, <1>3 DEF IInv, MemoryOK
  <2>2. ASSUME NEW b \in Listeners PROVE Lock(b) = b
    <3>1. b \in Clients /\ sock[b] = "open" /\ b # 0
      BY ClientsAssumption DEF Listeners, IInv, MemoryOK
    <3>2. reading[b] # "none"
      BY <3>1 DEF LInv, NetOK
    <3> QED BY <3>1, <3>2 DEF Lock, Alive
  <2> QED BY <2>1, <2>2
<1> HIDE DEF a
<1>6. PICK r : r = [from |-> c, to |-> a]
  OBVIOUS
<1>7. /\ r.from = c /\ r.to = a
      /\ r \in [from : Clients, to : Clients \cup {0}]
  BY <1>5, <1>6 DEF Listeners, IInv, MemoryOK
<1>8. names'[Len(names')] = r
  BY <1>4, <1>6, <1>7 DEF IInv, MemoryOK
<1> QED BY <1>1, <1>5, <1>7, <1>8

(* If the clients enter one room and nobody but its listener leaves, the   *)
(* names found in an image go to a connected listener, whoever else        *)
(* connects and logs in, whatever is typed, until the server is closed     *)
(* (README.org:129): the comparator harms only several rooms and leavers.  *)
THEOREM NamesArrive ==
  ASSUME OneRoom, OnlyListenerLeaves
  PROVE  Spec => NamesReachAudio
<1>1. IInv /\ IInv' /\ LInv /\ KInv /\ [Next]_vars => KInv'
  BY NextKInv
<1> DEFINE Step ==
             LET n == names'[Len(names')]
             IN  Len(names') > Len(names) /\ Login[n.from].role = "image-client"
                   /\ Listening(n.from) # {} /\ acceptor = "open"
                     => n.to \in Listening(n.from)
<1>2. IInv /\ LInv /\ KInv /\ [Next]_vars => [Step]_vars
  <2> SUFFICES ASSUME IInv, LInv, KInv, Next, Len(names') > Len(names),
                      Login[names'[Len(names')].from].role = "image-client",
                      Listening(names'[Len(names')].from) # {}, acceptor = "open"
               PROVE  names'[Len(names')].to \in Listening(names'[Len(names')].from)
    OBVIOUS
  <2>1. names' # names
    BY DEF IInv, MemoryOK
  <2>2. PICK c \in Clients : RunNames(c)
    BY <2>1 DEF Next, IoThread, Connect, Arrive, Leave, RunAccept, RunLogin,
       RunError, RunRemove, RunStart, RunStop, RunWrite, RunSocketClose, RunClose, RunFocus,
       TypeFocus, TypeStop, TypeShow, Show, TypeExit, Join, history
  <2>3. names'[Len(names')].from = c
    <3>1. PICK to : names' = Append(names, [from |-> c, to |-> to])
      BY <2>1, <2>2 DEF RunNames
    <3>2. PICK r : r = [from |-> c, to |-> to]
      OBVIOUS
    <3>3. r.from = c /\ names' = Append(names, r) /\ Len(names) \in Nat
      BY <3>1, <3>2 DEF IInv, MemoryOK
    <3>4. names'[Len(names')] = r
      BY <3>3 DEF IInv, MemoryOK
    <3> QED BY <3>3, <3>4
  <2> QED BY <2>2, <2>3, NamesStep
<1> QED BY <1>1, <1>2, InitKInv, Inductive, LifeInductive, PTL DEF Spec, NamesReachAudio
=============================================================================
