-------------------------- MODULE ImageClient_proofs --------------------------
(* Theorems about the image client, for every number of orders and every   *)
(* room on the connection.                                                 *)
EXTENDS ImageClient, TLAPS

(* An order that the client has not got is one the server has sent.  While *)
(* a pump runs, one of the orders that the client got was a start.         *)
OrdersAccounted ==
  /\ Len(down) + stops <= orders
  /\ pending # <<>> => Len(down) + stops + 1 <= orders

(* If a stop is the last order on its way, and no order was given that the *)
(* client does not get or has not answered with a pump, then the session   *)
(* ignores images, unless it was the console that requested a stop.        *)
Accounted == Len(down) + stops + (IF pending = <<>> THEN 0 ELSE 1)
StopRules ==
  down # <<>> /\ down[Len(down)] = "image_stop" /\ orders <= Accounted
    => m_stop \/ requested

(* Pumps come from starts that follow a stop, and from the first start.    *)
PumpsAccounted == Len(pending) <= stops + (IF m_start THEN 1 ELSE 0)

(* An empty image is under way, or a pump will make one.                   *)
EmptyUnderWay ==
  \/ \E i \in 1..Len(up) : up[i] = "empty"
  \/ \E i \in 1..Len(pending) : pending[i] = "empty"
  \/ pending # <<>> /\ ~m_start

(* Unless the camera gave it, that takes a start and a stop; with no more  *)
(* orders than these two the session ignores images, unless it was the     *)
(* console that requested a stop.                                          *)
EmptyAccounted ==
  /\ EmptyUnderWay =>
       failed \/ requested \/ (stops > 0 /\ orders >= 2 /\ (orders = 2 => m_stop))
  /\ EmptyHasCause

IInv ==
  /\ TypeOK
  /\ OrdersAccounted
  /\ StopRules
  /\ PumpsAccounted
  /\ EmptyAccounted

(* What a sequence keeps when it loses its head or gains an element.       *)
LEMMA TailElements ==
  ASSUME NEW S, NEW s \in Seq(S), s # <<>>
  PROVE  /\ Head(s) \in S /\ Head(s) = s[1]
         /\ Tail(s) \in Seq(S) /\ Len(Tail(s)) = Len(s) - 1
         /\ Len(s) \in Nat \ {0}
         /\ \A i \in 1..Len(Tail(s)) : i + 1 \in 1..Len(s) /\ Tail(s)[i] = s[i + 1]
OBVIOUS

(* The same of a sequence that gains one.                                  *)
LEMMA AppendElements ==
  ASSUME NEW S, NEW s \in Seq(S), NEW e \in S
  PROVE  /\ Append(s, e) \in Seq(S) /\ Append(s, e) # <<>>
         /\ Len(s) \in Nat /\ Len(Append(s, e)) = Len(s) + 1
         /\ Append(s, e)[Len(s) + 1] = e
         /\ \A i \in 1..Len(s) : Append(s, e)[i] = s[i]
OBVIOUS

(* At first no order was sent and no pump runs.                            *)
LEMMA InitIInv == Init => IInv
<1> SUFFICES ASSUME Init PROVE IInv
  OBVIOUS
<1>1. /\ <<>> \in Seq(Images) /\ Len(<<>>) <= Room /\ 0 \in 0..MaxOrders
      /\ {} \subseteq Images
  BY RoomAssumption, MaxOrdersAssumption
<1>2. TypeOK
  <2>1. /\ reading \in BOOLEAN /\ m_start \in BOOLEAN /\ m_stop \in BOOLEAN
        /\ requested \in BOOLEAN /\ failed \in BOOLEAN /\ sock # "open"
    BY DEF Init
  <2>2. seen \subseteq Images
    BY DEF Init
  <2>3. /\ pending \in Seq(Images) /\ up \in Seq(Images) /\ Len(up) <= Room
        /\ down \in Seq({"image_start", "image_stop"})
    BY <1>1 DEF Init
  <2> QED BY <1>1, <2>1, <2>2, <2>3 DEF Init, TypeOK
<1>3. OrdersAccounted /\ StopRules /\ PumpsAccounted
  BY DEF Init, OrdersAccounted, StopRules, PumpsAccounted
<1>4. EmptyAccounted
  BY DEF Init, EmptyAccounted, EmptyUnderWay, EmptyHasCause
<1> QED BY <1>2, <1>3, <1>4 DEF IInv

-----------------------------------------------------------------------------
(* An order that another session or the console gives, or a start, is no   *)
(* stop of which the session does not know.                                *)
LEMMA ShowVideoIInv ==
  ASSUME IInv, NEW own \in BOOLEAN, NEW here \in BOOLEAN, ShowVideo(own, here)
  PROVE  IInv'
<1>1. /\ down \in Seq({"image_start", "image_stop"}) /\ stops \in Nat
      /\ orders' = orders + 1 /\ orders < MaxOrders /\ orders \in Nat
      /\ m_stop' = (m_stop /\ ~own) /\ seen' = IF own THEN {} ELSE seen
      /\ down' = IF here THEN Append(down, "image_start") ELSE down
      /\ UNCHANGED <<client, up, requested, main>>
  BY MaxOrdersAssumption DEF ShowVideo, Orders, IInv, TypeOK
<1>2. /\ down' \in Seq({"image_start", "image_stop"}) /\ Len(down) \in Nat
      /\ \/ Len(down') = Len(down) + 1 /\ down'[Len(down')] = "image_start"
         \/ down' = down
  BY <1>1, AppendElements
<1>3. TypeOK'
  <2>1. orders' \in 0..MaxOrders
    BY <1>1, MaxOrdersAssumption
  <2>2. seen' \subseteq Images
    BY <1>1 DEF IInv, TypeOK
  <2>3. m_stop' \in BOOLEAN
    BY <1>1, Zenon
  <2> QED BY <1>1, <1>2, <2>1, <2>2, <2>3 DEF IInv, TypeOK, client
<1>4. OrdersAccounted'
  BY <1>1, <1>2 DEF IInv, OrdersAccounted, client
<1>5. StopRules'
  <2>1. CASE down' = down
    <3>1. Accounted' = Accounted /\ Accounted <= orders /\ Accounted \in Int
      <4>1. stops' = stops /\ pending' = pending /\ stops \in Nat /\ orders \in Nat
        BY <1>1 DEF client
      <4>2. /\ Len(down) + stops <= orders
            /\ pending # <<>> => Len(down) + stops + 1 <= orders
        BY DEF IInv, OrdersAccounted
      <4> QED BY <1>2, <2>1, <4>1, <4>2 DEF Accounted
    <3>2. ~(orders' <= Accounted')
      BY <1>1, <3>1
    <3> QED BY <3>2 DEF StopRules
  <2>2. CASE down'[Len(down')] = "image_start"
    BY <2>2 DEF StopRules
  <2> QED BY <1>2, <2>1, <2>2
<1>6. PumpsAccounted'
  BY <1>1 DEF IInv, PumpsAccounted, client
<1>7. EmptyAccounted'
  <2>1. EmptyUnderWay' => EmptyUnderWay
    BY <1>1 DEF EmptyUnderWay, client
  <2>2. "empty" \in seen' => "empty" \in seen
    BY <1>1
  <2> QED BY <1>1, <2>1, <2>2 DEF IInv, EmptyAccounted, EmptyHasCause, client
<1> QED BY <1>3, <1>4, <1>5, <1>6, <1>7 DEF IInv

(* A stop of the session, of which it knows, or an order of the console.   *)
LEMMA OrderIInv ==
  ASSUME IInv, StopVideo \/ RequestOrder("image_start") \/ RequestOrder("image_stop")
  PROVE  IInv'
<1>1. /\ down \in Seq({"image_start", "image_stop"}) /\ stops \in Nat
      /\ orders' = orders + 1 /\ orders < MaxOrders /\ orders \in Nat
      /\ UNCHANGED <<client, up, seen, main>>
  BY MaxOrdersAssumption DEF StopVideo, RequestOrder, Orders, IInv, TypeOK
<1>2. PICK o \in {"image_start", "image_stop"} :
        /\ down' = Append(down, o)
        /\ o = "image_stop" => m_stop' \/ requested'
  BY DEF StopVideo, RequestOrder
<1>3. /\ m_stop' \in BOOLEAN /\ requested' \in BOOLEAN
      /\ m_stop => m_stop'
      /\ requested => requested'
  BY Zenon DEF StopVideo, RequestOrder, IInv, TypeOK
<1>4. /\ down' \in Seq({"image_start", "image_stop"}) /\ Len(down) \in Nat
      /\ Len(down') = Len(down) + 1 /\ down'[Len(down')] = o
  BY <1>1, <1>2, AppendElements
<1>5. TypeOK'
  <2>1. orders' \in 0..MaxOrders
    BY <1>1, MaxOrdersAssumption
  <2> QED BY <1>1, <1>3, <1>4, <2>1 DEF IInv, TypeOK, client
<1>6. OrdersAccounted' /\ PumpsAccounted'
  BY <1>1, <1>4 DEF IInv, OrdersAccounted, PumpsAccounted, client
<1>7. StopRules'
  BY <1>2, <1>4 DEF StopRules
<1>8. EmptyAccounted'
  <2>1. EmptyUnderWay' => EmptyUnderWay
    BY <1>1 DEF EmptyUnderWay, client
  <2> QED BY <1>1, <1>3, <2>1 DEF IInv, EmptyAccounted, EmptyHasCause, client
<1> QED BY <1>5, <1>6, <1>7, <1>8 DEF IInv

(* An empty image that is processed needed three orders.                   *)
LEMMA OnImageArrivedIInv == IInv /\ OnImageArrived => IInv'
<1> SUFFICES ASSUME IInv, OnImageArrived PROVE IInv'
  OBVIOUS
<1>1. /\ up # <<>> /\ up' = Tail(up) /\ up \in Seq(Images) /\ Len(up) <= Room
      /\ seen' = (IF m_stop THEN seen ELSE seen \cup {Head(up)})
      /\ UNCHANGED <<client, down, m_stop, orders, requested, main>>
  BY DEF OnImageArrived, IInv, TypeOK
<1>2. /\ Head(up) \in Images /\ Head(up) = up[1] /\ 1 \in 1..Len(up)
      /\ Tail(up) \in Seq(Images) /\ Len(Tail(up)) = Len(up) - 1 /\ Len(up) \in Nat
      /\ \A i \in 1..Len(Tail(up)) : i + 1 \in 1..Len(up) /\ Tail(up)[i] = up[i + 1]
  BY <1>1, TailElements
<1>3. TypeOK'
  BY <1>1, <1>2, RoomAssumption DEF IInv, TypeOK, client
<1>4. OrdersAccounted' /\ StopRules' /\ PumpsAccounted'
  BY <1>1 DEF IInv, OrdersAccounted, StopRules, Accounted, PumpsAccounted, client
<1>5. EmptyUnderWay' => EmptyUnderWay
  BY <1>1, <1>2 DEF EmptyUnderWay, client
<1>6. "empty" \in seen' => "empty" \in seen \/ (EmptyUnderWay /\ ~m_stop)
  BY <1>1, <1>2 DEF EmptyUnderWay
<1>7. EmptyAccounted'
  BY <1>1, <1>5, <1>6
  DEF IInv, TypeOK, EmptyAccounted, EmptyHasCause, client
<1> QED BY <1>3, <1>4, <1>7 DEF IInv

-----------------------------------------------------------------------------
(* An image more in the writer, empty if the client was stopped or has no  *)
(* image of the camera.                                                    *)
LEMMA PutImageElements ==
  ASSUME NEW q \in Seq(Images), NEW started \in BOOLEAN, PutImage(q, started),
         failed \in BOOLEAN
  PROVE  /\ pending' \in Seq(Images) /\ pending' # <<>>
         /\ Len(q) \in Nat /\ Len(pending') = Len(q) + 1
         /\ failed' \in BOOLEAN /\ (failed => failed')
         /\ \A i \in 1..Len(pending') : pending'[i] = "empty" =>
              ~started \/ failed' \/ (i \in 1..Len(q) /\ q[i] = "empty")
<1>1. PICK e \in Images :
        /\ pending' = Append(q, e)
        /\ failed' = (failed \/ (started /\ e = "empty"))
  BY DEF PutImage, Images
<1>2. /\ Append(q, e) \in Seq(Images) /\ Append(q, e) # <<>>
      /\ Len(q) \in Nat /\ Len(Append(q, e)) = Len(q) + 1
      /\ Append(q, e)[Len(q) + 1] = e
      /\ \A i \in 1..Len(q) : Append(q, e)[i] = q[i]
  BY <1>1, AppendElements
<1>3. /\ failed' \in BOOLEAN /\ (failed => failed')
      /\ started /\ e = "empty" => failed'
  BY <1>1, Zenon
<1>4. ASSUME NEW i \in 1..Len(pending'), pending'[i] = "empty"
      PROVE  ~started \/ failed' \/ (i \in 1..Len(q) /\ q[i] = "empty")
  <2>1. i = Len(q) + 1 \/ i \in 1..Len(q)
    BY <1>1, <1>2
  <2>2. CASE i = Len(q) + 1
    BY <1>1, <1>2, <1>3, <1>4, <2>2
  <2>3. CASE i \in 1..Len(q)
    BY <1>1, <1>2, <1>4, <2>3
  <2> QED BY <2>1, <2>2, <2>3
<1> QED BY <1>1, <1>2, <1>3, <1>4

(* The only step that may add a pump.                                      *)
LEMMA OnImageStartIInv == IInv /\ OnImageStart => IInv'
<1> SUFFICES ASSUME IInv, OnImageStart PROVE IInv'
  OBVIOUS
<1>1. /\ down # <<>> /\ Head(down) = "image_start" /\ down' = Tail(down)
      /\ down \in Seq({"image_start", "image_stop"})
      /\ pending \in Seq(Images) /\ m_start \in BOOLEAN /\ failed \in BOOLEAN
      /\ stops \in Nat /\ orders \in Nat
      /\ UNCHANGED <<sock, reading, closes, up, server, stops, main>>
  BY MaxOrdersAssumption DEF OnImageStart, IInv, TypeOK
<1>2. /\ down' \in Seq({"image_start", "image_stop"})
      /\ Len(down') = Len(down) - 1 /\ Len(down) \in Nat \ {0}
      /\ \A i \in 1..Len(down') : i + 1 \in 1..Len(down) /\ down'[i] = down[i + 1]
  BY <1>1, TailElements
<1>3. StopRules'
  <2>1. down' # <<>> => down # <<>> /\ down'[Len(down')] = down[Len(down)]
    BY <1>2
  <2>2. Accounted' <= Accounted
    BY <1>1, <1>2 DEF Accounted
  <2>3. Accounted \in Int /\ Accounted' \in Int
    BY <1>1, <1>2 DEF Accounted
  <2> QED BY <1>1, <2>1, <2>2, <2>3 DEF IInv, StopRules, server
<1>4. /\ m_start' = TRUE
      /\ \/ m_start /\ pending' = pending /\ failed' = failed
         \/ ~m_start /\ PutImage(pending, TRUE)
  BY DEF OnImageStart, IInv, TypeOK
<1>5. /\ pending' \in Seq(Images) /\ failed' \in BOOLEAN /\ (failed => failed')
      /\ \/ m_start /\ pending' = pending
         \/ ~m_start /\ Len(pending') = Len(pending) + 1
      /\ \A i \in 1..Len(pending') : pending'[i] = "empty" =>
           failed' \/ (i \in 1..Len(pending) /\ pending[i] = "empty")
  BY <1>1, <1>4, PutImageElements
<1>6. TypeOK'
  BY <1>1, <1>2, <1>4, <1>5 DEF IInv, TypeOK, server
<1>7. OrdersAccounted'
  BY <1>1, <1>2 DEF IInv, TypeOK, OrdersAccounted, server
<1>8. PumpsAccounted'
  BY <1>1, <1>4, <1>5 DEF IInv, TypeOK, PumpsAccounted
<1>9. EmptyAccounted'
  <2>1. EmptyUnderWay' => EmptyUnderWay \/ failed'
    BY <1>1, <1>4, <1>5 DEF EmptyUnderWay
  <2> QED BY <1>1, <1>5, <2>1 DEF IInv, EmptyAccounted, EmptyHasCause, server
<1> QED BY <1>3, <1>6, <1>7, <1>8, <1>9 DEF IInv

(* The only step that counts a stop.                                       *)
LEMMA OnImageStopIInv == IInv /\ OnImageStop => IInv'
<1> SUFFICES ASSUME IInv, OnImageStop PROVE IInv'
  OBVIOUS
<1>1. /\ down # <<>> /\ Head(down) = "image_stop" /\ down' = Tail(down)
      /\ down \in Seq({"image_start", "image_stop"})
      /\ m_start' = FALSE /\ stops' = stops + 1 /\ m_start \in BOOLEAN
      /\ stops \in Nat /\ orders \in Nat /\ orders <= MaxOrders
      /\ UNCHANGED <<sock, reading, pending, closes, up, server, failed, main>>
  BY MaxOrdersAssumption DEF OnImageStop, IInv, TypeOK
<1>2. /\ down' \in Seq({"image_start", "image_stop"}) /\ Head(down) = down[1]
      /\ Len(down') = Len(down) - 1 /\ Len(down) \in Nat \ {0}
      /\ \A i \in 1..Len(down') : i + 1 \in 1..Len(down) /\ down'[i] = down[i + 1]
  BY <1>1, TailElements
<1>3. StopRules'
  <2>1. down' # <<>> => down # <<>> /\ down'[Len(down')] = down[Len(down)]
    BY <1>2
  <2>2. Accounted' = Accounted
    BY <1>1, <1>2 DEF Accounted
  <2> QED BY <1>1, <2>1, <2>2 DEF IInv, StopRules, server
<1>4. OrdersAccounted'
  BY <1>1, <1>2 DEF IInv, OrdersAccounted, server
<1>5. TypeOK'
  <2>1. stops' \in 0..MaxOrders
    BY <1>1, <1>2, MaxOrdersAssumption DEF IInv, OrdersAccounted
  <2> QED BY <1>1, <1>2, <2>1 DEF IInv, TypeOK, server
<1>6. PumpsAccounted'
  BY <1>1 DEF IInv, TypeOK, PumpsAccounted
<1>7. pending # <<>> => orders >= 2 /\ (orders = 2 => m_stop \/ requested)
  <2>1. pending # <<>> => orders >= 2 /\ (orders = 2 => Len(down) = 1 /\ stops = 0)
    BY <1>1, <1>2 DEF IInv, OrdersAccounted
  <2>2. pending # <<>> /\ orders = 2 /\ Len(down) = 1 /\ stops = 0 => m_stop \/ requested
    BY <1>1, <1>2 DEF IInv, StopRules, Accounted
  <2> QED BY <2>1, <2>2
<1>8. EmptyAccounted'
  BY <1>1, <1>7
  DEF IInv, EmptyAccounted, EmptyUnderWay, EmptyHasCause, server
<1> QED BY <1>3, <1>4, <1>5, <1>6, <1>8 DEF IInv

(* A pump goes on with one image, empty if the client was stopped.         *)
LEMMA WrittenIInv == IInv /\ Written => IInv'
<1> SUFFICES ASSUME IInv, Written PROVE IInv'
  OBVIOUS
<1>1. /\ pending # <<>> /\ pending \in Seq(Images) /\ m_start \in BOOLEAN
      /\ failed \in BOOLEAN /\ stops \in Nat /\ orders \in Nat
      /\ up' = Append(up, Head(pending)) /\ up \in Seq(Images) /\ Len(up) < Room
      /\ PutImage(Tail(pending), m_start)
      /\ UNCHANGED <<sock, reading, m_start, closes, down, server, stops, main>>
  BY MaxOrdersAssumption DEF Written, IInv, TypeOK
<1>2. /\ Head(pending) \in Images /\ Head(pending) = pending[1]
      /\ Tail(pending) \in Seq(Images) /\ Len(Tail(pending)) = Len(pending) - 1
      /\ Len(pending) \in Nat \ {0}
      /\ \A i \in 1..Len(Tail(pending)) :
           i + 1 \in 1..Len(pending) /\ Tail(pending)[i] = pending[i + 1]
  BY <1>1, TailElements
<1>3. /\ up' \in Seq(Images) /\ Len(up') = Len(up) + 1 /\ Len(up) \in Nat
      /\ up'[Len(up) + 1] = Head(pending) /\ \A i \in 1..Len(up) : up'[i] = up[i]
  BY <1>1, <1>2, AppendElements
<1>4. /\ pending' \in Seq(Images) /\ pending' # <<>> /\ Len(pending') = Len(pending)
      /\ failed' \in BOOLEAN /\ (failed => failed')
      /\ \A i \in 1..Len(pending') : pending'[i] = "empty" =>
           ~m_start \/ failed' \/ (i \in 1..Len(Tail(pending)) /\ Tail(pending)[i] = "empty")
  <2> DEFINE q == Tail(pending)
  <2>1. q \in Seq(Images) /\ PutImage(q, m_start) /\ Len(q) = Len(pending) - 1
    BY <1>1, <1>2
  <2> HIDE DEF q
  <2>2. /\ pending' \in Seq(Images) /\ pending' # <<>>
        /\ Len(q) \in Nat /\ Len(pending') = Len(q) + 1
        /\ failed' \in BOOLEAN /\ (failed => failed')
        /\ \A i \in 1..Len(pending') : pending'[i] = "empty" =>
             ~m_start \/ failed' \/ (i \in 1..Len(q) /\ q[i] = "empty")
    BY <1>1, <2>1, PutImageElements
  <2>3. Len(pending') = Len(pending)
    BY <1>2, <2>1, <2>2
  <2> QED BY <2>2, <2>3 DEF q
<1>5. TypeOK'
  BY <1>1, <1>3, <1>4, RoomAssumption DEF IInv, TypeOK, server
<1>6. OrdersAccounted' /\ StopRules' /\ PumpsAccounted'
  BY <1>1, <1>4 DEF IInv, OrdersAccounted, StopRules, Accounted, PumpsAccounted, server
<1>7. EmptyUnderWay' => EmptyUnderWay \/ failed'
  <2>1. (\E i \in 1..Len(up') : up'[i] = "empty") => EmptyUnderWay
    BY <1>2, <1>3 DEF EmptyUnderWay
  <2>2. (\E i \in 1..Len(pending') : pending'[i] = "empty") => EmptyUnderWay \/ failed'
    BY <1>1, <1>2, <1>4 DEF EmptyUnderWay
  <2> QED BY <1>1, <2>1, <2>2 DEF EmptyUnderWay
<1>8. EmptyAccounted'
  BY <1>1, <1>4, <1>7 DEF IInv, EmptyAccounted, EmptyHasCause, server
<1> QED BY <1>5, <1>6, <1>8 DEF IInv

(* A pump ends.                                                            *)
LEMMA WriteFailedIInv == IInv /\ WriteFailed => IInv'
<1> SUFFICES ASSUME IInv, WriteFailed PROVE IInv'
  OBVIOUS
<1>1. /\ pending # <<>> /\ pending' = Tail(pending) /\ pending \in Seq(Images)
      /\ closes' = closes + 1 /\ stops \in Nat /\ m_start \in BOOLEAN
      /\ orders \in Nat
      /\ UNCHANGED <<sock, reading, m_start, up, down, server, stops, failed, main>>
  BY MaxOrdersAssumption DEF WriteFailed, IInv, TypeOK
<1>2. /\ Tail(pending) \in Seq(Images) /\ Len(Tail(pending)) = Len(pending) - 1
      /\ Len(pending) \in Nat \ {0}
      /\ \A i \in 1..Len(Tail(pending)) :
           i + 1 \in 1..Len(pending) /\ Tail(pending)[i] = pending[i + 1]
  BY <1>1, TailElements
<1>3. TypeOK'
  BY <1>1, <1>2 DEF IInv, TypeOK, server
<1>4. OrdersAccounted' /\ StopRules'
  <2>1. Accounted' <= Accounted /\ Accounted \in Int /\ Accounted' \in Int
    BY <1>1, <1>2 DEF Accounted, IInv, TypeOK
  <2> QED BY <1>1, <2>1 DEF IInv, OrdersAccounted, StopRules, server
<1>5. PumpsAccounted'
  BY <1>1, <1>2 DEF IInv, PumpsAccounted
<1>6. EmptyUnderWay' => EmptyUnderWay
  BY <1>1, <1>2 DEF EmptyUnderWay
<1>7. EmptyAccounted'
  BY <1>1, <1>6 DEF IInv, EmptyAccounted, EmptyHasCause, server
<1> QED BY <1>3, <1>4, <1>5, <1>7 DEF IInv

(* The remaining steps only open, close and end things.                    *)
LEMMA ConnectionIInv ==
  IInv /\ (Connected \/ ReadFailed \/ RunClose \/ Broken \/ Exit \/ Join) => IInv'
<1> SUFFICES ASSUME IInv, Connected \/ ReadFailed \/ RunClose \/ Broken \/ Exit \/ Join
             PROVE  IInv'
  OBVIOUS
<1>1. UNCHANGED <<m_start, pending, up, down, server, stops, failed>>
  BY DEF Connected, ReadFailed, RunClose, Broken, Exit, Join, client
<1>2. /\ sock' \in {"connecting", "open", "closed"}
      /\ reading' \in BOOLEAN /\ (sock' = "open" => reading')
      /\ closes' \in Nat /\ main' \in {"typing", "joining", "done"}
  <2>1. CASE Connected
    BY <2>1 DEF IInv, TypeOK, Connected
  <2>2. CASE ReadFailed
    BY <2>2 DEF IInv, TypeOK, ReadFailed
  <2>3. CASE RunClose
    BY <2>3 DEF IInv, TypeOK, RunClose
  <2>4. CASE Broken
    BY <2>4 DEF IInv, TypeOK, Broken
  <2>5. CASE Exit
    BY <2>5 DEF IInv, TypeOK, Exit
  <2>6. CASE Join
    BY <2>6 DEF IInv, TypeOK, Join, client
  <2> QED BY <2>1, <2>2, <2>3, <2>4, <2>5, <2>6
<1>3. TypeOK'
  BY <1>1, <1>2 DEF IInv, TypeOK, server
<1>4. OrdersAccounted' /\ StopRules' /\ PumpsAccounted' /\ EmptyAccounted'
  BY <1>1 DEF IInv, OrdersAccounted, StopRules, Accounted, PumpsAccounted,
              EmptyAccounted, EmptyUnderWay, EmptyHasCause, server
<1> QED BY <1>3, <1>4 DEF IInv

-----------------------------------------------------------------------------
(* The strengthened invariant of the image client holds in every state.    *)
THEOREM Inductive == Spec => []IInv
<1>1. IInv /\ [Next]_vars => IInv'
  <2> SUFFICES ASSUME IInv, [Next]_vars PROVE IInv'
    OBVIOUS
  <2>1. CASE UNCHANGED vars
    BY <2>1 DEF vars, IInv, TypeOK, OrdersAccounted, StopRules, Accounted, PumpsAccounted,
                EmptyAccounted, EmptyUnderWay, EmptyHasCause
  <2> QED BY <2>1, ShowVideoIInv, OrderIInv, OnImageArrivedIInv, OnImageStartIInv,
             OnImageStopIInv, WrittenIInv, WriteFailedIInv, ConnectionIInv
          DEF Next, IoThread
<1> QED BY <1>1, InitIInv, PTL DEF Spec

(* Type correctness of the image client; among it: no more stops reach the *)
(* client than orders were sent, and the connection never holds more       *)
(* images than it has room for.                                            *)
THEOREM TypeCorrect == Spec => []TypeOK
<1>1. IInv => TypeOK
  BY DEF IInv
<1> QED BY <1>1, Inductive, PTL

(* Pumps do not multiply: however often the server repeats a start         *)
(* (client.hpp:87), the client runs at most one pump more than it was told *)
(* to stop.                                                                *)
THEOREM PumpsMultiplyOnlyWithStops == Spec => []PumpsBounded
<1>1. IInv => PumpsBounded
  BY MaxOrdersAssumption DEF IInv, TypeOK, PumpsAccounted, PumpsBounded
<1> QED BY <1>1, Inductive, PTL

(* The session processes no empty image (client.hpp:95) unless the camera  *)
(* gave one, the console requested a stop of the client, or the video has  *)
(* been started, stopped and started again.                                *)
THEOREM EmptyImagesHaveACause == Spec => []EmptyHasCause
<1>1. IInv => EmptyHasCause
  BY DEF IInv, EmptyAccounted
<1> QED BY <1>1, Inductive, PTL
=============================================================================
