------------------------- MODULE QueuedWriter_proofs -------------------------
(* Theorems about the queued writer, for every set of frames and sizes:    *)
(* what happens to a frame and its handler, and what is put on the stream. *)
EXTENDS QueuedWriter, FiniteSetTheorems, SequenceTheorems, TLAPS

(* The frame of every completion and of every call.                        *)
Distinct(s) == \A i, j \in 1..Len(s) : s[i] = s[j] => i = j
DistinctFrames(s) == \A i, j \in 1..Len(s) : s[i].frame = s[j].frame => i = j
Has(s, f) == \E i \in 1..Len(s) : s[i].frame = f

(* Every accepted frame is in one place only, and what is left of it fits  *)
(* the place: all of it before the write starts, some while it waits.      *)
Places ==
  /\ Distinct(posted)
  /\ Distinct(sockq)
  /\ DistinctFrames(completed)
  /\ DistinctFrames(called)
  /\ \A f \in Frames :
       /\ Occurs(f, posted) =>
            /\ left[f] = Units[f]
            /\ ~Occurs(f, sockq) /\ ~Has(completed, f) /\ ~Has(called, f)
       /\ Occurs(f, sockq) =>
            left[f] > 0 /\ ~Has(completed, f) /\ ~Has(called, f)
       /\ Has(completed, f) => ~Has(called, f)
       /\ ~Occurs(f, submitted) =>
            /\ ~Occurs(f, posted) /\ ~Occurs(f, sockq)
            /\ ~Has(completed, f) /\ ~Has(called, f)
            /\ left[f] = Units[f]

(* What holds between two tasks.  m_wq is empty, so no do_write is ever    *)
(* posted again.                                                           *)
IInv ==
  /\ TypeOK
  /\ m_wq = <<>>
  /\ posted \in Seq(Frames)
  /\ Places

(* At first no frame is anywhere.                                          *)
LEMMA InitIInv == Init => IInv
BY UnitsAssumption DEF Init, IInv, TypeOK, Places, Distinct, DistinctFrames, Has, Occurs

(* What Append does to membership and to distinctness.                     *)
LEMMA AppendFrame ==
  ASSUME NEW s \in Seq(Frames), NEW f \in Frames
  PROVE  /\ Append(s, f) \in Seq(Frames)
         /\ \A g \in Frames : Occurs(g, Append(s, f)) <=> (g = f \/ Occurs(g, s))
         /\ Distinct(s) /\ ~Occurs(f, s) => Distinct(Append(s, f))
<1>1. Append(s, f) \in Seq(Frames)
  OBVIOUS
<1>2. ASSUME NEW g \in Frames
      PROVE  Occurs(g, Append(s, f)) <=> (g = f \/ Occurs(g, s))
  <2>1. CASE g = f
    BY <2>1, Len(s) + 1 \in 1..Len(Append(s, f)),
       Append(s, f)[Len(s) + 1] = f DEF Occurs
  <2>2. CASE g # f
    BY <2>2 DEF Occurs
  <2> QED BY <2>1, <2>2
<1>3. Distinct(s) /\ ~Occurs(f, s) => Distinct(Append(s, f))
  BY DEF Distinct, Occurs
<1> QED BY <1>1, <1>2, <1>3

(* The same of the frames of completions and calls.                        *)
LEMMA AppendResult ==
  ASSUME NEW s \in Seq(Result), NEW c \in Result
  PROVE  /\ Append(s, c) \in Seq(Result)
         /\ \A g \in Frames : Has(Append(s, c), g) <=> (g = c.frame \/ Has(s, g))
         /\ DistinctFrames(s) /\ ~Has(s, c.frame) => DistinctFrames(Append(s, c))
<1>1. Append(s, c) \in Seq(Result)
  OBVIOUS
<1>2. ASSUME NEW g \in Frames
      PROVE  Has(Append(s, c), g) <=> (g = c.frame \/ Has(s, g))
  <2>1. CASE g = c.frame
    BY <2>1, Len(s) + 1 \in 1..Len(Append(s, c)),
       Append(s, c)[Len(s) + 1] = c DEF Has
  <2>2. CASE g # c.frame
    BY <2>2 DEF Has
  <2> QED BY <2>1, <2>2
<1>3. DistinctFrames(s) /\ ~Has(s, c.frame) => DistinctFrames(Append(s, c))
  BY DEF DistinctFrames, Has
<1> QED BY <1>1, <1>2, <1>3

(* Taking the head of a queue of distinct elements removes just that one.  *)
LEMMA TailFrame ==
  ASSUME NEW s \in Seq(Frames), s # <<>>, Distinct(s)
  PROVE  /\ Head(s) \in Frames
         /\ Tail(s) \in Seq(Frames)
         /\ Distinct(Tail(s))
         /\ \A g \in Frames : Occurs(g, s) <=> (g = Head(s) \/ Occurs(g, Tail(s)))
         /\ ~Occurs(Head(s), Tail(s))
<1>1. Head(s) \in Frames /\ Tail(s) \in Seq(Frames) /\ Len(s) \in Nat \ {0}
  OBVIOUS
<1>2. /\ Len(Tail(s)) = Len(s) - 1
      /\ \A i \in 1..Len(Tail(s)) : i + 1 \in 1..Len(s) /\ Tail(s)[i] = s[i + 1]
      /\ \A i \in 2..Len(s) : i - 1 \in 1..Len(Tail(s)) /\ Tail(s)[i - 1] = s[i]
      /\ Head(s) = s[1] /\ 1 \in 1..Len(s)
  BY <1>1
<1>3. Distinct(Tail(s)) /\ ~Occurs(Head(s), Tail(s))
  BY <1>1, <1>2 DEF Distinct, Occurs
<1>4. ASSUME NEW g \in Frames
      PROVE  Occurs(g, s) <=> (g = Head(s) \/ Occurs(g, Tail(s)))
  <2>1. ASSUME NEW i \in 1..Len(s), s[i] = g, g # Head(s)
        PROVE  Occurs(g, Tail(s))
    <3>1. i \in 2..Len(s)
      BY <1>1, <1>2, <2>1
    <3> QED BY <1>2, <2>1, <3>1 DEF Occurs
  <2>2. ASSUME NEW i \in 1..Len(Tail(s)), Tail(s)[i] = g
        PROVE  Occurs(g, s)
    BY <1>2, <2>2 DEF Occurs
  <2>3. g = Head(s) => Occurs(g, s)
    BY <1>2 DEF Occurs
  <2> QED BY <2>1, <2>2, <2>3 DEF Occurs
<1> QED BY <1>1, <1>3, <1>4

(* What Tail does to them: the first completion leaves.                    *)
LEMMA TailResult ==
  ASSUME NEW s \in Seq(Result), s # <<>>, DistinctFrames(s)
  PROVE  /\ Head(s) \in Result
         /\ Tail(s) \in Seq(Result)
         /\ DistinctFrames(Tail(s))
         /\ \A g \in Frames : Has(s, g) <=> (g = Head(s).frame \/ Has(Tail(s), g))
         /\ ~Has(Tail(s), Head(s).frame)
<1>1. Head(s) \in Result /\ Tail(s) \in Seq(Result) /\ Len(s) \in Nat \ {0}
  OBVIOUS
<1>2. /\ Len(Tail(s)) = Len(s) - 1
      /\ \A i \in 1..Len(Tail(s)) : i + 1 \in 1..Len(s) /\ Tail(s)[i] = s[i + 1]
      /\ \A i \in 2..Len(s) : i - 1 \in 1..Len(Tail(s)) /\ Tail(s)[i - 1] = s[i]
      /\ Head(s) = s[1] /\ 1 \in 1..Len(s)
  BY <1>1
<1>3. DistinctFrames(Tail(s)) /\ ~Has(Tail(s), Head(s).frame)
  BY <1>1, <1>2 DEF DistinctFrames, Has
<1>4. ASSUME NEW g \in Frames
      PROVE  Has(s, g) <=> (g = Head(s).frame \/ Has(Tail(s), g))
  BY <1>1, <1>2 DEF Has
<1> QED BY <1>1, <1>3, <1>4

(* A transfer started for a frame that is in no queue but cs (the          *)
(* completions other than its own) puts it in exactly one place.           *)
LEMMA StartTransferPlaces ==
  ASSUME TypeOK, NEW f \in Frames, NEW cs \in Seq(Result),
         left[f] > 0,
         Distinct(sockq), DistinctFrames(cs),
         ~Occurs(f, sockq), ~Has(cs, f),
         StartTransfer(f, cs)
  PROVE  /\ sockq' \in Seq(Frames)
         /\ left' \in [Frames -> Nat]
         /\ completed' \in Seq(Result)
         /\ wire' \in Seq(Frames)
         /\ Distinct(sockq') /\ DistinctFrames(completed')
         /\ \A g \in Frames \ {f} :
              /\ left'[g] = left[g]
              /\ Occurs(g, sockq') <=> Occurs(g, sockq)
              /\ Has(completed', g) <=> Has(cs, g)
         /\ Occurs(f, sockq') => left'[f] = left[f] /\ ~Has(completed', f)
<1> DEFINE good == [frame |-> f, ok |-> TRUE]
           bad  == [frame |-> f, ok |-> FALSE]
<1>1. good \in Result /\ bad \in Result /\ good.frame = f /\ bad.frame = f
  BY DEF Result
<1>2. CASE ~open /\ completed' = Append(cs, bad) /\ UNCHANGED <<sockq, left, wire>>
  <2> HIDE DEF bad
  <2> QED BY <1>1, <1>2, AppendResult DEF TypeOK
<1>3. CASE open /\ sockq = <<>> /\ Transferred(f, cs) /\ UNCHANGED sockq
  <2>1. completed' = Append(cs, good) /\ wire' = Append(wire, f)
        /\ left' = [left EXCEPT ![f] = @ - 1]
    BY <1>3 DEF Transferred
  <2>2. left' \in [Frames -> Nat] /\ \A g \in Frames \ {f} : left'[g] = left[g]
    BY <2>1 DEF TypeOK
  <2>3. wire' \in Seq(Frames)
    BY <2>1 DEF TypeOK
  <2> HIDE DEF good
  <2> QED BY <1>1, <1>3, <2>1, <2>2, <2>3, AppendResult DEF TypeOK
<1>4. CASE open /\ sockq' = Append(sockq, f) /\ completed' = cs
           /\ UNCHANGED <<left, wire>>
  BY <1>4, AppendFrame DEF TypeOK
<1> QED BY <1>2, <1>3, <1>4 DEF StartTransfer

(* A new frame gets into posted, which it was not in before.               *)
LEMMA AsyncWriteIInv ==
  ASSUME IInv, NEW f \in Frames, AsyncWrite(f)
  PROVE  IInv'
<1> USE DEF IInv
<1>1. /\ submitted' = Append(submitted, f) /\ posted' = Append(posted, f)
      /\ ~Occurs(f, submitted)
      /\ UNCHANGED <<m_wq, sockq, left, completed, wire, called, open>>
  BY DEF AsyncWrite
<1>2. /\ submitted' \in Seq(Frames) /\ posted' \in Seq(Frames)
      /\ \A g \in Frames : Occurs(g, posted') <=> (g = f \/ Occurs(g, posted))
      /\ \A g \in Frames : Occurs(g, submitted') <=> (g = f \/ Occurs(g, submitted))
      /\ Distinct(posted')
  BY <1>1, AppendFrame DEF TypeOK, Places
<1>3. posted' \in Seq(Frames \cup {Resume})
  BY <1>2
<1>4. TypeOK'
  BY <1>1, <1>2, <1>3 DEF TypeOK
<1>5. Places'
  <2>1. /\ Distinct(sockq)' /\ DistinctFrames(completed)' /\ DistinctFrames(called)'
    BY <1>1 DEF Places
  <2>2. \A g \in Frames : /\ Occurs(g, sockq)' <=> Occurs(g, sockq)
                          /\ Has(completed, g)' <=> Has(completed, g)
                          /\ Has(called, g)' <=> Has(called, g)
                          /\ left'[g] = left[g]
    BY <1>1
  <2> QED BY <1>1, <1>2, <2>1, <2>2 DEF Places
<1> QED BY <1>1, <1>2, <1>4, <1>5

(* do_write takes the frame that was posted and leaves m_wq empty.         *)
LEMMA RunPostedIInv ==
  ASSUME IInv, RunPosted
  PROVE  IInv'
<1> USE DEF IInv
<1> DEFINE f == Head(posted)
<1>1. /\ posted \in Seq(Frames) /\ posted # <<>> /\ Distinct(posted)
      /\ completed \in Seq(Result)
  BY DEF RunPosted, Places, TypeOK
<1>2. /\ f \in Frames /\ Tail(posted) \in Seq(Frames) /\ Distinct(Tail(posted))
      /\ \A g \in Frames : Occurs(g, posted) <=> (g = f \/ Occurs(g, Tail(posted)))
      /\ ~Occurs(f, Tail(posted))
  BY <1>1, TailFrame
<1>3. f # Resume
  BY <1>2, ResumeAssumption
<1>4. Append(m_wq, f) = <<f>>
  BY <1>2
<1>5. /\ StartTransfer(f, completed)
      /\ m_wq' = <<>> /\ posted' = Tail(posted)
      /\ UNCHANGED <<submitted, called, open>>
  <2> HIDE DEF f
  <2>1. DoWrite(Append(m_wq, f), Tail(posted))
    BY <1>3 DEF RunPosted, f
  <2>2. Head(<<f>>) = f /\ Tail(<<f>>) = <<>>
    OBVIOUS
  <2> QED BY <1>4, <2>1, <2>2 DEF DoWrite, RunPosted
<1> HIDE DEF f
<1>6. /\ left[f] > 0 /\ Distinct(sockq) /\ DistinctFrames(completed)
      /\ ~Occurs(f, sockq) /\ ~Has(completed, f) /\ ~Has(called, f)
      /\ Occurs(f, submitted)
  BY <1>1, <1>2, UnitsAssumption DEF Places
<1>7. /\ sockq' \in Seq(Frames)
      /\ left' \in [Frames -> Nat]
      /\ completed' \in Seq(Result)
      /\ wire' \in Seq(Frames)
      /\ Distinct(sockq') /\ DistinctFrames(completed')
      /\ \A g \in Frames \ {f} :
           /\ left'[g] = left[g]
           /\ Occurs(g, sockq') <=> Occurs(g, sockq)
           /\ Has(completed', g) <=> Has(completed, g)
      /\ Occurs(f, sockq') => left'[f] = left[f] /\ ~Has(completed', f)
  BY <1>1, <1>2, <1>5, <1>6, StartTransferPlaces
<1>8. TypeOK'
  <2>1. posted' \in Seq(Frames \cup {Resume}) /\ m_wq' \in Seq(Frames)
    BY <1>2, <1>5
  <2> QED BY <1>5, <1>7, <2>1 DEF TypeOK
<1>9. Places'
  <2>1. ASSUME NEW g \in Frames
        PROVE  /\ Occurs(g, posted)' => g # f /\ Occurs(g, posted)
               /\ Has(called, g)' <=> Has(called, g)
               /\ Occurs(g, submitted)' <=> Occurs(g, submitted)
    BY <1>2, <1>5
  <2>2. Distinct(posted)' /\ DistinctFrames(called)'
    BY <1>2, <1>5 DEF Places
  <2> QED BY <1>6, <1>7, <2>1, <2>2 DEF Places
<1> QED BY <1>2, <1>5, <1>8, <1>9

(* The frame goes on with its next unit or is called.                      *)
LEMMA RunCompletedIInv ==
  ASSUME IInv, RunCompleted
  PROVE  IInv'
<1> USE DEF IInv
<1> DEFINE c == Head(completed)
           f == c.frame
<1>1. completed \in Seq(Result) /\ completed # <<>> /\ DistinctFrames(completed)
  BY DEF RunCompleted, Places, TypeOK
<1>2. /\ c \in Result /\ Tail(completed) \in Seq(Result)
      /\ DistinctFrames(Tail(completed))
      /\ \A g \in Frames : Has(completed, g) <=> (g = f \/ Has(Tail(completed), g))
      /\ ~Has(Tail(completed), f)
  BY <1>1, TailResult
<1>3. f \in Frames
  BY <1>2 DEF Result
<1>4. UNCHANGED <<submitted, posted, m_wq, open>>
  BY DEF RunCompleted
<1>5. /\ ~Occurs(f, posted) /\ ~Occurs(f, sockq) /\ ~Has(called, f)
      /\ Occurs(f, submitted) /\ Distinct(sockq)
  BY <1>2, <1>3 DEF Places
<1>6. CASE c.ok /\ left[f] > 0
  <2>1. StartTransfer(f, Tail(completed)) /\ UNCHANGED called
    BY <1>6 DEF RunCompleted
  <2> HIDE DEF c, f
  <2>2. /\ sockq' \in Seq(Frames)
        /\ left' \in [Frames -> Nat]
        /\ completed' \in Seq(Result)
        /\ wire' \in Seq(Frames)
        /\ Distinct(sockq') /\ DistinctFrames(completed')
        /\ \A g \in Frames \ {f} :
             /\ left'[g] = left[g]
             /\ Occurs(g, sockq') <=> Occurs(g, sockq)
             /\ Has(completed', g) <=> Has(Tail(completed), g)
        /\ Occurs(f, sockq') => left'[f] = left[f] /\ ~Has(completed', f)
    BY <1>2, <1>3, <1>5, <1>6, <2>1, StartTransferPlaces
  <2>3. TypeOK'
    BY <1>4, <2>1, <2>2 DEF TypeOK
  <2>4. Places'
    <3>1. ASSUME NEW g \in Frames
          PROVE  /\ Occurs(g, posted)' <=> Occurs(g, posted)
                 /\ Has(called, g)' <=> Has(called, g)
                 /\ Occurs(g, submitted)' <=> Occurs(g, submitted)
      BY <1>4, <2>1
    <3>2. Distinct(posted)' /\ DistinctFrames(called)'
      BY <1>4, <2>1 DEF Places
    <3> QED BY <1>2, <1>5, <1>6, <2>2, <3>1, <3>2 DEF Places
  <2> QED BY <1>4, <2>3, <2>4
<1>7. CASE ~(c.ok /\ left[f] > 0)
  <2>1. /\ called' = Append(called, c) /\ completed' = Tail(completed)
        /\ UNCHANGED <<sockq, left, wire>>
    BY <1>7 DEF RunCompleted
  <2>2. /\ called' \in Seq(Result)
        /\ \A g \in Frames : Has(called', g) <=> (g = f \/ Has(called, g))
        /\ DistinctFrames(called')
    BY <1>2, <1>5, <2>1, AppendResult DEF TypeOK, Places
  <2> HIDE DEF c, f
  <2>3. TypeOK'
    BY <1>2, <1>4, <2>1, <2>2 DEF TypeOK
  <2>4. Places'
    <3>1. ASSUME NEW g \in Frames
          PROVE  /\ Occurs(g, posted)' <=> Occurs(g, posted)
                 /\ Occurs(g, sockq)' <=> Occurs(g, sockq)
                 /\ Has(completed, g)' <=> Has(Tail(completed), g)
                 /\ Occurs(g, submitted)' <=> Occurs(g, submitted)
                 /\ left'[g] = left[g]
      BY <1>4, <2>1
    <3>2. Distinct(posted)' /\ Distinct(sockq)' /\ DistinctFrames(completed)'
      BY <1>2, <1>4, <2>1 DEF Places
    <3> QED BY <1>2, <1>5, <2>2, <3>1, <3>2 DEF Places
  <2> QED BY <1>4, <2>3, <2>4
<1> QED BY <1>6, <1>7

(* The frame that waits longest completes a unit.                          *)
LEMMA SocketReadyIInv ==
  ASSUME IInv, SocketReady
  PROVE  IInv'
<1> USE DEF IInv
<1> DEFINE f == Head(sockq)
           c == [frame |-> f, ok |-> TRUE]
<1>1. sockq \in Seq(Frames) /\ sockq # <<>> /\ Distinct(sockq)
  BY DEF SocketReady, Places, TypeOK
<1>2. /\ f \in Frames /\ Tail(sockq) \in Seq(Frames) /\ Distinct(Tail(sockq))
      /\ \A g \in Frames : Occurs(g, sockq) <=> (g = f \/ Occurs(g, Tail(sockq)))
      /\ ~Occurs(f, Tail(sockq))
  BY <1>1, TailFrame
<1>3. /\ wire' = Append(wire, f)
      /\ left' = [left EXCEPT ![f] = @ - 1]
      /\ completed' = Append(completed, c)
      /\ sockq' = Tail(sockq)
      /\ UNCHANGED <<submitted, posted, m_wq, called, open>>
  BY DEF SocketReady, Transferred
<1>4. /\ left[f] > 0 /\ ~Occurs(f, posted) /\ ~Has(completed, f) /\ ~Has(called, f)
      /\ Occurs(f, submitted) /\ DistinctFrames(completed)
  BY <1>2 DEF Places
<1>5. c \in Result /\ c.frame = f
  BY <1>2 DEF Result
<1> HIDE DEF c
<1>6. /\ completed' \in Seq(Result)
      /\ \A g \in Frames : Has(completed', g) <=> (g = f \/ Has(completed, g))
      /\ DistinctFrames(completed')
  BY <1>3, <1>4, <1>5, AppendResult DEF TypeOK
<1> HIDE DEF f
<1>7. left' \in [Frames -> Nat] /\ \A g \in Frames \ {f} : left'[g] = left[g]
  BY <1>2, <1>3, <1>4 DEF TypeOK
<1>8. wire' \in Seq(Frames)
  BY <1>2, <1>3 DEF TypeOK
<1>9. TypeOK'
  BY <1>2, <1>3, <1>6, <1>7, <1>8 DEF TypeOK
<1>10. Places'
  <2>1. ASSUME NEW g \in Frames
        PROVE  /\ Occurs(g, posted)' <=> Occurs(g, posted)
               /\ Occurs(g, sockq)' <=> Occurs(g, Tail(sockq))
               /\ Has(called, g)' <=> Has(called, g)
               /\ Occurs(g, submitted)' <=> Occurs(g, submitted)
    BY <1>3
  <2>2. Distinct(posted)' /\ Distinct(sockq)' /\ DistinctFrames(called)'
    BY <1>2, <1>3 DEF Places
  <2> QED BY <1>2, <1>4, <1>6, <1>7, <2>1, <2>2 DEF Places
<1> QED BY <1>3, <1>9, <1>10

(* Every waiting frame completes with an error.                            *)
LEMMA SocketClosedIInv ==
  ASSUME IInv, SocketClosed
  PROVE  IInv'
<1> USE DEF IInv
<1> DEFINE F == [i \in 1..Len(sockq) |-> [frame |-> sockq[i], ok |-> FALSE]]
<1>1. /\ sockq' = <<>> /\ completed' = completed \o F /\ open' = FALSE
      /\ UNCHANGED <<submitted, posted, m_wq, left, wire, called>>
  BY DEF SocketClosed
<1>2. /\ F \in Seq(Result) /\ Len(F) = Len(sockq) /\ Len(sockq) \in Nat
      /\ \A i \in 1..Len(sockq) : F[i].frame = sockq[i]
  BY DEF TypeOK, Result
<1> HIDE DEF F
<1>3. completed \in Seq(Result) /\ Len(completed) \in Nat
  BY DEF TypeOK
<1>4. /\ completed' \in Seq(Result)
      /\ Len(completed') = Len(completed) + Len(sockq)
      /\ \A i \in 1..Len(completed) : completed'[i] = completed[i]
      /\ \A i \in 1..Len(sockq) :
           /\ i + Len(completed) \in 1..Len(completed')
           /\ completed'[i + Len(completed)].frame = sockq[i]
      /\ \A i \in 1..Len(completed') : i > Len(completed) =>
           /\ i - Len(completed) \in 1..Len(sockq)
           /\ completed'[i].frame = sockq[i - Len(completed)]
  <2>1. completed' = completed \o F
    BY <1>1
  <2>2. completed' \in Seq(Result) /\ Len(completed') = Len(completed) + Len(sockq)
    <3>1. \A a, b \in Seq(Result) : a \o b \in Seq(Result) /\ Len(a \o b) = Len(a) + Len(b)
      OBVIOUS
    <3> QED BY <1>2, <1>3, <2>1, <3>1
  <2>3. \A i \in 1..Len(completed) : completed'[i] = completed[i]
    BY <1>2, <1>3, <2>1
  <2>4. \A i \in 1..Len(completed') : i > Len(completed) =>
          /\ i - Len(completed) \in 1..Len(sockq)
          /\ completed'[i] = F[i - Len(completed)]
    BY <1>2, <1>3, <2>1, <2>2
  <2>5. \A i \in 1..Len(sockq) : /\ i + Len(completed) \in 1..Len(completed')
                                /\ i + Len(completed) > Len(completed)
                                /\ (i + Len(completed)) - Len(completed) = i
    BY <1>2, <1>3, <2>2
  <2> QED BY <1>2, <2>2, <2>3, <2>4, <2>5
<1>5. ASSUME NEW g \in Frames
      PROVE  Has(completed', g) <=> (Has(completed, g) \/ Occurs(g, sockq))
  <2>1. ASSUME NEW i \in 1..Len(completed'), completed'[i].frame = g
        PROVE  Has(completed, g) \/ Occurs(g, sockq)
    <3>1. CASE i > Len(completed)
      BY <1>4, <2>1, <3>1 DEF Occurs
    <3>2. CASE ~(i > Len(completed))
      <4>1. i \in 1..Len(completed)
        BY <1>2, <1>3, <1>4, <3>2
      <4> QED BY <1>4, <2>1, <4>1 DEF Has
    <3> QED BY <3>1, <3>2
  <2>2. ASSUME NEW i \in 1..Len(completed), completed[i].frame = g
        PROVE  Has(completed', g)
    <3>1. i \in 1..Len(completed')
      BY <1>2, <1>3, <1>4
    <3> QED BY <1>4, <2>2, <3>1 DEF Has
  <2>3. ASSUME NEW i \in 1..Len(sockq), sockq[i] = g
        PROVE  Has(completed', g)
    BY <1>4, <2>3 DEF Has
  <2> QED BY <2>1, <2>2, <2>3 DEF Has, Occurs
<1>6. DistinctFrames(completed')
  <2>1. SUFFICES ASSUME NEW i \in 1..Len(completed'), NEW j \in 1..Len(completed'),
                        completed'[i].frame = completed'[j].frame, i < j
                 PROVE  FALSE
    BY <1>2, <1>3, <1>4 DEF DistinctFrames
  <2>2. CASE j <= Len(completed)
    <3>1. i \in 1..Len(completed) /\ j \in 1..Len(completed)
      BY <1>2, <1>3, <1>4, <2>1, <2>2
    <3> QED BY <1>4, <2>1, <3>1 DEF Places, DistinctFrames
  <2>3. CASE i <= Len(completed) /\ j > Len(completed)
    <3>0. i \in 1..Len(completed)
      BY <1>2, <1>3, <1>4, <2>1, <2>3
    <3>a. completed[i] \in Result
      BY <1>3, <3>0
    <3>1. i \in 1..Len(completed) /\ completed[i].frame \in Frames
      BY <3>0, <3>a DEF Result
    <3>2. Has(completed, completed[i].frame)
      BY <3>1 DEF Has
    <3>3. Occurs(completed[i].frame, sockq)
      BY <1>4, <2>1, <2>3, <3>1 DEF Occurs
    <3> QED BY <3>1, <3>2, <3>3 DEF Places
  <2>4. CASE i > Len(completed)
    <3>1. /\ i - Len(completed) \in 1..Len(sockq) /\ j - Len(completed) \in 1..Len(sockq)
          /\ sockq[i - Len(completed)] = sockq[j - Len(completed)]
      BY <1>2, <1>3, <1>4, <2>1, <2>4
    <3>2. i - Len(completed) = j - Len(completed)
      BY <3>1 DEF Places, Distinct
    <3> QED BY <1>2, <1>3, <1>4, <2>1, <3>2
  <2> QED BY <1>2, <1>3, <1>4, <2>2, <2>3, <2>4
<1>7. TypeOK'
  BY <1>1, <1>4 DEF TypeOK
<1>8. Places'
  <2>1. ASSUME NEW g \in Frames
        PROVE  /\ Occurs(g, posted)' <=> Occurs(g, posted)
               /\ ~Occurs(g, sockq)'
               /\ Has(called, g)' <=> Has(called, g)
               /\ Occurs(g, submitted)' <=> Occurs(g, submitted)
               /\ left'[g] = left[g]
    BY <1>1 DEF Occurs
  <2>2. Distinct(posted)' /\ Distinct(sockq)' /\ DistinctFrames(called)'
    BY <1>1 DEF Places, Distinct
  <2> QED BY <1>5, <1>6, <2>1, <2>2 DEF Places
<1> QED BY <1>1, <1>7, <1>8

(* The invariant holds in every state that the writer can reach.           *)
THEOREM Inductive == Spec => []IInv
<1>1. IInv /\ [Next]_vars => IInv'
  <2> SUFFICES ASSUME IInv, [Next]_vars
               PROVE  IInv'
    OBVIOUS
  <2>1. CASE \E f \in Frames : AsyncWrite(f)
    BY <2>1, AsyncWriteIInv
  <2>2. CASE RunPosted
    BY <2>2, RunPostedIInv
  <2>3. CASE RunCompleted
    BY <2>3, RunCompletedIInv
  <2>4. CASE SocketReady
    BY <2>4, SocketReadyIInv
  <2>5. CASE SocketClosed
    BY <2>5, SocketClosedIInv
  <2>6. CASE UNCHANGED vars
    <3>1. TypeOK'
      BY <2>6 DEF vars, IInv, TypeOK
    <3>2. Places'
      BY <2>6 DEF vars, IInv, Places, Distinct, DistinctFrames, Has, Occurs
    <3> QED BY <2>6, <3>1, <3>2 DEF vars, IInv
  <2> QED BY <2>1, <2>2, <2>3, <2>4, <2>5, <2>6 DEF Next
<1> QED BY InitIInv, <1>1, PTL DEF Spec

(* TypeOK, for every set of frames and every size of frame.                *)
THEOREM TypeCorrect == Spec => []TypeOK
<1>1. IInv => TypeOK
  BY DEF IInv
<1> QED BY <1>1, Inductive, PTL

(* queued_writer.hpp:50-57 never keeps a frame waiting for another one.    *)
THEOREM QueueNeverBuffers == Spec => []NothingBuffered
<1>1. IInv => NothingBuffered
  BY DEF IInv, NothingBuffered
<1> QED BY <1>1, Inductive, PTL

(* A frame's handler is called at most once, whatever the sizes and        *)
(* wherever the connection breaks.                                         *)
THEOREM HandlerCalledOnce == Spec => []HandlerOnce
<1>1. IInv => HandlerOnce
  BY DEF IInv, Places, DistinctFrames, HandlerOnce
<1> QED BY <1>1, Inductive, PTL

-----------------------------------------------------------------------------
(* From here on every frame fits one transfer.  Then a frame is on the     *)
(* stream or waits in the socket or waits to be pushed, in that order,     *)
(* until the connection breaks; and a transfer that succeeded was its      *)
(* frame's last.                                                           *)
SmallFrames == \A f \in Frames : Units[f] = 1

InOrderInv ==
  /\ open => submitted = (wire \o sockq) \o posted
  /\ \A f \in Frames : left[f] <= 1
  /\ \A i \in 1..Len(completed) : completed[i].ok => left[completed[i].frame] = 0

(* The order of the stream is kept when the head of one queue becomes the  *)
(* last of the queue before it.                                            *)
LEMMA MoveHead ==
  ASSUME NEW a \in Seq(Frames), NEW b \in Seq(Frames), b # <<>>
  PROVE  Append(a, Head(b)) \o Tail(b) = a \o b
<1>1. /\ Head(b) \in Frames /\ Tail(b) \in Seq(Frames) /\ Head(b) = b[1]
      /\ Len(b) \in Nat /\ Len(b) >= 1 /\ Len(Tail(b)) = Len(b) - 1
      /\ \A i \in 1..Len(b) - 1 : Tail(b)[i] = b[i + 1]
  OBVIOUS
<1>2. Append(a, Head(b)) \in Seq(Frames) /\ Len(Append(a, Head(b))) = Len(a) + 1
  BY <1>1
<1>3. \A i \in 1..Len(a) + 1 :
        Append(a, Head(b))[i] = IF i <= Len(a) THEN a[i] ELSE b[1]
  BY <1>1
<1> DEFINE x == Append(a, Head(b)) \o Tail(b)
           y == a \o b
<1>4. x \in Seq(Frames) /\ Len(x) = Len(a) + Len(b)
  BY <1>1, <1>2, ConcatProperties
<1>5. y \in Seq(Frames) /\ Len(y) = Len(a) + Len(b)
  BY ConcatProperties
<1>6. ASSUME NEW i \in 1..Len(a) + Len(b)
      PROVE  x[i] = y[i]
  <2>1. y[i] = IF i <= Len(a) THEN a[i] ELSE b[i - Len(a)]
    BY ConcatProperties
  <2>2. x[i] = IF i <= Len(a) + 1 THEN Append(a, Head(b))[i]
                                 ELSE Tail(b)[i - (Len(a) + 1)]
    <3>1. i \in 1..Len(Append(a, Head(b))) + Len(Tail(b))
      BY <1>1, <1>2
    <3> QED BY <1>1, <1>2, <3>1, ConcatProperties
  <2>3. CASE i <= Len(a) + 1
    BY <1>1, <1>3, <2>1, <2>2, <2>3
  <2>4. CASE i > Len(a) + 1
    <3>1. /\ i - (Len(a) + 1) \in 1..Len(b) - 1
          /\ (i - (Len(a) + 1)) + 1 = i - Len(a)
          /\ ~(i <= Len(a)) /\ ~(i <= Len(a) + 1)
      BY <1>1, <2>4
    <3> QED BY <1>1, <2>1, <2>2, <3>1
  <2> QED BY <1>1, <2>3, <2>4
<1> HIDE DEF x, y
<1>7. x = y
  BY <1>4, <1>5, <1>6, SeqEqual
<1> QED BY <1>7 DEF x, y

(* The next frame of the abstract stream, where the frames not yet on it   *)
(* are b.                                                                  *)
LEMMA NextOnStream ==
  ASSUME NEW a \in Seq(Frames), NEW b \in Seq(Frames), b # <<>>
  PROVE  /\ Len(a) < Len(a \o b)
         /\ (a \o b)[Len(a) + 1] = Head(b)
<1>1. Len(b) \in Nat /\ Len(b) >= 1 /\ Head(b) = b[1] /\ Len(a) \in Nat
  OBVIOUS
<1>2. Len(a) + 1 \in 1..Len(a) + Len(b) /\ (Len(a) + 1) - Len(a) = 1
      /\ ~(Len(a) + 1 <= Len(a))
  BY <1>1
<1>3. (a \o b)[Len(a) + 1] = b[(Len(a) + 1) - Len(a)]
  BY <1>2, ConcatProperties
<1>4. Len(a \o b) = Len(a) + Len(b)
  BY ConcatProperties
<1> QED BY <1>1, <1>2, <1>3, <1>4

(* A transfer that starts while the socket can carry bytes: the frame      *)
(* goes on the stream, or joins the frames that wait for it.               *)
LEMMA SmallTransfer ==
  ASSUME TypeOK, InOrderInv, NEW f \in Frames, left[f] > 0, Transferred(f, completed)
  PROVE  /\ \A g \in Frames : left'[g] <= 1
         /\ \A i \in 1..Len(completed') :
              completed'[i].ok => left'[completed'[i].frame] = 0
<1>1. left[f] = 1 /\ left' = [left EXCEPT ![f] = @ - 1] /\ left \in [Frames -> Nat]
  BY DEF InOrderInv, Transferred, TypeOK
<1>2. left'[f] = 0 /\ \A g \in Frames \ {f} : left'[g] = left[g]
  BY <1>1
<1>3. \A g \in Frames : left'[g] <= 1
  BY <1>2 DEF InOrderInv
<1> DEFINE c == [frame |-> f, ok |-> TRUE]
<1>4. c \in Result /\ c.frame = f /\ completed' = Append(completed, c)
  BY DEF Result, Transferred
<1> HIDE DEF c
<1>5. completed \in Seq(Result)
  BY DEF TypeOK
<1>6. ASSUME NEW i \in 1..Len(completed'), completed'[i].ok
      PROVE  left'[completed'[i].frame] = 0
  <2>1. /\ Len(completed') = Len(completed) + 1 /\ Len(completed) \in Nat
        /\ completed'[Len(completed) + 1] = c
        /\ \A j \in 1..Len(completed) : completed'[j] = completed[j]
    BY <1>4, <1>5
  <2>2. CASE i = Len(completed) + 1
    BY <1>2, <1>4, <2>1, <2>2
  <2>3. CASE i \in 1..Len(completed)
    <3>1. completed[i] \in Result /\ completed'[i] = completed[i]
      BY <1>5, <2>1, <2>3
    <3>2. completed[i].frame \in Frames /\ left[completed[i].frame] = 0
      BY <1>6, <2>3, <3>1 DEF InOrderInv, Result
    <3> QED BY <1>2, <3>1, <3>2
  <2> QED BY <2>1, <2>2, <2>3
<1> QED BY <1>3, <1>6

(* A completion that failed adds nothing to what success must mean.        *)
LEMMA FailedCompletion ==
  ASSUME TypeOK, InOrderInv, NEW f \in Frames,
         completed' = Append(completed, [frame |-> f, ok |-> FALSE]), left' = left
  PROVE  \A i \in 1..Len(completed') :
           completed'[i].ok => left'[completed'[i].frame] = 0
<1> DEFINE c == [frame |-> f, ok |-> FALSE]
<1>1. c \in Result /\ ~c.ok /\ completed \in Seq(Result)
  BY DEF Result, TypeOK
<1>2. completed' = Append(completed, c)
  OBVIOUS
<1> HIDE DEF c
<1> SUFFICES ASSUME NEW i \in 1..Len(completed'), completed'[i].ok
             PROVE  left[completed'[i].frame] = 0
  OBVIOUS
<1>3. /\ Len(completed') = Len(completed) + 1 /\ Len(completed) \in Nat
      /\ completed'[Len(completed) + 1] = c
      /\ \A j \in 1..Len(completed) : completed'[j] = completed[j]
  BY <1>1, <1>2
<1>4. i \in 1..Len(completed)
  BY <1>1, <1>3
<1> QED BY <1>3, <1>4 DEF InOrderInv

(* A call of async_write is a Submit of the stream.                        *)
LEMMA AsyncWriteInOrder ==
  ASSUME IInv, InOrderInv, NEW f \in Frames, AsyncWrite(f)
  PROVE  InOrderInv' /\ Stream!Next
<1>1. /\ submitted' = Append(submitted, f) /\ posted' = Append(posted, f)
      /\ UNCHANGED <<m_wq, sockq, left, completed, wire, called, open>>
  BY DEF AsyncWrite
<1>2. Stream!Next
  BY <1>1 DEF Stream!Next, Stream!Submit
<1>3. ASSUME open
      PROVE  submitted' = (wire \o sockq) \o posted'
  <2>1. /\ wire \o sockq \in Seq(Frames) /\ posted \in Seq(Frames)
        /\ submitted = (wire \o sockq) \o posted
    BY <1>3, ConcatProperties DEF IInv, TypeOK, InOrderInv
  <2>2. \A a, b \in Seq(Frames) : Append(a \o b, f) = a \o Append(b, f)
    OBVIOUS
  <2> QED BY <1>1, <2>1, <2>2
<1> QED BY <1>1, <1>2, <1>3 DEF InOrderInv

(* A task that transfers its frame is a Deliver; one that has to wait is   *)
(* no step of the stream.                                                  *)
LEMMA RunPostedInOrder ==
  ASSUME IInv, InOrderInv, SmallFrames, RunPosted
  PROVE  InOrderInv' /\ [Stream!Next]_(Stream!vars)
<1> DEFINE f == Head(posted)
<1>1. /\ posted \in Seq(Frames) /\ posted # <<>>
      /\ f \in Frames /\ Tail(posted) \in Seq(Frames)
      /\ left[f] > 0
  <2>1. posted \in Seq(Frames) /\ posted # <<>> /\ Distinct(posted)
    BY DEF IInv, Places, RunPosted
  <2>2. /\ f \in Frames /\ Tail(posted) \in Seq(Frames)
        /\ Occurs(f, posted)
    BY <2>1, TailFrame
  <2> QED BY <2>1, <2>2, UnitsAssumption DEF IInv, Places
<1>2. /\ StartTransfer(f, completed) /\ posted' = Tail(posted)
      /\ UNCHANGED <<submitted, open>>
  <2>1. f # Resume /\ m_wq = <<>>
    BY <1>1, ResumeAssumption DEF IInv
  <2>2. DoWrite(Append(m_wq, f), Tail(posted)) /\ UNCHANGED <<submitted, called, open>>
    BY <2>1 DEF RunPosted
  <2> HIDE DEF f
  <2>3. Append(m_wq, f) = <<f>> /\ Head(<<f>>) = f /\ Tail(<<f>>) = <<>>
    BY <2>1
  <2> QED BY <2>2, <2>3 DEF DoWrite
<1>3. /\ wire \in Seq(Frames) /\ sockq \in Seq(Frames)
      /\ wire \o sockq \in Seq(Frames)
      /\ open => submitted = (wire \o sockq) \o posted
  BY ConcatProperties DEF IInv, TypeOK, InOrderInv
<1>4. CASE ~open /\ completed' = Append(completed, [frame |-> f, ok |-> FALSE])
           /\ UNCHANGED <<sockq, left, wire>>
  <2>1. \A i \in 1..Len(completed') :
          completed'[i].ok => left'[completed'[i].frame] = 0
    BY <1>1, <1>4, FailedCompletion DEF IInv
  <2>2. InOrderInv'
    BY <1>2, <1>4, <2>1 DEF InOrderInv
  <2> QED BY <1>2, <1>4, <2>2 DEF Stream!vars
<1>5. CASE open /\ sockq = <<>> /\ Transferred(f, completed) /\ UNCHANGED sockq
  <2>1. /\ \A g \in Frames : left'[g] <= 1
        /\ \A i \in 1..Len(completed') :
             completed'[i].ok => left'[completed'[i].frame] = 0
    BY <1>1, <1>5, SmallTransfer DEF IInv
  <2>2. wire' = Append(wire, f)
    BY <1>5 DEF Transferred
  <2>3. submitted = wire \o posted
    BY <1>3, <1>5, ConcatEmptySeq
  <2>4. Append(wire, f) \in Seq(Frames)
    BY <1>1, <1>3
  <2>5. submitted' = (wire' \o sockq') \o posted'
    BY <1>1, <1>2, <1>3, <1>5, <2>2, <2>3, <2>4, MoveHead, ConcatEmptySeq
  <2>6. Stream!Deliver
    BY <1>1, <1>2, <1>3, <2>2, <2>3, NextOnStream DEF Stream!Deliver
  <2> QED BY <2>1, <2>5, <2>6 DEF InOrderInv, Stream!Next
<1>6. CASE open /\ sockq' = Append(sockq, f) /\ completed' = completed
           /\ UNCHANGED <<left, wire>>
  <2>1. ASSUME NEW a \in Seq(Frames), NEW b \in Seq(Frames)
        PROVE  Append(a \o b, f) = a \o Append(b, f)
    <3>1. a \o b \in Seq(Frames) /\ f \in Frames /\ <<f>> \in Seq(Frames)
      BY <1>1
    <3>2. Append(b, f) = b \o <<f>>
      BY <3>1, AppendIsConcat
    <3>3. Append(a \o b, f) = (a \o b) \o <<f>>
      BY <3>1, AppendIsConcat
    <3>4. (a \o b) \o <<f>> = a \o (b \o <<f>>)
      BY <3>1, ConcatAssociative
    <3> QED BY <3>2, <3>3, <3>4
  <2>2. wire' \o sockq' = Append(wire \o sockq, f)
    BY <1>3, <1>6, <2>1
  <2>3. submitted' = (wire' \o sockq') \o posted'
    BY <1>1, <1>2, <1>3, <1>6, <2>2, MoveHead
  <2>4. InOrderInv'
    BY <1>2, <1>6, <2>3 DEF InOrderInv
  <2> QED BY <1>2, <1>6, <2>4 DEF Stream!vars
<1> QED BY <1>2, <1>4, <1>5, <1>6 DEF StartTransfer

(* With one unit for each frame, a completion only calls.                  *)
LEMMA RunCompletedInOrder ==
  ASSUME IInv, InOrderInv, RunCompleted
  PROVE  InOrderInv' /\ UNCHANGED Stream!vars
<1> DEFINE c == Head(completed)
<1>1. completed \in Seq(Result) /\ completed # <<>>
  BY DEF IInv, TypeOK, RunCompleted
<1>2. /\ Len(completed) \in Nat /\ Len(completed) >= 1 /\ c = completed[1]
      /\ Len(Tail(completed)) = Len(completed) - 1
      /\ \A i \in 1..Len(Tail(completed)) :
           i + 1 \in 1..Len(completed) /\ Tail(completed)[i] = completed[i + 1]
  BY <1>1
<1>3. ~(c.ok /\ left[c.frame] > 0)
  BY <1>2 DEF InOrderInv
<1>4. /\ completed' = Tail(completed)
      /\ UNCHANGED <<sockq, left, wire, submitted, posted, open>>
  BY <1>3 DEF RunCompleted
<1>5. InOrderInv'
  BY <1>2, <1>4 DEF InOrderInv
<1> QED BY <1>4, <1>5 DEF Stream!vars

(* The frame that waits longest is delivered.                              *)
LEMMA SocketReadyInOrder ==
  ASSUME IInv, InOrderInv, SocketReady
  PROVE  InOrderInv' /\ Stream!Next
<1> DEFINE f == Head(sockq)
<1>1. /\ sockq \in Seq(Frames) /\ sockq # <<>> /\ wire \in Seq(Frames)
      /\ f \in Frames /\ Tail(sockq) \in Seq(Frames) /\ Occurs(f, sockq)
  <2>1. sockq \in Seq(Frames) /\ sockq # <<>> /\ Distinct(sockq) /\ wire \in Seq(Frames)
    BY DEF IInv, TypeOK, Places, SocketReady
  <2> QED BY <2>1, TailFrame
<1>2. /\ open /\ Transferred(f, completed) /\ sockq' = Tail(sockq)
      /\ UNCHANGED <<submitted, posted, m_wq, called, open>>
  BY DEF SocketReady
<1>3. left[f] > 0
  BY <1>1 DEF IInv, Places
<1>4. /\ \A g \in Frames : left'[g] <= 1
      /\ \A i \in 1..Len(completed') :
           completed'[i].ok => left'[completed'[i].frame] = 0
  BY <1>1, <1>2, <1>3, SmallTransfer DEF IInv
<1>5. /\ wire' = Append(wire, f) /\ posted \in Seq(Frames)
      /\ submitted = (wire \o sockq) \o posted
  BY <1>2 DEF Transferred, InOrderInv, IInv
<1>6. submitted' = (wire' \o sockq') \o posted'
  BY <1>1, <1>2, <1>5, MoveHead
<1>7. Stream!Deliver
  <2>1. submitted = wire \o (sockq \o posted)
    BY <1>1, <1>5, ConcatAssociative
  <2>2. /\ sockq \o posted \in Seq(Frames) /\ sockq \o posted # <<>>
        /\ Head(sockq \o posted) = f
    <3>1. \A a, b \in Seq(Frames) : a # <<>> =>
            a \o b \in Seq(Frames) /\ a \o b # <<>> /\ Head(a \o b) = Head(a)
      OBVIOUS
    <3> QED BY <1>1, <1>5, <3>1
  <2> HIDE DEF f
  <2> QED BY <1>1, <1>2, <1>5, <2>1, <2>2, NextOnStream DEF Stream!Deliver
<1> QED BY <1>2, <1>4, <1>6, <1>7 DEF InOrderInv, Stream!Next

(* The stream stops: no frame is delivered any more.                       *)
LEMMA SocketClosedInOrder ==
  ASSUME IInv, InOrderInv, SocketClosed
  PROVE  InOrderInv' /\ UNCHANGED Stream!vars
<1> DEFINE F == [i \in 1..Len(sockq) |-> [frame |-> sockq[i], ok |-> FALSE]]
<1>1. /\ completed' = completed \o F /\ open' = FALSE
      /\ UNCHANGED <<submitted, posted, m_wq, left, wire, called>>
  BY DEF SocketClosed
<1>2. /\ F \in Seq(Result) /\ completed \in Seq(Result)
      /\ \A i \in 1..Len(F) : ~F[i].ok
  BY DEF IInv, TypeOK, Result
<1> HIDE DEF F
<1>3. ASSUME NEW i \in 1..Len(completed'), completed'[i].ok
      PROVE  left[completed'[i].frame] = 0
  <2>1. /\ Len(completed') = Len(completed) + Len(F)
        /\ completed'[i] = IF i <= Len(completed) THEN completed[i]
                                                  ELSE F[i - Len(completed)]
    <3>1. Len(completed \o F) = Len(completed) + Len(F)
      BY <1>2, ConcatProperties
    <3>2. i \in 1..Len(completed) + Len(F)
      BY <1>1, <3>1
    <3> QED BY <1>1, <1>2, <3>1, <3>2, ConcatProperties
  <2>2. Len(completed) \in Nat /\ Len(F) \in Nat
    BY <1>2
  <2>3. i <= Len(completed)
    <3>1. i > Len(completed) => i - Len(completed) \in 1..Len(F)
      BY <2>1, <2>2
    <3> QED BY <1>2, <1>3, <2>1, <2>2, <3>1
  <2> QED BY <1>3, <2>1, <2>2, <2>3 DEF InOrderInv
<1>4. InOrderInv'
  BY <1>1, <1>3 DEF InOrderInv
<1> QED BY <1>1, <1>4 DEF Stream!vars

(* With frames that fit one transfer each, the writer implements the       *)
(* README's ordered stream: what the socket carries is, at every moment,   *)
(* a prefix of the frames in the order async_write was called.             *)
THEOREM SmallFramesInOrder ==
  ASSUME SmallFrames
  PROVE  Spec => InOrder
<1>1. Init => InOrderInv /\ Stream!Init
  <2>1. Init => <<>> = (<<>> \o <<>>) \o <<>>
    OBVIOUS
  <2> QED BY <2>1, UnitsAssumption DEF Init, InOrderInv, Stream!Init, SmallFrames
<1>2. IInv /\ InOrderInv /\ [Next]_vars => InOrderInv' /\ [Stream!Next]_(Stream!vars)
  <2> SUFFICES ASSUME IInv, InOrderInv, [Next]_vars
               PROVE  InOrderInv' /\ [Stream!Next]_(Stream!vars)
    OBVIOUS
  <2>1. CASE \E f \in Frames : AsyncWrite(f)
    BY <2>1, AsyncWriteInOrder
  <2>2. CASE RunPosted
    BY <2>2, RunPostedInOrder
  <2>3. CASE RunCompleted
    BY <2>3, RunCompletedInOrder
  <2>4. CASE SocketReady
    BY <2>4, SocketReadyInOrder
  <2>5. CASE SocketClosed
    BY <2>5, SocketClosedInOrder
  <2>6. CASE UNCHANGED vars
    BY <2>6 DEF vars, InOrderInv, Stream!vars
  <2> QED BY <2>1, <2>2, <2>3, <2>4, <2>5, <2>6 DEF Next
<1> QED BY <1>1, <1>2, Inductive, PTL DEF Spec, InOrder, Stream!Spec
-----------------------------------------------------------------------------
(* From here on: how much of a frame is on the stream when its handler is  *)
(* told of success, and in which order the frames are.                    *)

(* Where the units of a frame are on the stream.                           *)
UnitsOf(f, w) == {k \in 1..Len(w) : w[k] = f}

(* Every unit of a frame is left or on the stream, and a handler that was  *)
(* told of success had nothing left.                                       *)
WInv ==
  /\ \A f \in Frames : Cardinality(UnitsOf(f, wire)) + left[f] = Units[f]
  /\ \A i \in 1..Len(called) : called[i].ok => left[called[i].frame] = 0

(* One more unit on the stream is one more of its frame.                   *)
LEMMA OneMoreUnit ==
  ASSUME NEW w \in Seq(Frames), NEW f \in Frames, NEW g \in Frames
  PROVE  /\ Cardinality(UnitsOf(g, w)) \in Nat
         /\ Cardinality(UnitsOf(g, Append(w, f))) =
              Cardinality(UnitsOf(g, w)) + (IF g = f THEN 1 ELSE 0)
<1>1. /\ Len(w) \in Nat /\ Len(Append(w, f)) = Len(w) + 1
      /\ Append(w, f)[Len(w) + 1] = f
      /\ \A i \in 1..Len(w) : Append(w, f)[i] = w[i]
  OBVIOUS
<1>2. IsFiniteSet(UnitsOf(g, w))
  <2>1. IsFiniteSet(1..Len(w))
    BY <1>1, FS_Interval
  <2>2. UnitsOf(g, w) \in SUBSET (1..Len(w))
    BY DEF UnitsOf
  <2> QED BY <2>1, <2>2, FS_Subset
<1>3. Cardinality(UnitsOf(g, w)) \in Nat
  BY <1>2, FS_CardinalityType
<1>4. CASE g = f
  <2>1. UnitsOf(g, Append(w, f)) = UnitsOf(g, w) \cup {Len(w) + 1}
    BY <1>1, <1>4 DEF UnitsOf
  <2>2. Len(w) + 1 \notin UnitsOf(g, w)
    BY <1>1 DEF UnitsOf
  <2>3. Cardinality(UnitsOf(g, w) \cup {Len(w) + 1}) = Cardinality(UnitsOf(g, w)) + 1
    BY <1>2, <2>2, FS_AddElement
  <2> QED BY <1>3, <1>4, <2>1, <2>3
<1>5. CASE g # f
  <2>1. UnitsOf(g, Append(w, f)) = UnitsOf(g, w)
    BY <1>1, <1>5 DEF UnitsOf
  <2> QED BY <1>3, <1>5, <2>1
<1> QED BY <1>3, <1>4, <1>5

(* A transfer of a frame that was not called keeps the account.            *)
LEMMA TransferCounts ==
  ASSUME TypeOK, WInv, NEW f \in Frames, left[f] > 0, ~Has(called, f),
         wire' = Append(wire, f), left' = [left EXCEPT ![f] = @ - 1],
         UNCHANGED called
  PROVE  WInv'
<1>1. left'[f] = left[f] - 1 /\ \A g \in Frames \ {f} : left'[g] = left[g]
  BY DEF TypeOK
<1>2. ASSUME NEW g \in Frames
      PROVE  Cardinality(UnitsOf(g, wire')) + left'[g] = Units[g]
  <2>1. /\ Cardinality(UnitsOf(g, wire)) \in Nat
        /\ Cardinality(UnitsOf(g, wire')) =
             Cardinality(UnitsOf(g, wire)) + (IF g = f THEN 1 ELSE 0)
    BY OneMoreUnit DEF TypeOK
  <2>2. left[g] \in Nat /\ Cardinality(UnitsOf(g, wire)) + left[g] = Units[g]
    BY DEF TypeOK, WInv
  <2> QED BY <1>1, <2>1, <2>2
<1>3. ASSUME NEW i \in 1..Len(called), called[i].ok
      PROVE  left'[called[i].frame] = 0
  <2>1. called \in Seq(Result)
    BY DEF TypeOK
  <2>2. called[i] \in Result
    BY <2>1
  <2>3. called[i].frame \in Frames /\ called[i].frame # f
    BY <2>2 DEF Result, Has
  <2> QED BY <1>1, <1>3, <2>3 DEF WInv
<1> QED BY <1>2, <1>3 DEF WInv

(* A transfer that is started either happens now or leaves the stream.     *)
LEMMA StartTransferCounts ==
  ASSUME TypeOK, WInv, NEW f \in Frames, NEW cs, left[f] > 0, ~Has(called, f),
         StartTransfer(f, cs), UNCHANGED called
  PROVE  WInv'
<1>1. CASE UNCHANGED <<left, wire>>
  BY <1>1 DEF WInv
<1>2. CASE Transferred(f, cs)
  BY <1>2, TransferCounts DEF Transferred
<1> QED BY <1>1, <1>2 DEF StartTransfer

(* A task that pushes a frame starts its first transfer.                   *)
LEMMA RunPostedStarts ==
  ASSUME IInv, RunPosted
  PROVE  /\ Head(posted) \in Frames /\ Occurs(Head(posted), posted)
         /\ left[Head(posted)] > 0
         /\ StartTransfer(Head(posted), completed)
         /\ posted' = Tail(posted)
         /\ UNCHANGED <<submitted, called, open>>
<1> DEFINE f == Head(posted)
<1>1. posted \in Seq(Frames) /\ posted # <<>> /\ Distinct(posted)
  BY DEF IInv, Places, RunPosted
<1>2. f \in Frames /\ Occurs(f, posted)
  BY <1>1, TailFrame
<1>3. left[f] > 0
  BY <1>2, UnitsAssumption DEF IInv, Places
<1>4. f # Resume /\ m_wq = <<>>
  BY <1>2, ResumeAssumption DEF IInv
<1>5. DoWrite(Append(m_wq, f), Tail(posted)) /\ UNCHANGED <<submitted, called, open>>
  BY <1>4 DEF RunPosted
<1> HIDE DEF f
<1>6. Append(m_wq, f) = <<f>> /\ Head(<<f>>) = f /\ Tail(<<f>>) = <<>>
  BY <1>4
<1>7. StartTransfer(f, completed) /\ posted' = Tail(posted)
  BY <1>5, <1>6 DEF DoWrite
<1> QED BY <1>2, <1>3, <1>5, <1>7 DEF f

(* A completion belongs to a frame that was submitted and is not called.   *)
LEMMA CompletionKnown ==
  ASSUME IInv, completed # <<>>
  PROVE  /\ Head(completed) \in Result
         /\ Head(completed).frame \in Frames
         /\ ~Has(called, Head(completed).frame)
         /\ Occurs(Head(completed).frame, submitted)
<1>1. completed \in Seq(Result) /\ DistinctFrames(completed)
  BY DEF IInv, TypeOK, Places
<1>2. /\ Head(completed) \in Result
      /\ \A g \in Frames : g = Head(completed).frame => Has(completed, g)
  BY <1>1, TailResult
<1>3. Head(completed).frame \in Frames
  BY <1>2 DEF Result
<1> QED BY <1>2, <1>3 DEF IInv, Places

(* Every step keeps the account of the units.                              *)
LEMMA StepCounts ==
  ASSUME IInv, WInv, [Next]_vars
  PROVE  WInv'
<1>1. CASE \E f \in Frames : AsyncWrite(f)
  BY <1>1 DEF AsyncWrite, WInv
<1>2. CASE RunPosted
  <2>1. ~Has(called, Head(posted))
    BY <1>2, RunPostedStarts DEF IInv, Places
  <2> QED BY <1>2, <2>1, RunPostedStarts, StartTransferCounts DEF IInv
<1>3. CASE RunCompleted
  <2> DEFINE c == Head(completed)
  <2>1. c \in Result /\ c.frame \in Frames /\ ~Has(called, c.frame)
    BY <1>3, CompletionKnown DEF RunCompleted
  <2>2. CASE c.ok /\ left[c.frame] > 0
    <3>1. StartTransfer(c.frame, Tail(completed)) /\ UNCHANGED called
      BY <1>3, <2>2 DEF RunCompleted
    <3> QED BY <2>1, <2>2, <3>1, StartTransferCounts DEF IInv
  <2>3. CASE ~(c.ok /\ left[c.frame] > 0)
    <3>1. called' = Append(called, c) /\ UNCHANGED <<left, wire>>
      BY <1>3, <2>3 DEF RunCompleted
    <3>2. c.ok => left[c.frame] = 0
      BY <2>1, <2>3 DEF IInv, TypeOK
    <3> HIDE DEF c
    <3>3. called \in Seq(Result)
      BY DEF IInv, TypeOK
    <3>4. /\ Len(called') = Len(called) + 1 /\ Len(called) \in Nat
          /\ called'[Len(called) + 1] = c
          /\ \A i \in 1..Len(called) : called'[i] = called[i]
      BY <2>1, <3>1, <3>3
    <3>5. ASSUME NEW i \in 1..Len(called'), called'[i].ok
          PROVE  left[called'[i].frame] = 0
      <4>1. CASE i = Len(called) + 1
        BY <3>2, <3>4, <3>5, <4>1
      <4>2. CASE i \in 1..Len(called)
        BY <3>4, <3>5, <4>2 DEF WInv
      <4> QED BY <3>4, <4>1, <4>2
    <3> QED BY <3>1, <3>5 DEF WInv
  <2> QED BY <2>2, <2>3
<1>4. CASE SocketReady
  <2>1. sockq \in Seq(Frames) /\ sockq # <<>> /\ Distinct(sockq)
    BY <1>4 DEF IInv, TypeOK, Places, SocketReady
  <2>2. Head(sockq) \in Frames /\ Occurs(Head(sockq), sockq)
    BY <2>1, TailFrame
  <2>3. left[Head(sockq)] > 0 /\ ~Has(called, Head(sockq))
    BY <2>2 DEF IInv, Places
  <2> QED BY <1>4, <2>2, <2>3, TransferCounts DEF IInv, SocketReady, Transferred
<1>5. CASE SocketClosed
  BY <1>5 DEF SocketClosed, WInv
<1>6. CASE UNCHANGED vars
  BY <1>6 DEF vars, WInv
<1> QED BY <1>1, <1>2, <1>3, <1>4, <1>5, <1>6 DEF Next

(* A handler that is told of success belongs to a frame all of which is on *)
(* the stream, wherever the connection breaks and however the frames share *)
(* it (asio's composed write, as started by queued_writer.hpp:54).         *)
THEOREM SuccessIsWhole == Spec => []SuccessMeansWritten
<1>1. Init => WInv
  <2>1. ASSUME NEW f \in Frames PROVE UnitsOf(f, <<>>) = {}
    BY DEF UnitsOf
  <2>2. Cardinality({}) = 0
    BY FS_EmptySet
  <2> QED BY <2>1, <2>2, UnitsAssumption DEF Init, WInv
<1>2. IInv /\ WInv => SuccessMeansWritten
  <2> SUFFICES ASSUME IInv, WInv, NEW i \in 1..Len(called), called[i].ok
               PROVE  Cardinality(UnitsOf(called[i].frame, wire)) = Units[called[i].frame]
    BY DEF SuccessMeansWritten, UnitsOf
  <2>1. called \in Seq(Result) /\ wire \in Seq(Frames)
    BY DEF IInv, TypeOK
  <2>2. called[i] \in Result
    BY <2>1
  <2>3. called[i].frame \in Frames
    BY <2>2 DEF Result
  <2>4. Cardinality(UnitsOf(called[i].frame, wire)) \in Nat
    BY <2>1, <2>3, OneMoreUnit
  <2> QED BY <2>3, <2>4 DEF WInv
<1>3. IInv /\ WInv /\ [Next]_vars => WInv'
  BY StepCounts
<1> QED BY <1>1, <1>2, <1>3, Inductive, PTL DEF Spec
-----------------------------------------------------------------------------
(* From here on: the order in which frames start.                          *)

(* The first unit of f on the stream w is the k-th of all.                 *)
StartsAt(f, k, w) ==
  k \in 1..Len(w) /\ w[k] = f /\ \A l \in 1..(k - 1) : w[l] # f

(* What is on the stream started in the order of the calls.                *)
WireOrder ==
  /\ Distinct(submitted)
  /\ \A f \in Frames : Occurs(f, wire) =>
       Occurs(f, submitted) /\ \E k \in 1..Len(wire) : StartsAt(f, k, wire)
  /\ \A i, j \in 1..Len(submitted) : i < j /\ Occurs(submitted[j], wire) =>
       /\ Occurs(submitted[i], wire)
       /\ \A a, b \in 1..Len(wire) :
            StartsAt(submitted[i], a, wire) /\ StartsAt(submitted[j], b, wire) => a < b

(* A completed transfer has put its frame on the stream.                   *)
Told ==
  \A i \in 1..Len(completed) : completed[i].ok => Occurs(completed[i].frame, wire)

(* While the socket is open, a frame that has not started is posted or     *)
(* waits for the socket, and no frame of a later call is ahead of it.      *)
Ahead(f, g, s) == \A p, q \in 1..Len(s) : s[p] = f /\ s[q] = g => p < q

QueueOrder ==
  open => \A i \in 1..Len(submitted) : ~Occurs(submitted[i], wire) =>
    /\ Occurs(submitted[i], sockq) \/ Occurs(submitted[i], posted)
    /\ \A j \in 1..Len(submitted) : i < j =>
         /\ Ahead(submitted[i], submitted[j], sockq)
         /\ Ahead(submitted[i], submitted[j], posted)
         /\ Occurs(submitted[j], sockq) => Occurs(submitted[i], sockq)

OrderInv == WireOrder /\ Told /\ QueueOrder

(* Where frames start on a stream that got one more unit.                  *)
LEMMA AppendStarts ==
  ASSUME NEW w \in Seq(Frames), NEW g \in Frames
  PROVE  \A f \in Frames, k \in 1..Len(Append(w, g)) :
           StartsAt(f, k, Append(w, g)) <=>
             \/ k \in 1..Len(w) /\ StartsAt(f, k, w)
             \/ k = Len(w) + 1 /\ f = g /\ ~Occurs(g, w)
<1>1. /\ Len(w) \in Nat /\ Len(Append(w, g)) = Len(w) + 1
      /\ Append(w, g)[Len(w) + 1] = g
      /\ \A i \in 1..Len(w) : Append(w, g)[i] = w[i]
  OBVIOUS
<1> SUFFICES ASSUME NEW f \in Frames, NEW k \in 1..Len(Append(w, g))
             PROVE  StartsAt(f, k, Append(w, g)) <=>
                      \/ k \in 1..Len(w) /\ StartsAt(f, k, w)
                      \/ k = Len(w) + 1 /\ f = g /\ ~Occurs(g, w)
  OBVIOUS
<1> DEFINE x == Append(w, g)
<1> HIDE DEF x
<1>2. CASE k \in 1..Len(w)
  <2>1. k # Len(w) + 1 /\ \A l \in 1..(k - 1) : l \in 1..Len(w)
    BY <1>1, <1>2
  <2> QED BY <1>1, <1>2, <2>1 DEF StartsAt, x
<1>3. CASE k = Len(w) + 1
  <2>1. k \notin 1..Len(w) /\ k - 1 = Len(w)
    BY <1>1, <1>3
  <2> QED BY <1>1, <1>3, <2>1 DEF StartsAt, Occurs, x
<1> QED BY <1>1, <1>2, <1>3

(* A unit goes on the stream: it continues its frame, or all frames of     *)
(* earlier calls have started.                                             *)
LEMMA TransferKeepsWire ==
  ASSUME TypeOK, WireOrder, NEW g \in Frames, Occurs(g, submitted),
         wire' = Append(wire, g), UNCHANGED submitted,
         \/ Occurs(g, wire)
         \/ \A i, j \in 1..Len(submitted) :
              i < j /\ submitted[j] = g => Occurs(submitted[i], wire)
  PROVE  WireOrder'
<1>1. /\ wire \in Seq(Frames) /\ submitted \in Seq(Frames)
      /\ Len(wire) \in Nat /\ Len(wire') = Len(wire) + 1
      /\ \A i \in 1..Len(submitted) : submitted[i] \in Frames
  BY DEF TypeOK
<1>2. \A f \in Frames : Occurs(f, wire') <=> (f = g \/ Occurs(f, wire))
  BY <1>1, AppendFrame
<1>3. \A f \in Frames, k \in 1..Len(wire') :
        StartsAt(f, k, wire') <=>
          \/ k \in 1..Len(wire) /\ StartsAt(f, k, wire)
          \/ k = Len(wire) + 1 /\ f = g /\ ~Occurs(g, wire)
  BY <1>1, AppendStarts
<1>4. ASSUME NEW f \in Frames, Occurs(f, wire')
      PROVE  Occurs(f, submitted) /\ \E k \in 1..Len(wire') : StartsAt(f, k, wire')
  <2>1. CASE Occurs(f, wire)
    <3>1. PICK k \in 1..Len(wire) : StartsAt(f, k, wire)
      BY <2>1 DEF WireOrder
    <3>2. k \in 1..Len(wire')
      BY <1>1
    <3> QED BY <1>3, <2>1, <3>1, <3>2 DEF WireOrder
  <2>2. CASE ~Occurs(f, wire)
    <3>1. f = g /\ Len(wire) + 1 \in 1..Len(wire')
      BY <1>1, <1>2, <1>4, <2>2
    <3> QED BY <1>3, <2>2, <3>1
  <2> QED BY <2>1, <2>2
<1>5. ASSUME NEW i \in 1..Len(submitted), NEW j \in 1..Len(submitted),
             i < j, Occurs(submitted[j], wire')
      PROVE  /\ Occurs(submitted[i], wire')
             /\ \A a, b \in 1..Len(wire') :
                  StartsAt(submitted[i], a, wire') /\ StartsAt(submitted[j], b, wire')
                    => a < b
  <2>1. submitted[i] # submitted[j]
    BY <1>1, <1>5 DEF WireOrder, Distinct
  <2>2. Occurs(submitted[i], wire)
    <3>1. CASE Occurs(submitted[j], wire)
      BY <1>5, <3>1 DEF WireOrder
    <3>2. CASE ~Occurs(submitted[j], wire)
      BY <1>1, <1>2, <1>5, <3>2
    <3> QED BY <3>1, <3>2
  <2>3. ASSUME NEW a \in 1..Len(wire'), NEW b \in 1..Len(wire'),
               StartsAt(submitted[i], a, wire'), StartsAt(submitted[j], b, wire')
        PROVE  a < b
    <3>1. a \in 1..Len(wire) /\ StartsAt(submitted[i], a, wire)
      BY <1>1, <1>3, <2>2, <2>3
    <3>2. CASE b \in 1..Len(wire) /\ StartsAt(submitted[j], b, wire)
      <4>1. Occurs(submitted[j], wire)
        BY <3>2 DEF StartsAt, Occurs
      <4> QED BY <1>5, <3>1, <3>2, <4>1 DEF WireOrder
    <3>3. CASE b = Len(wire) + 1
      BY <1>1, <3>1, <3>3
    <3> QED BY <1>1, <1>3, <2>3, <3>2, <3>3
  <2> QED BY <1>1, <1>2, <2>2, <2>3
<1> QED BY <1>4, <1>5 DEF WireOrder

(* A unit on the stream takes no frame off it.                             *)
LEMMA TransferTold ==
  ASSUME TypeOK, NEW g \in Frames, NEW cs \in Seq(Result), Transferred(g, cs),
         \A i \in 1..Len(cs) : cs[i].ok => Occurs(cs[i].frame, wire)
  PROVE  Told'
<1> DEFINE c == [frame |-> g, ok |-> TRUE]
<1>1. c \in Result /\ c.frame = g /\ completed' = Append(cs, c)
  BY DEF Result, Transferred
<1> HIDE DEF c
<1>2. \A f \in Frames : Occurs(f, wire') <=> (f = g \/ Occurs(f, wire))
  BY AppendFrame DEF TypeOK, Transferred
<1>3. /\ Len(completed') = Len(cs) + 1 /\ Len(cs) \in Nat
      /\ completed'[Len(cs) + 1] = c
      /\ \A i \in 1..Len(cs) : completed'[i] = cs[i]
  BY <1>1
<1> SUFFICES ASSUME NEW i \in 1..Len(completed'), completed'[i].ok
             PROVE  Occurs(completed'[i].frame, wire')
  BY DEF Told
<1>4. CASE i = Len(cs) + 1
  BY <1>1, <1>2, <1>3, <1>4
<1>5. CASE i \in 1..Len(cs)
  <2>1. cs[i] \in Result
    BY <1>5
  <2> QED BY <1>2, <1>3, <1>5, <2>1 DEF Result
<1> QED BY <1>3, <1>4, <1>5

(* Nor does a completion that failed.                                      *)
LEMMA FailureTold ==
  ASSUME NEW g \in Frames, NEW cs \in Seq(Result),
         completed' = Append(cs, [frame |-> g, ok |-> FALSE]), UNCHANGED wire,
         \A i \in 1..Len(cs) : cs[i].ok => Occurs(cs[i].frame, wire)
  PROVE  Told'
<1> DEFINE c == [frame |-> g, ok |-> FALSE]
<1>1. c \in Result /\ ~c.ok /\ completed' = Append(cs, c)
  BY DEF Result
<1> HIDE DEF c
<1>2. /\ Len(completed') = Len(cs) + 1 /\ Len(cs) \in Nat
      /\ completed'[Len(cs) + 1] = c
      /\ \A i \in 1..Len(cs) : completed'[i] = cs[i]
  BY <1>1
<1> SUFFICES ASSUME NEW i \in 1..Len(completed'), completed'[i].ok
             PROVE  Occurs(completed'[i].frame, wire)
  BY DEF Told
<1>3. i \in 1..Len(cs)
  BY <1>1, <1>2
<1> QED BY <1>2, <1>3

(* What is left of the completions when the oldest was taken.              *)
LEMMA TailTold ==
  ASSUME TypeOK, Told, completed # <<>>
  PROVE  /\ Tail(completed) \in Seq(Result)
         /\ \A i \in 1..Len(Tail(completed)) :
              Tail(completed)[i].ok => Occurs(Tail(completed)[i].frame, wire)
         /\ Head(completed).ok => Occurs(Head(completed).frame, wire)
<1>1. completed \in Seq(Result)
  BY DEF TypeOK
<1>2. /\ Tail(completed) \in Seq(Result) /\ Len(completed) \in Nat
      /\ Head(completed) = completed[1] /\ 1 \in 1..Len(completed)
      /\ \A i \in 1..Len(Tail(completed)) :
           i + 1 \in 1..Len(completed) /\ Tail(completed)[i] = completed[i + 1]
  BY <1>1
<1> QED BY <1>2 DEF Told

(* A frame that joins a queue is behind the others, and the head of a      *)
(* queue has none ahead of it.                                             *)
LEMMA AppendAhead ==
  ASSUME NEW s \in Seq(Frames), NEW f \in Frames, NEW g \in Frames, NEW h \in Frames,
         f # g, Ahead(f, g, s), f = h => ~Occurs(g, s)
  PROVE  Ahead(f, g, Append(s, h))
<1> DEFINE x == Append(s, h)
<1>1. /\ Len(s) \in Nat /\ Len(x) = Len(s) + 1 /\ x[Len(s) + 1] = h
      /\ \A i \in 1..Len(s) : x[i] = s[i]
  OBVIOUS
<1> HIDE DEF x
<1> SUFFICES ASSUME NEW p \in 1..Len(x), NEW q \in 1..Len(x), x[p] = f, x[q] = g
             PROVE  p < q
  BY DEF Ahead, x
<1>2. CASE p \in 1..Len(s) /\ q \in 1..Len(s)
  BY <1>1, <1>2 DEF Ahead
<1>3. CASE p \in 1..Len(s) /\ q = Len(s) + 1
  BY <1>1, <1>3
<1>4. CASE p = Len(s) + 1
  <2>1. f = h /\ q \in 1..Len(s)
    BY <1>1, <1>4
  <2> QED BY <1>1, <2>1 DEF Occurs
<1> QED BY <1>1, <1>2, <1>3, <1>4

(* A queue without its head keeps the order.                               *)
LEMMA TailAhead ==
  ASSUME NEW s \in Seq(Frames), s # <<>>, NEW f \in Frames, NEW g \in Frames,
         f # g, Ahead(f, g, s)
  PROVE  /\ Ahead(f, g, Tail(s))
         /\ ~(g = Head(s) /\ Occurs(f, s))
<1> DEFINE x == Tail(s)
<1>1. /\ Len(s) \in Nat /\ Len(s) >= 1 /\ Head(s) = s[1] /\ Len(x) = Len(s) - 1
      /\ \A i \in 1..Len(x) : i + 1 \in 1..Len(s) /\ x[i] = s[i + 1]
  OBVIOUS
<1> HIDE DEF x
<1>2. Ahead(f, g, x)
  <2> SUFFICES ASSUME NEW p \in 1..Len(x), NEW q \in 1..Len(x), x[p] = f, x[q] = g
               PROVE  p < q
    BY DEF Ahead
  <2>1. p + 1 < q + 1
    BY <1>1 DEF Ahead
  <2> QED BY <1>1, <2>1
<1>3. ASSUME g = Head(s), Occurs(f, s)
      PROVE  FALSE
  <2>1. PICK p \in 1..Len(s) : s[p] = f
    BY <1>3 DEF Occurs
  <2>2. p < 1
    BY <1>1, <1>3, <2>1 DEF Ahead
  <2> QED BY <1>1, <2>1, <2>2
<1> QED BY <1>2, <1>3 DEF x

(* A new call is behind all others.                                        *)
LEMMA AsyncWriteOrder ==
  ASSUME IInv, OrderInv, NEW f \in Frames, AsyncWrite(f)
  PROVE  OrderInv'
<1>1. /\ submitted' = Append(submitted, f) /\ posted' = Append(posted, f)
      /\ ~Occurs(f, submitted)
      /\ UNCHANGED <<sockq, completed, wire, open>>
  BY DEF AsyncWrite
<1>2. /\ submitted \in Seq(Frames) /\ posted \in Seq(Frames) /\ sockq \in Seq(Frames)
      /\ ~Occurs(f, posted) /\ ~Occurs(f, sockq) /\ ~Occurs(f, wire)
  BY <1>1 DEF IInv, TypeOK, Places, OrderInv, WireOrder
<1>3. /\ Distinct(submitted')
      /\ \A g \in Frames : Occurs(g, submitted') <=> (g = f \/ Occurs(g, submitted))
      /\ \A g \in Frames : Occurs(g, posted') <=> (g = f \/ Occurs(g, posted))
  BY <1>1, <1>2, AppendFrame DEF OrderInv, WireOrder
<1>4. /\ Len(submitted) \in Nat /\ Len(submitted') = Len(submitted) + 1
      /\ submitted'[Len(submitted) + 1] = f
      /\ \A i \in 1..Len(submitted) :
           submitted'[i] = submitted[i] /\ submitted[i] \in Frames /\ submitted[i] # f
  BY <1>1, <1>2 DEF Occurs
<1>5. ASSUME NEW i \in 1..Len(submitted'), NEW j \in 1..Len(submitted'), i < j
      PROVE  /\ i \in 1..Len(submitted) /\ submitted'[i] = submitted[i]
             /\ \/ j \in 1..Len(submitted) /\ submitted'[j] = submitted[j]
                \/ j = Len(submitted) + 1 /\ submitted'[j] = f
  BY <1>4, <1>5
<1>6. WireOrder'
  <2>1. \A g \in Frames : Occurs(g, wire) =>
          Occurs(g, submitted') /\ \E k \in 1..Len(wire) : StartsAt(g, k, wire)
    BY <1>3 DEF OrderInv, WireOrder
  <2>2. ASSUME NEW i \in 1..Len(submitted'), NEW j \in 1..Len(submitted'),
               i < j, Occurs(submitted'[j], wire)
        PROVE  /\ Occurs(submitted'[i], wire)
               /\ \A a, b \in 1..Len(wire) :
                    StartsAt(submitted'[i], a, wire) /\ StartsAt(submitted'[j], b, wire)
                      => a < b
    BY <1>2, <1>5, <2>2 DEF OrderInv, WireOrder
  <2> QED BY <1>1, <1>3, <2>1, <2>2 DEF WireOrder
<1>7. QueueOrder'
  <2> SUFFICES ASSUME open, NEW i \in 1..Len(submitted'), ~Occurs(submitted'[i], wire)
               PROVE  /\ Occurs(submitted'[i], sockq) \/ Occurs(submitted'[i], posted')
                      /\ \A j \in 1..Len(submitted') : i < j =>
                           /\ Ahead(submitted'[i], submitted'[j], sockq)
                           /\ Ahead(submitted'[i], submitted'[j], posted')
                           /\ Occurs(submitted'[j], sockq) => Occurs(submitted'[i], sockq)
    BY <1>1 DEF QueueOrder
  <2>1. Occurs(submitted'[i], sockq) \/ Occurs(submitted'[i], posted')
    <3>1. CASE i = Len(submitted) + 1
      BY <1>3, <1>4, <3>1
    <3>2. CASE i \in 1..Len(submitted)
      BY <1>3, <1>4, <3>2 DEF OrderInv, QueueOrder
    <3> QED BY <1>4, <3>1, <3>2
  <2>2. ASSUME NEW j \in 1..Len(submitted'), i < j
        PROVE  /\ Ahead(submitted'[i], submitted'[j], sockq)
               /\ Ahead(submitted'[i], submitted'[j], posted')
               /\ Occurs(submitted'[j], sockq) => Occurs(submitted'[i], sockq)
    <3>1. i \in 1..Len(submitted) /\ submitted'[i] = submitted[i]
          /\ submitted[i] \in Frames /\ submitted[i] # f
      BY <1>4, <1>5, <2>2
    <3>2. CASE j \in 1..Len(submitted) /\ submitted'[j] = submitted[j]
      <4>1. /\ Ahead(submitted[i], submitted[j], sockq)
            /\ Ahead(submitted[i], submitted[j], posted)
            /\ Occurs(submitted[j], sockq) => Occurs(submitted[i], sockq)
        BY <2>2, <3>1, <3>2 DEF OrderInv, QueueOrder
      <4>2. submitted[j] \in Frames /\ submitted[i] # submitted[j]
        BY <1>4, <2>2, <3>1, <3>2 DEF OrderInv, WireOrder, Distinct
      <4> QED BY <1>1, <1>2, <3>1, <3>2, <4>1, <4>2, AppendAhead
    <3>3. CASE submitted'[j] = f
      <4>1. Ahead(submitted[i], f, sockq) /\ Ahead(submitted[i], f, posted)
        BY <1>2 DEF Ahead, Occurs
      <4> QED BY <1>1, <1>2, <3>1, <3>3, <4>1, AppendAhead
    <3> QED BY <1>5, <2>2, <3>2, <3>3
  <2> QED BY <2>1, <2>2
<1> QED BY <1>1, <1>6, <1>7 DEF OrderInv, Told

(* The oldest posted frame is written, waits for the socket or fails.      *)
LEMMA RunPostedOrder ==
  ASSUME IInv, OrderInv, RunPosted
  PROVE  OrderInv'
<1> DEFINE f == Head(posted)
<1>1. /\ f \in Frames /\ Occurs(f, posted)
      /\ StartTransfer(f, completed)
      /\ posted' = Tail(posted) /\ UNCHANGED <<submitted, open>>
  BY RunPostedStarts
<1>2. /\ posted \in Seq(Frames) /\ posted # <<>> /\ Distinct(posted)
      /\ sockq \in Seq(Frames) /\ completed \in Seq(Result)
      /\ submitted \in Seq(Frames) /\ wire \in Seq(Frames)
  BY DEF IInv, Places, TypeOK, RunPosted
<1>3. \A g \in Frames : Occurs(g, posted) <=> (g = f \/ Occurs(g, Tail(posted)))
  BY <1>2, TailFrame
<1>4. Occurs(f, submitted) /\ ~Occurs(f, sockq)
  BY <1>1 DEF IInv, Places
<1>5. \A i, j \in 1..Len(submitted) : i < j =>
        submitted[i] \in Frames /\ submitted[j] \in Frames /\ submitted[i] # submitted[j]
  BY <1>2 DEF OrderInv, WireOrder, Distinct
<1>6. ASSUME open, NEW i \in 1..Len(submitted), NEW j \in 1..Len(submitted), i < j,
             ~Occurs(submitted[i], wire)
      PROVE  /\ Ahead(submitted[i], submitted[j], sockq)
             /\ Ahead(submitted[i], submitted[j], Tail(posted))
             /\ Occurs(submitted[j], sockq) => Occurs(submitted[i], sockq)
             /\ submitted[j] = f => Occurs(submitted[i], sockq)
  <2>1. /\ Ahead(submitted[i], submitted[j], sockq)
        /\ Ahead(submitted[i], submitted[j], posted)
        /\ Occurs(submitted[j], sockq) => Occurs(submitted[i], sockq)
        /\ Occurs(submitted[i], sockq) \/ Occurs(submitted[i], posted)
    BY <1>6 DEF OrderInv, QueueOrder
  <2>2. /\ Ahead(submitted[i], submitted[j], Tail(posted))
        /\ ~(submitted[j] = f /\ Occurs(submitted[i], posted))
    BY <1>2, <1>5, <1>6, <2>1, TailAhead
  <2> QED BY <2>1, <2>2
<1> HIDE DEF f
<1>7. CASE ~open /\ completed' = Append(completed, [frame |-> f, ok |-> FALSE])
           /\ UNCHANGED <<sockq, left, wire>>
  <2>1. Told'
    BY <1>1, <1>2, <1>7, FailureTold DEF OrderInv, Told
  <2> QED BY <1>1, <1>7, <2>1 DEF OrderInv, WireOrder, QueueOrder
<1>8. CASE open /\ sockq = <<>> /\ Transferred(f, completed) /\ UNCHANGED sockq
  <2>1. ~ \E g \in Frames : Occurs(g, sockq)
    BY <1>8 DEF Occurs
  <2>2. wire' = Append(wire, f)
    BY <1>8 DEF Transferred
  <2>3. WireOrder'
    <3>1. \A i, j \in 1..Len(submitted) :
            i < j /\ submitted[j] = f => Occurs(submitted[i], wire)
      BY <1>5, <1>6, <1>8, <2>1
    <3> QED BY <1>1, <1>4, <2>2, <3>1, TransferKeepsWire DEF IInv, OrderInv
  <2>4. Told'
    BY <1>1, <1>2, <1>8, TransferTold DEF IInv, OrderInv, Told
  <2>5. QueueOrder'
    <3>1. \A g \in Frames : Occurs(g, wire') <=> (g = f \/ Occurs(g, wire))
      BY <1>1, <1>2, <2>2, AppendFrame
    <3>2. \A i \in 1..Len(submitted) : submitted[i] \in Frames
      BY <1>2
    <3>3. ASSUME NEW i \in 1..Len(submitted), ~Occurs(submitted[i], wire')
          PROVE  /\ ~Occurs(submitted[i], wire)
                 /\ Occurs(submitted[i], Tail(posted))
      BY <1>3, <1>8, <2>1, <3>1, <3>2, <3>3 DEF OrderInv, QueueOrder
    <3> QED BY <1>1, <1>6, <1>8, <3>3 DEF QueueOrder
  <2> QED BY <2>3, <2>4, <2>5 DEF OrderInv
<1>9. CASE open /\ sockq' = Append(sockq, f) /\ completed' = completed
           /\ UNCHANGED <<left, wire>>
  <2>1. \A g \in Frames : Occurs(g, sockq') <=> (g = f \/ Occurs(g, sockq))
    BY <1>1, <1>2, <1>9, AppendFrame
  <2>2. ASSUME NEW i \in 1..Len(submitted), ~Occurs(submitted[i], wire)
        PROVE  Occurs(submitted[i], sockq') \/ Occurs(submitted[i], Tail(posted))
    <3>1. submitted[i] \in Frames
      BY <1>2
    <3> QED BY <1>3, <1>9, <2>1, <2>2, <3>1 DEF OrderInv, QueueOrder
  <2>3. ASSUME NEW i \in 1..Len(submitted), NEW j \in 1..Len(submitted), i < j,
               ~Occurs(submitted[i], wire)
        PROVE  /\ Ahead(submitted[i], submitted[j], sockq')
               /\ Ahead(submitted[i], submitted[j], Tail(posted))
               /\ Occurs(submitted[j], sockq') => Occurs(submitted[i], sockq')
    <3>1. /\ Ahead(submitted[i], submitted[j], sockq)
          /\ Ahead(submitted[i], submitted[j], Tail(posted))
          /\ Occurs(submitted[j], sockq) => Occurs(submitted[i], sockq)
          /\ submitted[j] = f => Occurs(submitted[i], sockq)
      BY <1>6, <1>9, <2>3
    <3>2. /\ submitted[i] \in Frames /\ submitted[j] \in Frames
          /\ submitted[i] # submitted[j]
      BY <1>5, <2>3
    <3>3. submitted[i] = f => ~Occurs(submitted[j], sockq)
      BY <1>4, <3>1
    <3> QED BY <1>1, <1>2, <1>9, <2>1, <3>1, <3>2, <3>3, AppendAhead
  <2>4. QueueOrder'
    BY <1>1, <1>9, <2>2, <2>3 DEF QueueOrder
  <2> QED BY <1>1, <1>9, <2>4 DEF OrderInv, WireOrder, Told
<1> QED BY <1>1, <1>7, <1>8, <1>9 DEF StartTransfer

(* A completion's frame has started: what it does next moves no start.     *)
LEMMA RunCompletedOrder ==
  ASSUME IInv, OrderInv, RunCompleted
  PROVE  OrderInv'
<1> DEFINE c == Head(completed)
           f == c.frame
<1>1. /\ f \in Frames /\ Occurs(f, submitted) /\ completed # <<>>
      /\ UNCHANGED <<submitted, posted, open>>
  BY CompletionKnown DEF RunCompleted
<1>2. /\ Tail(completed) \in Seq(Result)
      /\ \A i \in 1..Len(Tail(completed)) :
           Tail(completed)[i].ok => Occurs(Tail(completed)[i].frame, wire)
      /\ c.ok => Occurs(f, wire)
  BY <1>1, TailTold DEF IInv, OrderInv
<1>3. /\ sockq \in Seq(Frames) /\ submitted \in Seq(Frames) /\ wire \in Seq(Frames)
      /\ \A i \in 1..Len(submitted) : submitted[i] \in Frames
  BY DEF IInv, TypeOK
<1>4. CASE ~(c.ok /\ left[f] > 0)
  <2>1. completed' = Tail(completed) /\ UNCHANGED <<sockq, wire>>
    BY <1>4 DEF RunCompleted
  <2> QED BY <1>1, <1>2, <2>1 DEF OrderInv, WireOrder, Told, QueueOrder
<1>5. CASE c.ok /\ left[f] > 0
  <2>1. StartTransfer(f, Tail(completed)) /\ Occurs(f, wire)
    BY <1>2, <1>5 DEF RunCompleted
  <2> HIDE DEF c, f
  <2>2. CASE ~open /\ completed' = Append(Tail(completed), [frame |-> f, ok |-> FALSE])
             /\ UNCHANGED <<sockq, left, wire>>
    <3>1. Told'
      BY <1>1, <1>2, <2>2, FailureTold
    <3> QED BY <1>1, <2>2, <3>1 DEF OrderInv, WireOrder, QueueOrder
  <2>3. CASE open /\ sockq = <<>> /\ Transferred(f, Tail(completed)) /\ UNCHANGED sockq
    <3>1. wire' = Append(wire, f)
      BY <2>3 DEF Transferred
    <3>2. WireOrder'
      BY <1>1, <2>1, <3>1, TransferKeepsWire DEF IInv, OrderInv
    <3>3. Told'
      BY <1>1, <1>2, <2>3, TransferTold DEF IInv
    <3>4. \A g \in Frames : Occurs(g, wire') <=> Occurs(g, wire)
      BY <1>1, <1>3, <2>1, <3>1, AppendFrame
    <3>5. QueueOrder'
      BY <1>1, <1>3, <2>3, <3>4 DEF OrderInv, QueueOrder
    <3> QED BY <3>2, <3>3, <3>5 DEF OrderInv
  <2>4. CASE open /\ sockq' = Append(sockq, f) /\ completed' = Tail(completed)
             /\ UNCHANGED <<left, wire>>
    <3>1. \A g \in Frames : Occurs(g, sockq') <=> (g = f \/ Occurs(g, sockq))
      BY <1>1, <1>3, <2>4, AppendFrame
    <3>2. ASSUME NEW i \in 1..Len(submitted), ~Occurs(submitted[i], wire)
          PROVE  Occurs(submitted[i], sockq') \/ Occurs(submitted[i], posted)
      BY <1>3, <2>4, <3>1, <3>2 DEF OrderInv, QueueOrder
    <3>3. ASSUME NEW i \in 1..Len(submitted), NEW j \in 1..Len(submitted), i < j,
                 ~Occurs(submitted[i], wire)
          PROVE  /\ Ahead(submitted[i], submitted[j], sockq')
                 /\ Ahead(submitted[i], submitted[j], posted)
                 /\ Occurs(submitted[j], sockq') => Occurs(submitted[i], sockq')
      <4>1. /\ Ahead(submitted[i], submitted[j], sockq)
            /\ Ahead(submitted[i], submitted[j], posted)
            /\ Occurs(submitted[j], sockq) => Occurs(submitted[i], sockq)
        BY <2>4, <3>3 DEF OrderInv, QueueOrder
      <4>2. submitted[i] # submitted[j] /\ submitted[i] # f /\ submitted[j] # f
        BY <2>1, <3>3 DEF OrderInv, WireOrder, Distinct
      <4> QED BY <1>1, <1>3, <2>4, <3>1, <4>1, <4>2, AppendAhead
    <3>4. QueueOrder'
      BY <1>1, <2>4, <3>2, <3>3 DEF QueueOrder
    <3> QED BY <1>1, <1>2, <2>4, <3>4 DEF OrderInv, WireOrder, Told
  <2> QED BY <2>1, <2>2, <2>3, <2>4 DEF StartTransfer
<1> QED BY <1>4, <1>5

(* The frame that waits longest starts or goes on.                         *)
LEMMA SocketReadyOrder ==
  ASSUME IInv, OrderInv, SocketReady
  PROVE  OrderInv'
<1> DEFINE f == Head(sockq)
<1>1. /\ open /\ Transferred(f, completed) /\ wire' = Append(wire, f)
      /\ sockq' = Tail(sockq) /\ UNCHANGED <<submitted, posted, open>>
  BY DEF SocketReady, Transferred
<1>2. /\ sockq \in Seq(Frames) /\ sockq # <<>> /\ Distinct(sockq)
      /\ completed \in Seq(Result) /\ submitted \in Seq(Frames) /\ wire \in Seq(Frames)
      /\ \A i \in 1..Len(submitted) : submitted[i] \in Frames
  BY DEF IInv, Places, TypeOK, SocketReady
<1>3. /\ f \in Frames /\ Occurs(f, sockq)
      /\ \A g \in Frames : Occurs(g, sockq) <=> (g = f \/ Occurs(g, Tail(sockq)))
  BY <1>2, TailFrame
<1>4. Occurs(f, submitted)
  BY <1>3 DEF IInv, Places
<1>5. ASSUME NEW i \in 1..Len(submitted), NEW j \in 1..Len(submitted), i < j,
             ~Occurs(submitted[i], wire)
      PROVE  /\ Ahead(submitted[i], submitted[j], Tail(sockq))
             /\ Ahead(submitted[i], submitted[j], posted)
             /\ Occurs(submitted[j], sockq) => Occurs(submitted[i], sockq)
             /\ submitted[j] # f
  <2>1. /\ Ahead(submitted[i], submitted[j], sockq)
        /\ Ahead(submitted[i], submitted[j], posted)
        /\ Occurs(submitted[j], sockq) => Occurs(submitted[i], sockq)
    BY <1>1, <1>5 DEF OrderInv, QueueOrder
  <2>2. submitted[i] # submitted[j]
    BY <1>5 DEF OrderInv, WireOrder, Distinct
  <2>3. /\ Ahead(submitted[i], submitted[j], Tail(sockq))
        /\ ~(submitted[j] = f /\ Occurs(submitted[i], sockq))
    BY <1>2, <2>1, <2>2, TailAhead
  <2> QED BY <1>3, <2>1, <2>3
<1> HIDE DEF f
<1>6. WireOrder'
  BY <1>1, <1>3, <1>4, <1>5, TransferKeepsWire DEF IInv, OrderInv
<1>7. Told'
  BY <1>1, <1>2, <1>3, TransferTold DEF IInv, OrderInv, Told
<1>8. QueueOrder'
  <2>1. \A g \in Frames : Occurs(g, wire') <=> (g = f \/ Occurs(g, wire))
    BY <1>1, <1>2, <1>3, AppendFrame
  <2>2. ASSUME NEW i \in 1..Len(submitted), ~Occurs(submitted[i], wire')
        PROVE  /\ ~Occurs(submitted[i], wire) /\ submitted[i] # f
               /\ Occurs(submitted[i], Tail(sockq)) \/ Occurs(submitted[i], posted)
    BY <1>1, <1>2, <1>3, <2>1, <2>2 DEF OrderInv, QueueOrder
  <2>3. ASSUME NEW i \in 1..Len(submitted), NEW j \in 1..Len(submitted), i < j,
               ~Occurs(submitted[i], wire'), Occurs(submitted[j], Tail(sockq))
        PROVE  Occurs(submitted[i], Tail(sockq))
    BY <1>2, <1>3, <1>5, <2>2, <2>3
  <2> QED BY <1>1, <1>5, <2>2, <2>3 DEF QueueOrder
<1> QED BY <1>6, <1>7, <1>8 DEF OrderInv

(* On a closed socket nothing starts any more.                             *)
LEMMA SocketClosedOrder ==
  ASSUME IInv, OrderInv, SocketClosed
  PROVE  OrderInv'
<1> DEFINE F == [i \in 1..Len(sockq) |-> [frame |-> sockq[i], ok |-> FALSE]]
<1>1. /\ completed' = completed \o F /\ open' = FALSE
      /\ UNCHANGED <<submitted, wire>>
  BY DEF SocketClosed
<1>2. /\ F \in Seq(Result) /\ completed \in Seq(Result)
      /\ \A i \in 1..Len(F) : ~F[i].ok
  BY DEF IInv, TypeOK, Result
<1> HIDE DEF F
<1>3. ASSUME NEW i \in 1..Len(completed'), completed'[i].ok
      PROVE  Occurs(completed'[i].frame, wire)
  <2>1. /\ Len(completed') = Len(completed) + Len(F)
        /\ completed'[i] = IF i <= Len(completed) THEN completed[i]
                                                  ELSE F[i - Len(completed)]
    <3>1. Len(completed \o F) = Len(completed) + Len(F)
      BY <1>2, ConcatProperties
    <3>2. i \in 1..Len(completed) + Len(F)
      BY <1>1, <3>1
    <3> QED BY <1>1, <1>2, <3>1, <3>2, ConcatProperties
  <2>2. Len(completed) \in Nat /\ Len(F) \in Nat
    BY <1>2
  <2>3. i <= Len(completed)
    <3>1. i > Len(completed) => i - Len(completed) \in 1..Len(F)
      BY <2>1, <2>2
    <3> QED BY <1>2, <1>3, <2>1, <2>2, <3>1
  <2> QED BY <1>3, <2>1, <2>2, <2>3 DEF OrderInv, Told
<1> QED BY <1>1, <1>3 DEF OrderInv, WireOrder, Told, QueueOrder

(* Frames start on the stream in the order of the calls of async_write,    *)
(* for every number of frames and transfers and wherever the connection    *)
(* breaks: what do_write starts too early is never a first unit            *)
(* (queued_writer.hpp:40-57).                                              *)
THEOREM FramesStartAsCalled == Spec => []FramesStartInOrder
<1>1. Init => OrderInv
  BY DEF Init, OrderInv, WireOrder, Told, QueueOrder, Distinct, Occurs
<1>2. IInv /\ OrderInv => FramesStartInOrder
  <2> SUFFICES ASSUME IInv, OrderInv
               PROVE  FramesStartInOrder
    OBVIOUS
  <2> DEFINE first(f) == CHOOSE k \in 1..Len(wire) :
                           /\ wire[k] = f
                           /\ \A l \in 1..(k - 1) : wire[l] # f
  <2>1. ASSUME NEW f \in Frames, Occurs(f, wire)
        PROVE  first(f) \in 1..Len(wire) /\ StartsAt(f, first(f), wire)
    BY <2>1 DEF OrderInv, WireOrder, StartsAt
  <2> HIDE DEF first
  <2>2. \A i \in 1..Len(submitted) : submitted[i] \in Frames
    BY DEF IInv, TypeOK
  <2>3. \A i, j \in 1..Len(submitted) :
          i < j /\ Occurs(submitted[j], wire) =>
            /\ Occurs(submitted[i], wire)
            /\ first(submitted[i]) < first(submitted[j])
    BY <2>1, <2>2 DEF OrderInv, WireOrder
  <2> QED BY <2>3 DEF FramesStartInOrder, first
<1>3. IInv /\ OrderInv /\ [Next]_vars => OrderInv'
  <2> SUFFICES ASSUME IInv, OrderInv, [Next]_vars
               PROVE  OrderInv'
    OBVIOUS
  <2>1. CASE \E f \in Frames : AsyncWrite(f)
    BY <2>1, AsyncWriteOrder
  <2>2. CASE RunPosted
    BY <2>2, RunPostedOrder
  <2>3. CASE RunCompleted
    BY <2>3, RunCompletedOrder
  <2>4. CASE SocketReady
    BY <2>4, SocketReadyOrder
  <2>5. CASE SocketClosed
    BY <2>5, SocketClosedOrder
  <2>6. CASE UNCHANGED vars
    BY <2>6 DEF vars, OrderInv, WireOrder, Told, QueueOrder
  <2> QED BY <2>1, <2>2, <2>3, <2>4, <2>5, <2>6 DEF Next
<1> QED BY <1>1, <1>2, <1>3, Inductive, PTL DEF Spec
=============================================================================
