---------------------------- MODULE Codecs_proofs ----------------------------
(***************************************************************************)
(* Proofs about what the programs do to data (module MCCodecs): that only  *)
(* cut images confuse the stream and a whole message ends them, whose name *)
(* a face can get, and that the command parser reads the words that the    *)
(* characters of a command mean, for every text, image and face.           *)
(*                                                                         *)
(* The words of a text are counted and enumerated (Nth), so the parser's   *)
(* part rests on ranks: an element of a finite set of numbers is the n-th  *)
(* when n - 1 elements are below it, and a new greatest one comes last and *)
(* moves none.  The rest is what appending a character does to a text.     *)
(***************************************************************************)
EXTENDS MCCodecs, FiniteSetTheorems, SequenceTheorems, WellFoundedInduction, TLAPS

(* A set of numbers has a least one, and a bounded one a greatest one.     *)
LEMMA Least ==
  ASSUME NEW A, A \subseteq Nat, A # {}
  PROVE  \E x \in A : \A y \in A : x <= y
<1>1. PICK x \in A : \A y \in A : <<y, x>> \notin OpToRel(<, Nat)
  BY NatLessThanWellFounded, WFMin
<1>2. \A y \in A : x <= y
  <2>1. SUFFICES ASSUME NEW y \in A
                 PROVE  ~(y < x)
    OBVIOUS
  <2>2. y < x => <<y, x>> \in OpToRel(<, Nat)
    BY DEF OpToRel
  <2> QED BY <1>1, <2>1, <2>2
<1> QED BY <1>2

(* The greatest, of numbers up to n.                                        *)
LEMMA Greatest ==
  ASSUME NEW n \in Nat, NEW A, A \subseteq 0..n, A # {}
  PROVE  \E x \in A : \A y \in A : x >= y
<1> DEFINE B == {n - a : a \in A}
<1>1. B \subseteq Nat /\ B # {}
  <2>1. \A a \in A : n - a \in Nat
    OBVIOUS
  <2> QED BY <2>1
<1>2. PICK b \in B : \A y \in B : b <= y
  BY <1>1, Least
<1>3. PICK x \in A : b = n - x
  OBVIOUS
<1>4. \A y \in A : n - x <= n - y
  BY <1>2, <1>3
<1> QED BY <1>4

-----------------------------------------------------------------------------
(* The image codec.                                                        *)

(* The stream is in step exactly if no array is open; an open array is     *)
(* behind a cut message; only an image that was not written raw is cut,    *)
(* and only gz cuts two elements.                                          *)
CodecInv ==
  /\ Codec!TypeOK
  /\ \A i \in 1..Len(sent) :
       /\ sent[i].lacks > 0 => sent[i].mode # 0
       /\ sent[i].lacks = 2 => sent[i].mode = 1
  /\ Codec!First \in 1..(Len(sent) + 1)
  /\ stack = <<>> => Codec!First = Len(sent) + 1
  /\ stack # <<>> => Codec!First <= Len(sent) /\ sent[Codec!First].lacks > 0
  /\ Codec!OnlyCutsConfuse
  /\ (\A i \in 1..Len(sent) : sent[i].mode # 1) => \A i \in 1..Len(stack) : stack[i] = 1

(* What another object does to the open arrays.                            *)
LEMMA CompletedArrays ==
  ASSUME NEW s \in Seq({1, 2})
  PROVE  /\ Codec!Completed(s) \in Seq({1, 2})
         /\ (\A i \in 1..Len(s) : s[i] = 1) => Codec!Completed(s) = <<>>
<1> DEFINE A == {0} \cup {i \in 1..Len(s) : s[i] > 1}
           k == Codec!Max(A)
<1>1. Len(s) \in Nat
  OBVIOUS
<1>2. k \in A /\ \A y \in A : k >= y
  <2>1. A \subseteq 0..Len(s) /\ A # {}
    BY <1>1
  <2>2. \E x \in A : \A y \in A : x >= y
    BY <1>1, <2>1, Greatest
  <2> QED BY <2>2 DEF Codec!Max
<1>3. Codec!Completed(s) = IF k = 0 THEN <<>> ELSE [SubSeq(s, 1, k) EXCEPT ![k] = @ - 1]
  BY DEF Codec!Completed
<1> HIDE DEF k
<1>4. CASE k = 0
  BY <1>3, <1>4
<1>5. CASE k # 0
  <2>1. k \in 1..Len(s) /\ s[k] = 2
    BY <1>1, <1>2, <1>5
  <2>2. SubSeq(s, 1, k) \in Seq({1, 2}) /\ Len(SubSeq(s, 1, k)) = k /\ SubSeq(s, 1, k)[k] = 2
    BY <1>1, <2>1
  <2>3. [SubSeq(s, 1, k) EXCEPT ![k] = @ - 1] \in Seq({1, 2})
    <3> DEFINE r == SubSeq(s, 1, k)
    <3>1. r \in [1..k -> {1, 2}] /\ r[k] - 1 = 1
      <4>1. r \in Seq({1, 2}) /\ Len(r) = k /\ r[k] = 2
        BY <2>2
      <4> HIDE DEF r
      <4>2. r \in [1..Len(r) -> {1, 2}]
        BY <4>1, LenProperties
      <4> QED BY <4>1, <4>2
    <3> HIDE DEF r
    <3>2. [r EXCEPT ![k] = @ - 1] \in [1..k -> {1, 2}]
      BY <3>1
    <3>3. \A f \in [1..k -> {1, 2}] : f \in Seq({1, 2})
      BY <2>1, SeqDef
    <3> QED BY <3>2, <3>3 DEF r
  <2> QED BY <1>3, <1>5, <2>1, <2>3
<1> QED BY <1>4, <1>5

(* The messages that are written.                                          *)
Messages == [kind : {"image", "empty", "other"}, mode : Codec!Modes, lacks : 0..2]

(* What the unpacker may give out of n messages.                           *)
Givens(n) ==
  [first : 1..n, last : 1..n,
   result : {"image", "empty", "other", "confused", "refused"}]

(* A message that goes over the stream keeps it; and while gz sent nothing *)
(* before it, a whole one leaves no array open.                            *)
LEMMA SendKeeps ==
  ASSUME CodecInv, NEW m \in Messages, Codec!Send(m),
         m.lacks > 0 => m.mode # 0, m.lacks = 2 => m.mode = 1
  PROVE  /\ CodecInv'
         /\ m.lacks = 0 /\ (\A i \in 1..Len(sent) : sent[i].mode # 1) => stack' = <<>>
<1> DEFINE next == [first |-> Codec!First, last |-> Len(sent'),
                    result |-> Codec!Converted(sent'[Codec!First])]
<1>1. /\ Len(sent) < MaxSent /\ sent' = Append(sent, m)
      /\ stack' = IF m.lacks > 0 THEN Append(stack, m.lacks) ELSE Codec!Completed(stack)
      /\ received' = IF stack' # <<>> THEN received ELSE Append(received, next)
      /\ m_mode' = m_mode
  BY DEF Codec!Send
<1> HIDE DEF next
<1>2. /\ sent \in Seq(Messages) /\ stack \in Seq({1, 2}) /\ m.lacks \in 0..2
      /\ Len(sent) \in Nat /\ Len(stack) \in Nat /\ Len(received) \in Nat
      /\ received \in Seq(Givens(Len(sent)))
  BY DEF CodecInv, Codec!TypeOK, Messages, Givens
<1>3. /\ sent' \in Seq(Messages) /\ Len(sent') = Len(sent) + 1
      /\ sent'[Len(sent) + 1] = m
      /\ \A i \in 1..Len(sent) : sent'[i] = sent[i]
  BY <1>1, <1>2
<1>4. \A i \in 1..Len(sent') :
        /\ sent'[i].lacks > 0 => sent'[i].mode # 0
        /\ sent'[i].lacks = 2 => sent'[i].mode = 1
  <2> SUFFICES ASSUME NEW i \in 1..Len(sent')
               PROVE  /\ sent'[i].lacks > 0 => sent'[i].mode # 0
                      /\ sent'[i].lacks = 2 => sent'[i].mode = 1
    OBVIOUS
  <2>1. CASE i \in 1..Len(sent)
    BY <1>3, <2>1 DEF CodecInv
  <2>2. CASE i = Len(sent) + 1
    BY <1>3, <2>2
  <2> QED BY <1>2, <1>3, <2>1, <2>2
<1>5. Codec!Completed(stack) \in Seq({1, 2})
  BY <1>2, CompletedArrays
<1>6. stack' \in Seq({1, 2})
  BY <1>1, <1>2, <1>5
<1>7. Codec!Completed(<<>>) = <<>>
  <2>1. <<>> \in Seq({1, 2})
    OBVIOUS
  <2>2. ASSUME NEW s \in Seq({1, 2}), s = <<>>
        PROVE  Codec!Completed(s) = <<>>
    <3>1. \A i \in 1..Len(s) : s[i] = 1
      BY <2>2
    <3> QED BY <3>1, CompletedArrays
  <2> QED BY <2>1, <2>2, Zenon
<1>8. stack' # <<>> /\ stack = <<>> => m.lacks > 0
  BY <1>1, <1>2, <1>7
<1>9. (\A i \in 1..Len(sent) : sent[i].mode # 1) /\ m.lacks = 0 => stack' = <<>>
  BY <1>1, <1>2, CompletedArrays DEF CodecInv
<1>10. (\A i \in 1..Len(sent') : sent'[i].mode # 1) => \A i \in 1..Len(stack') : stack'[i] = 1
  <2> SUFFICES ASSUME \A i \in 1..Len(sent') : sent'[i].mode # 1
               PROVE  \A i \in 1..Len(stack') : stack'[i] = 1
    OBVIOUS
  <2>1. (\A i \in 1..Len(sent) : sent[i].mode # 1) /\ m.mode # 1
    <3>1. Len(sent) + 1 \in 1..Len(sent')
      BY <1>2, <1>3
    <3>2. m.mode # 1
      BY <1>3, <3>1
    <3>3. \A i \in 1..Len(sent) : i \in 1..Len(sent') /\ sent'[i] = sent[i]
      BY <1>2, <1>3
    <3> QED BY <3>2, <3>3
  <2>2. CASE m.lacks = 0
    BY <1>9, <2>1, <2>2
  <2>3. CASE m.lacks = 1
    <3>1. stack' = Append(stack, 1) /\ \A i \in 1..Len(stack) : stack[i] = 1
      BY <1>1, <2>1, <2>3 DEF CodecInv
    <3> QED BY <1>2, <3>1
  <2> QED BY <1>2, <2>1, <2>2, <2>3
<1>11. CASE stack' # <<>>
  <2>1. received' = received /\ Codec!First' = Codec!First
    BY <1>1, <1>11 DEF Codec!First
  <2>2. Codec!First \in 1..Len(sent') /\ sent'[Codec!First].lacks > 0
    <3>1. CASE stack = <<>>
      BY <1>2, <1>3, <1>8, <1>11, <3>1 DEF CodecInv
    <3>2. CASE stack # <<>>
      BY <1>2, <1>3, <3>2 DEF CodecInv
    <3> QED BY <3>1, <3>2
  <2>3. Codec!First' \in 1..(Len(sent') + 1) /\ Codec!First' <= Len(sent')
        /\ sent'[Codec!First'].lacks > 0
    BY <1>2, <1>3, <2>1, <2>2
  <2>4. Codec!OnlyCutsConfuse'
    <3> SUFFICES ASSUME NEW i \in 1..Len(received)
                 PROVE  LET r == received[i] IN
                          /\ r.first < r.last =>
                               sent'[r.first].lacks > 0 /\ sent'[r.first].mode # 0
                          /\ r.result \in {"image", "empty", "other"} =>
                               r.first = r.last /\ sent'[r.first].kind = r.result
      BY <2>1 DEF Codec!OnlyCutsConfuse
    <3>1. received[i].first \in 1..Len(sent)
      <4>1. received[i] \in Givens(Len(sent))
        BY <1>2
      <4> QED BY <4>1 DEF Givens
    <3> QED BY <1>3, <3>1 DEF CodecInv, Codec!OnlyCutsConfuse
  <2>5. Codec!TypeOK'
    <3>1. received' \in Seq([first : 1..Len(sent'), last : 1..Len(sent'),
                             result : {"image", "empty", "other", "confused", "refused"}])
      <4>1. 1..Len(sent) \subseteq 1..Len(sent')
        BY <1>2, <1>3
      <4>2. Givens(Len(sent)) \subseteq Givens(Len(sent'))
        BY <4>1 DEF Givens
      <4>3. received \in Seq(Givens(Len(sent')))
        BY <1>2, <4>2, SeqMonotonic
      <4> QED BY <2>1, <4>3 DEF Givens
    <3>2. Len(sent') <= MaxSent
      BY <1>1, <1>2, <1>3, BoundsAssumption
    <3> QED BY <1>1, <1>3, <1>6, <3>1, <3>2 DEF CodecInv, Codec!TypeOK, Messages
  <2> QED BY <1>4, <1>9, <1>10, <1>11, <2>3, <2>4, <2>5 DEF CodecInv
<1>12. CASE stack' = <<>>
  <2>1. m.lacks = 0
    <3>1. m.lacks > 0 => Append(stack, m.lacks) # <<>>
      BY <1>2
    <3> QED BY <1>1, <1>2, <1>12, <3>1
  <2>2. received' = Append(received, next) /\ Len(received') = Len(received) + 1
        /\ received'[Len(received) + 1] = next
        /\ \A i \in 1..Len(received) : received'[i] = received[i]
    BY <1>1, <1>2, <1>12
  <2>3. \/ Codec!First = Len(sent') /\ sent'[Codec!First] = m
        \/ Codec!First \in 1..Len(sent) /\ sent'[Codec!First].lacks > 0
    <3>1. CASE stack = <<>>
      BY <1>2, <1>3, <3>1 DEF CodecInv
    <3>2. CASE stack # <<>>
      BY <1>2, <1>3, <3>2 DEF CodecInv
    <3> QED BY <3>1, <3>2
  <2>4. /\ next.first = Codec!First /\ next.last = Len(sent')
        /\ next.result = Codec!Converted(sent'[Codec!First])
    BY DEF next
  <2>5. next.first \in 1..Len(sent') /\ next.last \in 1..Len(sent')
    BY <1>2, <1>3, <2>3, <2>4
  <2>6. sent'[Codec!First] \in Messages
    BY <1>3, <2>4, <2>5
  <2>7. /\ next.result \in {"image", "empty", "other", "confused", "refused"}
        /\ next.result \in {"image", "empty", "other"} =>
             sent'[next.first].lacks = 0 /\ sent'[next.first].kind = next.result
    BY <2>4, <2>6 DEF Messages, Codec!Converted
  <2>8. next \in Givens(Len(sent'))
    BY <2>5, <2>7 DEF next, Givens
  <2>9. received' \in Seq(Givens(Len(sent')))
    <3>1. 1..Len(sent) \subseteq 1..Len(sent')
      BY <1>2, <1>3
    <3>2. Givens(Len(sent)) \subseteq Givens(Len(sent'))
      BY <3>1 DEF Givens
    <3>3. received \in Seq(Givens(Len(sent')))
      BY <1>2, <3>2, SeqMonotonic
    <3> QED BY <2>2, <2>8, <3>3, AppendProperties
  <2>10. Codec!TypeOK'
    <3>1. Len(sent') <= MaxSent
      BY <1>1, <1>2, <1>3, BoundsAssumption
    <3> QED BY <1>1, <1>3, <1>6, <2>9, <3>1 DEF CodecInv, Codec!TypeOK, Messages, Givens
  <2>11. Codec!First' = Len(sent') + 1
    <3>1. received' # <<>>
      BY <1>2, <2>2
    <3> QED BY <1>2, <2>2, <2>4, <3>1 DEF Codec!First
  <2>12. Codec!OnlyCutsConfuse'
    <3> DEFINE Right(r) ==
          /\ r.first < r.last => sent'[r.first].lacks > 0 /\ sent'[r.first].mode # 0
          /\ r.result \in {"image", "empty", "other"} =>
               r.first = r.last /\ sent'[r.first].kind = r.result
    <3>1. ASSUME NEW i \in 1..Len(received)
          PROVE  Right(received'[i])
      <4>1. received'[i] = received[i] /\ received[i] \in Givens(Len(sent))
        BY <1>2, <2>2
      <4>2. received[i].first \in 1..Len(sent)
        BY <4>1 DEF Givens
      <4> QED BY <1>3, <4>1, <4>2 DEF CodecInv, Codec!OnlyCutsConfuse
    <3>2. Right(next)
      BY <1>2, <1>3, <1>4, <2>1, <2>3, <2>4, <2>5, <2>7
    <3>3. \A i \in 1..Len(received') : Right(received'[i])
      BY <1>2, <2>2, <3>1, <3>2
    <3> QED BY <3>3 DEF Codec!OnlyCutsConfuse
  <2>13. Codec!First' \in 1..(Len(sent') + 1)
    BY <1>2, <1>3, <2>11
  <2> QED BY <1>4, <1>9, <1>10, <1>12, <2>10, <2>11, <2>12, <2>13 DEF CodecInv
<1> QED BY <1>11, <1>12

(* One step keeps it, action by action.                                    *)
LEMMA CodecInductive ==
  ASSUME CodecInv, Codec!Next \/ UNCHANGED codec_vars
  PROVE  /\ CodecInv'
         /\ sent' # sent /\ sent'[Len(sent')].lacks = 0
              /\ (\A i \in 1..Len(sent) : sent[i].mode # 1)
            => stack' = <<>>
<1>1. ASSUME NEW m \in Messages, Codec!Send(m),
             m.lacks > 0 => m.mode # 0, m.lacks = 2 => m.mode = 1
      PROVE  /\ CodecInv'
             /\ sent'[Len(sent')].lacks = 0 /\ (\A i \in 1..Len(sent) : sent[i].mode # 1)
                  => stack' = <<>>
  <2>1. sent \in Seq(Messages) /\ sent' = Append(sent, m)
    BY <1>1 DEF CodecInv, Codec!TypeOK, Codec!Send, Messages
  <2>2. sent'[Len(sent')] = m
    BY <2>1
  <2> QED BY <1>1, <2>2, SendKeeps
<1>2. m_mode \in Codec!Modes
  BY DEF CodecInv, Codec!TypeOK
<1>3. CASE Codec!PutImage
  <2>1. PICK img \in {"image", "empty"} : \E n \in Codec!Lacks(img, m_mode) :
          Codec!Send([kind |-> img, mode |-> m_mode, lacks |-> n])
    BY <1>3 DEF Codec!PutImage
  <2>2. PICK n \in Codec!Lacks(img, m_mode) :
          Codec!Send([kind |-> img, mode |-> m_mode, lacks |-> n])
    BY <2>1
  <2>3. n \in 0..2 /\ (n > 0 => m_mode # 0) /\ (n = 2 => m_mode = 1)
    BY <1>2 DEF Codec!Lacks, Codec!Modes
  <2> QED BY <1>1, <1>2, <2>2, <2>3 DEF Messages
<1>4. CASE Codec!GetImage
  <2>1. PICK img \in {"image", "empty"} : \E n \in Codec!LacksReply(img) :
          Codec!Send([kind |-> img, mode |-> 2, lacks |-> n])
    BY <1>4 DEF Codec!GetImage
  <2>2. PICK n \in Codec!LacksReply(img) : Codec!Send([kind |-> img, mode |-> 2, lacks |-> n])
    BY <2>1
  <2>3. n \in {0, 1}
    BY DEF Codec!LacksReply
  <2> QED BY <1>1, <2>2, <2>3 DEF Messages, Codec!Modes
<1>5. CASE Codec!SpikeGetImage
  <2>1. PICK img \in {"image", "empty"} : \E n \in Codec!SpikeLacks(img) :
          Codec!Send([kind |-> img, mode |-> 1, lacks |-> n])
    BY <1>5 DEF Codec!SpikeGetImage
  <2>2. PICK n \in Codec!SpikeLacks(img) : Codec!Send([kind |-> img, mode |-> 1, lacks |-> n])
    BY <2>1
  <2>3. n \in {0, 2}
    BY DEF Codec!SpikeLacks
  <2> QED BY <1>1, <2>2, <2>3 DEF Messages, Codec!Modes
<1>6. CASE Codec!OtherMessage
  BY <1>1, <1>2, <1>6 DEF Codec!OtherMessage, Messages
<1>7. ASSUME m_mode' \in Codec!Modes, UNCHANGED <<sent, stack, received>>
      PROVE  CodecInv' /\ sent' = sent
  <2>1. Codec!First' = Codec!First
    BY <1>7 DEF Codec!First
  <2>2. Codec!TypeOK' /\ Codec!OnlyCutsConfuse'
    BY <1>7 DEF CodecInv, Codec!TypeOK, Codec!OnlyCutsConfuse
  <2> QED BY <1>7, <2>1, <2>2 DEF CodecInv
<1>8. CASE \E mode \in Codec!Modes : Codec!SetMode(mode)
  BY <1>7, <1>8 DEF Codec!SetMode
<1>9. CASE UNCHANGED codec_vars
  BY <1>2, <1>7, <1>9 DEF codec_vars
<1> QED BY <1>3, <1>4, <1>5, <1>6, <1>8, <1>9 DEF Codec!Next

(* The codec begins with it.                                               *)
LEMMA CodecBegins ==
  ASSUME Codec!Init
  PROVE  CodecInv
<1>1. sent = <<>> /\ stack = <<>> /\ received = <<>> /\ m_mode = 2
  BY DEF Codec!Init
<1>2. Codec!First = 1
  BY <1>1 DEF Codec!First
<1>3. Codec!TypeOK
  BY <1>1, BoundsAssumption DEF Codec!TypeOK, Codec!Modes
<1> QED BY <1>1, <1>2, <1>3 DEF CodecInv, Codec!OnlyCutsConfuse

-----------------------------------------------------------------------------
(* The faces.                                                              *)

(* distance is the first face's, and the candidates are the persons whom a *)
(* face of the image matched.                                              *)
FacesInv ==
  /\ Matching!TypeOK
  /\ faces # <<>> => distance = faces[1]
  /\ \A c \in Matching!Index :
       /\ candidate[c] <= Len(faces)
       /\ candidate[c] # 0 <=> \E j \in 1..Len(faces) : c \in Matching!Matches(faces[j])
  /\ Matching!FacesNamed

(* The nearest candidate, and the first of several, can be chosen.         *)
LEMMA ChosenIsNearest ==
  ASSUME NEW d \in [Matching!Index -> Nat], NEW count, 0 \in Matching!Index
  PROVE  LET compared == {0} \cup {c \in Matching!Index : count[c] # 0}
         IN  /\ Matching!Chosen(count, d) \in compared
             /\ \A e \in compared : d[Matching!Chosen(count, d)] <= d[e]
<1> DEFINE compared == {0} \cup {c \in Matching!Index : count[c] # 0}
           First(c) == \A e \in compared : d[c] < d[e] \/ (d[c] = d[e] /\ c <= e)
<1>1. compared # {} /\ compared \subseteq Matching!Index /\ compared \subseteq Nat
  BY FacesAssumption DEF Matching!Index
<1> HIDE DEF compared
<1>2. PICK m \in {d[c] : c \in compared} : \A y \in {d[c] : c \in compared} : m <= y
  <2>1. {d[c] : c \in compared} \subseteq Nat /\ {d[c] : c \in compared} # {}
    BY <1>1
  <2> QED BY <2>1, Least
<1>3. PICK c \in {c \in compared : d[c] = m} : \A e \in {e \in compared : d[e] = m} : c <= e
  <2>1. {c \in compared : d[c] = m} \subseteq Nat /\ {c \in compared : d[c] = m} # {}
    BY <1>1, <1>2
  <2> QED BY <2>1, Least
<1>4. c \in compared /\ First(c)
  <2>1. \A e \in compared : m <= d[e]
    BY <1>2
  <2>2. \A e \in compared : d[e] \in Nat
    BY <1>1
  <2> QED BY <1>3, <2>1, <2>2
<1>5. Matching!Chosen(count, d) = CHOOSE x \in compared : First(x)
  BY DEF Matching!Chosen, compared
<1>6. Matching!Chosen(count, d) \in compared /\ First(Matching!Chosen(count, d))
  BY <1>4, <1>5
<1>7. \A e \in compared : d[Matching!Chosen(count, d)] <= d[e]
  <2>1. \A e \in compared : d[e] \in Nat
    BY <1>1
  <2> QED BY <1>6, <2>1
<1> QED BY <1>6, <1>7 DEF compared

(* Who is nearer than the limit is nearer than who is not.                 *)
LEMMA BestMatchIsNearest ==
  ASSUME NEW d \in [Matching!Index -> Nat], NEW c \in Matching!Index,
         Matching!Matches(d) # {}, \A e \in Matching!Matches(d) : d[c] <= d[e]
  PROVE  c \in Matching!Nearest(d) /\ c \in Matching!Matches(d)
<1>1. PICK b \in Matching!Index : d[b] < Limit /\ d[c] <= d[b]
  BY DEF Matching!Matches
<1>2. d[c] \in Nat /\ d[b] \in Nat /\ Limit \in Nat
  BY FacesAssumption
<1>3. d[c] < Limit
  BY <1>1, <1>2
<1>4. \A e \in Matching!Index : d[c] <= d[e]
  <2> SUFFICES ASSUME NEW e \in Matching!Index
               PROVE  d[c] <= d[e]
    OBVIOUS
  <2>1. CASE d[e] < Limit
    BY <2>1 DEF Matching!Matches
  <2>2. CASE ~(d[e] < Limit)
    <3>1. d[e] \in Nat
      OBVIOUS
    <3> QED BY <1>2, <1>3, <2>2, <3>1
  <2> QED BY <2>1, <2>2
<1> QED BY <1>3, <1>4 DEF Matching!Nearest, Matching!Matches

(* Counting is the same in module FaceMatching as here.                    *)
LEMMA SameCount == \A S : Matching!Cardinality(S) = Cardinality(S)
  BY DEF Matching!Cardinality, Cardinality

(* The name that the next face gets.                                       *)
LEMMA NextName ==
  ASSUME NEW d \in [Matching!Index -> Distances],
         NEW first \in [Matching!Index -> Distances],
         NEW count,
         \A c \in Matching!Matches(first) \cup Matching!Matches(d) : count[c] # 0,
         NEW name, name = Matching!Name(d, count, first)
  PROVE  /\ Matching!Matches(d) = {} => name = Matching!NotRecognized
         /\ Matching!Matches(d) # {} =>
              /\ name \in Matching!Index
              /\ Cardinality(Matching!Matches(d)) <= 1 \/ d = first =>
                   name \in Matching!Nearest(d)
              /\ Cardinality(Matching!Matches(d)) > 1 /\ Matching!Matches(first) # {} =>
                   name \in Matching!Nearest(first)
              /\ \/ name \in Matching!Matches(d)
                 \/ count[name] # 0
                 \/ name = 0 /\ Matching!Matches(first) = {}
<1> DEFINE M == Matching!Matches(d)
<1>1. /\ d \in [Matching!Index -> Nat] /\ first \in [Matching!Index -> Nat]
      /\ \A x \in [Matching!Index -> Nat] : Matching!Matches(x) \subseteq Matching!Index
  BY FacesAssumption DEF Matching!Matches
<1>2. IsFiniteSet(M) /\ Cardinality(M) \in Nat
  <2>1. Matching!Index = 0..(People - 1) /\ People \in Nat
    BY FacesAssumption DEF Matching!Index
  <2>2. IsFiniteSet(Matching!Index)
    BY <2>1, FS_Interval
  <2> QED BY <1>1, <2>2, FS_Subset, FS_CardinalityType
<1>3. CASE M = {}
  BY <1>3 DEF Matching!Name
<1>4. CASE M # {} /\ Cardinality(M) = 1
  <2>1. PICK b : M = {b}
    BY <1>2, <1>4, FS_Singleton
  <2>2. name = CHOOSE x \in Matching!Index : x \in M
    BY <1>4, SameCount DEF Matching!Name
  <2>3. name = b /\ b \in Matching!Index
    BY <1>1, <2>1, <2>2
  <2>4. name \in Matching!Nearest(d)
    <3>1. \A e \in M : d[name] <= d[e]
      <4>1. d[b] \in Nat
        BY <1>1, <2>3
      <4> QED BY <2>1, <2>3, <4>1
    <3> QED BY <1>1, <1>4, <2>3, <3>1, BestMatchIsNearest
  <2>5. name \in M
    BY <2>1, <2>3
  <2> QED BY <1>4, <2>3, <2>4, <2>5
<1>5. CASE M # {} /\ Cardinality(M) # 1
  <2> DEFINE compared == {0} \cup {c \in Matching!Index : count[c] # 0}
  <2>1. ~(Cardinality(M) <= 1)
    <3>1. Cardinality(M) # 0
      BY <1>2, <1>5, FS_EmptySet
    <3> QED BY <1>2, <1>5, <3>1
  <2>2. name = Matching!Chosen(count, first)
    BY <1>5, SameCount DEF Matching!Name
  <2>3. 0 \in Matching!Index
    BY <1>1, <1>5, FacesAssumption DEF Matching!Index
  <2>4. name \in compared /\ \A e \in compared : first[name] <= first[e]
    BY <1>1, <2>2, <2>3, ChosenIsNearest
  <2>5. name \in Matching!Index
    BY <2>3, <2>4
  <2>6. M \subseteq compared /\ Matching!Matches(first) \subseteq compared
    BY <1>1
  <2>7. Matching!Matches(first) # {} =>
          name \in Matching!Nearest(first) /\ name \in Matching!Matches(first)
    BY <1>1, <2>4, <2>5, <2>6, BestMatchIsNearest
  <2>8. d = first => name \in Matching!Nearest(d)
    BY <1>5, <2>7
  <2>9. count[name] # 0 \/ (name = 0 /\ Matching!Matches(first) = {})
    BY <2>4, <2>7
  <2> QED BY <1>5, <2>1, <2>5, <2>7, <2>8, <2>9
<1> QED BY <1>3, <1>4, <1>5

(* The next face keeps it.                                                 *)
LEMMA FacesInductive ==
  ASSUME FacesInv, Matching!Next \/ UNCHANGED matching_vars
  PROVE  FacesInv'
<1>1. CASE UNCHANGED matching_vars
  <2>1. Matching!TypeOK'
    BY <1>1 DEF matching_vars, FacesInv, Matching!TypeOK
  <2>2. Matching!FacesNamed'
    BY <1>1 DEF matching_vars, FacesInv, Matching!FacesNamed,
       Matching!NearestWhenFirstOrOnly, Matching!LaterNamedLikeFirst, Matching!NoStrangers
  <2> QED BY <1>1, <2>1, <2>2 DEF matching_vars, FacesInv
<1>2. ASSUME NEW d \in [Matching!Index -> Distances], Matching!Face(d)
      PROVE  FacesInv'
  <2> DEFINE n == Len(faces) + 1
             name == Matching!Name(d, candidate', distance')
             M(x) == Matching!Matches(x)
  <2>1. /\ Len(faces) < MaxFaces /\ faces' = Append(faces, d)
        /\ distance' = Matching!Grown(d)
        /\ candidate' = [c \in Matching!Index |->
                           candidate[c] + (IF c \in M(d) THEN 1 ELSE 0)]
        /\ person' = Append(person, name)
    BY <1>2 DEF Matching!Face
  <2> HIDE DEF name
  <2>2. /\ faces \in Seq([Matching!Index -> Distances]) /\ Len(faces) \in Nat
        /\ candidate \in [Matching!Index -> 0..MaxFaces] /\ MaxFaces \in Nat
        /\ person \in Seq(Matching!Index \cup {Matching!NotRecognized})
        /\ Len(person) = Len(faces)
        /\ distance \in [Matching!Index -> Distances \cup {0}]
    BY BoundsAssumption DEF FacesInv, Matching!TypeOK
  <2>3. /\ faces' \in Seq([Matching!Index -> Distances]) /\ Len(faces') = n
        /\ faces'[n] = d /\ \A i \in 1..Len(faces) : faces'[i] = faces[i]
        /\ Len(person') = n /\ person'[n] = name
        /\ \A i \in 1..Len(faces) : person'[i] = person[i]
    BY <2>1, <2>2
  <2>4. distance' = faces'[1] /\ distance' \in [Matching!Index -> Distances]
    <3>1. CASE faces = <<>>
      BY <2>1, <2>2, <2>3, <3>1 DEF Matching!Grown
    <3>2. CASE faces # <<>>
      <4>1. 1 \in 1..Len(faces) /\ faces[1] \in [Matching!Index -> Distances]
        BY <2>2, <3>2
      <4> QED BY <2>1, <2>3, <3>2, <4>1 DEF Matching!Grown, FacesInv
    <3> QED BY <3>1, <3>2
  <2>5. ASSUME NEW c \in Matching!Index
        PROVE  /\ candidate'[c] \in 0..MaxFaces /\ candidate'[c] <= Len(faces')
               /\ candidate'[c] # 0 <=> \E j \in 1..Len(faces') : c \in M(faces'[j])
    <3>1. candidate'[c] = candidate[c] + (IF c \in M(d) THEN 1 ELSE 0)
      BY <2>1
    <3>2. /\ candidate[c] \in Nat /\ candidate[c] <= Len(faces)
          /\ candidate[c] # 0 <=> \E j \in 1..Len(faces) : c \in M(faces[j])
      BY <2>2 DEF FacesInv
    <3>3. (\E j \in 1..Len(faces') : c \in M(faces'[j]))
            <=> c \in M(d) \/ \E j \in 1..Len(faces) : c \in M(faces[j])
      <4>1. 1..Len(faces') = 1..Len(faces) \cup {n}
        BY <2>2, <2>3
      <4> HIDE DEF M
      <4> QED BY <2>3, <4>1
    <3>4. candidate'[c] \in 0..MaxFaces /\ candidate'[c] <= Len(faces')
      BY <2>1, <2>2, <2>3, <3>1, <3>2
    <3>5. candidate'[c] # 0 <=> candidate[c] # 0 \/ c \in M(d)
      BY <3>1, <3>2
    <3> QED BY <3>2, <3>3, <3>4, <3>5
  <2>6. \A c \in M(distance') \cup M(d) : candidate'[c] # 0
    <3>1. 1 \in 1..Len(faces') /\ n \in 1..Len(faces')
      BY <2>2, <2>3
    <3>2. \A x : M(x) \subseteq Matching!Index
      BY DEF Matching!Matches
    <3> HIDE DEF M
    <3> QED BY <2>3, <2>4, <2>5, <3>1, <3>2
  <2>7. /\ M(d) = {} => name = Matching!NotRecognized
        /\ M(d) # {} =>
             /\ name \in Matching!Index
             /\ Cardinality(M(d)) <= 1 \/ d = distance' => name \in Matching!Nearest(d)
             /\ Cardinality(M(d)) > 1 /\ M(distance') # {} =>
                  name \in Matching!Nearest(distance')
             /\ \/ name \in M(d)
                \/ candidate'[name] # 0
                \/ name = 0 /\ M(distance') = {}
    BY <2>4, <2>6, NextName DEF name
  <2>8. Matching!TypeOK'
    <3>1. name \in Matching!Index \cup {Matching!NotRecognized}
      BY <2>7
    <3>2. person' \in Seq(Matching!Index \cup {Matching!NotRecognized})
      BY <2>1, <2>2, <3>1, AppendProperties
    <3>3. candidate' \in [Matching!Index -> 0..MaxFaces]
      BY <2>1, <2>5
    <3>4. Len(faces') <= MaxFaces
      BY <2>1, <2>2, <2>3
    <3> QED BY <2>3, <2>4, <3>2, <3>3, <3>4 DEF Matching!TypeOK
  <2>9. Matching!NearestWhenFirstOrOnly'
    <3>1. ASSUME NEW i \in 1..Len(faces'), i = 1 \/ Cardinality(M(faces'[i])) <= 1
          PROVE  IF M(faces'[i]) = {} THEN person'[i] = Matching!NotRecognized
                 ELSE person'[i] \in Matching!Nearest(faces'[i])
      <4>1. CASE i \in 1..Len(faces)
        BY <2>3, <3>1, <4>1, SameCount DEF FacesInv, Matching!FacesNamed, Matching!NearestWhenFirstOrOnly
      <4>2. CASE i = n
        BY <2>3, <2>4, <2>7, <3>1, <4>2
      <4> QED BY <2>2, <2>3, <4>1, <4>2
    <3> QED BY <3>1, SameCount DEF Matching!NearestWhenFirstOrOnly
  <2>10. Matching!LaterNamedLikeFirst'
    <3>1. ASSUME NEW i \in 2..Len(faces'), M(faces'[1]) # {}, Cardinality(M(faces'[i])) > 1
          PROVE  person'[i] \in Matching!Nearest(faces'[1])
      <4>1. CASE i \in 2..Len(faces)
        <5>1. faces'[1] = faces[1] /\ faces'[i] = faces[i] /\ person'[i] = person[i]
          BY <2>2, <2>3, <4>1
        <5>2. Matching!LaterNamedLikeFirst
          BY DEF FacesInv, Matching!FacesNamed
        <5>3. M(faces[1]) # {} /\ Matching!Cardinality(M(faces[i])) > 1
          BY <3>1, <5>1, SameCount
        <5> QED BY <4>1, <5>1, <5>2, <5>3 DEF Matching!LaterNamedLikeFirst
      <4>2. CASE i = n
        <5>1. M(d) # {}
          <6>1. Cardinality(M(d)) > 1
            BY <2>3, <3>1, <4>2
          <6>2. Cardinality({}) = 0
            BY FS_EmptySet
          <6>3. M(d) = {} => Cardinality(M(d)) = 0
            BY <6>2, Zenon
          <6> QED BY <6>1, <6>3
        <5> QED BY <2>3, <2>4, <2>7, <3>1, <4>2, <5>1
      <4> QED BY <2>2, <2>3, <4>1, <4>2
    <3> QED BY <3>1, SameCount DEF Matching!LaterNamedLikeFirst
  <2>11. Matching!NoStrangers'
    <3>1. ASSUME NEW i \in 1..Len(faces')
          PROVE  \/ person'[i] = Matching!NotRecognized
                 \/ person'[i] = 0 /\ M(faces'[1]) = {}
                 \/ \E j \in 1..i : person'[i] \in M(faces'[j])
      <4>1. CASE i \in 1..Len(faces)
        <5>1. /\ faces'[1] = faces[1] /\ person'[i] = person[i]
              /\ \A j \in 1..i : faces'[j] = faces[j]
          BY <2>2, <2>3, <4>1
        <5>2. \/ person[i] = Matching!NotRecognized
              \/ person[i] = 0 /\ M(faces[1]) = {}
              \/ \E j \in 1..i : person[i] \in M(faces[j])
          BY <4>1 DEF FacesInv, Matching!FacesNamed, Matching!NoStrangers
        <5> HIDE DEF M
        <5> QED BY <5>1, <5>2
      <4>2. CASE i = n
        BY <2>3, <2>4, <2>5, <2>7, <4>2
      <4> QED BY <2>2, <2>3, <4>1, <4>2
    <3> QED BY <3>1 DEF Matching!NoStrangers
  <2> QED BY <2>3, <2>4, <2>5, <2>8, <2>9, <2>10, <2>11 DEF FacesInv, Matching!FacesNamed
<1> QED BY <1>1, <1>2 DEF Matching!Next

(* An image begins with no face.                                           *)
LEMMA FacesBegin ==
  ASSUME Matching!Init
  PROVE  FacesInv
<1>1. /\ faces = <<>> /\ person = <<>>
      /\ candidate = [c \in Matching!Index |-> 0]
      /\ distance = [c \in Matching!Index |-> 0]
  BY DEF Matching!Init
<1>2. Matching!TypeOK
  BY <1>1, BoundsAssumption DEF Matching!TypeOK
<1> QED BY <1>1, <1>2 DEF FacesInv, Matching!FacesNamed,
           Matching!NearestWhenFirstOrOnly, Matching!LaterNamedLikeFirst, Matching!NoStrangers

-----------------------------------------------------------------------------
(* The n-th smallest element of a set.                                     *)

(* The counting of the parser's module is that of this one.                *)
LEMMA ParserCounts == \A S : Parser!Cardinality(S) = Cardinality(S)
  BY DEF Parser!Cardinality, Cardinality

(* The elements below i, and which in order i is.                          *)
Below(S, i) == {j \in S : j < i}

Rank(S, i) == Cardinality(Below(S, i)) + 1

(* The elements of a finite set are told apart by how many are below them. *)
LEMMA Ranks ==
  ASSUME NEW S, S \subseteq Nat, IsFiniteSet(S)
  PROVE  /\ Cardinality(S) \in Nat
         /\ \A i \in S : Rank(S, i) \in 1..Cardinality(S)
         /\ \A i, j \in S : i < j => Rank(S, i) < Rank(S, j)
         /\ \A i, j \in S : Rank(S, i) = Rank(S, j) => i = j
<1>1. \A i \in S : Below(S, i) \subseteq S /\ i \notin Below(S, i)
  BY DEF Below
<1>2. \A i \in S : IsFiniteSet(Below(S, i)) /\ Cardinality(Below(S, i)) \in Nat
  BY <1>1, FS_Subset, FS_CardinalityType
<1>3. Cardinality(S) \in Nat
  BY FS_CardinalityType
<1>4. ASSUME NEW i \in S
      PROVE  Rank(S, i) \in 1..Cardinality(S)
  <2>1. Cardinality(Below(S, i)) <= Cardinality(S) /\ Cardinality(Below(S, i)) # Cardinality(S)
    BY <1>1, FS_Subset
  <2> QED BY <1>2, <1>3, <2>1 DEF Rank
<1>5. ASSUME NEW i \in S, NEW j \in S, i < j
      PROVE  Rank(S, i) < Rank(S, j)
  <2>1. Below(S, i) \subseteq Below(S, j) /\ i \in Below(S, j)
    <3>1. \A x \in S : x < i => x < j
      BY <1>5
    <3> QED BY <1>5, <3>1 DEF Below
  <2>2. /\ Cardinality(Below(S, i)) <= Cardinality(Below(S, j))
        /\ Cardinality(Below(S, i)) # Cardinality(Below(S, j))
    BY <1>1, <1>2, <2>1, FS_Subset
  <2> QED BY <1>2, <2>2 DEF Rank
<1>6. ASSUME NEW i \in S, NEW j \in S, Rank(S, i) = Rank(S, j)
      PROVE  i = j
  <2>1. i < j \/ j < i \/ i = j
    OBVIOUS
  <2>2. Rank(S, i) \in Int /\ Rank(S, j) \in Int
    BY <1>3, <1>4
  <2> QED BY <1>5, <1>6, <2>1, <2>2
<1> QED BY <1>3, <1>4, <1>5, <1>6

(* Every element is the n-th for one n, and every n up to the size of the  *)
(* set has its element.                                                    *)
LEMMA Enumerated ==
  ASSUME NEW S, S \subseteq Nat, IsFiniteSet(S)
  PROVE  /\ \A n \in 1..Cardinality(S) :
              Parser!Nth(S, n) \in S /\ Rank(S, Parser!Nth(S, n)) = n
         /\ \A i \in S : Parser!Nth(S, Rank(S, i)) = i
<1> DEFINE f == [i \in S |-> Rank(S, i)]
           T == 1..Cardinality(S)
<1>1. Cardinality(S) \in Nat
  BY FS_CardinalityType
<1>2. f \in Injection(S, T)
  <2>1. f \in [S -> T]
    BY Ranks
  <2>2. \A i, j \in S : f[i] = f[j] => i = j
    BY Ranks
  <2> QED BY <2>1, <2>2 DEF Injection, IsInjective
<1>3. IsFiniteSet(T) /\ Cardinality(T) = Cardinality(S)
  <2>1. IsFiniteSet(T) /\ Cardinality(T) = IF 1 > Cardinality(S) THEN 0 ELSE Cardinality(S) - 1 + 1
    BY <1>1, FS_Interval
  <2> HIDE DEF T
  <2> QED BY <1>1, <2>1
<1>4. f \in Surjection(S, T)
  BY <1>2, <1>3, FS_Injection
<1>5. ASSUME NEW n \in 1..Cardinality(S)
      PROVE  Parser!Nth(S, n) \in S /\ Rank(S, Parser!Nth(S, n)) = n
  <2>1. PICK i \in S : Rank(S, i) = n
    BY <1>4 DEF Surjection
  <2>2. {j \in S : Cardinality(Below(S, j)) = n - 1} = {i}
    <3>1. \A j \in S : Cardinality(Below(S, j)) = n - 1 <=> Rank(S, j) = n
      <4> SUFFICES ASSUME NEW j \in S
                   PROVE  Cardinality(Below(S, j)) = n - 1 <=> Rank(S, j) = n
        OBVIOUS
      <4>1. Cardinality(Below(S, j)) \in Nat
        <5>1. Below(S, j) \subseteq S
          BY DEF Below
        <5> QED BY <5>1, FS_Subset, FS_CardinalityType
      <4> QED BY <1>1, <4>1 DEF Rank
    <3>2. \A j \in S : Rank(S, j) = n => j = i
      BY <2>1, Ranks
    <3> QED BY <2>1, <3>1, <3>2
  <2>3. Parser!Nth(S, n) = Parser!Min({i})
    BY <2>2, ParserCounts DEF Parser!Nth, Below
  <2>4. Parser!Min({i}) = i
    BY DEF Parser!Min
  <2> QED BY <2>1, <2>3, <2>4
<1>6. ASSUME NEW i \in S
      PROVE  Parser!Nth(S, Rank(S, i)) = i
  <2>1. Rank(S, i) \in 1..Cardinality(S)
    BY Ranks
  <2>2. /\ Parser!Nth(S, Rank(S, i)) \in S
        /\ Rank(S, Parser!Nth(S, Rank(S, i))) = Rank(S, i)
    BY <1>5, <2>1
  <2> QED BY <2>2, Ranks
<1> QED BY <1>5, <1>6

(* A new greatest element comes last, and the others stay.                 *)
LEMMA NthAppended ==
  ASSUME NEW S, S \subseteq Nat, IsFiniteSet(S), NEW x \in Nat, \A i \in S : i < x
  PROVE  /\ Cardinality(S) \in Nat
         /\ IsFiniteSet(S \cup {x}) /\ Cardinality(S \cup {x}) = Cardinality(S) + 1
         /\ \A n \in 1..Cardinality(S) : Parser!Nth(S \cup {x}, n) = Parser!Nth(S, n)
         /\ Parser!Nth(S \cup {x}, Cardinality(S) + 1) = x
<1> DEFINE U == S \cup {x}
<1>1. U \subseteq Nat /\ IsFiniteSet(U) /\ Cardinality(U) = Cardinality(S) + 1
  <2>1. x \notin S
    OBVIOUS
  <2> QED BY <2>1, FS_AddElement
<1>2. Rank(U, x) = Cardinality(S) + 1 /\ \A i \in S : Rank(U, i) = Rank(S, i)
  <2>1. Below(U, x) = S
    <3>1. ~(x < x)
      OBVIOUS
    <3> QED BY <3>1 DEF Below
  <2>2. ASSUME NEW i \in S PROVE Below(U, i) = Below(S, i)
    <3>1. ~(x < i)
      OBVIOUS
    <3> QED BY <3>1 DEF Below
  <2> HIDE DEF U
  <2> QED BY <2>1, <2>2 DEF Rank
<1>3. x \in U /\ S \subseteq U
  OBVIOUS
<1> HIDE DEF U
<1>4. Parser!Nth(U, Cardinality(S) + 1) = x
  BY <1>1, <1>2, <1>3, Enumerated
<1>5. ASSUME NEW n \in 1..Cardinality(S)
      PROVE  Parser!Nth(U, n) = Parser!Nth(S, n)
  <2>1. Parser!Nth(S, n) \in S /\ Rank(S, Parser!Nth(S, n)) = n
    BY Enumerated
  <2>2. PICK k \in S : k = Parser!Nth(S, n) /\ Rank(S, k) = n
    BY <2>1
  <2>3. Rank(U, k) = n /\ k \in U
    BY <1>2, <1>3, <2>2
  <2>4. Parser!Nth(U, Rank(U, k)) = k
    BY <1>1, <2>3, Enumerated
  <2> QED BY <2>2, <2>3, <2>4
<1> QED BY <1>1, <1>4, <1>5, FS_CardinalityType DEF U

-----------------------------------------------------------------------------
(* What a text means, when a character is appended.                        *)

(* The backslashes that are right before a place.                          *)
Run(t, i) == {k \in 1..(i - 1) : \A j \in k..(i - 1) : t[j] = "backslash"}

(* One more element makes an odd set even, and an even one odd.            *)
LEMMA Parity ==
  ASSUME NEW S, IsFiniteSet(S), NEW x, x \notin S
  PROVE  Cardinality(S \cup {x}) % 2 = 1 <=> ~(Cardinality(S) % 2 = 1)
<1>1. Cardinality(S) \in Nat /\ Cardinality(S \cup {x}) = Cardinality(S) + 1
  BY FS_AddElement, FS_CardinalityType
<1> QED BY <1>1

(* Escaped, by the run and this module's counting.                          *)
LEMMA EscapedSays ==
  \A t, i : Parser!Escaped(t, i) <=> Cardinality(Run(t, i)) % 2 = 1
BY ParserCounts DEF Parser!Escaped, Run

(* The same for Inside.                                                    *)
LEMMA InsideSays ==
  \A t, i : Parser!Inside(t, i) <=> Cardinality(Parser!Quotes(t, i)) % 2 = 1
BY ParserCounts DEF Parser!Inside

(* Whether a place is escaped depends on what is before it.                *)
LEMMA EscapedAppended ==
  ASSUME NEW t \in Seq(Parser!Chars), NEW c
  PROVE  LET u == Append(t, c)  n == Len(t) + 1
         IN  /\ \A i \in 1..n : Parser!Escaped(u, i) <=> Parser!Escaped(t, i)
             /\ Parser!Escaped(u, n + 1) <=> c = "backslash" /\ ~Parser!Escaped(t, n)
<1> DEFINE u == Append(t, c)
           n == Len(t) + 1
<1>1. n \in Nat \ {0} /\ u[n] = c /\ \A j \in 1..(n - 1) : u[j] = t[j]
  OBVIOUS
<1> HIDE DEF u, n
<1>2. ASSUME NEW i \in 1..n
      PROVE  Parser!Escaped(u, i) <=> Parser!Escaped(t, i)
  <2>1. \A k \in 1..(i - 1) : \A j \in k..(i - 1) : u[j] = t[j]
    BY <1>1
  <2>2. Run(u, i) = Run(t, i)
    BY <2>1 DEF Run
  <2> QED BY <2>2, EscapedSays
<1>3. n + 1 - 1 = n
  BY <1>1
<1>4. CASE c # "backslash"
  <2>1. \A k \in 1..n : n \in k..n
    BY <1>1
  <2>2. Run(u, n + 1) = {}
    BY <1>1, <1>3, <1>4, <2>1 DEF Run
  <2>3. Cardinality(Run(u, n + 1)) = 0
    BY <2>2, FS_EmptySet, Zenon
  <2>4. ~(0 % 2 = 1)
    OBVIOUS
  <2>5. ~Parser!Escaped(u, n + 1)
    BY <2>3, <2>4, EscapedSays
  <2> QED BY <1>2, <1>4, <2>5 DEF u, n
<1>5. CASE c = "backslash"
  <2>1. Run(u, n + 1) = Run(t, n) \cup {n}
    <3>1. ASSUME NEW k \in 1..n
          PROVE  (\A j \in k..n : u[j] = "backslash")
                   <=> k = n \/ (k \in 1..(n - 1) /\ \A j \in k..(n - 1) : t[j] = "backslash")
      <4>1. k..n = k..(n - 1) \cup {n}
        BY <1>1
      <4>2. \A j \in k..(n - 1) : u[j] = t[j]
        BY <1>1
      <4>3. k = n => k..(n - 1) = {}
        BY <1>1
      <4> QED BY <1>1, <1>5, <4>1, <4>2, <4>3
    <3>2. 1..n = 1..(n - 1) \cup {n}
      BY <1>1
    <3> QED BY <1>1, <1>3, <3>1, <3>2 DEF Run
  <2>2. IsFiniteSet(Run(t, n)) /\ n \notin Run(t, n)
    <3>1. Run(t, n) \subseteq 1..(n - 1)
      BY DEF Run
    <3>2. IsFiniteSet(1..(n - 1))
      BY <1>1, FS_Interval
    <3> QED BY <1>1, <3>1, <3>2, FS_Subset
  <2>3. Cardinality(Run(u, n + 1)) % 2 = 1 <=> ~(Cardinality(Run(t, n)) % 2 = 1)
    BY <2>1, <2>2, Parity
  <2> QED BY <1>2, <1>5, <2>3, EscapedSays DEF u, n
<1> QED BY <1>2, <1>4, <1>5 DEF u, n

(* Whether a place is inside of quotes depends on what is before it.       *)
LEMMA InsideAppended ==
  ASSUME NEW t \in Seq(Parser!Chars), NEW c
  PROVE  LET u == Append(t, c)  n == Len(t) + 1
         IN  /\ \A i \in 1..n : Parser!Inside(u, i) <=> Parser!Inside(t, i)
             /\ Parser!Inside(u, n + 1) <=>
                  (Parser!Inside(t, n) <=> ~(c = "quote" /\ ~Parser!Escaped(t, n)))
<1> DEFINE u == Append(t, c)
           n == Len(t) + 1
<1>1. /\ n \in Nat \ {0} /\ u[n] = c /\ \A j \in 1..(n - 1) : u[j] = t[j]
      /\ n + 1 - 1 = n
  OBVIOUS
<1>2. \A i \in 1..n : Parser!Escaped(u, i) <=> Parser!Escaped(t, i)
  BY EscapedAppended
<1> HIDE DEF u, n
<1>3. ASSUME NEW i \in 1..n
      PROVE  Parser!Quotes(u, i) = Parser!Quotes(t, i)
  <2>1. \A k \in 1..(i - 1) : u[k] = t[k] /\ (Parser!Escaped(u, k) <=> Parser!Escaped(t, k))
    BY <1>1, <1>2
  <2> QED BY <2>1 DEF Parser!Quotes
<1>4. ASSUME NEW i \in 1..n
      PROVE  Parser!Inside(u, i) <=> Parser!Inside(t, i)
  BY <1>3, InsideSays
<1>5. IsFiniteSet(Parser!Quotes(t, n)) /\ n \notin Parser!Quotes(t, n)
  <2>1. Parser!Quotes(t, n) \subseteq 1..(n - 1)
    BY DEF Parser!Quotes
  <2>2. IsFiniteSet(1..(n - 1))
    BY <1>1, FS_Interval
  <2> QED BY <1>1, <2>1, <2>2, FS_Subset
<1>6. Parser!Quotes(u, n + 1) =
        Parser!Quotes(t, n)
          \cup {k \in {n} : c = "quote" /\ ~Parser!Escaped(t, n)}
  <2>1. 1..n = 1..(n - 1) \cup {n}
    BY <1>1
  <2>2. \A k \in 1..(n - 1) : u[k] = t[k] /\ (Parser!Escaped(u, k) <=> Parser!Escaped(t, k))
    BY <1>1, <1>2
  <2>3. Parser!Escaped(u, n) <=> Parser!Escaped(t, n)
    BY <1>1, <1>2
  <2> QED BY <1>1, <2>1, <2>2, <2>3 DEF Parser!Quotes
<1>7. CASE c = "quote" /\ ~Parser!Escaped(t, n)
  <2>1. Parser!Quotes(u, n + 1) = Parser!Quotes(t, n) \cup {n}
    BY <1>6, <1>7
  <2> QED BY <1>4, <1>5, <1>7, <2>1, Parity, InsideSays DEF u, n
<1>8. CASE ~(c = "quote" /\ ~Parser!Escaped(t, n))
  <2>1. Parser!Quotes(u, n + 1) = Parser!Quotes(t, n)
    BY <1>6, <1>8
  <2> QED BY <1>4, <1>8, <2>1, InsideSays DEF u, n
<1> QED BY <1>7, <1>8

-----------------------------------------------------------------------------
(* The words of a text, when a character is appended.                      *)

(* The text u is the text t with the character c at its place n.           *)
Appended(t, c, u, n) ==
  /\ t \in Seq(Parser!Chars) /\ c \in Parser!Chars
  /\ u = Append(t, c) /\ n = Len(t) + 1

(* Separators and literals stay what they are.                             *)
LEMMA MeaningStays ==
  ASSUME NEW t, NEW c, NEW u, NEW n, Appended(t, c, u, n)
  PROVE  \A i \in 1..Len(t) :
           /\ u[i] = t[i]
           /\ Parser!Separator(u, i) <=> Parser!Separator(t, i)
           /\ Parser!Literal(u, i) <=> Parser!Literal(t, i)
<1>0. /\ t \in Seq(Parser!Chars) /\ c \in Parser!Chars
      /\ u = Append(t, c) /\ n = Len(t) + 1
  BY DEF Appended
<1> USE <1>0
<1> SUFFICES ASSUME NEW i \in 1..Len(t)
             PROVE  /\ u[i] = t[i]
                    /\ Parser!Separator(u, i) <=> Parser!Separator(t, i)
                    /\ Parser!Literal(u, i) <=> Parser!Literal(t, i)
  OBVIOUS
<1>1. u[i] = t[i] /\ i \in 1..(Len(t) + 1)
  OBVIOUS
<1>2. Parser!Escaped(u, i) <=> Parser!Escaped(t, i)
  BY <1>1, EscapedAppended
<1>3. Parser!Inside(u, i) <=> Parser!Inside(t, i)
  BY <1>1, InsideAppended
<1> QED BY <1>1, <1>2, <1>3 DEF Parser!Separator, Parser!Literal

(* What the last character is, when it is read at place n.                 *)
LEMMA MeaningOfLast ==
  ASSUME NEW t, NEW c, NEW u, NEW n, Appended(t, c, u, n)
  PROVE  /\ Parser!Separator(u, n) <=>
              c = "blank" /\ ~Parser!Escaped(t, n) /\ ~Parser!Inside(t, n)
         /\ Parser!Literal(u, n) <=>
              \/ Parser!Escaped(t, n)
              \/ c \in Parser!Letters
              \/ c = "blank" /\ Parser!Inside(t, n)
<1>0. /\ t \in Seq(Parser!Chars) /\ c \in Parser!Chars
      /\ u = Append(t, c) /\ n = Len(t) + 1
  BY DEF Appended
<1> USE <1>0
<1>1. u[n] = c /\ n \in 1..(Len(t) + 1)
  OBVIOUS
<1>2. Parser!Escaped(u, n) <=> Parser!Escaped(t, n)
  BY <1>1, EscapedAppended
<1>3. Parser!Inside(u, n) <=> Parser!Inside(t, n)
  BY <1>1, InsideAppended
<1> QED BY <1>1, <1>2, <1>3 DEF Parser!Separator, Parser!Literal

(* The starts and the literals of a text are finite sets of places.        *)
LEMMA PlacesOfWords ==
  ASSUME NEW t \in Seq(Parser!Chars)
  PROVE  /\ Parser!WordStarts(t) \subseteq 1..Len(t)
         /\ Parser!WordStarts(t) \subseteq Nat /\ IsFiniteSet(Parser!WordStarts(t))
         /\ \A i \in 1..Len(t) :
              /\ Parser!WordLiterals(t, i) \subseteq i..Len(t)
              /\ Parser!WordLiterals(t, i) \subseteq Nat
              /\ IsFiniteSet(Parser!WordLiterals(t, i))
<1>1. Len(t) \in Nat /\ IsFiniteSet(1..Len(t)) /\ 1..Len(t) \subseteq Nat
  BY FS_Interval
<1>2. Parser!WordStarts(t) \subseteq 1..Len(t)
  BY DEF Parser!WordStarts
<1>3. ASSUME NEW i \in 1..Len(t)
      PROVE  /\ Parser!WordLiterals(t, i) \subseteq i..Len(t)
             /\ Parser!WordLiterals(t, i) \subseteq 1..Len(t)
  <2>1. i..Len(t) \subseteq 1..Len(t)
    BY <1>1
  <2> QED BY <2>1 DEF Parser!WordLiterals
<1> QED BY <1>1, <1>2, <1>3, FS_Subset

(* The literals of the words of a longer text.                             *)
LEMMA LiteralsAppended ==
  ASSUME NEW t, NEW c, NEW u, NEW n, Appended(t, c, u, n), NEW i \in 1..n
  PROVE  /\ i = n /\ Parser!Literal(u, n) /\ ~Parser!Separator(u, n)
            => Parser!WordLiterals(u, i) = {n}
         /\ i = n /\ ~(Parser!Literal(u, n) /\ ~Parser!Separator(u, n))
            => Parser!WordLiterals(u, i) = {}
         /\ /\ i # n
            /\ Parser!Literal(u, n) /\ ~Parser!Separator(u, n)
            /\ \A k \in i..Len(t) : ~Parser!Separator(t, k)
            => Parser!WordLiterals(u, i) = Parser!WordLiterals(t, i) \cup {n}
         /\ /\ i # n
            /\ ~(/\ Parser!Literal(u, n) /\ ~Parser!Separator(u, n)
                 /\ \A k \in i..Len(t) : ~Parser!Separator(t, k))
            => Parser!WordLiterals(u, i) = Parser!WordLiterals(t, i)
<1>0. /\ t \in Seq(Parser!Chars) /\ c \in Parser!Chars
      /\ u = Append(t, c) /\ n = Len(t) + 1
  BY DEF Appended
<1> USE <1>0
<1>1. Len(t) \in Nat /\ Len(u) = n
  OBVIOUS
<1>2. i..n = i..Len(t) \cup {n} /\ \A j \in i..Len(t) : j \in 1..Len(t) /\ i..j \subseteq 1..Len(t)
  BY <1>1
<1>3. \A j \in i..Len(t) :
        j \in Parser!WordLiterals(u, i) <=> j \in Parser!WordLiterals(t, i)
  <2> SUFFICES ASSUME NEW j \in i..Len(t)
               PROVE  j \in Parser!WordLiterals(u, i) <=> j \in Parser!WordLiterals(t, i)
    OBVIOUS
  <2>1. \A k \in i..j : Parser!Separator(u, k) <=> Parser!Separator(t, k)
    BY <1>2, MeaningStays
  <2>2. Parser!Literal(u, j) <=> Parser!Literal(t, j)
    BY <1>2, MeaningStays
  <2> QED BY <1>1, <1>2, <2>1, <2>2 DEF Parser!WordLiterals
<1>4. n \in Parser!WordLiterals(u, i) <=>
        /\ Parser!Literal(u, n) /\ ~Parser!Separator(u, n)
        /\ \A k \in i..Len(t) : ~Parser!Separator(t, k)
  <2>1. \A k \in i..Len(t) : Parser!Separator(u, k) <=> Parser!Separator(t, k)
    BY <1>2, MeaningStays
  <2> QED BY <1>1, <1>2, <2>1 DEF Parser!WordLiterals
<1>5. Parser!WordLiterals(u, i) \subseteq i..n
  BY <1>1 DEF Parser!WordLiterals
<1>6. CASE i = n
  <2>1. i..Len(t) = {}
    BY <1>1, <1>6
  <2>2. n \in Parser!WordLiterals(u, i) <=> Parser!Literal(u, n) /\ ~Parser!Separator(u, n)
    BY <1>4, <2>1
  <2>3. Parser!WordLiterals(u, i) \subseteq {n}
    BY <1>2, <1>5, <2>1
  <2>4. Parser!WordLiterals(u, i) =
          IF Parser!Literal(u, n) /\ ~Parser!Separator(u, n) THEN {n} ELSE {}
    BY <2>2, <2>3
  <2> QED BY <1>6, <2>4
<1>7. CASE i # n
  <2>1. Parser!WordLiterals(t, i) \subseteq i..Len(t) /\ n \notin i..Len(t)
    BY <1>1 DEF Parser!WordLiterals
  <2> QED BY <1>2, <1>3, <1>4, <1>5, <1>7, <2>1
<1> QED BY <1>6, <1>7

(* Does a word go on at the end of the text?                               *)
Going(t) == t # <<>> /\ ~Parser!Separator(t, Len(t))

(* The starts of the words of a longer text.                               *)
LEMMA StartsAppended ==
  ASSUME NEW t, NEW c, NEW u, NEW n, Appended(t, c, u, n)
  PROVE  /\ ~Parser!Separator(u, n) /\ ~Going(t) =>
              Parser!WordStarts(u) = Parser!WordStarts(t) \cup {n}
         /\ Parser!Separator(u, n) \/ Going(t) =>
              Parser!WordStarts(u) = Parser!WordStarts(t)
<1>0. /\ t \in Seq(Parser!Chars) /\ c \in Parser!Chars
      /\ u = Append(t, c) /\ n = Len(t) + 1
  BY DEF Appended
<1> USE <1>0
<1>1. Len(t) \in Nat /\ Len(u) = n /\ 1..n = 1..Len(t) \cup {n}
  OBVIOUS
<1>2. \A i \in 1..Len(t) : i \in Parser!WordStarts(u) <=> i \in Parser!WordStarts(t)
  <2> SUFFICES ASSUME NEW i \in 1..Len(t)
               PROVE  i \in Parser!WordStarts(u) <=> i \in Parser!WordStarts(t)
    OBVIOUS
  <2>1. Parser!Separator(u, i) <=> Parser!Separator(t, i)
    BY MeaningStays
  <2>2. i # 1 => (Parser!Separator(u, i - 1) <=> Parser!Separator(t, i - 1))
    <3>1. i # 1 => i - 1 \in 1..Len(t)
      BY <1>1
    <3> QED BY <3>1, MeaningStays
  <2> QED BY <1>1, <2>1, <2>2 DEF Parser!WordStarts
<1>3. n \in Parser!WordStarts(u) <=>
        ~Parser!Separator(u, n) /\ (t = <<>> \/ Parser!Separator(t, Len(t)))
  <2>1. CASE t = <<>>
    <3>1. n = 1
      BY <2>1
    <3> QED BY <1>1, <2>1, <3>1 DEF Parser!WordStarts
  <2>2. CASE t # <<>>
    <3>1. n # 1 /\ n - 1 = Len(t) /\ Len(t) \in 1..Len(t)
      BY <1>1, <2>2
    <3>2. Parser!Separator(u, Len(t)) <=> Parser!Separator(t, Len(t))
      BY <3>1, MeaningStays
    <3>3. Parser!Separator(u, n - 1) <=> Parser!Separator(t, Len(t))
      BY <3>1, <3>2, Zenon
    <3> QED BY <1>1, <2>2, <3>1, <3>3 DEF Parser!WordStarts
  <2> QED BY <2>1, <2>2
<1>4. Parser!WordStarts(u) \subseteq 1..n /\ Parser!WordStarts(t) \subseteq 1..Len(t)
  BY <1>1 DEF Parser!WordStarts
<1>5. n \notin 1..Len(t)
  BY <1>1
<1> QED BY <1>1, <1>2, <1>3, <1>4, <1>5 DEF Going

(* Appending, as a function.                                               *)
LEMMA AppendSays ==
  ASSUME NEW T, NEW s \in Seq(T), NEW e
  PROVE  Append(s, e) = [k \in 1..(Len(s) + 1) |-> IF k = Len(s) + 1 THEN e ELSE s[k]]
<1> DEFINE U == T \cup {e}
           f == [k \in 1..(Len(s) + 1) |-> IF k = Len(s) + 1 THEN e ELSE s[k]]
<1>1. s \in Seq(U) /\ e \in U /\ Len(s) \in Nat
  OBVIOUS
<1> HIDE DEF U
<1>2. /\ Append(s, e) \in Seq(U) /\ Len(Append(s, e)) = Len(s) + 1
      /\ \A k \in 1..Len(s) : Append(s, e)[k] = s[k]
      /\ Append(s, e)[Len(s) + 1] = e
  BY <1>1, AppendProperties
<1>3. DOMAIN f = 1..(Len(s) + 1) /\ f = [k \in DOMAIN f |-> f[k]]
  OBVIOUS
<1>4. Append(s, e) = [k \in 1..(Len(s) + 1) |-> Append(s, e)[k]]
  <2> DEFINE a == Append(s, e)
  <2>1. a \in Seq(U) /\ Len(a) = Len(s) + 1
    BY <1>2
  <2> HIDE DEF a
  <2>2. a = [k \in 1..Len(a) |-> a[k]]
    BY <2>1
  <2> QED BY <2>1, <2>2 DEF a
<1>5. \A k \in 1..(Len(s) + 1) : Append(s, e)[k] = f[k]
  BY <1>1, <1>2
<1> QED BY <1>4, <1>5

(* A word as a sequence of characters.                                     *)
LEMMA WordSays ==
  ASSUME NEW t \in Seq(Parser!Chars), NEW i \in 1..Len(t)
  PROVE  LET L == Parser!WordLiterals(t, i)
         IN  /\ Cardinality(L) \in Nat
             /\ \A k \in 1..Cardinality(L) : Parser!Nth(L, k) \in 1..Len(t)
             /\ Parser!Word(t, i) = [k \in 1..Cardinality(L) |-> t[Parser!Nth(L, k)]]
             /\ Parser!Word(t, i) \in Seq(Parser!Chars)
             /\ Len(Parser!Word(t, i)) = Cardinality(L)
<1> DEFINE L == Parser!WordLiterals(t, i)
<1>1. L \subseteq i..Len(t) /\ L \subseteq Nat /\ IsFiniteSet(L) /\ Cardinality(L) \in Nat
  BY PlacesOfWords, FS_CardinalityType
<1>2. i..Len(t) \subseteq 1..Len(t)
  OBVIOUS
<1>3. Parser!Word(t, i) = [k \in 1..Cardinality(L) |-> t[Parser!Nth(L, k)]]
  BY ParserCounts DEF Parser!Word
<1> HIDE DEF L
<1>4. \A k \in 1..Cardinality(L) : Parser!Nth(L, k) \in 1..Len(t)
  BY <1>1, <1>2, Enumerated
<1>5. \A k \in 1..Cardinality(L) : t[Parser!Nth(L, k)] \in Parser!Chars
  BY <1>4
<1>6. Parser!Word(t, i) \in [1..Cardinality(L) -> Parser!Chars]
  BY <1>3, <1>5
<1>7. Parser!Word(t, i) \in Seq(Parser!Chars) /\ Len(Parser!Word(t, i)) = Cardinality(L)
  BY <1>1, <1>6, SeqDef, LenProperties
<1> QED BY <1>1, <1>3, <1>4, <1>7 DEF L

(* A word keeps its literals, or it is one literal longer.                 *)
LEMMA WordAppended ==
  ASSUME NEW t, NEW c, NEW u, NEW n, Appended(t, c, u, n), NEW i \in 1..Len(t)
  PROVE  /\ Parser!WordLiterals(u, i) = Parser!WordLiterals(t, i) =>
              Parser!Word(u, i) = Parser!Word(t, i)
         /\ Parser!WordLiterals(u, i) = Parser!WordLiterals(t, i) \cup {n} =>
              Parser!Word(u, i) = Append(Parser!Word(t, i), c)
<1>0. /\ t \in Seq(Parser!Chars) /\ c \in Parser!Chars
      /\ u = Append(t, c) /\ n = Len(t) + 1
  BY DEF Appended
<1> USE <1>0
<1> DEFINE L == Parser!WordLiterals(t, i)
           K == Parser!WordLiterals(u, i)
           word == Parser!Word(t, i)
<1>1. /\ u \in Seq(Parser!Chars) /\ Len(u) = n /\ n \in Nat /\ i \in 1..Len(u) /\ u[n] = c
      /\ \A k \in 1..Len(t) : u[k] = t[k] /\ k < n
  OBVIOUS
<1>2. /\ Cardinality(L) \in Nat
      /\ \A k \in 1..Cardinality(L) : Parser!Nth(L, k) \in 1..Len(t)
      /\ word = [k \in 1..Cardinality(L) |-> t[Parser!Nth(L, k)]]
      /\ word \in Seq(Parser!Chars) /\ Len(word) = Cardinality(L)
  BY WordSays
<1>3. Parser!Word(u, i) = [k \in 1..Cardinality(K) |-> u[Parser!Nth(K, k)]]
  BY <1>1, WordSays
<1>4. L \subseteq Nat /\ IsFiniteSet(L) /\ \A k \in L : k < n
  <2>1. L \subseteq i..Len(t) /\ L \subseteq Nat /\ IsFiniteSet(L)
    BY PlacesOfWords
  <2> HIDE DEF L
  <2> QED BY <1>1, <2>1
<1> HIDE DEF L, K, word
<1>5. ASSUME K = L
      PROVE  Parser!Word(u, i) = word
  <2>1. \A k \in 1..Cardinality(L) : u[Parser!Nth(L, k)] = t[Parser!Nth(L, k)]
    BY <1>1, <1>2
  <2> QED BY <1>2, <1>3, <1>5, <2>1
<1>6. ASSUME K = L \cup {n}
      PROVE  Parser!Word(u, i) = Append(word, c)
  <2>1. /\ Cardinality(K) = Cardinality(L) + 1
        /\ \A k \in 1..Cardinality(L) : Parser!Nth(K, k) = Parser!Nth(L, k)
        /\ Parser!Nth(K, Cardinality(L) + 1) = n
    BY <1>1, <1>4, <1>6, NthAppended
  <2>2. \A k \in 1..Cardinality(K) :
          u[Parser!Nth(K, k)] = IF k = Cardinality(L) + 1 THEN c ELSE word[k]
    BY <1>1, <1>2, <2>1
  <2>3. Append(word, c) = [k \in 1..(Cardinality(L) + 1) |->
                             IF k = Cardinality(L) + 1 THEN c ELSE word[k]]
    BY <1>2
  <2> QED BY <1>3, <2>1, <2>2, <2>3
<1> QED BY <1>5, <1>6 DEF L, K, word

(* A word that begins has its literal only.                                *)
LEMMA WordBegun ==
  ASSUME NEW t, NEW c, NEW u, NEW n, Appended(t, c, u, n), ~Parser!Separator(u, n)
  PROVE  Parser!Word(u, n) = IF Parser!Literal(u, n) THEN Append(<<>>, c) ELSE <<>>
<1>0. /\ t \in Seq(Parser!Chars) /\ c \in Parser!Chars
      /\ u = Append(t, c) /\ n = Len(t) + 1
  BY DEF Appended
<1> USE <1>0
<1> DEFINE K == Parser!WordLiterals(u, n)
<1>1. u \in Seq(Parser!Chars) /\ Len(u) = n /\ n \in 1..Len(u) /\ u[n] = c
  OBVIOUS
<1>2. Parser!Word(u, n) = [k \in 1..Cardinality(K) |-> u[Parser!Nth(K, k)]]
  BY <1>1, WordSays
<1>3. /\ Parser!Literal(u, n) => K = {n}
      /\ ~Parser!Literal(u, n) => K = {}
  <2>1. n \in 1..n
    BY <1>1
  <2>2. PICK i \in 1..n : i = n
    BY <2>1
  <2>3. /\ Parser!Literal(u, n) => Parser!WordLiterals(u, i) = {n}
        /\ ~Parser!Literal(u, n) => Parser!WordLiterals(u, i) = {}
    BY <2>2, LiteralsAppended
  <2> QED BY <2>2, <2>3
<1> HIDE DEF K
<1>4. CASE Parser!Literal(u, n)
  <2>1. K = {} \cup {n}
    BY <1>3, <1>4
  <2>2. Cardinality(K) = 1 /\ Parser!Nth(K, 1) = n
    <3>1. {} \subseteq Nat /\ IsFiniteSet({}) /\ Cardinality({}) = 0 /\ n \in Nat
      BY FS_EmptySet
    <3>2. Cardinality(K) = 0 + 1 /\ Parser!Nth(K, 0 + 1) = n
      BY <2>1, <3>1, NthAppended
    <3> QED BY <3>2
  <2>3. Parser!Word(u, n) = [k \in 1..1 |-> c]
    BY <1>1, <1>2, <2>2
  <2> QED BY <1>4, <2>3
<1>5. CASE ~Parser!Literal(u, n)
  <2>1. K = {}
    BY <1>3, <1>5
  <2>2. Cardinality(K) = 0
    BY <2>1, FS_EmptySet, Zenon
  <2> QED BY <1>2, <1>5, <2>2
<1> QED BY <1>4, <1>5

(* The words of a text as a sequence.                                      *)
LEMMA WordsSay ==
  ASSUME NEW t \in Seq(Parser!Chars)
  PROVE  LET S == Parser!WordStarts(t)
         IN  /\ Cardinality(S) \in Nat
             /\ \A k \in 1..Cardinality(S) :
                  Parser!Nth(S, k) \in S /\ Parser!Nth(S, k) \in 1..Len(t)
             /\ Parser!Words(t) =
                  [k \in 1..Cardinality(S) |-> Parser!Word(t, Parser!Nth(S, k))]
             /\ Parser!Words(t) \in Seq(Seq(Parser!Chars))
             /\ Len(Parser!Words(t)) = Cardinality(S)
<1> DEFINE S == Parser!WordStarts(t)
<1>1. S \subseteq 1..Len(t) /\ S \subseteq Nat /\ IsFiniteSet(S) /\ Cardinality(S) \in Nat
  BY PlacesOfWords, FS_CardinalityType
<1>2. Parser!Words(t) = [k \in 1..Cardinality(S) |-> Parser!Word(t, Parser!Nth(S, k))]
  BY ParserCounts DEF Parser!Words
<1> HIDE DEF S
<1>3. \A k \in 1..Cardinality(S) : Parser!Nth(S, k) \in S /\ Parser!Nth(S, k) \in 1..Len(t)
  BY <1>1, Enumerated
<1>4. \A i \in 1..Len(t) : Parser!Word(t, i) \in Seq(Parser!Chars)
  BY WordSays
<1>5. Parser!Words(t) \in [1..Cardinality(S) -> Seq(Parser!Chars)]
  BY <1>2, <1>3, <1>4
<1>6. Parser!Words(t) \in Seq(Seq(Parser!Chars)) /\ Len(Parser!Words(t)) = Cardinality(S)
  BY <1>1, <1>5, SeqDef, LenProperties
<1> QED BY <1>1, <1>2, <1>3, <1>6 DEF S

(* While no word goes on, what is appended belongs to no word before it.   *)
LEMMA NoneGoing ==
  ASSUME NEW t, NEW c, NEW u, NEW n, Appended(t, c, u, n),
         Parser!Separator(u, n) \/ ~Going(t), NEW i \in 1..Len(t)
  PROVE  Parser!Word(u, i) = Parser!Word(t, i)
<1>0. /\ t \in Seq(Parser!Chars) /\ c \in Parser!Chars
      /\ u = Append(t, c) /\ n = Len(t) + 1
  BY DEF Appended
<1> USE <1>0
<1>1. Len(t) \in Nat /\ i # n /\ i \in 1..n /\ Len(t) \in i..Len(t) /\ t # <<>>
  OBVIOUS
<1>2. ~(/\ Parser!Literal(u, n) /\ ~Parser!Separator(u, n)
         /\ \A k \in i..Len(t) : ~Parser!Separator(t, k))
  BY <1>1 DEF Going
<1>3. Parser!WordLiterals(u, i) = Parser!WordLiterals(t, i)
  BY <1>1, <1>2, LiteralsAppended
<1> QED BY <1>3, WordAppended

(* A separator, or what is between words, changes no word.                 *)
LEMMA WordsEnd ==
  ASSUME NEW t, NEW c, NEW u, NEW n, Appended(t, c, u, n), Parser!Separator(u, n)
  PROVE  Parser!Words(u) = Parser!Words(t)
<1>0. /\ t \in Seq(Parser!Chars) /\ c \in Parser!Chars
      /\ u = Append(t, c) /\ n = Len(t) + 1
  BY DEF Appended
<1> USE <1>0
<1> DEFINE S == Parser!WordStarts(t)
<1>1. u \in Seq(Parser!Chars)
  OBVIOUS
<1>2. Parser!WordStarts(u) = S
  BY StartsAppended
<1>3. \A i \in 1..Len(t) : Parser!Word(u, i) = Parser!Word(t, i)
  BY NoneGoing
<1> HIDE DEF S
<1>4. /\ Parser!Words(t) = [k \in 1..Cardinality(S) |-> Parser!Word(t, Parser!Nth(S, k))]
      /\ \A k \in 1..Cardinality(S) : Parser!Nth(S, k) \in 1..Len(t)
  BY WordsSay DEF S
<1>5. Parser!Words(u) = [k \in 1..Cardinality(S) |-> Parser!Word(u, Parser!Nth(S, k))]
  BY <1>1, <1>2, WordsSay
<1> QED BY <1>3, <1>4, <1>5

(* A word begins with another character when none goes on.                 *)
LEMMA WordsBegin ==
  ASSUME NEW t, NEW c, NEW u, NEW n, Appended(t, c, u, n),
         ~Parser!Separator(u, n), ~Going(t)
  PROVE  Parser!Words(u) =
           Append(Parser!Words(t),
                  IF Parser!Literal(u, n) THEN Append(<<>>, c) ELSE <<>>)
<1>0. /\ t \in Seq(Parser!Chars) /\ c \in Parser!Chars
      /\ u = Append(t, c) /\ n = Len(t) + 1
  BY DEF Appended
<1> USE <1>0
<1> DEFINE S == Parser!WordStarts(t)
<1>1. /\ u \in Seq(Parser!Chars) /\ ~Parser!Separator(u, n)
      /\ n \in Nat /\ \A i \in 1..Len(t) : i < n
  OBVIOUS
<1>2. Parser!WordStarts(u) = S \cup {n}
  BY <1>1, StartsAppended
<1>3. \A i \in 1..Len(t) : Parser!Word(u, i) = Parser!Word(t, i)
  BY <1>1, NoneGoing
<1>4. Parser!Word(u, n) = IF Parser!Literal(u, n) THEN Append(<<>>, c) ELSE <<>>
  BY <1>1, WordBegun
<1>5. S \subseteq 1..Len(t) /\ S \subseteq Nat /\ IsFiniteSet(S)
  BY PlacesOfWords
<1>6. /\ Parser!Words(t) = [k \in 1..Cardinality(S) |-> Parser!Word(t, Parser!Nth(S, k))]
      /\ \A k \in 1..Cardinality(S) : Parser!Nth(S, k) \in 1..Len(t)
      /\ Cardinality(S) \in Nat
      /\ Len(Parser!Words(t)) = Cardinality(S) /\ Parser!Words(t) \in Seq(Seq(Parser!Chars))
  BY WordsSay
<1> HIDE DEF S
<1>7. /\ Cardinality(S \cup {n}) = Cardinality(S) + 1
      /\ \A k \in 1..Cardinality(S) : Parser!Nth(S \cup {n}, k) = Parser!Nth(S, k)
      /\ Parser!Nth(S \cup {n}, Cardinality(S) + 1) = n
  BY <1>1, <1>5, NthAppended
<1>8. Parser!Words(u) =
        [k \in 1..(Cardinality(S) + 1) |-> Parser!Word(u, Parser!Nth(S \cup {n}, k))]
  <2>1. Parser!Words(u) =
          [k \in 1..Cardinality(S \cup {n}) |-> Parser!Word(u, Parser!Nth(S \cup {n}, k))]
    BY <1>1, <1>2, WordsSay
  <2> QED BY <1>7, <2>1
<1> DEFINE new == Parser!Word(u, n)
           words == Parser!Words(t)
<1>9. ASSUME NEW k \in 1..(Cardinality(S) + 1)
      PROVE  Parser!Word(u, Parser!Nth(S \cup {n}, k))
               = IF k = Cardinality(S) + 1 THEN new ELSE words[k]
  <2>1. CASE k = Cardinality(S) + 1
    BY <1>7, <2>1
  <2>2. CASE k \in 1..Cardinality(S)
    <3>1. k # Cardinality(S) + 1
      BY <1>6, <2>2
    <3>2. words[k] = Parser!Word(t, Parser!Nth(S, k))
      BY <1>6, <2>2
    <3>3. Parser!Word(u, Parser!Nth(S, k)) = Parser!Word(t, Parser!Nth(S, k))
      BY <1>3, <1>6, <2>2
    <3> HIDE DEF words
    <3> QED BY <1>7, <2>2, <3>1, <3>2, <3>3
  <2> QED BY <1>6, <2>1, <2>2
<1>10. Append(words, new) =
         [k \in 1..(Cardinality(S) + 1) |-> IF k = Cardinality(S) + 1 THEN new ELSE words[k]]
  <2> HIDE DEF words, new
  <2>1. words \in Seq(Seq(Parser!Chars)) /\ Len(words) = Cardinality(S)
    BY <1>6 DEF words
  <2>2. Append(words, new) =
          [k \in 1..(Len(words) + 1) |-> IF k = Len(words) + 1 THEN new ELSE words[k]]
    BY <2>1, AppendSays, Zenon
  <2> QED BY <2>1, <2>2, Zenon
<1>11. Parser!Words(u) = Append(words, new)
  BY <1>8, <1>9, <1>10
<1> QED BY <1>4, <1>11

(* The word that goes on begins at the greatest of the starts, and is the  *)
(* only one that no separator has ended.                                   *)
LEMMA LastStart ==
  ASSUME NEW t \in Seq(Parser!Chars), Going(t)
  PROVE  LET S == Parser!WordStarts(t)
         IN  \E m \in S :
               /\ Cardinality(S) \in Nat \ {0} /\ Parser!Nth(S, Cardinality(S)) = m
               /\ \A k \in 1..Cardinality(S) : Parser!Nth(S, k) = m => k = Cardinality(S)
               /\ \A i \in m..Len(t) : ~Parser!Separator(t, i)
               /\ \A i \in S : i # m => \E k \in i..Len(t) : Parser!Separator(t, k)
<1> DEFINE S == Parser!WordStarts(t)
           open(m) == \A k \in m..Len(t) : ~Parser!Separator(t, k)
           M == {m \in 1..Len(t) : open(m)}
<1>1. Len(t) \in Nat \ {0} /\ ~Parser!Separator(t, Len(t))
  BY DEF Going
<1>2. M \subseteq Nat /\ M # {}
  <2>1. Len(t)..Len(t) = {Len(t)} /\ Len(t) \in 1..Len(t)
    BY <1>1
  <2>2. Len(t) \in M
    BY <1>1, <2>1
  <2> QED BY <2>2
<1>3. PICK m \in M : \A k \in M : m <= k
  <2> HIDE DEF M
  <2> QED BY <1>2, Least
<1>4. m \in 1..Len(t) /\ open(m)
  BY <1>3
<1>5. m = 1 \/ Parser!Separator(t, m - 1)
  <2> SUFFICES ASSUME m # 1, ~Parser!Separator(t, m - 1)
               PROVE  FALSE
    OBVIOUS
  <2>1. m - 1 \in 1..Len(t) /\ (m - 1)..Len(t) = m..Len(t) \cup {m - 1}
    BY <1>1, <1>4
  <2>2. m - 1 \in M
    BY <1>4, <2>1
  <2> QED BY <1>1, <1>3, <1>4, <2>2
<1>6. m \in S
  <2>1. m \in m..Len(t)
    BY <1>1, <1>4
  <2> QED BY <1>4, <1>5, <2>1 DEF Parser!WordStarts
<1>7. ASSUME NEW i \in S, i # m
      PROVE  i < m /\ \E k \in i..Len(t) : Parser!Separator(t, k)
  <2>1. i \in 1..Len(t) /\ (i = 1 \/ Parser!Separator(t, i - 1))
    BY DEF Parser!WordStarts
  <2>2. i < m
    <3> SUFFICES ASSUME m < i
                 PROVE  FALSE
      BY <1>1, <1>4, <1>7, <2>1
    <3>1. i - 1 \in m..Len(t) /\ i # 1
      BY <1>1, <1>4, <2>1
    <3> QED BY <1>4, <2>1, <3>1
  <2>3. m # 1 /\ m - 1 \in i..Len(t)
    BY <1>1, <1>4, <2>1, <2>2
  <2> QED BY <1>5, <2>2, <2>3
<1>8. S \subseteq Nat /\ IsFiniteSet(S)
  BY PlacesOfWords
<1> HIDE DEF S, M
<1>9. Rank(S, m) = Cardinality(S) /\ Cardinality(S) \in Nat \ {0}
  <2>1. Below(S, m) = S \ {m}
    <3>1. ~(m < m)
      BY <1>4
    <3> QED BY <1>7, <3>1 DEF Below
  <2>2. Cardinality(S \ {m}) = Cardinality(S) - 1 /\ Cardinality(S) \in Nat
    BY <1>6, <1>8, FS_RemoveElement, FS_CardinalityType
  <2>3. Rank(S, m) \in 1..Cardinality(S)
    BY <1>6, <1>8, Ranks
  <2> QED BY <2>1, <2>2, <2>3 DEF Rank
<1>10. Parser!Nth(S, Cardinality(S)) = m
  BY <1>6, <1>8, <1>9, Enumerated
<1>11. \A k \in 1..Cardinality(S) : Parser!Nth(S, k) = m => k = Cardinality(S)
  BY <1>8, <1>9, Enumerated
<1> QED BY <1>4, <1>6, <1>7, <1>9, <1>10, <1>11 DEF S

(* While a word goes on, what is appended belongs to the last word.        *)
LEMMA WordsContinue ==
  ASSUME NEW t, NEW c, NEW u, NEW n, Appended(t, c, u, n),
         ~Parser!Separator(u, n), Going(t),
         NEW before \in Seq(Seq(Parser!Chars)), NEW word \in Seq(Parser!Chars),
         Parser!Words(t) = Append(before, word)
  PROVE  Parser!Words(u) =
           Append(before, IF Parser!Literal(u, n) THEN Append(word, c) ELSE word)
<1> DEFINE S == Parser!WordStarts(t)
           new == IF Parser!Literal(u, n) THEN Append(word, c) ELSE word
<1>0. /\ t \in Seq(Parser!Chars) /\ c \in Parser!Chars
      /\ u = Append(t, c) /\ n = Len(t) + 1
  BY DEF Appended
<1> USE <1>0
<1>1. /\ u \in Seq(Parser!Chars) /\ \A i \in 1..Len(t) : i # n /\ i \in 1..n
      /\ new \in Seq(Parser!Chars)
  OBVIOUS
<1>2. /\ \A k \in 1..Cardinality(S) :
           Parser!Nth(S, k) \in S /\ Parser!Nth(S, k) \in 1..Len(t)
      /\ Parser!Words(t) = [k \in 1..Cardinality(S) |-> Parser!Word(t, Parser!Nth(S, k))]
      /\ Len(Parser!Words(t)) = Cardinality(S)
  BY WordsSay
<1>3. PICK m \in S :
        /\ Cardinality(S) \in Nat \ {0} /\ Parser!Nth(S, Cardinality(S)) = m
        /\ \A k \in 1..Cardinality(S) : Parser!Nth(S, k) = m => k = Cardinality(S)
        /\ \A i \in m..Len(t) : ~Parser!Separator(t, i)
        /\ \A i \in S : i # m => \E k \in i..Len(t) : Parser!Separator(t, k)
  BY LastStart
<1>4. S \subseteq 1..Len(t)
  BY PlacesOfWords
<1>5. Parser!WordStarts(u) = S
  BY StartsAppended
<1>6. Parser!Words(u) = [k \in 1..Cardinality(S) |-> Parser!Word(u, Parser!Nth(S, k))]
  BY <1>1, <1>5, WordsSay
<1> HIDE DEF S, new
<1>7. ASSUME NEW i \in S, i # m
      PROVE  Parser!Word(u, i) = Parser!Word(t, i)
  <2>1. i \in 1..Len(t) /\ i \in 1..n /\ i # n
    BY <1>1, <1>4
  <2>2. Parser!WordLiterals(u, i) = Parser!WordLiterals(t, i)
    BY <1>3, <1>7, <2>1, LiteralsAppended
  <2> QED BY <2>1, <2>2, WordAppended
<1>8. Parser!Words(t)[Cardinality(S)] = word /\ Len(before) + 1 = Cardinality(S)
  <2> DEFINE W == Append(before, word)
  <2>1. Len(W) = Len(before) + 1 /\ W[Len(before) + 1] = word
    BY AppendProperties
  <2> HIDE DEF W
  <2> QED BY <1>2, <2>1 DEF W
<1>9. \A k \in 1..Cardinality(S) : k # Cardinality(S) =>
        k \in 1..Len(before) /\ Parser!Words(t)[k] = before[k]
  <2>1. \A k \in 1..Len(before) : Parser!Words(t)[k] = before[k]
    BY AppendProperties
  <2>2. Len(before) \in Nat /\ Cardinality(S) = Len(before) + 1
    BY <1>8
  <2>3. \A k \in 1..Cardinality(S) : k # Cardinality(S) => k \in 1..Len(before)
    BY <2>2
  <2> QED BY <2>1, <2>3
<1>10. Parser!Word(t, m) = word
  BY <1>2, <1>3, <1>8
<1>11. Parser!Word(u, m) = new
  <2>1. m \in 1..Len(t) /\ m \in 1..n /\ m # n
    BY <1>1, <1>4
  <2>2. CASE Parser!Literal(u, n)
    <3>1. Parser!WordLiterals(u, m) = Parser!WordLiterals(t, m) \cup {n}
      <4>1. \A k \in m..Len(t) : ~Parser!Separator(t, k)
        BY <1>3
      <4> QED BY <2>1, <2>2, <4>1, LiteralsAppended
    <3> QED BY <1>10, <2>1, <2>2, <3>1, WordAppended DEF new
  <2>3. CASE ~Parser!Literal(u, n)
    <3>1. Parser!WordLiterals(u, m) = Parser!WordLiterals(t, m)
      BY <2>1, <2>3, LiteralsAppended
    <3> QED BY <1>10, <2>1, <2>3, <3>1, WordAppended DEF new
  <2> QED BY <2>2, <2>3
<1>12. ASSUME NEW k \in 1..Cardinality(S)
       PROVE  Parser!Word(u, Parser!Nth(S, k))
                = IF k = Cardinality(S) THEN new ELSE before[k]
  <2>1. CASE k = Cardinality(S)
    BY <1>3, <1>11, <2>1
  <2>2. CASE k # Cardinality(S)
    <3>1. Parser!Nth(S, k) \in S /\ Parser!Nth(S, k) # m
      BY <1>2, <1>3, <2>2
    <3>2. Parser!Word(u, Parser!Nth(S, k)) = Parser!Word(t, Parser!Nth(S, k))
      BY <1>7, <3>1
    <3> QED BY <1>2, <1>9, <2>2, <3>2
  <2> QED BY <2>1, <2>2
<1>13. Append(before, new) =
         [k \in 1..Cardinality(S) |-> IF k = Cardinality(S) THEN new ELSE before[k]]
  <2>1. Append(before, new) =
          [k \in 1..(Len(before) + 1) |-> IF k = Len(before) + 1 THEN new ELSE before[k]]
    BY AppendSays, Zenon
  <2> QED BY <1>8, <2>1, Zenon
<1>14. Parser!Words(u) = Append(before, new)
  BY <1>6, <1>12, <1>13
<1> QED BY <1>14 DEF new

-----------------------------------------------------------------------------
(* The parser.                                                             *)

(* What the parser knows of the text it has read: whether a character that *)
(* follows is escaped or inside of quotes, whether a word goes on, and the *)
(* words so far, the one that goes on among them; and, for the hint        *)
(* console, that a line is the end of the text, and that a text whose last *)
(* character is "p" ends in a word whose last character is "p".            *)
ParserInv ==
  /\ Parser!TypeOK
  /\ backslashed <=> Parser!Escaped(text, Len(text) + 1)
  /\ qouted <=> Parser!Inside(text, Len(text) + 1)
  /\ is_empty <=> ~Going(text)
  /\ Parser!Flushed = Parser!Words(text)
  /\ text # <<>> /\ text[Len(text)] = "p" =>
       ~is_empty /\ arg # <<>> /\ arg[Len(arg)] = "p"
  /\ line # <<>> => text # <<>> /\ text[Len(text)] = line[Len(line)]
  /\ Parser!CommandsMeanText

(* What a character means, read in a state of the parser.                  *)
LEMMA ReadMeaning ==
  ASSUME ParserInv, NEW c \in Parser!Chars, Parser!Read(c),
         NEW n, n = Len(text) + 1
  PROVE  /\ Appended(text, c, text', n)
         /\ Parser!Separator(text', n) <=> c = "blank" /\ ~backslashed /\ ~qouted
         /\ Parser!Literal(text', n) <=>
              backslashed \/ c \in Parser!Letters \/ (c = "blank" /\ qouted)
         /\ Parser!Escaped(text', Len(text') + 1) <=> c = "backslash" /\ ~backslashed
         /\ Parser!Inside(text', Len(text') + 1) <=>
              (qouted <=> ~(c = "quote" /\ ~backslashed))
         /\ Going(text') <=> ~Parser!Separator(text', n)
         /\ text' # <<>> /\ text'[Len(text')] = c
<1>1. /\ text \in Seq(Parser!Chars) /\ text' = Append(text, c)
      /\ backslashed <=> Parser!Escaped(text, n)
      /\ qouted <=> Parser!Inside(text, n)
  BY DEF ParserInv, Parser!TypeOK, Parser!Read
<1>2. /\ Len(text') = n /\ text' # <<>> /\ text'[n] = c
  BY <1>1
<1>3. Appended(text, c, text', n)
  BY <1>1 DEF Appended
<1>4. /\ Parser!Separator(text', n) <=>
           c = "blank" /\ ~Parser!Escaped(text, n) /\ ~Parser!Inside(text, n)
      /\ Parser!Literal(text', n) <=>
           \/ Parser!Escaped(text, n)
           \/ c \in Parser!Letters
           \/ c = "blank" /\ Parser!Inside(text, n)
  BY <1>3, MeaningOfLast
<1>5. Parser!Escaped(text', n + 1) <=> c = "backslash" /\ ~Parser!Escaped(text, n)
  BY <1>1, EscapedAppended
<1>6. Parser!Inside(text', n + 1) <=>
        (Parser!Inside(text, n) <=> ~(c = "quote" /\ ~Parser!Escaped(text, n)))
  BY <1>1, InsideAppended
<1>7. Going(text') <=> ~Parser!Separator(text', n)
  BY <1>2 DEF Going
<1>8. /\ Parser!Separator(text', n) <=> c = "blank" /\ ~backslashed /\ ~qouted
      /\ Parser!Literal(text', n) <=>
           backslashed \/ c \in Parser!Letters \/ (c = "blank" /\ qouted)
  BY <1>1, <1>4, Zenon
<1>9. Parser!Escaped(text', Len(text') + 1) <=> c = "backslash" /\ ~backslashed
  BY <1>1, <1>2, <1>5, Zenon
<1>10. Parser!Inside(text', Len(text') + 1) <=>
         (qouted <=> ~(c = "quote" /\ ~backslashed))
  BY <1>1, <1>2, <1>6, Zenon
<1>11. text'[Len(text')] = c
  BY <1>2
<1> QED BY <1>2, <1>3, <1>7, <1>8, <1>9, <1>10, <1>11, Zenon

(* A character keeps the types of the parser.                              *)
LEMMA ReadTypes ==
  ASSUME BoundsAssumption, Parser!TypeOK, NEW c \in Parser!Chars, Parser!Read(c)
  PROVE  Parser!TypeOK'
<1>1. typed' \in 0..MaxTyped
  BY DEF BoundsAssumption, Parser!TypeOK, Parser!Read
<1>2. line' \in Seq(Parser!Chars) /\ text' \in Seq(Parser!Chars) /\ last' = last
  BY DEF Parser!TypeOK, Parser!Read
<1>3. CASE Parser!AfterBackslash(c)
  <2>1. /\ arg' \in Seq(Parser!Chars) /\ command' \in Seq(Seq(Parser!Chars))
        /\ {is_empty', qouted', backslashed'} \subseteq BOOLEAN
        /\ ~is_empty'
    <3>1. arg' \in Seq(Parser!Chars) /\ command' \in Seq(Seq(Parser!Chars))
      BY <1>3 DEF Parser!AfterBackslash, Parser!TypeOK
    <3>2. {is_empty', qouted', backslashed'} \subseteq BOOLEAN /\ ~is_empty'
      BY <1>3, Zenon DEF Parser!AfterBackslash, Parser!TypeOK
    <3> QED BY <3>1, <3>2
  <2> QED BY <1>1, <1>2, <2>1 DEF Parser!TypeOK
<1>4. CASE Parser!InQuotes(c)
  <2>1. /\ arg' \in Seq(Parser!Chars) /\ command' \in Seq(Seq(Parser!Chars))
        /\ {is_empty', qouted', backslashed'} \subseteq BOOLEAN
        /\ ~is_empty'
    <3>1. arg' \in Seq(Parser!Chars) /\ command' \in Seq(Seq(Parser!Chars))
      BY <1>4 DEF Parser!InQuotes, Parser!TypeOK
    <3>2. {is_empty', qouted', backslashed'} \subseteq BOOLEAN /\ ~is_empty'
      BY <1>4, Zenon DEF Parser!InQuotes, Parser!TypeOK
    <3> QED BY <3>1, <3>2
  <2> QED BY <1>1, <1>2, <2>1 DEF Parser!TypeOK
<1>5. CASE Parser!Plain(c)
  <2>1. CASE c # "blank" /\ is_empty' = FALSE
    <3>1. /\ arg' \in Seq(Parser!Chars) /\ command' \in Seq(Seq(Parser!Chars))
          /\ {is_empty', qouted', backslashed'} \subseteq BOOLEAN
      <4>1. arg' \in Seq(Parser!Chars) /\ command' \in Seq(Seq(Parser!Chars))
        <5>1. command' = command /\ (arg' = arg \/ arg' = Append(arg, c))
          BY <1>5, <2>1 DEF Parser!Plain
        <5>2. arg \in Seq(Parser!Chars) /\ command \in Seq(Seq(Parser!Chars))
          BY DEF Parser!TypeOK
        <5>3. Append(arg, c) \in Seq(Parser!Chars)
          BY <5>2, AppendProperties
        <5> QED BY <5>1, <5>2, <5>3, Zenon
      <4>2. {is_empty', qouted', backslashed'} \subseteq BOOLEAN
        BY <1>5, <2>1, Zenon DEF Parser!Plain
      <4> QED BY <4>1, <4>2
    <3> QED BY <1>1, <1>2, <2>1, <3>1 DEF Parser!TypeOK
  <2>2. CASE c = "blank"
    <3>1. /\ arg' \in Seq(Parser!Chars) /\ command' \in Seq(Seq(Parser!Chars))
          /\ {is_empty', qouted', backslashed'} \subseteq BOOLEAN
          /\ arg' = <<>> /\ ~qouted' /\ ~backslashed'
      <4>1. command' = command \/ command' = Append(command, arg)
        BY <1>5, <2>2 DEF Parser!Plain
      <4>2. command' \in Seq(Seq(Parser!Chars))
        <5>1. arg \in Seq(Parser!Chars) /\ command \in Seq(Seq(Parser!Chars))
          BY DEF Parser!TypeOK
        <5>2. Append(command, arg) \in Seq(Seq(Parser!Chars))
          BY <5>1, AppendProperties
        <5> QED BY <4>1, <5>1, <5>2, Zenon
      <4>3. /\ {is_empty', qouted', backslashed'} \subseteq BOOLEAN
            /\ arg' = <<>> /\ ~qouted' /\ ~backslashed'
        <5>1. CASE is_empty
          <6>1. /\ arg' = arg /\ is_empty' = is_empty /\ qouted' = qouted
                /\ backslashed' = backslashed
            BY <1>5, <2>2, <5>1 DEF Parser!Plain, Parser!ap
          <6> QED BY <5>1, <6>1, Zenon DEF Parser!TypeOK
        <5>2. CASE ~is_empty
          <6>1. Parser!Cleared
            BY <1>5, <2>2, <5>2 DEF Parser!Plain
          <6> QED BY <6>1, Zenon DEF Parser!Cleared
        <5> QED BY <5>1, <5>2
      <4>4. arg' \in Seq(Parser!Chars)
        BY <4>3
      <4> QED BY <4>2, <4>3, <4>4
    <3> QED BY <1>1, <1>2, <3>1 DEF Parser!TypeOK
  <2> QED BY <1>5, <2>1, <2>2 DEF Parser!Plain
<1> QED BY <1>3, <1>4, <1>5 DEF Parser!Read

(* A character keeps what the parser knows of the text.                    *)
LEMMA ReadKeeps ==
  ASSUME BoundsAssumption, ParserInv, NEW c \in Parser!Chars, Parser!Read(c)
  PROVE  ParserInv'
<1> DEFINE n == Len(text) + 1
           sep == c = "blank" /\ ~backslashed /\ ~qouted
           lit == backslashed \/ c \in Parser!Letters \/ (c = "blank" /\ qouted)
<1>1. Parser!TypeOK /\ Parser!TypeOK'
  BY ReadTypes DEF ParserInv
<1>2. /\ Appended(text, c, text', n)
      /\ Parser!Separator(text', n) <=> sep
      /\ Parser!Literal(text', n) <=> lit
      /\ Parser!Escaped(text', Len(text') + 1) <=> c = "backslash" /\ ~backslashed
      /\ Parser!Inside(text', Len(text') + 1) <=>
           (qouted <=> ~(c = "quote" /\ ~backslashed))
      /\ Going(text') <=> ~Parser!Separator(text', n)
      /\ text' # <<>> /\ text'[Len(text')] = c
  BY ReadMeaning
<1>3. /\ is_empty <=> ~Going(text)
      /\ is_empty => Parser!Words(text) = command
      /\ ~is_empty => Parser!Words(text) = Append(command, arg)
  BY DEF ParserInv, Parser!Flushed
<1>4. /\ arg \in Seq(Parser!Chars) /\ command \in Seq(Seq(Parser!Chars))
      /\ is_empty => arg = <<>> /\ ~qouted /\ ~backslashed
  BY <1>1 DEF Parser!TypeOK
<1> HIDE DEF n
<1>5. sep => Parser!Words(text') = Parser!Words(text)
  BY <1>2, WordsEnd
<1>6. ~sep /\ is_empty =>
        Parser!Words(text') = Append(command, IF lit THEN Append(<<>>, c) ELSE <<>>)
  BY <1>2, <1>3, WordsBegin
<1>7. ~sep /\ ~is_empty =>
        Parser!Words(text') = Append(command, IF lit THEN Append(arg, c) ELSE arg)
  <2> SUFFICES ASSUME ~sep, ~is_empty
               PROVE  Parser!Words(text') =
                        Append(command, IF lit THEN Append(arg, c) ELSE arg)
    OBVIOUS
  <2>1. /\ ~Parser!Separator(text', n) /\ Going(text)
        /\ Parser!Words(text) = Append(command, arg)
    BY <1>2, <1>3, Zenon
  <2>2. Parser!Words(text') =
          Append(command, IF Parser!Literal(text', n) THEN Append(arg, c) ELSE arg)
    BY <1>2, <1>4, <2>1, WordsContinue
  <2> QED BY <1>2, <2>2
<1>8. "p" \in Parser!Letters /\ "p" # "blank" /\ "p" # "quote" /\ "p" # "backslash"
  BY DEF Parser!Letters
<1>9. \A w \in Seq(Parser!Chars) :
        Append(w, c) # <<>> /\ Append(w, c)[Len(Append(w, c))] = c
  OBVIOUS
<1> DEFINE knows ==
             /\ backslashed' <=> c = "backslash" /\ ~backslashed
             /\ qouted' <=> (qouted <=> ~(c = "quote" /\ ~backslashed))
             /\ is_empty' <=> sep
           says ==
             /\ Parser!Flushed' = Parser!Words(text')
             /\ c = "p" => arg' # <<>> /\ arg'[Len(arg')] = "p"
<1>10. ASSUME Parser!AfterBackslash(c)
       PROVE  knows /\ says
  <2>1. backslashed /\ ~is_empty /\ ~is_empty'
    BY <1>4, <1>10 DEF Parser!AfterBackslash
  <2>2. knows
    BY <1>10, <2>1, Zenon DEF Parser!AfterBackslash
  <2>3. arg' = Append(arg, c) /\ command' = command
    BY <1>10 DEF Parser!AfterBackslash
  <2>4. Parser!Words(text') = Append(command, Append(arg, c))
    BY <1>7, <2>1
  <2>5. says
    BY <1>4, <1>9, <2>1, <2>3, <2>4 DEF Parser!Flushed
  <2> QED BY <2>2, <2>5
<1>11. ASSUME Parser!InQuotes(c)
       PROVE  knows /\ says
  <2>1. ~backslashed /\ qouted /\ ~is_empty /\ ~is_empty'
    BY <1>4, <1>11 DEF Parser!InQuotes
  <2>2. knows
    BY <1>11, <2>1, Zenon DEF Parser!InQuotes
  <2>3. lit <=> c \notin {"quote", "backslash"}
    BY <2>1 DEF Parser!Chars, Parser!Letters
  <2>4. arg' = (IF lit THEN Append(arg, c) ELSE arg) /\ command' = command
    BY <1>11, <2>3 DEF Parser!InQuotes
  <2>5. Parser!Words(text') = Append(command, arg')
    BY <1>7, <2>1, <2>4
  <2>6. c = "p" => arg' = Append(arg, c)
    BY <1>8, <2>4
  <2>7. says
    BY <1>4, <1>9, <2>1, <2>4, <2>5, <2>6 DEF Parser!Flushed
  <2> QED BY <2>2, <2>7
<1>12. ASSUME Parser!Plain(c)
       PROVE  knows /\ says
  <2>1. ~backslashed /\ ~qouted
    BY <1>12 DEF Parser!Plain
  <2>2. CASE c = "blank" /\ is_empty
    <3>1. UNCHANGED <<arg, is_empty, qouted, backslashed, command>>
      BY <1>12, <2>2 DEF Parser!Plain, Parser!ap
    <3>2. knows
      BY <2>1, <2>2, <3>1, Zenon
    <3>3. says
      BY <1>3, <1>5, <1>8, <2>1, <2>2, <3>1 DEF Parser!Flushed
    <3> QED BY <3>2, <3>3
  <2>3. CASE c = "blank" /\ ~is_empty
    <3>1. /\ command' = Append(command, arg)
          /\ is_empty' /\ ~qouted' /\ ~backslashed'
      BY <1>12, <2>3 DEF Parser!Plain, Parser!Cleared
    <3>2. knows
      BY <2>1, <2>3, <3>1, Zenon
    <3>3. says
      BY <1>3, <1>5, <1>8, <2>1, <2>3, <3>1 DEF Parser!Flushed
    <3> QED BY <3>2, <3>3
  <2>4. CASE c # "blank"
    <3>1. /\ backslashed' <=> c = "backslash"
          /\ qouted' <=> c = "quote"
          /\ ~is_empty'
          /\ command' = command
      BY <1>12, <2>4, Zenon DEF Parser!Plain
    <3>2. knows
      BY <2>1, <2>4, <3>1, Zenon
    <3>3. lit <=> c \in Parser!Letters
      BY <2>1, <2>4
    <3>4. arg' = IF lit THEN Append(arg, c) ELSE arg
      BY <1>12, <2>4, <3>3 DEF Parser!Plain
    <3>5. Parser!Words(text') = Append(command, arg')
      <4>1. CASE is_empty
        BY <1>4, <1>6, <2>4, <3>4, <4>1
      <4>2. CASE ~is_empty
        BY <1>7, <2>4, <3>4, <4>2
      <4> QED BY <4>1, <4>2
    <3>6. c = "p" => arg' = Append(arg, c)
      BY <1>8, <3>3, <3>4
    <3>7. says
      BY <1>4, <1>9, <3>1, <3>5, <3>6 DEF Parser!Flushed
    <3> QED BY <3>2, <3>7
  <2> QED BY <2>2, <2>3, <2>4
<1>13. knows /\ says
  BY <1>10, <1>11, <1>12 DEF Parser!Read
<1>14. line' # <<>> /\ line'[Len(line')] = c /\ last' = last
  <2>1. line' = Append(line, c) /\ last' = last
    BY DEF Parser!Read
  <2>2. line \in Seq(Parser!Chars)
    BY <1>1 DEF Parser!TypeOK
  <2> QED BY <1>9, <2>1, <2>2
<1>15. Parser!CommandsMeanText'
  BY <1>14 DEF ParserInv, Parser!CommandsMeanText
<1> HIDE DEF sep, lit
<1>16. /\ (backslashed <=> Parser!Escaped(text, Len(text) + 1))'
       /\ (qouted <=> Parser!Inside(text, Len(text) + 1))'
       /\ (is_empty <=> ~Going(text))'
  BY <1>2, <1>13, Zenon
<1>17. (text # <<>> /\ text[Len(text)] = "p" =>
          ~is_empty /\ arg # <<>> /\ arg[Len(arg)] = "p")'
  <2>1. c = "p" => ~sep
    BY <1>8 DEF sep
  <2> QED BY <1>2, <1>13, <2>1, Zenon
<1>18. (line # <<>> => text # <<>> /\ text[Len(text)] = line[Len(line)])'
  BY <1>2, <1>14
<1> QED BY <1>1, <1>13, <1>15, <1>16, <1>17, <1>18 DEF ParserInv

(* Nothing is escaped, inside of quotes or a word before anything is read. *)
LEMMA EmptyText ==
  /\ ~Parser!Escaped(<<>>, Len(<<>>) + 1)
  /\ ~Parser!Inside(<<>>, Len(<<>>) + 1)
  /\ ~Going(<<>>)
  /\ Parser!Words(<<>>) = <<>>
<1>1. Len(<<>>) = 0 /\ 1..0 = {} /\ 0 + 1 = 1 /\ 1 - 1 = 0
  OBVIOUS
<1>2. Cardinality({}) = 0 /\ ~(0 % 2 = 1)
  BY FS_EmptySet
<1>3. Run(<<>>, 1) = {} /\ Parser!Quotes(<<>>, 1) = {}
  BY <1>1 DEF Run, Parser!Quotes
<1>4. ~Parser!Escaped(<<>>, 1) /\ ~Parser!Inside(<<>>, 1)
  BY <1>2, <1>3, EscapedSays, InsideSays
<1>5. Parser!WordStarts(<<>>) = {}
  BY <1>1 DEF Parser!WordStarts
<1>6. <<>> \in Seq(Parser!Chars)
  OBVIOUS
<1>7. Parser!Words(<<>>) \in Seq(Seq(Parser!Chars)) /\ Len(Parser!Words(<<>>)) = 0
  BY <1>2, <1>5, <1>6, WordsSay
<1>8. Parser!Words(<<>>) = <<>>
  BY <1>7, EmptySeq
<1> QED BY <1>1, <1>4, <1>8 DEF Going

(* The parser begins knowing all of this.                                  *)
LEMMA ParserBegins ==
  ASSUME BoundsAssumption, Parser!Init
  PROVE  ParserInv
<1>1. /\ text = <<>> /\ command = <<>> /\ line = <<>> /\ typed = 0
      /\ arg = <<>> /\ is_empty = TRUE /\ qouted = FALSE /\ backslashed = FALSE
      /\ last = [text |-> <<>>, command |-> <<>>, line |-> <<>>, posted |-> FALSE]
  BY DEF Parser!Init
<1>2. Parser!TypeOK
  <2>1. {is_empty, qouted, backslashed} \subseteq BOOLEAN /\ ~qouted /\ ~backslashed
    BY <1>1, Zenon
  <2>2. typed \in 0..MaxTyped
    BY <1>1 DEF BoundsAssumption
  <2>3. last \in [text : Seq(Parser!Chars), command : Seq(Seq(Parser!Chars)),
                 line : Seq(Parser!Chars), posted : BOOLEAN]
    <3>1. last.posted = FALSE /\ FALSE \in BOOLEAN
      BY <1>1
    <3> QED BY <1>1, <3>1
  <2> QED BY <1>1, <2>1, <2>2, <2>3 DEF Parser!TypeOK
<1>3. Parser!CommandsMeanText
  BY <1>1, EmptyText DEF Parser!CommandsMeanText
<1>4. Parser!Flushed = Parser!Words(text)
  BY <1>1, EmptyText DEF Parser!Flushed
<1>5. /\ backslashed <=> Parser!Escaped(text, Len(text) + 1)
      /\ qouted <=> Parser!Inside(text, Len(text) + 1)
      /\ is_empty <=> ~Going(text)
  BY <1>1, EmptyText
<1> QED BY <1>1, <1>2, <1>3, <1>4, <1>5 DEF ParserInv

(* The command that a line completes has the words of its text.            *)
LEMMA DeliverKeeps ==
  ASSUME BoundsAssumption, ParserInv, Parser!EndLine, Parser!Deliver
  PROVE  ParserInv'
<1>1. /\ text' = <<>> /\ command' = <<>> /\ line' = <<>>
      /\ arg' = <<>> /\ is_empty' = TRUE /\ qouted' = FALSE /\ backslashed' = FALSE
      /\ last' = [text |-> text, command |-> Parser!Flushed, line |-> line,
                  posted |-> Parser!HintPosts]
      /\ typed < MaxTyped /\ typed' = typed + 1
  BY DEF Parser!EndLine, Parser!Deliver, Parser!Cleared
<1>2. /\ arg \in Seq(Parser!Chars) /\ command \in Seq(Seq(Parser!Chars))
      /\ line \in Seq(Parser!Chars) /\ text \in Seq(Parser!Chars)
      /\ typed \in 0..MaxTyped /\ MaxTyped \in Nat
  BY DEF ParserInv, Parser!TypeOK, BoundsAssumption
<1>3. /\ Parser!Flushed \in Seq(Seq(Parser!Chars))
      /\ ~is_empty => Parser!Flushed # <<>>
                        /\ Parser!Flushed[Len(Parser!Flushed)] = arg
  <2>1. CASE is_empty
    BY <1>2, <2>1 DEF Parser!Flushed
  <2>2. CASE ~is_empty
    <3>1. Parser!Flushed = Append(command, arg)
      BY <2>2 DEF Parser!Flushed
    <3> QED BY <1>2, <3>1, AppendProperties
  <2> QED BY <2>1, <2>2
<1>4. Parser!TypeOK'
  <2>1. typed' \in 0..MaxTyped
    BY <1>1, <1>2
  <2>2. last' \in [text : Seq(Parser!Chars), command : Seq(Seq(Parser!Chars)),
                   line : Seq(Parser!Chars), posted : BOOLEAN]
    <3>1. Parser!HintPosts \in BOOLEAN
      BY DEF Parser!HintPosts
    <3> QED BY <1>1, <1>2, <1>3, <3>1
  <2>3. {is_empty', qouted', backslashed'} \subseteq BOOLEAN /\ ~qouted' /\ ~backslashed'
    BY <1>1, Zenon
  <2> QED BY <1>1, <2>1, <2>2, <2>3 DEF Parser!TypeOK
<1>5. Parser!CommandsMeanText'
  <2>1. last'.command = Parser!Words(last'.text)
    BY <1>1 DEF ParserInv
  <2>2. ASSUME Parser!HintPosts
        PROVE  /\ Parser!Flushed # <<>>
               /\ Parser!Last(Parser!Last(Parser!Flushed)) = "p"
    <3>1. line # <<>> /\ line[Len(line)] = "p"
      BY <2>2 DEF Parser!HintPosts
    <3>2. ~is_empty /\ arg # <<>> /\ arg[Len(arg)] = "p"
      BY <3>1 DEF ParserInv
    <3> QED BY <1>3, <3>2 DEF Parser!Last
  <2>3. last'.command = Parser!Flushed /\ last'.posted = Parser!HintPosts
    BY <1>1
  <2> QED BY <2>1, <2>2, <2>3 DEF Parser!CommandsMeanText
<1>6. Parser!Flushed' = Parser!Words(text')
  BY <1>1, EmptyText DEF Parser!Flushed
<1>7. /\ backslashed' <=> Parser!Escaped(text', Len(text') + 1)
      /\ qouted' <=> Parser!Inside(text', Len(text') + 1)
      /\ is_empty' <=> ~Going(text')
  BY <1>1, EmptyText
<1> QED BY <1>1, <1>4, <1>5, <1>6, <1>7 DEF ParserInv

(* A line that completes nothing changes nothing but the line.             *)
LEMMA ContinueKeeps ==
  ASSUME BoundsAssumption, ParserInv, Parser!EndLine, Parser!Continue
  PROVE  ParserInv'
<1>1. /\ UNCHANGED <<arg, is_empty, qouted, backslashed, command, text, last>>
      /\ line' = <<>> /\ typed < MaxTyped /\ typed' = typed + 1
  BY DEF Parser!EndLine, Parser!Continue, Parser!ap
<1>2. typed' \in 0..MaxTyped
  BY <1>1 DEF ParserInv, Parser!TypeOK, BoundsAssumption
<1>3. Parser!TypeOK'
  BY <1>1, <1>2 DEF ParserInv, Parser!TypeOK
<1>4. Parser!CommandsMeanText' /\ Parser!Flushed' = Parser!Words(text')
  BY <1>1 DEF ParserInv, Parser!CommandsMeanText, Parser!Flushed
<1> QED BY <1>1, <1>3, <1>4 DEF ParserInv

(* Every step of a console keeps what the parser knows, and passes a       *)
(* command on only where its text is complete.                             *)
LEMMA ParserInductive ==
  ASSUME BoundsAssumption, ParserInv, Parser!CopiesNext \/ UNCHANGED parser_vars
  PROVE  /\ ParserInv'
         /\ line' = <<>> /\ typed' # typed =>
              (text' = <<>> <=> text = <<>>
                 \/ (~Parser!Inside(text, Len(text) + 1)
                       /\ ~Parser!Escaped(text, Len(text) + 1)))
<1>1. CASE UNCHANGED parser_vars
  <2>1. Parser!TypeOK' /\ Parser!CommandsMeanText' /\ Parser!Flushed' = Parser!Flushed
    BY <1>1 DEF parser_vars, ParserInv, Parser!TypeOK, Parser!CommandsMeanText,
       Parser!Flushed
  <2> QED BY <1>1, <2>1 DEF parser_vars, ParserInv
<1>2. CASE \E c \in Parser!Chars : Parser!Read(c)
  <2>1. PICK c \in Parser!Chars : Parser!Read(c)
    BY <1>2
  <2>2. line' # <<>>
    <3>1. line \in Seq(Parser!Chars) /\ line' = Append(line, c)
      BY <2>1 DEF ParserInv, Parser!TypeOK, Parser!Read
    <3> QED BY <3>1
  <2> QED BY <2>1, <2>2, ReadKeeps
<1>3. CASE Parser!EndLine
  <2>1. Parser!is_complete <=> ~Parser!Inside(text, Len(text) + 1)
                                 /\ ~Parser!Escaped(text, Len(text) + 1)
    BY Zenon DEF ParserInv, Parser!is_complete
  <2>2. CASE Parser!Deliver
    <3>1. text' = <<>> /\ Parser!is_complete
      BY <2>2 DEF Parser!Deliver
    <3> QED BY <1>3, <2>1, <2>2, <3>1, DeliverKeeps
  <2>3. CASE Parser!Continue
    <3>1. text' = text /\ ~Parser!is_complete
      BY <2>3 DEF Parser!Continue
    <3> QED BY <1>3, <2>1, <2>3, <3>1, ContinueKeeps
  <2> QED BY <1>3, <2>2, <2>3 DEF Parser!EndLine
<1> QED BY <1>1, <1>2, <1>3
        DEF Parser!CopiesNext, Parser!Next, Parser!SpikeParse, Parser!AParse, Parser!AMain

-----------------------------------------------------------------------------
(* The three subjects together.                                            *)
CodecsInv == ParserInv /\ CodecInv /\ FacesInv

(* All begin well.                                                         *)
LEMMA CodecsBegin == Init => CodecsInv
BY ParserBegins, CodecBegins, FacesBegin, BoundsAssumption DEF Init, CodecsInv

(* What the steps of the whole are to its parts.                           *)
LEMMA CodecsInductive ==
  ASSUME CodecsInv, [Next]_<<subject, parser_vars, codec_vars, matching_vars>>
  PROVE  /\ CodecsInv'
         /\ line' = <<>> /\ typed' # typed =>
              (text' = <<>> <=> text = <<>>
                 \/ (~Parser!Inside(text, Len(text) + 1)
                       /\ ~Parser!Escaped(text, Len(text) + 1)))
         /\ sent' # sent /\ sent'[Len(sent')].lacks = 0
              /\ (\A i \in 1..Len(sent) : sent[i].mode # 1)
            => stack' = <<>>
<1>1. /\ Parser!CopiesNext \/ UNCHANGED parser_vars
      /\ Codec!Next \/ UNCHANGED codec_vars
      /\ Matching!Next \/ UNCHANGED matching_vars
  BY DEF Next
<1> QED BY <1>1, BoundsAssumption, ParserInductive, CodecInductive, FacesInductive
        DEF CodecsInv

(* Every command that a console passes on has the words that its           *)
(* characters mean (parser.hpp:160-179), for every text, and a command     *)
(* that the hint console posts ends in the word of its line                *)
(* (hint-client/main.cpp:46).                                              *)
THEOREM WordsMeanText == Spec => []CommandsMeanText
<1>1. CodecsInv => CommandsMeanText
  BY DEF CodecsInv, ParserInv, CommandsMeanText
<1> QED BY <1>1, CodecsBegin, CodecsInductive, PTL DEF Spec

(* A command is passed on exactly at the first end of a line at which its  *)
(* text is complete (the consoles' loops over is_complete()).              *)
THEOREM CommandsEnd == Spec => EndsWhereItShould
<1>1. CodecsInv /\ [Next]_<<subject, parser_vars, codec_vars, matching_vars>> =>
        [line' = <<>> /\ typed' # typed =>
              (text' = <<>> <=> text = <<>>
                 \/ (~Parser!Inside(text, Len(text) + 1)
                       /\ ~Parser!Escaped(text, Len(text) + 1)))]_Parser!vars
  BY CodecsInductive
<1> QED BY <1>1, CodecsBegin, CodecsInductive, PTL
        DEF Spec, EndsWhereItShould, Parser!EndsWhereItShould

(* A message that is wrongly read has a cut one before it.                 *)
THEOREM CutsConfuse == Spec => []OnlyCutsConfuse
<1>1. CodecsInv => OnlyCutsConfuse
  BY DEF CodecsInv, CodecInv, OnlyCutsConfuse
<1> QED BY <1>1, CodecsBegin, CodecsInductive, PTL DEF Spec

(* A whole message ends every message that lz4 cut before it.              *)
THEOREM Resyncs == Spec => WholeMessageResyncs
<1>1. CodecsInv /\ [Next]_<<subject, parser_vars, codec_vars, matching_vars>> =>
        [sent' # sent /\ sent'[Len(sent')].lacks = 0
              /\ (\A i \in 1..Len(sent) : sent[i].mode # 1)
            => stack' = <<>>]_Codec!vars
  BY CodecsInductive
<1> QED BY <1>1, CodecsBegin, CodecsInductive, PTL
        DEF Spec, WholeMessageResyncs, Codec!WholeMessageResyncs

(* Whose name a face can get.                                              *)
THEOREM NamesOfFaces == Spec => []FacesNamed
<1>1. CodecsInv => FacesNamed
  BY DEF CodecsInv, FacesInv, FacesNamed
<1> QED BY <1>1, CodecsBegin, CodecsInductive, PTL DEF Spec
==============================================================================
