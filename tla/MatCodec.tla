------------------------------- MODULE MatCodec -------------------------------
(***************************************************************************)
(* How an image travels: the array of five elements that the adaptors of   *)
(* compressed_mat and cv::Mat write for it (rows, columns, type, mode and  *)
(* the pixels), the unpacker that takes five elements back from the stream *)
(* and the conversion to an image.                                         *)
(*                                                                         *)
(* The array is announced before anything can fail, and the branch that    *)
(* should write the raw image after a failure is one of the alternatives   *)
(* of the same if: it is never reached.  A failure therefore leaves one or *)
(* two elements out, and the unpacker takes the messages that follow, each *)
(* a whole object, for them.  The image is the last element of everything  *)
(* around it, so its message is complete when the image is.                *)
(***************************************************************************)
EXTENDS Integers, Sequences, FiniteSetsExt

CONSTANT MaxSent   \* bound: the messages of a behaviour

VARIABLES
  m_mode,   \* the client's mode: 0 raw, 1 gz, 2 lz4
  sent,     \* the messages written: kind, mode and how many elements their
            \* image lacks (history)
  stack,    \* the unpacker's open arrays: how many elements each still lacks
  received  \* the messages the unpacker gave out: the first and the last
            \* message on the stream that went into each, and what the
            \* session made of it (history)

vars == <<m_mode, sent, stack, received>>

Modes == {0, 1, 2}

TypeOK ==
  /\ m_mode \in Modes
  /\ sent \in Seq([kind : {"image", "empty", "other"}, mode : Modes, lacks : 0..2])
  /\ Len(sent) <= MaxSent
  /\ stack \in Seq({1, 2})
  /\ received \in Seq([first : 1..Len(sent), last : 1..Len(sent),
                       result : {"image", "empty", "other", "confused", "refused"}])

Init == m_mode = 2 /\ sent = <<>> /\ stack = <<>> /\ received = <<>>

-----------------------------------------------------------------------------
(* Faulty variants of Lacks: the raw mode forgets the pixels of an empty   *)
(* image; lz4 writes its mode only when it succeeds.                       *)
LacksRows(img, mode) ==
  CASE mode = 2 -> IF img = "empty" THEN {0, 1} ELSE {0}
    [] mode = 1 -> {0, 2}
    [] mode = 0 -> IF img = "empty" THEN {1} ELSE {0}

LacksMode(img, mode) ==
  CASE mode = 2 -> IF img = "empty" THEN {0, 2} ELSE {0}
    [] mode = 1 -> {0, 2}
    [] mode = 0 -> {0}

(* The elements that pack may leave out.  In lz4 mode an empty image is    *)
(* not continuous, and whether its clone is depends on OpenCV; the mode is *)
(* written already.  In gz mode zlib may fail for want of memory, and on   *)
(* an empty image it is given a stream whose input is uninitialised; the   *)
(* mode is written with the pixels, at the end.  An image of the camera is *)
(* continuous.                                                             *)
Lacks(img, mode) ==
  CASE mode = 2 -> IF img = "empty" THEN {0, 1} ELSE {0}
    [] mode = 1 -> {0, 2}
    [] mode = 0 -> {0}

(* The adaptor of cv::Mat, which answers get_image, always takes lz4.      *)
LacksReply(img) == IF img = "empty" THEN {0, 1} ELSE {0}

(* The adaptor of spike/, which answers the get_image of the experiments,  *)
(* always takes gz.                                                        *)
SpikeLacks(img) == {0, 2}

(* What the session's conversion makes of the outermost message.  An array *)
(* in the place of the pixels is taken for their bytes; one in the place   *)
(* of the mode is refused, and the responser drops the message.            *)
Converted(m) ==
  CASE m.lacks = 0 -> m.kind
    [] m.lacks = 1 -> "confused"
    [] m.lacks = 2 -> "refused"

-----------------------------------------------------------------------------
(* The arrays that are open when another object is complete: it ends every *)
(* innermost array that lacked just one element.                           *)
Completed(s) ==
  LET k == Max({0} \cup {i \in 1..Len(s) : s[i] > 1})
  IN  IF k = 0 THEN <<>> ELSE [SubSeq(s, 1, k) EXCEPT ![k] = @ - 1]

(* The outermost message that is open when the next one is written.        *)
First == IF received = <<>> THEN 1 ELSE received[Len(received)].last + 1

(* A message goes over the stream and through the unpacker.                *)
Send(m) ==
  /\ Len(sent) < MaxSent
  /\ sent' = Append(sent, m)
  /\ stack' = IF m.lacks > 0 THEN Append(stack, m.lacks) ELSE Completed(stack)
  /\ received' = IF stack' # <<>> THEN received
                 ELSE Append(received, [first |-> First, last |-> Len(sent'),
                                        result |-> Converted(sent'[First])])
  /\ UNCHANGED m_mode

(* do_put_image: a pump's image, empty while the video is stopped or when  *)
(* the camera has none.                                                    *)
PutImage ==
  \E img \in {"image", "empty"} : \E n \in Lacks(img, m_mode) :
    Send([kind |-> img, mode |-> m_mode, lacks |-> n])

(* The answer to a get_image.                                              *)
GetImage ==
  \E img \in {"image", "empty"} : \E n \in LacksReply(img) :
    Send([kind |-> img, mode |-> 2, lacks |-> n])

SpikeGetImage ==
  \E img \in {"image", "empty"} : \E n \in SpikeLacks(img) :
    Send([kind |-> img, mode |-> 1, lacks |-> n])

(* A login, a request of the console: no image in it.                      *)
OtherMessage == Send([kind |-> "other", mode |-> m_mode, lacks |-> 0])

(* The console's ":raw", ":gz" and ":lz4".                                 *)
SetMode(mode) ==
  /\ m_mode' = mode
  /\ UNCHANGED <<sent, stack, received>>

Next ==
  \/ PutImage \/ GetImage \/ SpikeGetImage \/ OtherMessage
  \/ \E mode \in Modes : SetMode(mode)

Spec == Init /\ [][Next]_vars

-----------------------------------------------------------------------------
(* A message goes into another one only behind an image that was cut, and  *)
(* no image is cut that was written in the raw mode (compressed_mat.hpp:   *)
(* 176-187); and only an image that came whole and alone is shown, as it   *)
(* was sent.                                                               *)
OnlyCutsConfuse ==
  \A i \in 1..Len(received) : LET r == received[i] IN
    /\ r.first < r.last => sent[r.first].lacks > 0 /\ sent[r.first].mode # 0
    /\ r.result \in {"image", "empty", "other"} =>
         r.first = r.last /\ sent[r.first].kind = r.result

(* However many empty images lz4 cut before it, the first whole message    *)
(* ends them all: the stream is in step again (and all of them are one     *)
(* message to the session).  A cut of gz takes two.                        *)
WholeMessageResyncs ==
  [][ sent' # sent /\ sent'[Len(sent')].lacks = 0
        /\ (\A i \in 1..Len(sent) : sent[i].mode # 1)
      => stack' = <<>> ]_vars
=============================================================================
