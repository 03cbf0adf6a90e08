----------------------------- MODULE RequestFates -----------------------------
(***************************************************************************)
(* What a request may come to, on its own: the promise of README.org:119,  *)
(* that a response is returned to the callback that was registered, with   *)
(* the failures that are left to it.  A request is made, its handler waits *)
(* once the request is written, and then is called, once: with the answer  *)
(* to its own request, with a raw post of the peer that was taken for it,  *)
(* or with an error together with all others that wait.  Only a connection *)
(* that broke brings errors; only that, or calls that raced, drop a        *)
(* handler; only a peer that made raw posts has one called with them; and  *)
(* only calls that raced give one the answer to another request.           *)
(***************************************************************************)
CONSTANT CallIds   \* the requests that may be made

VARIABLES fate,    \* fate[n]: what has become of request n
          broken,  \* the connection is no longer open
          posted,  \* the peer has made a raw post
          raced    \* calls have overlapped

vars == <<fate, broken, posted, raced>>

Init ==
  /\ fate = [n \in CallIds |-> "none"]
  /\ broken = FALSE /\ posted = FALSE /\ raced = FALSE

Becomes(n, from, to) ==
  /\ fate[n] = from
  /\ fate' = [fate EXCEPT ![n] = to]

Make(n) ==
  /\ Becomes(n, "none", "made")
  /\ raced' \in {raced, TRUE}
  /\ UNCHANGED <<broken, posted>>

(* A request is written; its handler waits, and then is called.            *)
Written(n) == Becomes(n, "made", "waiting") /\ UNCHANGED <<broken, posted, raced>>
Answer(n)  == Becomes(n, "waiting", "answered") /\ UNCHANGED <<broken, posted, raced>>
Mislead(n) ==
  /\ raced
  /\ Becomes(n, "waiting", "misled")
  /\ UNCHANGED <<broken, posted, raced>>
TakePost(n) ==
  /\ posted
  /\ Becomes(n, "waiting", "posted")
  /\ UNCHANGED <<broken, posted, raced>>

Drop(n) ==
  /\ broken \/ raced
  /\ Becomes(n, "made", "dropped")
  /\ UNCHANGED <<broken, posted, raced>>

(* All that wait are told; the write that failed may have dropped its own. *)
Fail(dropped) ==
  /\ broken
  /\ \A n \in dropped : fate[n] = "made"
  /\ fate' = [n \in CallIds |-> IF fate[n] = "waiting" THEN "error"
                                ELSE IF n \in dropped THEN "dropped"
                                ELSE fate[n]]
  /\ UNCHANGED <<broken, posted, raced>>

(* The connection breaks; the peer makes a raw post; a call that is no     *)
(* request races another.                                                  *)
Break == broken' = TRUE /\ UNCHANGED <<fate, posted, raced>>
Post  == posted' = TRUE /\ UNCHANGED <<fate, broken, raced>>
Race  == raced' = TRUE /\ UNCHANGED <<fate, broken, posted>>

Next ==
  \/ \E n \in CallIds : Make(n) \/ Written(n) \/ Answer(n) \/ Mislead(n) \/ TakePost(n)
                        \/ Drop(n)
  \/ \E dropped \in {{}} \cup {{n} : n \in CallIds} : Fail(dropped)
  \/ Break \/ Post \/ Race

Spec == Init /\ [][Next]_vars
=============================================================================
