------------------------------- MODULE MCServer -------------------------------
(* Finite instances of Server.                                             *)
EXTENDS Server

As(role, id) == [role |-> role, room |-> id]

(* The three clients of the project, which all log in to room 1.           *)
ThreeRoles ==
  [c \in {1, 2, 3} |-> CASE c = 1 -> As("image-client", 1)
                         [] c = 2 -> As("audio-client", 1)
                         [] c = 3 -> As("hint-client", 1)]

(* The third client calls itself what README.org:154 says it should.       *)
UnknownRole == [ThreeRoles EXCEPT ![3] = As("voice-client", 1)]

TwoRoles ==
  [c \in {1, 2} |-> IF c = 1 THEN As("image-client", 1) ELSE As("audio-client", 1)]

=============================================================================
