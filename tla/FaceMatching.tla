----------------------------- MODULE FaceMatching -----------------------------
(***************************************************************************)
(* Naming the faces of one image (api::Detect::detect_user): each face is  *)
(* compared with every person of the database, and named by the person it  *)
(* matches, by the nearest one if it matches several.                      *)
(*                                                                         *)
(* candidate and distance_list belong to the image, not to the face: the   *)
(* candidates of all its faces add up, and distance_list[c] is, for every  *)
(* face, the distance of the FIRST face to person c.                       *)
(***************************************************************************)
EXTENDS Integers, Sequences, FiniteSets

CONSTANTS People,     \* the number of persons in the database
          MaxFaces,   \* bound: the faces of an image
          Distances,  \* the distances that are told apart, numbers
          Limit       \* a face matches a person nearer than this (0.33)

Index == 0..(People - 1)
NotRecognized == -1

VARIABLES
  faces,      \* the distances of each face named, to each person (history)
  candidate,  \* how often each person was matched in this image
  distance,   \* distance_list[0..People - 1]
  person      \* the names given, as indices of the database

vars == <<faces, candidate, distance, person>>

TypeOK ==
  /\ faces \in Seq([Index -> Distances]) /\ Len(faces) <= MaxFaces
  /\ candidate \in [Index -> 0..MaxFaces]
  /\ distance \in [Index -> Distances \cup {0}]
  /\ person \in Seq(Index \cup {NotRecognized}) /\ Len(person) = Len(faces)

Init ==
  /\ faces = <<>> /\ person = <<>>
  /\ candidate = [c \in Index |-> 0]
  /\ distance = [c \in Index |-> 0]

-----------------------------------------------------------------------------
Matches(d) == {b \in Index : d[b] < Limit}

(* distance_list grows behind the first face's distances.                  *)
Grown(d) == IF faces = <<>> THEN d ELSE distance

(* Faulty variant of Chosen: the farthest candidate.                       *)
ChosenFarthest(count, d) ==
  LET compared == {0} \cup {c \in Index : count[c] # 0}
  IN  CHOOSE c \in compared : \A e \in compared : d[e] <= d[c]

(* The search for the nearest starts at person 0, candidate or not, and    *)
(* goes on to a candidate that is strictly nearer.                         *)
Chosen(count, d) ==
  LET compared == {0} \cup {c \in Index : count[c] # 0}
  IN  CHOOSE c \in compared : \A e \in compared :
        d[c] < d[e] \/ (d[c] = d[e] /\ c <= e)

Name(d, count, list) ==
  CASE Matches(d) = {} -> NotRecognized
    [] Cardinality(Matches(d)) = 1 -> CHOOSE b \in Index : b \in Matches(d)
    [] OTHER -> Chosen(count, list)

(* The next face of the detector, at the distances d from the persons.     *)
Face(d) ==
  /\ Len(faces) < MaxFaces
  /\ faces' = Append(faces, d)
  /\ distance' = Grown(d)
  /\ candidate' = [c \in Index |-> candidate[c] + (IF c \in Matches(d) THEN 1 ELSE 0)]
  /\ person' = Append(person, Name(d, candidate', distance'))

Next == \E d \in [Index -> Distances] : Face(d)

Spec == Init /\ [][Next]_vars

-----------------------------------------------------------------------------
(* The persons a face is nearest to.                                       *)
Nearest(d) == {c \in Index : \A e \in Index : d[c] <= d[e]}

(* A face that is alone in its image, or that matches at most one person,  *)
(* gets the right name although the search starts at person 0              *)
(* (Detect.cpp:154-168): its nearest person, or none if that is too far.   *)
NearestWhenFirstOrOnly ==
  \A i \in 1..Len(faces) : i = 1 \/ Cardinality(Matches(faces[i])) <= 1 =>
    IF Matches(faces[i]) = {} THEN person[i] = NotRecognized
    ELSE person[i] \in Nearest(faces[i])

(* Once the first face was recognized, every later face of the image that  *)
(* matches several persons gets the first face's name, whomever it looks   *)
(* like (distance_list is not reset, Detect.cpp:128).                      *)
LaterNamedLikeFirst ==
  \A i \in 2..Len(faces) :
    Matches(faces[1]) # {} /\ Cardinality(Matches(faces[i])) > 1 =>
      person[i] \in Nearest(faces[1])

(* A face is never given the name of somebody who matched no face of the   *)
(* image, unless the first face matched nobody: then person 0 may be named *)
(* without being there.                                                    *)
NoStrangers ==
  \A i \in 1..Len(faces) :
    person[i] = NotRecognized \/ (person[i] = 0 /\ Matches(faces[1]) = {})
      \/ \E j \in 1..i : person[i] \in Matches(faces[j])

(* Whose name a face can get, for faces of every kind and place.           *)
FacesNamed == NearestWhenFirstOrOnly /\ LaterNamedLikeFirst /\ NoStrangers
=============================================================================
