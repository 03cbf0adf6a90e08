------------------------------- MODULE MCCodecs -------------------------------
(***************************************************************************)
(* Finite instances of what the programs do to data, in one run: the       *)
(* commands that are typed, the images that are packed and the faces that  *)
(* are named.  A behaviour is a behaviour of one of the three.             *)
(***************************************************************************)
EXTENDS Integers, Sequences

CONSTANTS
  MaxTyped,                           \* of OldParsers
  MaxSent,                            \* of MatCodec
  People, MaxFaces, Distances, Limit  \* of FaceMatching

ASSUME BoundsAssumption == {MaxTyped, MaxSent, MaxFaces} \subseteq Nat
ASSUME FacesAssumption ==
  People \in Nat /\ Limit \in Nat /\ Distances \subseteq Nat

VARIABLES
  subject,    \* what is done
  \* CommandParser
  arg, is_empty, qouted, backslashed, command, line, text, last, typed,
  \* MatCodec
  m_mode, sent, stack, received,
  \* FaceMatching
  faces, candidate, distance, person

Parser == INSTANCE OldParsers
Codec == INSTANCE MatCodec
Matching == INSTANCE FaceMatching

parser_vars == <<arg, is_empty, qouted, backslashed, command, line, text, last, typed>>
codec_vars == <<m_mode, sent, stack, received>>
matching_vars == <<faces, candidate, distance, person>>

Init ==
  /\ subject \in {"command", "image", "face"}
  /\ Parser!Init /\ Codec!Init /\ Matching!Init

Next ==
  \/ /\ subject = "command" /\ Parser!CopiesNext
     /\ UNCHANGED <<subject, codec_vars, matching_vars>>
  \/ /\ subject = "image" /\ Codec!Next
     /\ UNCHANGED <<subject, parser_vars, matching_vars>>
  \/ /\ subject = "face" /\ Matching!Next
     /\ UNCHANGED <<subject, parser_vars, codec_vars>>

Spec == Init /\ [][Next]_<<subject, parser_vars, codec_vars, matching_vars>>

-----------------------------------------------------------------------------
(* What the three modules state, the invariants with their types.          *)
CommandsMeanText == Parser!TypeOK /\ Parser!CommandsMeanText
EndsWhereItShould == Parser!EndsWhereItShould
OnlyCutsConfuse == Codec!TypeOK /\ Codec!OnlyCutsConfuse
WholeMessageResyncs == Codec!WholeMessageResyncs
FacesNamed == Matching!TypeOK /\ Matching!FacesNamed
=============================================================================
