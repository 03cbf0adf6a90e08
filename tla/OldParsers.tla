------------------------------ MODULE OldParsers ------------------------------
(***************************************************************************)
(* The copies of the command parser: the header that the experiments       *)
(* include is the parser of the programs without its copyright, and        *)
(* spike/a.cpp has it as it was before it became a template, with a        *)
(* console that prints the commands.  There are no other differences, so   *)
(* their steps are those of module CommandParser.                          *)
(***************************************************************************)
EXTENDS CommandParser

(* spike/include/api/parser.hpp: the parse functions of both parsers.      *)
SpikeParse == \E c \in Chars : Read(c)

(* spike/a.cpp: ArgParser::parse and CommandParser::parse; and main.       *)
AParse == \E c \in Chars : Read(c)
AMain == EndLine

CopiesNext == Next \/ SpikeParse \/ AParse \/ AMain
=============================================================================
