---------------------------- MODULE CommandParser ----------------------------
(***************************************************************************)
(* The command parser, and the console loop that every program of the      *)
(* repository runs around it: read a line, compare the whole line with the *)
(* program's own commands, parse it, and pass the command on when it is    *)
(* complete.  std::getline takes the newline away, so the parser sees the  *)
(* lines of one command joined.                                            *)
(*                                                                         *)
(* The parser is one thread that goes through a line character by          *)
(* character; here it reads each character as it is typed.                 *)
(***************************************************************************)
EXTENDS Integers, Sequences, SequencesExt, FiniteSetsExt

CONSTANT MaxTyped   \* bound: the characters and newlines of a behaviour

(* "a" is a letter; a line of one "p" is one of the commands that the      *)
(* consoles compare with the whole line (":post", ":exit", ":raw").        *)
Letters == {"a", "p"}
Chars == Letters \cup {"blank", "quote", "backslash"}

VARIABLES
  arg,          \* ap.arg: the argument being read
  is_empty,     \* ap.is_empty: has the argument not begun?
  qouted,       \* ap.qouted: inside of quotes? (the source's spelling)
  backslashed,  \* ap.backslashed: was the last character a backslash?
  command,      \* the arguments read
  line,         \* the characters of the line, read so far (history)
  text,         \* the characters of the command, read so far (history)
  last,         \* the last complete command: its characters, its arguments,
                \* its last line and whether the hint console posts it
  typed         \* counts the characters and newlines

ap == <<arg, is_empty, qouted, backslashed>>
vars == <<ap, command, line, text, last, typed>>

TypeOK ==
  /\ arg \in Seq(Chars)
  /\ {is_empty, qouted, backslashed} \subseteq BOOLEAN
  /\ is_empty => arg = <<>> /\ ~qouted /\ ~backslashed
  /\ command \in Seq(Seq(Chars))
  /\ line \in Seq(Chars) /\ text \in Seq(Chars)
  /\ last \in [text : Seq(Chars), command : Seq(Seq(Chars)),
               line : Seq(Chars), posted : BOOLEAN]
  /\ typed \in 0..MaxTyped

(* clear() of the argument parser.                                         *)
Cleared ==
  arg' = <<>> /\ is_empty' = TRUE /\ qouted' = FALSE /\ backslashed' = FALSE

Init ==
  /\ arg = <<>> /\ is_empty = TRUE /\ qouted = FALSE /\ backslashed = FALSE
  /\ command = <<>> /\ line = <<>> /\ text = <<>> /\ typed = 0
  /\ last = [text |-> <<>>, command |-> <<>>, line |-> <<>>, posted |-> FALSE]

-----------------------------------------------------------------------------
(* basic_argument_parser::parse, by the state it is in.                    *)

(* Any character after a backslash is an ordinary one.                     *)
AfterBackslash(c) ==
  /\ backslashed
  /\ arg' = Append(arg, c)
  /\ backslashed' = FALSE
  /\ UNCHANGED <<is_empty, qouted, command>>

(* Inside of quotes only the quote and the backslash are special.          *)
InQuotes(c) ==
  /\ ~backslashed /\ qouted
  /\ qouted' = (c # "quote")
  /\ backslashed' = (c = "backslash")
  /\ arg' = IF c \in {"quote", "backslash"} THEN arg ELSE Append(arg, c)
  /\ UNCHANGED <<is_empty, command>>

(* Elsewhere a blank ends the argument, which the command parser takes     *)
(* (basic_command_parser::parse goes on from the blank, which is skipped), *)
(* and anything else begins one.                                           *)
Plain(c) ==
  /\ ~backslashed /\ ~qouted
  /\ \/ /\ c = "blank" /\ is_empty
        /\ UNCHANGED <<ap, command>>
     \/ /\ c = "blank" /\ ~is_empty
        /\ command' = Append(command, arg)
        /\ Cleared
     \/ /\ c # "blank"
        /\ backslashed' = (c = "backslash") /\ qouted' = (c = "quote")
        /\ arg' = IF c \in Letters THEN Append(arg, c) ELSE arg
        /\ is_empty' = FALSE
        /\ UNCHANGED command

Read(c) ==
  /\ typed < MaxTyped /\ typed' = typed + 1
  /\ line' = Append(line, c) /\ text' = Append(text, c)
  /\ AfterBackslash(c) \/ InQuotes(c) \/ Plain(c)
  /\ UNCHANGED last

-----------------------------------------------------------------------------
is_complete == ~qouted /\ ~backslashed

(* What the command parser holds when it has read the line: the parser     *)
(* looks at the character behind the line's last one, the terminator of    *)
(* the string, but the loop ends there whatever it is.                     *)
Flushed == IF is_empty THEN command ELSE Append(command, arg)

(* The hint console passes a command on only if its LINE is ":post" or     *)
(* ":request"; every other console passes each complete command on.        *)
HintPosts == line = <<"p">>

(* Faulty variant of Deliver: the command parser is not cleared for the    *)
(* next command.                                                           *)
DeliverKeeps ==
  /\ is_complete
  /\ last' = [text |-> text, command |-> Flushed, line |-> line, posted |-> HintPosts]
  /\ command' = Flushed
  /\ text' = <<>>
  /\ Cleared

Deliver ==
  /\ is_complete
  /\ last' = [text |-> text, command |-> Flushed, line |-> line, posted |-> HintPosts]
  /\ command' = <<>>
  /\ text' = <<>>
  /\ Cleared

(* Faulty variant of Continue: what the unfinished argument has is dropped.*)
ContinueFresh ==
  /\ ~is_complete
  /\ Cleared
  /\ UNCHANGED <<command, text, last>>

(* The line ends inside of quotes or behind a backslash: the next line     *)
(* goes on.                                                                *)
Continue ==
  /\ ~is_complete
  /\ UNCHANGED <<ap, command, text, last>>

EndLine ==
  /\ typed < MaxTyped /\ typed' = typed + 1
  /\ line' = <<>>
  /\ Deliver \/ Continue

Next == EndLine \/ \E c \in Chars : Read(c)

Spec == Init /\ [][Next]_vars

-----------------------------------------------------------------------------
(* The reference: what a text means, by positions and with no state.  A    *)
(* character is escaped when it follows an odd run of backslashes, inside  *)
(* when an odd number of quotes that count comes before it.                *)
Escaped(t, i) ==
  LET run == {k \in 1..(i - 1) : \A j \in k..(i - 1) : t[j] = "backslash"}
  IN  Cardinality(run) % 2 = 1

Quotes(t, i) == {k \in 1..(i - 1) : t[k] = "quote" /\ ~Escaped(t, k)}
Inside(t, i) == Cardinality(Quotes(t, i)) % 2 = 1

Separator(t, i) == t[i] = "blank" /\ ~Escaped(t, i) /\ ~Inside(t, i)
Literal(t, i) == \/ Escaped(t, i)
                 \/ t[i] \in Letters
                 \/ t[i] = "blank" /\ Inside(t, i)

(* The n-th smallest element of a set.                                     *)
Nth(S, n) == Min({i \in S : Cardinality({j \in S : j < i}) = n - 1})

(* The words of t are the intervals between its separators, and a word is  *)
(* the literals of its interval.                                           *)
WordStarts(t) ==
  {i \in 1..Len(t) : ~Separator(t, i) /\ (i = 1 \/ Separator(t, i - 1))}
WordLiterals(t, i) ==
  {j \in i..Len(t) : Literal(t, j) /\ \A k \in i..j : ~Separator(t, k)}
Word(t, i) ==
  [n \in 1..Cardinality(WordLiterals(t, i)) |-> t[Nth(WordLiterals(t, i), n)]]
Words(t) == [n \in 1..Cardinality(WordStarts(t)) |-> Word(t, Nth(WordStarts(t), n))]

(* Every command that a console passes on (parser.hpp:160-179 and the      *)
(* consoles' loops) has the words that its characters mean, however it is  *)
(* quoted, escaped and broken into lines; and what the hint console posts  *)
(* ends in the word of the line ":post" itself (hint-client/main.cpp:46),  *)
(* so it carries arguments only from the lines before.                     *)
CommandsMeanText ==
  /\ last.command = Words(last.text)
  /\ last.posted => last.command # <<>> /\ Last(Last(last.command)) = "p"

(* A command is passed on exactly at the first end of a line at which its  *)
(* text is not inside of quotes and does not end in a backslash: a command *)
(* is never cut, and never swallows the next one.                          *)
EndsWhereItShould ==
  [][ line' = <<>> /\ typed' # typed =>
        (text' = <<>> <=> text = <<>> \/ (~Inside(text, Len(text) + 1)
                                            /\ ~Escaped(text, Len(text) + 1))) ]_vars
=============================================================================
