-------------------------------- MODULE Config ---------------------------------
(***************************************************************************)
(* Config: server.cfg as the plugin reads it.  A file is a sequence of     *)
(* lines, a line the sequence of words that boost::split makes of it: one  *)
(* word more than it has blanks, some of them possibly "".                 *)
(***************************************************************************)
EXTENDS Integers, Sequences

Lines == Seq(Seq(STRING))

\* Mutant: entries_[index] = strs.
AddLine_Overwrites(entries, line) ==
  IF Len(line) > 1 THEN [index \in DOMAIN entries \cup {line[1]} |->
                           IF index = line[1] THEN Tail(line) ELSE entries[index]]
                   ELSE entries

\* One turn of the loop of Load: a line with at least one blank is an option and its
\* arguments; emplace keeps an entry that exists.
AddLine(entries, line) ==
  IF Len(line) > 1 THEN [index \in DOMAIN entries \cup {line[1]} |->
                           IF index \in DOMAIN entries THEN entries[index] ELSE Tail(line)]
                   ELSE entries

Load(lines) ==
  LET read[n \in 0..Len(lines)] ==
        IF n = 0 THEN [index \in {} |-> <<>>] ELSE AddLine(read[n - 1], lines[n])
  IN  read[Len(lines)]

\* Get into a vector: every argument, none for an unknown option.
Args(entries, index) == IF index \in DOMAIN entries THEN entries[index] ELSE <<>>

\* Get into a string: the argument at pos, counted from 0, if there is one.
HasArg(entries, index, pos) == pos < Len(Args(entries, index))
Arg(entries, index, pos)    == Args(entries, index)[pos + 1]

-----------------------------------------------------------------------------
\* What a file says, for the properties: the lines that give an option an argument, of which
\* the first counts.
Defining(lines, index) == {i \in DOMAIN lines : Len(lines[i]) > 1 /\ lines[i][1] = index}

First(lines, index) ==
  CHOOSE i \in Defining(lines, index) : \A j \in Defining(lines, index) : i <= j
===============================================================================
