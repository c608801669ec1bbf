------------------------------- MODULE Outputs -------------------------------
(***************************************************************************)
(* parseOutputs (lib/protocol.js): what the file that a step writes its    *)
(* outputs into is taken to say.                                           *)
(*                                                                         *)
(* The state is such a file, written line after line; whatever it holds    *)
(* at the moment is parsed.  A file that the agent cut at its size limit,  *)
(* or whose step was killed, is one of those on the way.                   *)
(*                                                                         *)
(* An operator that nothing uses is the following definition with a bug in *)
(* it, kept to show that the properties notice.                            *)
(***************************************************************************)
EXTENDS Naturals, Sequences, SequencesExt, FiniteSetsExt

CONSTANTS Name,       \* output names that are identifiers
          Special,    \* those of them an object does not take: __proto__
          BadName,    \* names that are not identifiers
          Between,    \* one of the names: what is between the markers of a line with two
          Text,       \* values, delimiters, and lines without a marker
          MaxLines    \* bound: lines of a file

\* A line: its markers in their order, what is before the first of them and what is after the
\* last.  What is between two of them is Between.
Line == [marks : {<<"=">>, <<"<<">>, <<"=", "<<">>, <<"<<", "=">>},
         key : Name \cup BadName,
         rest : Text \cup {""}]
        \cup [marks : {<<>>}, key : {""}, rest : Text \cup {""}]

ASSUME LinesAssumption == /\ Special \subseteq Name
                          /\ Between \in Name /\ Name \cap BadName = {}
                          /\ "" \notin Name \cup BadName \cup Text
                          /\ MaxLines \in Nat

VARIABLE lines        \* the file

\* line.indexOf(mark), 0 when there is none
Place(l, mark) == IF mark \in ToSet(l.marks)
                  THEN CHOOSE i \in DOMAIN l.marks : l.marks[i] = mark
                  ELSE 0

Blank(l) == l.marks = <<>> /\ l.rest = ""

IsHeredocAnywhere(l) == Place(l, "<<") # 0

IsHeredoc(l) == Place(l, "<<") # 0 /\ (Place(l, "=") = 0 \/ Place(l, "<<") < Place(l, "="))

\* What follows the first marker, as a line: a value or a delimiter.
Rest(l) == [marks |-> Tail(l.marks),
            key |-> IF Len(l.marks) = 2 THEN Between ELSE "",
            rest |-> l.rest]

\* The lines at which the inner loop, started after i, can break.
Closing(i) == {c \in DOMAIN lines : c > i /\ lines[c] = Rest(lines[i])}

\* outputs[key] = value; an object does not take a string for __proto__, and says nothing.
Assign(outputs, key, value) ==
  IF key \in Special THEN outputs
  ELSE [k \in DOMAIN outputs \cup {key} |-> IF k = key THEN value ELSE outputs[k]]

\* One turn of the loop, at line s.at: what has been read so far, and how many lines have
\* been complained of.
Turn(s) ==
  LET i == s.at
      l == lines[i]
      delimited == Min(Closing(i))
      complain(next) == [s EXCEPT !.at = next, !.errors = @ + 1]
      assign(next, value) == [s EXCEPT !.at = next, !.outputs = Assign(@, l.key, value)]
  IN  CASE Blank(l) -> [s EXCEPT !.at = i + 1]
        [] ~Blank(l) /\ (l.marks = <<>> \/ l.key \notin Name) -> complain(i + 1)
        [] l.marks # <<>> /\ l.key \in Name /\ IsHeredoc(l) ->
             IF Blank(Rest(l)) THEN complain(i + 1)
             ELSE IF Closing(i) = {} THEN complain(Len(lines) + 1)
             ELSE assign(delimited + 1, SubSeq(lines, i + 1, delimited - 1))
        [] l.marks # <<>> /\ l.key \in Name /\ ~IsHeredoc(l) -> assign(i + 1, <<Rest(l)>>)

\* The loop, turn by turn; once past the last line it stays there.
Scan[t \in 0..Len(lines)] ==
  IF t = 0 THEN [at |-> 1, outputs |-> [k \in {} |-> {}], errors |-> 0]
  ELSE LET s == Scan[t - 1] IN IF s.at > Len(lines) THEN s ELSE Turn(s)

Parse == Scan[Len(lines)]

-----------------------------------------------------------------------------
OutInit == lines = <<>>

WriteLine(l) == Len(lines) < MaxLines /\ lines' = Append(lines, l)

OutNext == \E l \in Line : WriteLine(l)

OutSpec == OutInit /\ [][OutNext]_lines

-----------------------------------------------------------------------------
(* What a file says, without a loop *)

StartsHeredoc(i) == /\ lines[i].marks # <<>> /\ Head(lines[i].marks) = "<<"
                    /\ lines[i].key \in Name /\ ~Blank(Rest(lines[i]))

\* The last line of the heredoc that begins at i; an unterminated one has the whole rest.
EndOf(i) == IF Closing(i) = {} THEN Len(lines) ELSE Min(Closing(i))

\* The lines that are not inside a heredoc.
Heads == CHOOSE H \in SUBSET DOMAIN lines :
           \A i \in DOMAIN lines :
             i \in H <=> ~\E j \in H : j < i /\ StartsHeredoc(j) /\ i <= EndOf(j)

\* The heads that give the output k, and the value each gives it.
Gives(k) == {i \in Heads : /\ lines[i].marks # <<>> /\ lines[i].key = k
                           /\ Head(lines[i].marks) = "<<" => /\ StartsHeredoc(i)
                                                             /\ Closing(i) # {}}

Says(i) == IF StartsHeredoc(i) THEN SubSeq(lines, i + 1, EndOf(i) - 1)
            ELSE <<Rest(lines[i])>>

-----------------------------------------------------------------------------
(* Properties *)

\* "Malformed input is reported, never guessed at" (lib/protocol.js): an output is what the
\* last line or heredoc that names it says, whichever marker such a line has first; nothing
\* inside a heredoc is an output, and an unterminated one, as a cut file has, gives none.
\* Every line outside a heredoc is blank, or gives an output, or is complained of.  One name
\* vanishes all the same: what a step says of __proto__ is neither kept nor reported.
OutputsAsWritten ==
  LET parsed == Parse
  IN  /\ DOMAIN parsed.outputs = {k \in Name \ Special : Gives(k) # {}}
      /\ \A k \in DOMAIN parsed.outputs : parsed.outputs[k] = Says(Max(Gives(k)))
      /\ parsed.errors = Cardinality({i \in Heads : /\ ~Blank(lines[i])
                                                    /\ \A k \in Name : i \notin Gives(k)})
=============================================================================
