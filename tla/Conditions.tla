----------------------------- MODULE Conditions -----------------------------
(***************************************************************************)
(* evaluate (lib/interpolate.js): the parser and the evaluator of an `if:', *)
(* set against the grammar in the comment above them.                      *)
(*                                                                         *)
(* The state is a condition being written, token after token; whatever it  *)
(* is at the moment is parsed and run.  A value is what String() makes of  *)
(* it: a boolean is "true" or "false", and what truthy() says of these     *)
(* strings is what it says of the booleans.                                *)
(*                                                                         *)
(* run() works its way up the tree and changes nothing, so a parse returns *)
(* the value that run() makes of its node, and not the node.  What run()   *)
(* throws, it throws only of a condition that was parsed to its end.       *)
(*                                                                         *)
(* An operator that nothing uses is the following definition with a bug in *)
(* it, kept to show that the properties notice.                            *)
(***************************************************************************)
EXTENDS Naturals, Sequences

CONSTANTS Word,       \* tokens of type word: references, and names of functions
          Literal,    \* tokens of type string
          ValueOf,    \* what the known references and the literals are worth
          MaxTokens   \* bound: length of a condition

Function == {"success", "failure", "always", "cancelled"}

Mark == {"(", ")", "[", "]", ",", "==", "!=", "and", "or", "not", "in"}

Token == Mark \cup Word \cup Literal

\* What a node may be worth; "throws" is an exception, of the parser or of run().
Strings == {ValueOf[w] : w \in DOMAIN ValueOf} \cup {"true", "false"}

ASSUME TokensAssumption == /\ Mark \cap (Word \cup Literal) = {}
                           /\ Word \cap Literal = {}
                           /\ Literal \subseteq DOMAIN ValueOf
                           /\ DOMAIN ValueOf \subseteq Word \cup Literal
                           /\ "end" \notin Token /\ "throws" \notin Strings
                           /\ MaxTokens \in Nat

VARIABLES tokens,       \* what tokenize returns
          statusFailed  \* status.failed: whether a step has failed

condVars == <<tokens, statusFailed>>

-----------------------------------------------------------------------------
(* run(node) *)

Truthy(v) == v \notin {"", "false", "0"}

Bool(b) == IF b THEN "true" ELSE "false"

\* statusValue; the runner never says that it was cancelled
StatusValue(name) == CASE name = "always" -> "true"
                       [] name = "cancelled" -> "false"
                       [] name = "failure" -> Bool(statusFailed)
                       [] name = "success" -> Bool(~statusFailed)

\* resolvePath throws for a reference that is not known.
PathValue(w) == IF w \in DOMAIN ValueOf THEN ValueOf[w] ELSE "throws"

Compared(op, l, r) == IF "throws" \in {l, r} THEN "throws" ELSE Bool((l = r) <=> (op = "=="))

Verdict(v) == IF v = "throws" THEN v ELSE Bool(Truthy(v))

Negated(v) == IF v = "throws" THEN v ELSE Bool(~Truthy(v))

\* && and ||, and between two terms of a list the || that some() is: what the left one decides
\* keeps the right one from running.
Both(op, l, r) == IF l = "throws" \/ Truthy(l) = (op # "and") THEN Verdict(l) ELSE Verdict(r)

-----------------------------------------------------------------------------
(* The parser.  Each function returns its value with the position after it; a parse that    *)
(* throws returns the position of the token it could not use.                               *)

Pos == 1..Len(tokens) + 1

Peek(i) == IF i \in DOMAIN tokens THEN tokens[i] ELSE "end"

Throws(i) == [ok |-> FALSE, at |-> i, value |-> "throws"]

Parsed(value, i) == [ok |-> TRUE, at |-> i, value |-> value]

\* expect(type), then go on with the value
Expect(type, value, i) == IF Peek(i) = type THEN Parsed(value, i + 1) ELSE Throws(i)

ParseTerm(i) ==
  IF Peek(i) \in Literal THEN Parsed(ValueOf[Peek(i)], i + 1)
  ELSE IF Peek(i) \notin Word THEN Throws(i)
  ELSE IF Peek(i + 1) # "(" THEN Parsed(PathValue(Peek(i)), i + 1)
  ELSE IF Peek(i) \in Function THEN Expect(")", StatusValue(Peek(i)), i + 2)
  ELSE Throws(i)

\* One turn of a loop `while (op) { next(); parse one more }', f being what is parsed where.
Joined(op, f, left) ==
  LET right == f[left.at + 1]
  IN  IF ~left.ok \/ Peek(left.at) # op THEN left
      ELSE IF right.ok THEN Parsed(Both(op, left.value, right.value), right.at)
      ELSE right

ChainOnce(op, f, i) == Joined(op, f, f[i])

\* The loop, with turns to spare: without the token it needs a turn changes nothing.
Chain(op, f, i) ==
  LET turn[k \in 0..Len(tokens)] == IF k = 0 THEN f[i] ELSE Joined(op, f, turn[k - 1])
  IN  turn[Len(tokens)]

\* A term of the list that v is looked for in.
ParseItem(v, i) == LET t == ParseTerm(i) IN [t EXCEPT !.value = Compared("==", v, @)]

ParseIn(v, i) ==
  IF Peek(i) # "[" THEN Throws(i)
  ELSE IF Peek(i + 1) = "]" THEN Parsed(IF v = "throws" THEN v ELSE "false", i + 2)
  ELSE LET list == Chain(",", [j \in Pos |-> ParseItem(v, j)], i + 1)
       IN  IF list.ok THEN Expect("]", list.value, list.at) ELSE list

\* parseCompare without a parenthesis
ParseComparison(i) ==
  LET left == ParseTerm(i)
      right == ParseTerm(left.at + 1)
      op == Peek(left.at)
  IN  CASE ~left.ok -> left
        [] left.ok /\ op \in {"==", "!="} ->
             IF right.ok THEN Parsed(Compared(op, left.value, right.value), right.at) ELSE right
        [] left.ok /\ op = "in" -> ParseIn(left.value, left.at + 1)
        [] OTHER -> left

\* parseAnd and parseOr, by what parseUnary makes of the positions
Or(unary, i) == Chain("or", [j \in Pos |-> Chain("and", unary, j)], i)

\* parseUnary, by what it makes of the positions after this one
UnaryAt(unary, i) ==
  LET operand == unary[i + 1]
      inner == Or(unary, i + 1)
  IN  IF Peek(i) = "not" THEN
        IF operand.ok THEN Parsed(Negated(operand.value), operand.at) ELSE operand
      ELSE IF Peek(i) = "(" THEN
        IF inner.ok THEN Expect(")", inner.value, inner.at) ELSE inner
      ELSE ParseComparison(i)

\* What parseUnary makes of the last n tokens, from each of them on and from the end.
Unary[n \in 0..Len(tokens)] ==
  IF n = 0 THEN [i \in Pos |-> Throws(i)]
  ELSE LET later == Unary[n - 1]
           i == Len(tokens) + 1 - n
       IN  [later EXCEPT ![i] = UnaryAt(later, i)]

Ast == Or(Unary[Len(tokens)], 1)

\* What evaluate does: a blank condition holds; otherwise it is parsed to its end and run.
Evaluate ==
  LET ast == Ast
  IN  IF tokens = <<>> THEN "true"
      ELSE IF ~ast.ok \/ ast.at <= Len(tokens) THEN "invalid"
      ELSE Verdict(ast.value)

-----------------------------------------------------------------------------
CondInit == tokens = <<>> /\ statusFailed \in BOOLEAN

\* After a token the parser cannot use one more is written, in case it should have used it;
\* nothing after that is worth writing.
Promising == Ast.at >= Len(tokens)

Write(t) == tokens' = Append(tokens, t) /\ UNCHANGED statusFailed

CondNext == /\ Len(tokens) < MaxTokens /\ Promising
            /\ \E t \in Token : Write(t)

CondSpec == CondInit /\ [][CondNext]_condVars

-----------------------------------------------------------------------------
(* The grammar.  A phrase is a triple <<a, b, S>>: the tokens from a to b - 1, and the      *)
(* scopes in which they are true; a scope is the known one with the other words worth       *)
(* anything.                                                                                *)

Scopes == {[w \in Word \cup Literal |-> IF w \in DOMAIN ValueOf THEN ValueOf[w] ELSE other[w]] :
             other \in [Word \ DOMAIN ValueOf -> Strings]}

IsTerm(a, b) ==
  \/ b = a + 1 /\ Peek(a) \in Word \cup Literal
  \/ b = a + 3 /\ Peek(a) \in Function \cap Word /\ Peek(a + 1) = "(" /\ Peek(a + 2) = ")"

TermMeans(a, b, val) == IF b = a + 3 THEN StatusValue(Peek(a)) ELSE val[Peek(a)]

\* The places of the commas of a list cut it into terms.
Items(a, b) ==
  LET commas == {a - 1, b} \cup {i \in a..b - 1 : Peek(i) = ","}
  IN  {<<p[1] + 1, p[2]>> : p \in {p \in commas \X commas :
         p[1] < p[2] /\ \A i \in commas : ~(p[1] < i /\ i < p[2])}}

IsList(a, b) == a = b \/ \A item \in Items(a, b) : IsTerm(item[1], item[2])

\* An `in' with its list in brackets
IsIn(m, b) == /\ Peek(m) = "in" /\ Peek(m + 1) = "[" /\ Peek(b - 1) = "]"
              /\ m + 2 < b /\ IsList(m + 2, b - 1)

Listed(a, m, c, d) ==
  {val \in Scopes : c < d /\ \E item \in Items(c, d) :
                               TermMeans(item[1], item[2], val) = TermMeans(a, m, val)}

Comparisons(a, b) ==
  LET after == {m \in {a + 1, a + 3} : IsTerm(a, m)}
  IN  {{val \in Scopes : Truthy(TermMeans(a, m, val))} : m \in {m \in after : m = b}}
      \cup {{val \in Scopes : (TermMeans(a, m, val) = TermMeans(m + 1, b, val)) <=> Peek(m) = "=="} :
              m \in {m \in after : Peek(m) \in {"==", "!="} /\ IsTerm(m + 1, b)}}
      \cup {Listed(a, m, m + 2, b - 1) : m \in {m \in after : IsIn(m, b)}}

Joint(op, S, T) == IF op = "and" THEN S \cap T ELSE S \cup T

\* The phrases of n tokens that op makes of two.
Split(op, lefts, rights, n) ==
  {<<p[1][1], p[2][2], Joint(op, p[1][3], p[2][3])>> :
     p \in {p \in {l \in lefts : Peek(l[2]) = op} \X rights :
              p[2][1] = p[1][2] + 1 /\ p[2][2] = p[1][1] + n}}

\* The unary phrases of n tokens, by the shorter phrases
UnaryPhrases(g, n) ==
  (UNION {{<<a, a + n, S>> : S \in Comparisons(a, a + n)} :
            a \in {a \in DOMAIN tokens : Peek(a) \in Word \cup Literal}})
  \cup {<<p[1] - 1, p[2], Scopes \ p[3]>> :
          p \in {p \in g.unary : Peek(p[1] - 1) = "not" /\ p[2] + 1 = p[1] + n}}
  \cup {<<p[1] - 1, p[2] + 1, p[3]>> :
          p \in {p \in g.or : /\ Peek(p[1] - 1) = "(" /\ Peek(p[2]) = ")"
                              /\ p[2] + 2 = p[1] + n}}

\* The phrases in g and those of n tokens
Longer(g, n) ==
  LET unary == UnaryPhrases(g, n)
      and == unary \cup Split("and", g.and, g.unary, n)
      or == and \cup Split("or", g.or, g.and, n)
  IN  [unary |-> g.unary \cup unary, and |-> g.and \cup and, or |-> g.or \cup or]

Phrases ==
  LET g[n \in 0..Len(tokens)] == IF n = 0 THEN [unary |-> {}, and |-> {}, or |-> {}]
                                 ELSE Longer(g[n - 1], n)
  IN  g[Len(tokens)]

\* What the condition says: in which scopes it is true, as often as it can be read
Readings == {p[3] : p \in {p \in Phrases.or : p[1] = 1 /\ p[2] = Len(tokens) + 1}}

\* The references of the condition that the scope does not have; a function's name is none.
UnknownWords == {Peek(i) : i \in {i \in DOMAIN tokens : /\ Peek(i) \in Word \ DOMAIN ValueOf
                                                        /\ Peek(i + 1) # "("}}

-----------------------------------------------------------------------------
(* Properties *)

\* What evaluate (lib/interpolate.js) accepts is what the grammar in its comment allows, no
\* more and no less, and the grammar allows it in one sense only.  What it answers is what the
\* condition says; and where it answers although a reference is unknown, "a hard error"
\* elsewhere, that answer would be the same whatever the reference was worth: the short cuts
\* of and, or and in hide no decision.  It throws for an unknown reference, and for nothing
\* else that the grammar allows.
ConditionMeansWhatItSays ==
  \E answer \in {Evaluate} :
    CASE answer = "invalid" -> tokens # <<>> /\ Readings = {}
      [] answer = "throws" -> UnknownWords # {} /\ \E S \in Readings : Readings = {S}
      [] answer = "true" -> tokens = <<>> \/ Readings = {Scopes}
      [] answer = "false" -> Readings = {{}}
=============================================================================
