--------------------------- MODULE ReplRefinement ---------------------------
(***************************************************************************)
(* What the loop is for: the language it reads, defined without a lexer's  *)
(* state, a buffer or binding powers, and the printer of src/visitor.cpp.  *)
(***************************************************************************)
EXTENDS Repl

CONSTANT Written      \* the scripts among the texts, as sequences of trees

(***************************************************************************)
(* The trees that a sequence of tokens writes.                             *)
(*                                                                         *)
(*   sum      ::=  product  |  sum + product  |  sum - product             *)
(*   product  ::=  apply  |  product * apply                               *)
(*   apply    ::=  operand  |  apply argument                              *)
(*   argument ::=  number  |  variable  |  ( sum )                         *)
(*   operand  ::=  argument  |  fn variable => sum                         *)
(*                           |  if sum then sum else sum                   *)
(*                                                                         *)
(* A fn or an if reaches as far to the right as it can, so one that is not *)
(* last in its sum needs parentheses.                                      *)
(***************************************************************************)
Sum == 0
Product == 1
Apply == 2
Operand == 3
Argument == 4

LevelOf == [Plus |-> Sum, Minus |-> Sum, Times |-> Product]

\* The positions of token in ts.
At(ts, token) == {i \in 1..Len(ts) : ts[i].token = token}

RECURSIVE Trees(_, _, _)
\* The trees of the tokens ts at a level; last: nothing follows in the sum.
Trees(ts, level, last) ==
    LET n == Len(ts)
        Tok(i) == IF i \in 1..n THEN ts[i].token ELSE Eof
        Part(i, j, l, e) == Trees(SubSeq(ts, i, j), l, e)
        Leaf == CASE n # 1 -> {}
                  [] Tok(1) = "Number"     -> {IntExp(i) : i \in Converted(ts[1].word)}
                  [] Tok(1) = "Identifier" -> {VarExp(ts[1].word)}
                  [] OTHER -> {}
        Parens == IF Tok(1) = "(" /\ Tok(n) = ")" THEN Part(2, n - 1, Sum, TRUE) ELSE {}
        Bop(b, i) == {BopExp(b, d, e) : d \in Part(1, i - 1, LevelOf[b], FALSE),
                                        e \in Part(i + 1, n, LevelOf[b] + 1, last)}
        App(i) == {AppExp(f, e) : f \in Part(1, i - 1, Apply, FALSE),
                                  e \in Part(i, n, Argument, FALSE)}
        Lam == IF last /\ Tok(1) = "Fn" /\ Tok(2) = "Identifier" /\ Tok(3) = "Arrow"
               THEN {LamExp(ts[2].word, e) : e \in Part(4, n, Sum, TRUE)} ELSE {}
        If(i, j) == {IfExp(c, t, e) : c \in Part(2, i - 1, Sum, TRUE),
                                      t \in Part(i + 1, j - 1, Sum, TRUE),
                                      e \in Part(j + 1, n, Sum, TRUE)}
    IN  Leaf \cup Parens
          \cup UNION {Bop(b, i) : <<b, i>> \in
                  {<<b, i>> \in Bops \X (1..n) : level <= LevelOf[b] /\ Tok(i) = Sign[b]}}
          \cup (IF level > Apply THEN {}
                ELSE UNION {App(i) : i \in {i \in 2..n : i = n \/ (Tok(i) = "(" /\ Tok(n) = ")")}})
          \cup (IF level > Operand THEN {} ELSE Lam)
          \cup (IF level > Operand \/ ~last \/ Tok(1) # "If" THEN {}
                ELSE UNION {If(i, j) : i \in At(ts, "Then"), j \in At(ts, "Else")})

\* The trees of the tokens of the text from one to another.
TreesBetween(i, j) == Trees(SubSeq(Tokens[text], i, j), Sum, TRUE)

(***************************************************************************)
(* operator<< of an Exp, PrintExpVisitor, and a script: printed trees with *)
(* a semicolon behind each.                                                *)
(***************************************************************************)
RECURSIVE Figures(_)
Figures(i) ==
    IF i < 10 THEN <<Numeral[i + 1]>> ELSE Figures(i \div 10) \o <<Numeral[(i % 10) + 1]>>

Parenthesized(s) == <<"(">> \o s \o <<")">>

RECURSIVE Printed(_)
Printed(e) ==
    LET kid(i) == Printed(e.kids[i])
    IN  CASE e.tag = "Int" -> Figures(e.int)
          [] e.tag = "Var" -> e.name
          [] e.tag = "Lam" -> Parenthesized(<<"f", "n", " ">> \o e.name
                                              \o <<" ", "=", ">", " ">> \o kid(1))
          [] e.tag = "App" -> Parenthesized(kid(1) \o <<" ">> \o kid(2))
          [] e.tag = "Bop" -> Parenthesized(kid(1) \o <<" ", Sign[e.bop], " ">> \o kid(2))
          [] e.tag = "If"  -> Parenthesized(<<"i", "f", " ">> \o kid(1)
                                \o <<" ", "t", "h", "e", "n", " ">> \o kid(2)
                                \o <<" ", "e", "l", "s", "e", " ">> \o kid(3))

Script(trees) == FlattenSeq([i \in 1..Len(trees) |-> Append(Printed(trees[i]), ";")])

Scripts == {[text |-> Script(trees), trees |-> trees] : trees \in Written}

(***************************************************************************)
(* What becomes of a tree: rename() throws if it is open (Rename), the     *)
(* conversion if it applies an integer literal (AnfDefunc), and one that   *)
(* calls a function or has branches may crash (Lower) or run for ever.     *)
(***************************************************************************)
RECURSIVE IsOpen(_, _)
IsOpen(e, bound) ==
    \/ e.tag = "Var" /\ e.name \notin bound
    \/ \E i \in 1..Len(e.kids) :
          IsOpen(e.kids[i], IF e.tag = "Lam" THEN bound \cup {e.name} ELSE bound)

RECURSIVE Parts(_)
Parts(e) == {e} \cup UNION {Parts(e.kids[i]) : i \in 1..Len(e.kids)}

FateOf(e) ==
    CASE IsOpen(e, {}) -> {"NotInScope"}
      [] ~IsOpen(e, {}) /\ \E p \in Parts(e) : p.tag = "App" /\ p.kids[1].tag = "Int" ->
            {"runtime_error"}
      [] OTHER -> {"returns"} \cup
            (IF \E p \in Parts(e) : p.tag \in {"App", "If"} THEN {"lost"} ELSE {})
-----------------------------------------------------------------------------
(***************************************************************************)
(* main gets a tree that the tokens of this input write, with the text of  *)
(* every variable and number, and the parser has not stopped early: no     *)
(* more tokens would have been an expression, too.                         *)
(***************************************************************************)
ReadsTheGrammar ==
    status = "parsed" =>
        /\ value[1] \in TreesBetween(from + 1, taken)
        /\ \A k \in (taken + 1)..Len(Tokens[text]) : TreesBetween(from + 1, k) = {}

(***************************************************************************)
(* An input is refused, by an exception or an assertion, only at a token   *)
(* with which no expression goes on.                                       *)
(***************************************************************************)
RefusesOnlyNonsense ==
    status \in {"thrown", "aborted"} =>
        \A k \in taken..Len(Tokens[text]) : TreesBetween(from + 1, k) = {}

(***************************************************************************)
(* A script of printed trees is read back, and evaluated tree by tree in   *)
(* order; a tree with a free variable is left out and costs no other.  An  *)
(* exception leaves main only for a tree that applies an integer, which is *)
(* then the next in order: nothing was skipped, nothing behind it is run.  *)
(***************************************************************************)
EvaluatesWhatIsWritten ==
    \A script \in {script \in Scripts : script.text = text} :
        LET closed == SelectSeq(script.trees, LAMBDA e : "NotInScope" \notin Fate(e))
        IN  /\ IsPrefix(shown, closed)
            /\ status = "ended" => shown = closed
            /\ status # "aborted"
            /\ status = "terminated" =>
                    Len(shown) < Len(closed) /\ "runtime_error" \in Fate(closed[Len(shown) + 1])
=============================================================================
