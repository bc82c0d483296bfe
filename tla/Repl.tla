-------------------------------- MODULE Repl --------------------------------
(***************************************************************************)
(* src/main.cpp: the loop that reads an expression, compiles it and runs   *)
(* it.  Lexer, parser and arena live as long as the program, so a token    *)
(* that was peeked for one expression is read by the next one, and what is *)
(* left of a line after an error is the next input.                        *)
(*                                                                         *)
(* What becomes of a tree behind the parser is the subject of the other    *)
(* modules; here it is Fate(tree), the ways it can end:                    *)
(*   "NotInScope"     rename() throws, which the loop catches              *)
(*   "runtime_error"  convertDefunc throws, which nobody catches           *)
(*   "returns"        it is evaluated, and the loop goes on                *)
(*   "lost"           it crashes or runs for ever                          *)
(***************************************************************************)
EXTENDS Parser, Lexemes

CONSTANT Fate(_)

VARIABLES
    from,      \* history: taken when the present input began
    shown      \* history: the trees that were evaluated

vars == <<text, lexer, currentToken, peekToken, calls, value, used, status,
          taken, from, shown>>

Init ==
    /\ InitParser
    /\ status = "loop"
    /\ from = 0 /\ shown = <<>>

\* Slip: the arena keeps what the last input left.
ResetForgotten == UNCHANGED used

\* allocator.reset() at the head of the loop.
Reset == used' = 0

\* Slip: the semicolon stays in the buffer.
SkipSemicolonPeeked ==
    /\ status = "loop" /\ peekToken = ";"
    /\ Reset
    /\ UNCHANGED <<text, calls, value, status, from, shown, tokenVars>>

\* A semicolon is in the buffer: it is consumed.
SkipSemicolon ==
    /\ status = "loop" /\ peekToken = ";"
    /\ Reset
    /\ NextToken
    /\ UNCHANGED <<text, calls, value, status, from, shown>>

\* The prompt: unless the next token is a semicolon an expression is read.
Prompt ==
    /\ status = "loop" /\ peekToken # ";"
    /\ Reset
    /\ Peek
    /\ from' = taken
    /\ IF peekToken' = ";" THEN UNCHANGED <<calls, status>>
       ELSE status' = "parsing" /\ calls' = <<BinOpCall(0)>>
    /\ UNCHANGED <<text, value, shown>>

ParseExpression == ParserStep /\ UNCHANGED <<from, shown>>

Abandon == calls' = <<>> /\ value' = <<>>

\* A ParserException: the end of the input ends the loop, anything else goes
\* back to its head.
Catch ==
    /\ status = "thrown"
    /\ status' = IF currentToken = Eof THEN "ended" ELSE "loop"
    /\ Abandon
    /\ UNCHANGED <<text, used, from, shown, tokenVars>>

\* Slip: no exception goes back to the head of the loop.
EvaluateOrStop ==
    /\ status = "parsed"
    /\ \E fate \in Fate(value[1]) :
          /\ status' = IF fate = "returns" THEN "loop" ELSE "ended"
          /\ shown' = IF fate = "returns" THEN shown \o value ELSE shown
    /\ value' = <<>>
    /\ UNCHANGED <<text, calls, used, from, tokenVars>>

\* rename and everything after it.
Evaluate ==
    /\ status = "parsed"
    /\ \E fate \in Fate(value[1]) :
          /\ \/ fate \in {"NotInScope", "returns"} /\ status' = "loop"
             \/ fate = "runtime_error" /\ status' = "terminated"
             \/ fate = "lost" /\ status' = "lost"
          /\ shown' = IF fate = "returns" THEN shown \o value ELSE shown
    /\ value' = <<>>
    /\ UNCHANGED <<text, calls, used, from, tokenVars>>

Over == {"ended", "aborted", "bad_alloc", "terminated", "lost"}

Terminated == status \in Over /\ UNCHANGED vars

Next ==
    \/ SkipSemicolon \/ Prompt \/ ParseExpression \/ Catch \/ Evaluate
    \/ Terminated

Spec == Init /\ [][Next]_vars

\* The loop waits for nothing but characters, and the text is all there.
FairSpec == Spec /\ WF_vars(Next)
-----------------------------------------------------------------------------
Tokens == [t \in Texts |-> Lexemes(t)]

TokenAt(i) == IF i > Len(Tokens[text]) THEN Eof ELSE Tokens[text][i].token

(***************************************************************************)
(* The tokens are delivered in order, none twice and none left out, across *)
(* peeks, nested calls, errors and inputs: nextToken has handed out the    *)
(* first taken tokens of the text, and the buffer holds the one after.     *)
(***************************************************************************)
TokensInOrder ==
    /\ taken > 0 => currentToken = TokenAt(taken)
    /\ peekToken # "none" => peekToken = TokenAt(taken + 1)

(***************************************************************************)
(* Memory is per input: however many were evaluated before, and whatever   *)
(* an abandoned one left in the arena, an allocation is refused only when  *)
(* this input alone, which makes less than two Exps of a token, fills it.  *)
(***************************************************************************)
MemoryPerInput == status = "bad_alloc" => Capacity < 2 * (taken - from)

(***************************************************************************)
(* The loop reads its input up: it ends, at the end of the text, with a    *)
(* failed assertion, or with an exception nobody catches, unless an        *)
(* evaluation does not come back.  An error never makes it read the same   *)
(* token for ever.                                                         *)
(***************************************************************************)
ReadsItsInput == <>(status \in Over)
=============================================================================
