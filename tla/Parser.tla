------------------------------- MODULE Parser -------------------------------
(***************************************************************************)
(* src/parser.cpp: tokens become a tree, by precedence climbing with one   *)
(* token of lookahead.                                                     *)
(*                                                                         *)
(* The C++ call stack is the variable calls, a stack of activations.  An   *)
(* activation of parsePrimary is not kept: what parseFn, parseIf and       *)
(* parseParens return goes through it into the lhs of the parseBinOp       *)
(* below.  parseExpression is parseBinOp(0).  There is no local recovery:  *)
(* a wrong token throws, fails an assertion (the build keeps them), or     *)
(* ends the expression.                                                    *)
(***************************************************************************)
EXTENDS Lexer, FiniteSets

CONSTANTS
    Texts,        \* what can be typed
    Capacity      \* Exps that have room in the arena

ASSUME CapacityAssumption == Capacity \in Nat

\* A text is characters; "none" is what the buffer holds when it is empty.
ASSUME TextsAssumption ==
    \A t \in Texts : t \in Seq(Range(t)) /\ Range(t) \cap (Enumerators \cup {"none"}) = {}

VARIABLES
    text,         \* the characters of the stream
    lexer,
    currentToken,
    peekToken,    \* the buffered token, or "none"
    calls,        \* the activations, the innermost one at the end
    value,        \* <<>>, or the tree that was just returned
    used,         \* Exps in the arena
    status,
    taken         \* history: the tokens that nextToken has delivered

tokenVars == <<lexer, currentToken, peekToken, taken>>

\* The Exps: include/ast.h.
Exp(tag, name, int, bop, kids) ==
    [tag |-> tag, name |-> name, int |-> int, bop |-> bop, kids |-> kids]

IntExp(i)       == Exp("Int", <<>>, i, "", <<>>)
VarExp(x)       == Exp("Var", x, 0, "", <<>>)
LamExp(x, e)    == Exp("Lam", x, 0, "", <<e>>)
AppExp(f, e)    == Exp("App", <<>>, 0, "", <<f, e>>)
BopExp(b, d, e) == Exp("Bop", <<>>, 0, b, <<d, e>>)
IfExp(c, t, e)  == Exp("If", <<>>, 0, "", <<c, t, e>>)

\* parseOp, and the binding powers main gives the operators.
Bops == {"Plus", "Minus", "Times"}
Sign == [Plus |-> "+", Minus |-> "-", Times |-> "*"]
IsOp(token)    == \E b \in Bops : Sign[b] = token
ParseOp(token) == CHOOSE b \in Bops : Sign[b] = token

LeftBP == [Plus |-> 1, Minus |-> 1, Times |-> 3]

\* Slip: operators of one level associate to the right.
RightBPSame == [Plus |-> 1, Minus |-> 1, Times |-> 3]

RightBP == [Plus |-> 2, Minus |-> 2, Times |-> 4]

AppLBP == 100
AppRBP == 101

StartsArg(token) == token \in {"(", "Number", "Identifier"}

\* Activations.  op is what parseBinOp will make of lhs and the operand that
\* it is waiting for.
BinOp(minBP, lhs, op) == [fn |-> "parseBinOp", minBP |-> minBP, lhs |-> lhs, op |-> op]
BinOpCall(minBP) == BinOp(minBP, <<>>, "")
FnCall(param)    == [fn |-> "parseFn", param |-> param]
IfCall(kids)     == [fn |-> "parseIf", kids |-> kids]
ParensCall       == [fn |-> "parseParens"]

InitParser ==
    /\ text \in Texts
    /\ lexer = InitLexer
    /\ currentToken = Eof /\ peekToken = "none" /\ taken = 0
    /\ calls = <<>> /\ value = <<>>
    /\ used = 0
-----------------------------------------------------------------------------
(***************************************************************************)
(* The token buffer.                                                       *)
(***************************************************************************)
\* The tokens nextToken and peekToken can see, with the lexer afterwards.
Upcoming ==
    IF peekToken = "none" THEN GetToken(text, lexer)
    ELSE {[token |-> peekToken, lexer |-> lexer]}

\* Slip: the buffer is not emptied.
NextTokenKept ==
    /\ \E next \in Upcoming : currentToken' = next.token /\ lexer' = next.lexer
    /\ taken' = taken + 1
    /\ UNCHANGED peekToken

NextToken ==
    /\ \E next \in Upcoming : currentToken' = next.token /\ lexer' = next.lexer
    /\ taken' = taken + 1
    /\ peekToken' = "none"

Peek ==
    /\ \E next \in Upcoming : peekToken' = next.token /\ lexer' = next.lexer
    /\ UNCHANGED <<currentToken, taken>>

(***************************************************************************)
(* make: one more Exp in the arena, which becomes the lhs of the last      *)
(* activation of a stack.  The arena refuses the last place it has.        *)
(***************************************************************************)
Receive(stack, exp) ==
    Append(Front(stack), BinOp(Last(stack).minBP, <<exp>>, ""))

Make(stack, exp) ==
    \/ /\ used + 1 < Capacity
       /\ used' = used + 1
       /\ calls' = Receive(stack, exp)
       /\ UNCHANGED status
    \/ /\ used + 1 >= Capacity
       /\ status' = "bad_alloc"
       /\ UNCHANGED <<used, calls>>

Top == Last(calls)
Below == Front(calls)

In(fn) == status = "parsing" /\ calls # <<>> /\ Top.fn = fn
-----------------------------------------------------------------------------
(***************************************************************************)
(* parseBinOp, first the operand: parsePrimary.                            *)
(***************************************************************************)
\* parseBinOp reads a token and calls parsePrimary.
ReadOperand ==
    In("parseBinOp") /\ Top.lhs = <<>> /\ NextToken

ReadLeaf ==
    /\ ReadOperand
    /\ \/ currentToken' = "Number" /\ Make(calls, IntExp(lexer'.number))
       \/ currentToken' = "Identifier" /\ Make(calls, VarExp(lexer'.identifier))
    /\ UNCHANGED <<text, value>>

\* parseParens and parseIf begin with a parseExpression.
ReadOpening ==
    /\ ReadOperand /\ currentToken' \in {"(", "If"}
    /\ calls' = calls \o <<IF currentToken' = "(" THEN ParensCall ELSE IfCall(<<>>), BinOpCall(0)>>
    /\ UNCHANGED <<text, value, used, status>>

ReadFn ==
    /\ ReadOperand /\ currentToken' = "Fn"
    /\ calls' = Append(calls, FnCall(<<>>))
    /\ UNCHANGED <<text, value, used, status>>

\* parsePrimary throws a ParserException.
Throw ==
    /\ ReadOperand /\ currentToken' \notin {"Number", "Identifier", "(", "If", "Fn"}
    /\ status' = "thrown"
    /\ UNCHANGED <<text, calls, value, used>>

(***************************************************************************)
(* parseBinOp, then the loop: what the buffered token does to lhs.         *)
(***************************************************************************)
InLoop == In("parseBinOp") /\ Top.lhs # <<>> /\ value = <<>>

PeekOp ==
    /\ InLoop /\ peekToken = "none"
    /\ Peek
    /\ UNCHANGED <<text, calls, value, used, status>>

Continue(op, rbp) ==
    calls' = Below \o <<BinOp(Top.minBP, Top.lhs, op), BinOpCall(rbp)>>

TakesOp  == IsOp(peekToken) /\ LeftBP[ParseOp(peekToken)] >= Top.minBP
TakesArg == StartsArg(peekToken) /\ AppLBP >= Top.minBP

TakeOp ==
    /\ InLoop /\ TakesOp
    /\ NextToken
    /\ Continue(ParseOp(peekToken), RightBP[ParseOp(peekToken)])
    /\ UNCHANGED <<text, value, used, status>>

\* Slip: the first token of the argument is taken like an operator.
TakeArgConsumed ==
    /\ InLoop /\ TakesArg
    /\ NextToken
    /\ Continue("App", AppRBP)
    /\ UNCHANGED <<text, value, used, status>>

TakeArg ==
    /\ InLoop /\ TakesArg
    /\ Continue("App", AppRBP)
    /\ UNCHANGED <<text, value, used, status, tokenVars>>

\* parseBinOp returns lhs.
ReturnLhs ==
    /\ InLoop /\ peekToken # "none" /\ ~TakesOp /\ ~TakesArg
    /\ value' = Top.lhs
    /\ calls' = Below
    /\ status' = IF Below = <<>> THEN "parsed" ELSE status
    /\ UNCHANGED <<text, used, tokenVars>>

\* The right operand, or the argument, has been returned.
Combine ==
    /\ In("parseBinOp") /\ value # <<>>
    /\ Make(calls, IF Top.op = "App" THEN AppExp(Top.lhs[1], value[1])
                   ELSE BopExp(Top.op, Top.lhs[1], value[1]))
    /\ value' = <<>>
    /\ UNCHANGED <<text, tokenVars>>
-----------------------------------------------------------------------------
(***************************************************************************)
(* parseFn, parseIf, parseParens.                                          *)
(***************************************************************************)
ReadParam ==
    /\ In("parseFn") /\ Top.param = <<>>
    /\ NextToken /\ currentToken' = "Identifier"
    /\ calls' = Append(Below, FnCall(lexer'.identifier))
    /\ UNCHANGED <<text, value, used, status>>

ReadArrow ==
    /\ In("parseFn") /\ Top.param # <<>> /\ value = <<>>
    /\ NextToken /\ currentToken' = "Arrow"
    /\ calls' = Append(calls, BinOpCall(0))
    /\ UNCHANGED <<text, value, used, status>>

MakeLam ==
    /\ In("parseFn") /\ value # <<>>
    /\ Make(Below, LamExp(Top.param, value[1]))
    /\ value' = <<>>
    /\ UNCHANGED <<text, tokenVars>>

Separator == <<"Then", "Else">>

ReadBranch ==
    /\ In("parseIf") /\ value # <<>> /\ Len(Top.kids) < 2
    /\ NextToken /\ currentToken' = Separator[Len(Top.kids) + 1]
    /\ calls' = Below \o <<IfCall(Top.kids \o value), BinOpCall(0)>>
    /\ value' = <<>>
    /\ UNCHANGED <<text, used, status>>

MakeIf ==
    /\ In("parseIf") /\ value # <<>> /\ Len(Top.kids) = 2
    /\ Make(Below, IfExp(Top.kids[1], Top.kids[2], value[1]))
    /\ value' = <<>>
    /\ UNCHANGED <<text, tokenVars>>

\* The tree in parentheses is returned as it is.
CloseParens ==
    /\ In("parseParens") /\ value # <<>>
    /\ NextToken /\ currentToken' = ")"
    /\ calls' = Receive(Below, value[1])
    /\ value' = <<>>
    /\ UNCHANGED <<text, used, status>>

\* The token an assertion demands next, if the next thing is an assertion.
Demanded ==
    IF value = <<>>
    THEN IF ~In("parseFn") THEN {}
         ELSE IF Top.param = <<>> THEN {"Identifier"} ELSE {"Arrow"}
    ELSE IF In("parseParens") THEN {")"}
    ELSE IF In("parseIf") /\ Len(Top.kids) < 2 THEN {Separator[Len(Top.kids) + 1]}
    ELSE {}

AssertionFails ==
    /\ Demanded # {}
    /\ NextToken /\ currentToken' \notin Demanded
    /\ status' = "aborted"
    /\ UNCHANGED <<text, calls, value, used>>

ParserStep ==
    \/ ReadLeaf \/ ReadOpening \/ ReadFn \/ Throw
    \/ PeekOp \/ TakeOp \/ TakeArg \/ ReturnLhs \/ Combine
    \/ ReadParam \/ ReadArrow \/ MakeLam \/ ReadBranch \/ MakeIf \/ CloseParens
    \/ AssertionFails
=============================================================================
