# A verification development for lambcalc-cpp

lambcalc-cpp compiles a small lambda calculus with integers to LLVM IR and runs it in a
REPL.  Its passes avoid recursion: each one is a loop over an explicit stack of tasks,
closures and frames, working in place on trees of `unique_ptr` nodes, and that is where
they can go wrong.  This directory models the passes in TLA+, checks them with TLC on
every small program, and proves with TLAPS what holds for every program.  In front of the
passes it models the lexer, the parser, the arena and the loop of the REPL, and behind them
the destructors that take the trees down.

## The system

| component | state | operations | interacts with |
|---|---|---|---|
| lexer (`src/lexer.cpp`) | the look-ahead character, the last identifier and number | `getToken` | read by the parser |
| parser (`src/parser.cpp`) | the current and one buffered token | Pratt parsing by recursive descent | lexer registers, arena |
| arena (`include/arena.h`) | a bump pointer | `allocate`, `reset` | nodes of the parser |
| alpha renaming (`src/rename.cpp`) | a stack of tasks, one mutable map, a counter | visit, restore | overwrites the source tree |
| A-normal form (`src/anf.cpp`) | registers, two stacks of frames, a static counter | `go`, `apply_k`, `apply_k2` | reads the source tree, makes the term |
| closure conversion (`src/convert.cpp`) | a stack of tasks, a parent link, a set of free variables | visit, deferred rewrites | rewrites the term in place |
| hoisting (`src/hoist.cpp`) | a stack of tasks, blocks and functions collected so far | visit, deferred moves | takes the term apart |
| lowering (`src/lower.cpp`) | maps from names to values, blocks and stack slots | one visit for each node | LLVM's IRBuilder |
| REPL (`src/main.cpp`) | what survives an input: peeked token, static counter, arena | the loop, error recovery | all of the above |
| worklist visitors (`include/visitor.h`) | a stack or a queue | push the children, push closures | base classes of all passes |
| destructors (`src/ast.cpp`, `src/anf.cpp`) | a queue for each activation | take children out, let nodes go | run by every `unique_ptr` |
| printer (`src/visitor.cpp`) | none | `operator<<` | writes what the parser reads |
| JIT (`include/KaleidoscopeJIT.h`) | sessions and layers of LLVM ORC | add, look up, remove | vendored |

The program is sequential.  Each pass consumes what the pass before produced and nothing
runs at the same time, but inside a pass control is inverted: a closure pushed on a stack
runs long after it was made, over nodes that were moved, rewritten or destroyed since.
The hard behaviours are therefore of this kind:

- **order on the stack**: what restores a binding, collects a function, or ends a branch
  must run after exactly the right tasks;
- **stale pointers**: closures hold references to nodes and to the links that own them
  while other closures replace and free nodes;
- **moved-from state**: the shared registers of `convertDefunc` and the nodes of `hoist`
  are read after parts of them were moved elsewhere;
- **names**: four counters make up names that are compared as strings, with user names;
- **failure**: an exception leaves a pass half done, or an input half read: the loop goes on
  with the token in the buffer and the memory as they are;
- **boundaries**: one token of lookahead that several loops decide on, the last byte of the
  arena, a number that is no `int`, a tree deeper than the C++ stack.

What makes each component correct, and what is stated below:

- renaming: the map is the lexical environment whenever a task is taken, every variable
  follows its binder, exceptions mean an open program;
- A-normal form: the loop makes what the recursive conversion makes; branches end at the
  right join point; no register is read after it was moved; the meaning is kept;
- closure conversion: no dangling link, no lost or doubled code, closed functions, the
  meaning is kept;
- hoisting: the same, and straight-line blocks with unique names;
- lowering: every value is defined where it is used, and the meaning is kept;
- lexer, parser, REPL: tokens are delivered in order, the trees are those of the grammar,
  what is refused is no expression, a script is evaluated tree by tree, the loop ends;
- arena: objects are apart, aligned and inside; it refuses only what does not fit;
- destructors: every node goes once, and the C++ stack stays flat.

## Modules

    Names <- Ast <- Rename <- RenameProofs                 alpha renaming
                 <- AstLemmas                               lemmas of the proof modules
                 <- AstGen                                  all small programs
                 <- Anf <- AnfDefunc <- AnfDefuncProofs     conversion to A-normal form
                        <- AnfConvert                       the same, recursively
                        <- AnfHeap <- FreeVars <- ClosureConvert <- ClosureConvertProofs
                                   <- Hoist <- HoistProofs
                        <- ClosureTerms, HoistTerms         the same, as functions on terms
                        <- Lower                            lowering
    AnfTerms, Meaning                                       terms and what they compute
    Lexer <- Parser <- Repl <- ReplRefinement               from characters to evaluated trees
          <- Lexemes <- Repl <- ReplProofs                  order of tokens, memory of an input
    Arena <- ArenaProofs                                    memory of the parser
    Destroy <- DestroyProofs                                ~Exp
    AnfRefinement, ClosureRefinement, HoistRefinement,
    LowerRefinement                                         a pass against its specification
    AnfInputs, MC*                                          instances for TLC

**Names and trees.**  An identifier is a base and its trailing digits (`Names`), because
`fresh` appends a decimal counter to a string and two such strings are equal exactly when
both parts are; everything else about spelling is left out.  A program (`Ast`) is a tree
in memory: for each address a tag, a string, a datum and children.  Terms of the
intermediate language (`Anf`) are nodes in a heap, and a link (`AnfHeap`) is the place of
a `unique_ptr`, so that moving, replacing and destroying a node are visible.

**A pass** is a state machine with one action for each visitor and each closure of the
code, and its stack of tasks as a sequence with the top at the end.  A `FnTask` is a
record named for what the closure does that holds what the closure captured.  Pushing the
children, setting the parent link and popping the task are part of the action.

| module | code | state | actions |
|---|---|---|---|
| `Rename` | `rename` | `worklist`, `renameMap`, `counter`, the tree | `VisitLam`, `VisitVar`, `NotInScope`, `VisitOther`, `RunRestore`, `Return` |
| `AnfDefunc` | `convertDefunc` | `goExp`, `k2Exp`, `k`, `k2`, `value`, `dispatch` | one for each case of `go`, `apply_k` and `apply_k2` |
| `FreeVars` | `freeVars` | the set and the stack of one call | collect, erase; a part of `ClosureConvert`, which runs it on its own heap |
| `ClosureConvert` | `closureConvert` | heap, freed nodes, root, stack, counter | `EnterFreeVars`, `InFreeVars`, `VisitFun`, `VisitApp`, the other nodes, the deferred rewrite of an `AppExp` |
| `Hoist` | `hoist` | heap, freed nodes, `currentJoins`, `collected`, stack | the visitors, and collect, block, branch and rest closures |
| `Lower` | `lowerModule` | the three maps, the insert point, the module | declare, start a function, start a block, one for each node, `Crash` |
| `Lexer` | `Lexer` | the position of the one character, identifier, number | `getToken` as a function from a lexer to the tokens and lexers that can follow |
| `Parser` | `Parser` | both tokens, the activations of the C++ stack, the value just returned, nodes in the arena | one for each way `parsePrimary` and the loop of `parseBinOp` can go, the continuations of `parseFn`, `parseIf`, `parseParens`, and failing assertions |
| `Repl` | `main` | status of the loop, what was evaluated | skip a semicolon, prompt, parse, catch, evaluate |
| `Arena` | `Allocator` | `begin_`, `orig_`, `end_` | allocate, refuse, reset |
| `Destroy` | both `~Exp` | the links of the nodes, activations with their queues | visit, skip a null task, take a task, let it go, return |

**The front end.**  The stream is a sequence of characters that does not change, and the
lexer a position in it, so what was read twice or skipped shows.  The C++ call stack of the
parser is a variable: a peeked token survives the return of the functions that peeked it, a
`ParserException` drops all activations and keeps the buffer, and an assertion (there is no
build type in `CMakeLists.txt`, so they are compiled in) ends the program.  `Repl` puts the
parser and the reset of the arena under the loop of `main`; what the passes make of a tree
is the constant operator `Fate`, which `ReplRefinement` defines from what the other modules
show: open trees throw in `rename`, applied integers throw in `convertDefunc`, and trees
with calls or branches may also crash in `lower` or run for ever.  The conversion of a
number that is no `int` is undefined and yields the least or the largest one, as x86 and
ARM do.

**The destructors** of `ast.cpp` and of `anf.cpp` are the same code, so `Destroy` is one
module over nodes that have links.  When a task dies, the node in it is destroyed by an
activation of `~Exp` of its own: the nesting of activations is a variable.

**Specifications.**  `Lexemes` states the tokens of a text without a lexer, and
`ReplRefinement` the language as a grammar that says of every sequence of tokens which trees
it writes, without binding powers or a buffer; beside it stands the printer.  `AnfConvert`
is the recursive conversion of `anf.cpp` (`convert`), with its exception, from which the loop
was derived by hand; `ClosureTerms` and `HoistTerms` say as functions
on whole terms what those passes make, name for name.  `Meaning` says what programs,
terms and functions of blocks compute; it is recursive and only for TLC.  The `*Refinement`
modules relate the state of a pass to these.

**Slips.**  An operator whose comment begins with "Slip" is a plausible bug next to the
definition it would replace.  No specification uses one; each property of a run is
known to fail when one of them takes the place of the definition.

## The runs

All runs start from complete sets of small inputs made the way the program makes them:
source trees are enumerated, renamed with the definition `AlphaRenamed` that the run
`rename` shows the code to implement, converted with `AnfConvert`, and so on.

| run | instance | what it shows |
|---|---|---|
| `rename` | all programs of at most 5 nodes, 2 variables, open ones included; eleven nested parameters | the map is the lexical scope at every visit, exceptions are raised exactly for open programs, the result is the renaming defined without a walk, no string is written twice, and parameters can collide only if their trailing digits differ in number (the counter gets two digits here) |
| `rename_capture` | eleven nested parameters | **violated**: `x1` and counter 0 collide with `x` and counter 10 |
| `anf` | renamed closed programs of at most 7 nodes, and nested ifs; counter from 8, so that it passes 9 | all of the properties of the loop, and equality with the recursive conversion, exceptions included (the loop draws more names before it throws) |
| `anf_tmp` | the same with a user variable `tmp` | **violated**: `tmp0` is bound twice |
| `closure` | terms of programs of at most 7 nodes, functions that capture two variables, nested ifs | every walk of `freeVars` over the half-converted term finds the free variables, no dangling link, unique owners, distinct locals, the textbook result, the meaning |
| `closure_names` | two applied functions, one parameter called `closure` | **violated**: the made-up parameter collides with it, and the result differs |
| `hoist` | the converted terms of the same programs | no dangling link, unique owners, flat blocks that jump inside their function, the functions that hoisting is defined to make, the meaning |
| `lower` | the hoisted functions of the same programs | definitions dominate uses, blocks are terminated once, and the LLVM function `main` returns what the blocks compute |
| `lower_crash` | the same | **violated**: a block is lowered before the block whose slot it reads |
| `repl` | all texts of at most 4 pieces, all sequences of 3 tokens, 5 tokens in the shape of sums, thousands of functions and ifs, most of them nonsense, sessions of 7 inputs, and scripts of printed trees | tokens in order across errors and inputs, trees as the grammar says, nothing refused that is an expression, scripts evaluated tree by tree, where a tree with a free variable is dropped and only an applied integer ends the session, memory per input, the loop ends |
| `arena` | five types, one or two objects, buffers of at most 14 bytes at four alignments | blocks are sound, refusals are justified |
| `destroy` | all trees of 5 nodes with up to 3 links, empty links included | every node is freed once, two destructors at most are active |

**Why the bounds are enough.**  The passes treat a node by its tag and look no deeper than
one level, so what can go wrong is in how two or three constructs nest.  Seven nodes hold
an if in a function in an application, a function in the branch of an if, three nested
functions, and every pair of siblings; the extra families (`AnfInputs`) add what needs
more: a function that captures two variables, whose order then matters, and ifs as
operands, arguments, conditions and in functions called from branches, so that join points
nest inside and across functions.  One operator besides those families is enough because no
pass distinguishes operators before lowering.  Counters start where they get a second
digit.

The parser decides on one token at a time with the activations below it, so what it can get
wrong shows within a few tokens of an operator, an argument or a bracket: three tokens of
any kind, and five of those that can stand in a sum, hold every pair of operators on
both sides of an operand, an application on either side of an operator, and every token where
another one is demanded.  `Capacity` (the `Exp`s the arena holds, about three million in the
program) is 7, so that a session fills it if it is not emptied, and a long input does
anyway; `MaxInt` is 20, so that two digits exceed it.  The arena is checked with buffers in
which two to four objects of mixed types fit, and proved for all.

**Fairness.**  `FairSpec` is weak fairness of `Next`.  The loops are
`while (!worklist.empty())` and `while (true)` without any waiting: as long as a step is
possible the thread takes it.  In `Repl` the stream is a text that is all there, so reading
does not wait either; an evaluation that does not come back is an outcome, not a step that
is never taken.  `Terminates`, or `ReadsItsInput`, is then a claim about the loops themselves:
that the work pushed shrinks.

## What is proved

The first two proof modules hold for every set of programs and every value of the counters, from
the assumption that a program is a tree (`ProgramsAssumption`).

**Renaming** (`RenameProofs`).  `MapIsLexicalScope` is not inductive: what the map is when a
task has been popped depends on the closures below it.  The invariant `Inv` says what the
stack is instead.  The tasks on it partition the addresses that are still to be visited: a
task for a node starts at the first address not yet visited by the tasks above it and ends
where the next one starts, in the scope in which the next one starts (`Linked`); a closure
that undoes a binding holds the outer name of its parameter; and the map is the scope at
the top of the stack.  Each action keeps this because the subtrees of siblings are adjacent
in memory order, and popping a task exposes one that starts exactly where it ended.  From
`Inv` follow, each as a theorem of `Spec`: `TypeOK`, `MapIsLexicalScope`,
`VariablesFollowBinder`, `ThrowsIffOpen`, `RenamedOnce` and `ResultIsAlphaRenamed`.  The last
needs `Numbered` besides: the visited parameters are the first ones in memory order, so that the
counter is how many they are.  `CollisionsNeedDigits` needs of the numbering that different
parameters have different numbers, and of decimal numerals that two of one width are equal only
if the numbers are (`DecimalInjective`, digit by digit), which the prover shows for every number
an `int` can hold.  So the mutable map behind the
walk is the lexical environment for every program.  `NoCapture`, which the finding
`rename_capture` refutes, follows from both properties for all other programs
(`CaptureNeedsDigits`): where parameters of the same letters have equally many trailing digits,
no variable is captured, however deep the program.

**Conversion to A-normal form** (`AnfDefuncProofs`).  Six properties of the registers and
stacks of `convertDefunc`:

- `TypeOK`: frames hold what the variants of `anf.cpp` say, pointers are null or made.  The
  heap only grows, so what was well typed stays so (`Grows`).
- `ReadsNothingMoved`, by induction together with `TypeOK`: a frame is made from `value`
  before `value` is moved from, and every way back to `apply_k` assigns it first; `k2_exp` is
  null exactly outside `apply_k2`, so no assignment destroys a term.
- `JumpDiscipline`, likewise.  How a continuation must end depends only on the innermost
  frame of `k2` that waits for a whole term (`Delimiters`).  Pushing or popping frames of
  `k` that are no jumps changes no end (`EndsPush`, `EndsPop`); a jump is alone on its stack
  when it is on top (`EndsJump`), so popping it leaves the empty continuation `apply_k2`
  expects; and a continuation set aside in a `K2Lam1` ends as the frames *below* that frame
  demand, which is what holds again when it is restored (`EndsLocal`).
- `OwnedOnce`: each node has exactly one owner among children, frames and `k2_exp`.  It is
  inductive with `TypeOK` and `ReadsNothingMoved`, which says when the node that a step makes
  takes over exactly what the popped frame and `k2_exp` owned.  Owners are places, so a step
  is shown to be a one-to-one move of places, never a count.
- `ThrowsIffIntApplied`, one direction at a time.  If no integer is applied, every operator
  that has a value has a name, on the stack and in the continuations set aside
  (`OperatorsNamed`), so `apply_k` finds nothing to throw for.  And every application of an
  integer lies in a subtree that `go_exp` or a frame still waits for, or is the one about to
  throw (`StillToCome`); when the loop ends no frame is left.
- `BindersDistinct`: every name that a node or a frame binds is bound in one place.  Two
  arguments meet.  A parameter enters the term when `go_exp` reaches its `LamExp`, so what
  `go_exp` and the frames still have to convert must be disjoint subtrees, or a name would
  come twice (`ToDoOnce`).  And every name bound so far is `tmp` with a number below the
  counter or the parameter of a `LamExp` that is no longer waiting (`Origin`), so a new one is
  different: numbers below 2^31 have different numerals (`TmpInjective`).  A step then pushes
  names, passes those of a frame on to another frame or hands them over to a node
  (`PushBinds`, `PassOn`, `HandOver`), never both keeping and giving them.  `NoNameBoundTwice`
  states it for programs whose parameters differ from each other and are not spelt `tmp`
  (`NamesApart`) and as long as the counter has not overflowed; the programs of the run
  satisfy the first (`ApartAssumption`), and the finding `anf_tmp` is one that does not.
  Renaming provides it (`NamesComeApart` of `RenameProofs`) whenever parameters of the same
  letters have equally many trailing digits and none has the letters `tmp`.

**Closure conversion** (`ClosureConvertProofs`).  `NoDangling`, `OwnedOnce`, `CollectsFree` and
`LocalsDistinct`, the first two for every term
(`IsTerm`: any heap of nodes that forms a tree).  The danger is the closure of an `AppExp`: it
runs after the rest of the call was converted, destroys the node it refers to and rewires the
link it captured, while `FunExp`s wrap nodes and rewire links everywhere.  Neither property
is inductive, because what a task may hold depends on what the tasks above it will do.  The
invariant is:

- every node that exists is owned by one link, and its children are as many as its tag says
  (`Shaped`, `Owned`);
- there is a set `V` of nodes that the walk has visited (`Seen`).  A task to visit a node
  refers to one outside `V`, by a link in a node of `V` or the root, and the closure of a call
  to an `AppExp` in `V`; the children of nodes outside `V` are outside `V` too; the tasks refer
  to different nodes; and a task whose link lies in the node of a closure is above that
  closure on the stack.

The closure of a call is popped when no task above it is left, so no link into the destroyed
node remains.  `V` is in no variable of the code; the proof gives it for each step (a visit adds
the node, a wrapper the nodes it made, a call takes the destroyed one out).  The walk of
`freeVars` that runs between two steps leaves the heap alone, and for the pointers nothing is
assumed of what it returns but that it is a set of names.

`CollectsFree` is about that walk: what it has collected, with what its tasks will still add and
erase, is at each of its steps the set of the free variables of the function, in the half
converted term.  It is not so for every term.  The walk keeps one set for all scopes, so a name
that is bound in one scope and free in a sibling would be erased after it was collected there.
`FreeVariablesFound` states it for terms in which no name is bound in two nodes and none both
free and bound (`Hygienic`); the run's terms satisfy that (`HygienicAssumption`).  Three things
are needed:

- `Free` is a recursive definition over the heap, and means something only where no node hangs
  below itself.  Conversion makes parents after their children and children after their
  parents, so the order of the addresses does not show that; the invariant keeps a rank for
  each node, of which there is always one more to put between two (`Ranked`), and the free names
  of a node are then those of its values and of its children (`FreeIs`).
- The walk meets only nodes outside `V`, below a function just visited, and those are as they
  were in the term (`Original`).  So no name made up by the conversion is in its way, and a name
  that is bound in one place of them and free in another is ruled out by `Hygienic`: a name used
  where it is not bound would be free in the whole term or bound twice (`BoundNotFree`,
  `FreeAbove`).
- What the walk returns can be read off its stack: a name collected survives if no task erases
  it, and one a task will find survives if no task below erases it (`WillReturnIs`).  A step
  replaces a visit by the visits of the children, each with the erasure of what it binds below
  it (`ScopesReturn`), and by `FreeIs` that is the same set (`WalkStepSound`).

`LocalsDistinct` is what lowering relies on, which keeps one map from names to values for each
function.  The conversion itself binds names again: a captured variable, in every function that
captures it, and a function's own name, as that of its tuple.  So hygiene of the term is not
kept, and the invariant is about functions instead of the whole term:

- there is a map that gives for each node the function whose body it is in, `Null` for the
  program (`Homed`).  It is in no variable of the code.  A wrapper puts the projections into
  the function and the tuple beside it (`WrapsHomed`), and what replaces a call is where the
  call was (`ReplacesHomed`);
- a name that is bound in a function has one of four origins (`Origin`): it was bound there in
  the term; it is the name of a function defined there, and that function has got its closure;
  it is free in this function, which has got its closure; or it was made up, with a number
  below the counter.  No name has two of them, and each is used up once: a function gets its
  closure once, because only functions outside `V` do, and those are as they were (`Original`),
  and `freeVars` has returned what is free in the function, which is not bound in it
  (`SearchedFree`, `FreeNotDeclared`);
- the name of the projection for a call is drawn when the call is visited and bound when its
  closure runs, after many other steps.  Until then it is kept for it: no node has it and no
  other closure (`Reserved`).

`LocalNamesApart` states it for hygienic terms in which no function has a parameter twice and no
name has the letters `closure` or `proj` (`SpeltApart`; `HygienicAssumption` says so of the run's
terms, and the finding `closure_names` is a term that does not), and as long as the counter has
not overflowed an `int`.

**Hoisting** (`HoistProofs`).  `NoDangling` and `OwnedOnce` again, for every term, of a pass
that takes the term apart while it walks it: a node is owned by a link, by a block that was
met, by one that a task has set aside, or by a function that was collected, and `Owned` says that
each node is in one of these places.  `Seen` is the order that makes every move safe:

- a node that was not visited still has all its children, none of them visited;
- a closure is below every task whose link it will change (`Waits`).  A body or a branch is
  therefore moved out when nothing points into it any more, although many tasks may hold links
  into the rest of the same node;
- the closure that moves the body of a node is above the one that moves its rest, so when the
  rest takes the place of the node, which destroys it, the body is gone and nothing is lost.

Each action is one change of the heap (a child set to null, two jumps in the place of two
branches, the rest moved to the link that owned the node: `Changed`, `Branched`, `Spliced`),
and a lemma for each says what becomes of `Seen` and of `Owned`.  The last step of the program
destroys whatever the root is then; that it is the `HaltExp` behind `main`, and not code that
was never collected, is `RootInv`.

`HoistedBlocksAreFlat` is what lowering relies on: `BlocksAreFlat`, for every term that is
`Hoistable` (functions have different names, join points too, and a jump leads to a join point
of the function it is in) and as long as the counter is an `int`.  The terms of the run are
hoistable (`HoistableAssumption`).  Nothing in the program says to which function a block in
`currentJoins` belongs: the vector is swapped at a `FunExp`, and swapped back by a closure far
below on the stack.  The invariant (`Layer`) therefore keeps the term `T` that was there at
first and a map `G` from its nodes to the functions they are in (`Placed`), and says:

- the task that collects a function marks which one is being walked: each other task is about a
  node of the function whose collect task is the nearest one below it (`Staged`, `Within`), so
  the blocks of a function are those it was collected with, those in `currentJoins` while it is walked, or
  those the next task above has set aside (`Lists`);
- a node that exists is as it was but for the children that were moved out of it (`Intact`),
  and what has come into its place is from the same function and was made before it
  (`Descends`), which also makes the walk down a block (`Below`) end;
- an `IfExp` that was visited has two jumps to blocks of its function, or its branch task still
  waits and both branches are in it (`Ifs`);
- a join point whose body was moved is a block of its function, with its name and parameters,
  and each block or function that was collected has a body in its own function and a name that
  no later one can have: the counter was lower when it was made (`Blocks`, `Colls`).

When the stack is empty every node was visited (`AllVisited`), so every `FunExp` and `JoinExp`
is gone, and what is below the body of a block is in the function of the block
(`BelowInside`).  A jump was in the function of its join point at first, so it still is.

**The arena** (`ArenaProofs`).  `BlocksSound` becomes inductive with where `begin_` is: inside
the buffer and behind every block.  The rest is arithmetic of division by an unknown number:
the padding leads to a multiple of the alignment (`PadFacts`), to the least one there is
(`PadMinimal`), and the quotient of `allocate` bounds the size on both sides (`RoomFacts`,
`NoRoomFacts`), truncation of negative rests included.  From them follow `SoundBlocks` and
`FullWhenRefused` for all buffers and all types.  The `>=` of `allocate`, which refuses an
object that would fit exactly, is why the second one speaks of one object more.

**Destructors** (`DestroyProofs`).  `NestingBounded` is not inductive either: the second
activation starts no third one because all the links and tasks it meets are null (`Inner`),
and that is so because the first one emptied a node before it let it go (`Outer`).  The
proof does not need that trees are trees: the C++ stack stays flat whatever the links are.
`DestroyedOnce` does (`OwnershipAssumption`: one link owns each node but the root).  It is
inductive with `Inv` and `Drained`, which says that an activation starts with an empty queue
and finds its own links empty afterwards: taking the links out of a node moves places from its
links to the queue one to one, a task that ends hands its node to the activation that destroys
it, and a node is freed when that activation, its last owner, returns.

**Memory of the loop** (`ReplProofs`).  `MemoryPerInput` speaks only of the moment the arena
is full.  What makes it inductive is an account that runs along with an input: each token
pays for two `Exp`s, one for the leaf that it may be and one for the application that takes
an argument without a token of its own.  An activation that waits for an operand will make
one `Exp` (`Waits`), and the `Exp`s made and those awaited together stay below what is paid,
but for the moment before an operand is read (`OperandNext`).  For that the proof needs to
know who calls whom (`Stack`): a value is only ever returned to an activation that waits for
it.  The text, the lexer, the binding powers and the fates of the trees stay arbitrary, so
the theorem holds for every session however long, with errors anywhere.

**Order of the tokens** (`ReplProofs`).  `TokensInOrder` compares what the parser has been handed
with `Lexemes`, which says of each place in the text whether a token starts there (`StartsToken`)
and lists those places in order.  Its inductive form is `OrderInv`.  The lexer never stops in the
middle of a token: what stands at its position is a blank or starts one (`Aligned`).  And the starts
it has passed are as many as the tokens it has delivered, those in the parser's buffer included
(`Passed`, `Delivered`), until it is at the end of the text, where every further token is Eof.
`GetTokenDelivers` is the lemma about `getToken` this rests on: from an aligned position it
delivers the next token that starts, skips none, and stops aligned, whether it was `=>`, a word, a
number (which letters may follow at once), another character or the end.  Every action of the loop
and the parser then calls `nextToken`, calls `peekToken` or leaves the tokens alone (`TokenSteps`),
errors and abandoned inputs included.

`AstLemmas` holds what the passes need: pushing, popping and replacing the top of a stack, the
types of fresh names, facts about programs as trees in memory, that different numbers have different
decimal numerals (`DecimalInjective`), and of `FlattenSeq` that it exists as a recursive function
and keeps every element.  Where an argument goes by induction
on a number it uses `LeastNumber`: a counterexample has a least one.

The assumptions are `ProgramsAssumption` (a program is a well formed tree,
and its parameters are no more than an `int` counts, `IntMax`),
`CountersAssumption` (a counter is a natural number: the proofs do not see the overflow of a
C++ int after two thousand million names) and `StemsAssumption`, which says only that a few
string literals are strings, because the prover does not know it; further `BuffersAssumption` and
`RequestsAssumption` (sizes and alignments are positive, a size is a multiple of its
alignment), `NullAssumption` and `TreesAssumption` (null is no node), `OwnershipAssumption`
(links are `unique_ptr`s), `InputsAssumption` (the terms given to closure conversion and to
hoisting are trees of well formed nodes), `TextsAssumption` (a text is a sequence of characters, and no character is an enumerator of
`Token`: those are negative, and `istream::get` gives a character as a positive number), and
`MaxIntAssumption` and `CapacityAssumption` (natural numbers).  TLC evaluates them
in every run that extends the modules.

**Only model-checked**: termination (liveness is beyond the prover); what compares with a
recursive definition on trees (`MatchesConvert`, `MatchesReference`, `PreservesMeaning`,
the grammar of the parser), which needs induction over data; and `ModuleIsValid` of lowering,
which does not follow from `BlocksAreFlat`: it needs in addition that a block comes in the list
after those that bind the values it uses, and `lower_crash` shows that hoisting does not promise
this.

## Findings

1. `rename_capture`: `fresh` puts no separator between name and counter.  With eleven
   parameters, `x1` and the counter 0 is `x` and the counter 10, and a variable is captured.
2. `anf_tmp`: the conversion makes up `tmp0`, which is also what renaming makes of a user
   variable `tmp`.
3. `closure_names`: the same with `closure`.  `((if 1 then fn x => fn closure => closure - x
   else 0) 7) 3` reads `x` out of the integer 3.
4. `lower_crash`: hoisting lists the blocks inside a join point before the join point, and
   lowering looks values up in the order of that list.  `(if 1 then 7 else 3) - (if 0 then 7
   else 3)` looks up a value that was not bound yet and gives a null pointer to the builder.

## Not modelled

- *The JIT* (`include/KaleidoscopeJIT.h`) is vendored glue around LLVM ORC, and the part of
  `main` behind lowering only calls it; `Fate` stands for what comes of it.
- *What the conversion of a number answers*:  `Converted` is modelled from `lexer.cpp` and
  stands on both sides of `ReadsTheGrammar`: that property says that the tree holds one of
  its answers and that the loop goes on, not that the answer is the right one.
- *Printing of the intermediate language* is formatting that nothing reads.
- *Lowering*: types of LLVM values (functions are declared to take a pointer first, and calls
  pass an integer), constant folding in the builder, and 64-bit wrap-around of the
  arithmetic, which the passes hand on to LLVM unchanged.
- *Characters* are a small alphabet; locales, and bytes above 127, for which `isspace` and
  its like are called with a value `in_.get()` allows, are left out.
- *The parser with `unique_ptr`* (for tests) differs from the one in `main` only in where
  nodes live.
