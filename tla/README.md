# A verification of jackc

`jackc` compiles Jack to a stack-machine language (`.vm`) and that to RISC-V
assembly; a standard library, mostly Jack itself, is compiled along with the
program. This directory holds TLA+ models of the compiler and of the code it
emits, the TLC configurations that check them, and theorems that TLAPS checks.
Source paths below are relative to `src/`.

## 1. The system

| Part | State it keeps | Operations | How it meets the others |
|---|---|---|---|
| Drivers (`jackc/compiler/frontend.c`, `jackc/vm-translator/backend.c`, the `main.c`s) | list of parsed files, error flags | collect files, parse, three passes over the ASTs; read VM files, translate line by line | call everything below, in order; return one code |
| Lexer (`compiler/lexer`) | position in the text, number of lines | next token | called by the parser, a token ahead of it |
| Parser (`compiler/parser`) | two tokens, panic flag, synchronisation contexts (bits) | one routine per syntactic construct, `expect`, `sync` | builds the AST, pushes diagnostics |
| Declarations (`compiler/symtable`, `compiler/function-registry`, the declaration part of `ast/traversals`) | chain of scopes with four counters each; signatures per class | insert, find, push, pop, reset | shared by the semantic pass and the code generator |
| Semantic checks and VM code generation of bodies (`ast/traversals`) | label counters, current signature | one visitor per statement and expression | read the declarations, write `.vm` text |
| VM parser and code generator (`vm-translator`) | current line; locals of the current function, static count | one emitter per VM command | emit the assembly that runs with `stdlib.s` |
| Run-time machine (what the emitted code does) | registers, stack, statics, temps, heap | the emitted sequences | the program's calls |
| Arena allocator (`core/allocators`) | list of blocks | alloc, destroy (free does nothing) | holds every AST node, token, scope, file content |
| Heap of the compiled program (`stdlib/Memory.jack`) | free list threaded through memory | init, alloc, deAlloc | constructors, arrays, strings |
| Hash map (`core/data-structures`) | chains of nodes in a fixed number of buckets | insert, find, free | holds scopes and registry |
| Diagnostics engine (`compiler/diagnostics-engine`) | a bounded list of diagnostics, a map of line starts | push, resolve a position, print | fed by parser and semantic pass, reads what the lexer counted |
| Library: `Math`, `Screen` | current colour, the words of the screen | sqrt, pixels, lines, rectangles, circles | called by programs, compiled like them |
| Library: `String`, `Output`, `Keyboard` | length and characters; cursor and screen cells; the keyboard's registers | conversions, printing, cursor, reading keys, lines, numbers | `Keyboard` echoes through `Output`, builds a `String` |
| CLI, file utilities, locales, logging | | | utilities |

The compiler is sequential: there are no threads, signals or callbacks into the
compiler. What is hard here is *state that outlives one step*:

* one symbol table serves several classes and three passes that have to agree;
* the panic flag and the synchronisation contexts of the parser decide, far
  from where they were set, whether a loop makes progress;
* the stack pointer, four segment registers and the return address are saved,
  moved and restored by code emitted for different VM lines, in two directions
  of stack growth;
* both allocators keep their bookkeeping next to what they hand out;
* the working stack has no owner: each visitor of the code generator has to leave
  it as the ones around it expect;
* the lexer's count of lines, taken where the parser happened to stop, sizes a map
  that is searched later;
* the keyboard is the one part of the system that does not wait: keys come when
  the user strikes them;
* a driver that meets an error in one of several files goes on with the rest.

`PROJECT.json` lists the single hazards with their lines ("hazards") and all
components with their status ("components").

## 2. What makes each part correct

* **Declarations.** A program that the registry and the semantic pass accept
  never trips the code generator; exactly the well-formed programs are
  accepted; a name denotes its innermost declaration; slots of one segment are
  distinct, inside the frame reserved for them, and statics of different
  classes never share one.
* **Parser.** It should end on every input (section 7: there is one way in which it
  does not), accepts exactly the classes of the grammar (what follows a class it
  ignores), and no error is lost.
* **Emitted code.** It implements the stack of activations that VM commands
  mean: a callee changes nothing in its caller's frame but the result.
* **Allocators.** Regions are disjoint, inside memory, aligned; nothing is lost;
  the allocator does not touch a live region; every request is answered.
* **Bodies.** Exactly the well-formed bodies are accepted; what is accepted is
  emitted as lines that the backend reads as they were meant; executed, they make
  the calls, with the arguments, and leave the memory and the result that the
  statements mean; jumps stay in their subroutine; expressions leave one word.
* **Lexer and diagnostics.** The tokens are the text's lexemes, every line is
  counted, and a diagnostic is reported at the line it is in.
* **Tables.** Scopes and registry cannot be told from functions on names.
* **Library.** Shapes cover their pixels; the screen shows the line that is being
  typed, and readInt gives the number that was; every loop ends.
* **Drivers.** A file that was not compiled is never passed over with success;
  no output overwrites another; VM lines are translated once each, in order.

## 3. Modules

| Module | What it models |
|---|---|
| `SymbolTable` | a scope and a chain of scopes as values: insert, find, push, pop, reset |
| `Declarations` | registry, semantic pass and code generation over the declarations of all files; extends `SymbolTable` |
| `DeclarationsProofs` | theorems about `Declarations` |
| `VMachine` | abstract: what VM commands mean, as a stack of activations |
| `FrameMachine` | the emitted machine code, command by command |
| `FrameRefinement` | the mapping from `FrameMachine` to an instance of `VMachine`, and the layout of frames |
| `FramesProofs` | theorems about the layout of frames and the refinement |
| `Regions` | abstract: what an allocator promises |
| `Arena` | the compiler's arena; its bytes implement `Regions` |
| `ArenaProofs` | theorems about `Arena` |
| `JackHeap` | the heap of the compiled program; its words implement `Regions` |
| `Parser` | the recursive descent as a stack of items, panic mode, synchronisation |
| `ParserProofs` | theorems about `Parser`: how lists of variables are left, and that exactly the grammar is accepted |
| `JackGrammar` | abstract: the grammar, and where what it derives starts, as a recursive function |
| `FileUtils` | the walk over a directory, as operators, and the VM files that frontend and backend share |
| `Frontend`, `Backend` | the two drivers, the second with the VM parser's lookahead |
| `Jackc` | the three tools, composed of the two drivers |
| `JackcProofs` | theorems about `Jackc` and both drivers |
| `Ast` | syntax trees of bodies, as records |
| `SemanticBodies` | the semantic pass over a body, types of expressions, resolution of calls; and the reference: which bodies are well formed |
| `CodeGen` | the VM lines that a body is compiled to |
| `VmLine` | how a line is printed and what the VM parser reads in it |
| `JackMeaning` | abstract: what statements and expressions mean, an interpreter without a stack |
| `Bodies` | both passes over the subroutines of a class, and the execution of one of them on `VMachine`'s commands |
| `Lexer` | characters to tokens, comments, the count of lines; and the reference: the lexemes of a text |
| `SourceMap` | the map of line starts and the search in it |
| `Text` | composes lexer, complaints of a parser a token behind, engine and map |
| `TextProofs` | theorems about `Text` and `SourceMap` |
| `HashMap` | a hash map as a value: insert, find, free |
| `NameTables` | abstract: the chain of scopes and the registry as functions on names |
| `Scopes` | both on hash maps; implements `NameTables` |
| `ScopesProofs` | theorems about `HashMap` and `Scopes` |
| `JackMath` | `Math.sqrt` |
| `StdlibProofs` | theorems about `JackHeap`, `JackMath`, `Screen` and `Console` |
| `Screen` | the loops of drawing |
| `JackString` | conversions between numbers and strings |
| `Console` | `readInt`, `readLine`, the keyboard they poll and the cells they print to |
| `MCDeclarations`, `MCFrames`, `MCParser`, `MCJackc`, `MCBodies`, `MCText`, `MCScopes`, `MCLibrary` | instances for TLC (`Arena` and `JackHeap` need none); `MCLibrary` composes `Screen` and `Console` |

What crosses components is stated in the composing module: `FrameRefinement` relates
code generator and VM, `Parser` the descent and the grammar, `Jackc` frontend, file
system and backend, `Bodies` semantic pass, code generator, VM parser and VM, `Text`
lexer, parser and engine; `Regions` is shared by two allocators, `SymbolTable` by
`Declarations`, `Bodies` and `NameTables`, `VMachine` by `FrameMachine` and `Bodies`.
Together, `Bodies` (Jack to VM lines) and `FrameRefinement` (VM lines to machine code)
cover the way from a statement to the processor.

## 4. How state and actions correspond to the code

`PROJECT.json` ("map") gives the lines of every definition. In short:

**Declarations.** `program` is the list of parsed classes in the order of
`source_files`, chosen in the initial state; `registry` is `function_registry`;
`chain` the chain of `sym_table`s, outermost first; `pass`, `file`, `stage`,
`sub`, `decl` are the loops' places. There is one action per step of a
traversal: registering a class, entering a class, inserting one declaration,
entering and leaving a subroutine, looking at a body. A body is the set of
variables it refers to. `genError` stands for the assertions in
`vm_code_gen_traversal.c` that insertions succeed. `refs` is a history variable:
each variable reference that is emitted, with the slot and the frame.

**VMachine and FrameMachine.** `VMachine` has a stack of activations (arguments,
locals, working stack, `this`, `that`) and cells (statics, temporaries, heap); an
action is what a VM command means. `FrameMachine` has the registers `sp`, `lcl`,
`arg`, `this`, `that`, `ra`, `a0` and one memory; an action is what the emitted
lines do for a command. `call` is split where control leaves (`Call` before the
jump, `Restore` after it), as is the callee's code (`Function`, `Return`). The
refinement rebuilds the activations from the saved registers in memory; where
`a` words lie, and in which direction, appears only there and in
`FrameMachine`. A word beyond the top of the stack is forgotten, so that code
that read it would have no step; what a function finds in its locals is any of
`Leftovers`.

**Arena, JackHeap.** `Arena` has the blocks and regions, with one action per call
of `alloc` that finds room, per doubling of the capacity, and for `destroy`.
`JackHeap` keeps headers and links in the memory that it manages, takes one step
per round of `alloc`'s loop, and lets the program write into what it owns
between two calls. A
word holds one of `4 * RamSize` numbers, of which four find the same word of memory,
since `peek` and `poke` shift an address left by two.

**Parser.** A word stands for a class of tokens that no routine tells apart. `todo`
is what the routines under way still have to do; an error drops its items up to
the innermost loop, which is what the chains of `RETURN_IF_PANIC` do. The actions
are the ways a loop goes on or ends, `expect`, each decision of the expression
routines, and the rounds of `sync`. `context` are the bits of `sync_context`.

**Drivers.** An iterator is the stack of open directories with the entries that
`readdir` has still to return. `Frontend` takes a path, an entry, a pass or an
output file per action; `Backend` a file or a line. What a pass finds in a source
(how parsing it ends, it is valid, its class and name) is an attribute of the file,
since the passes have modules of their own. Parsing a file that the parser does not
return from (`endless`) is a step after which the frontend takes no other. A line that
sets the VM parser's status, or does not let it go on, is one by its `form`.

**Bodies.** Syntax trees are data, so that a visitor is a recursive operator:
`VisitStatement` folds over a body the flags that the code keeps in its context
(`invalid`, and `aborted` for the assertion in `ast_traversal_utils.c:25`), `GenStatement`
the emitted lines and the two label counters. `Bodies` has an action per subroutine
and pass and one per executed command, whose effect is `VMachine`'s; only calls
are its own, since a callee is opaque (`Answer`). `meant` is a history variable: the
execution that `JackMeaning` prescribes, fixed when the subroutine starts. A
constructor's own allocation is a call like the others.

**Text.** `pos` is the lexer's position and `Here` its current character; there is one
action per round of a loop and per character class. The parser is the actions
`Complain`, about one of the last two tokens (it keeps two), and `StartReport`, since it
may stop anywhere; `total` is then the lexer's `line`. `SourceMap` has a step per
character of `build_source_map` and per halving.

**Scopes.** `scopes` is the chain with a map and the counters each; a class's entry in
`registered` holds the index of its map in `methods`, as the code's copy of a
`class_symbol` holds the pointer. `made` counts the nodes taken from the arena.
`answer` is what the last call returned, and is the same variable in `NameTables`, so
that the refinement is about results, not only about contents.

**Library.** `Screen` has an action per round of each loop. In `Console` an action is one
access to the keyboard's registers or one printed character; `Strike` is the user. A
cell shows parts of glyphs, because printing does not clear what is there and
the black square does not cover the row in which the tails of some glyphs are.

## 5. What the runs check

| Run | Question | Bounds, and why they are enough |
|---|---|---|
| `declarations` | do the three passes agree? | programs of one and two classes with up to two class variables, two subroutines, two parameters and two locals, which collide in every pair of scopes (static, field, parameter, local, subroutine name, implicit `this`); the entry class comes first and last, so that the root scope is reused in both orders |
| `frames` | does the code implement the VM? | three call lines (two, one, no arguments; `f` has a local and is recursive); up to `MaxFrames` = 5 activations and `MaxWork` = 2 words above the locals: with 24 words of stack a frame has two frames of different shape on either side. Words take few values, since commands move them and do not interpret them, `eq`, `lt` and `not` excepted (`W` = 2 bits) |
| `arena` | are regions disjoint and inside; does every call return? | blocks of 2 bytes, alignment 4, requests 0 to 17: blocks smaller than the alignment, exactly full, and doubled three times |
| `heap` | is nothing lost or handed out twice? | 8 words of a memory of 16 (`RamSize`, at which addresses wrap), 3 regions, requests of which all, two, one or none fit: splitting, exact fit, unlinking head and middle |
| `parser` | what does it accept; can it get stuck? | any input, with `MaxNesting` = 3 lists of statements and `MaxParens` = 2 expressions inside one another, over which panic mode and contexts repeat; and every sound class of a list that uses each construct, with one word dropped, replaced or inserted |
| `tools` | what does a return of OK mean; does a call end if parsing does? | a library, a source directory and one below it; every pair of the mistakes a file can have; links to nothing and to the directory above; 7 contents of an output directory; a walk of depth 3 (32 in the code, for which nothing but the cycle's length changes) |
| `bodies` | is what is accepted compiled to what it means? | a method, a constructor or a function with every kind of variable in scope; its body has each statement with expressions nested two and three deep, conditions and loops nested twice, right ones and ones wrong at every depth, string literals of no, one and several characters; a second subroutine with an `if` and a `while` of its own. `W` = 8 words, all of them addresses; an endless loop is followed for `MaxSteps` = 90 commands |
| `text` | are tokens, lines and reports right? | all texts of up to three characters over six that matter, and thousands of longer ones made of pieces (comment delimiters, line ends, quotes, names, numbers) and of whole lines, so that the search has up to five lines; `MaxDiagnostics` = 2 (128 in the code) with up to three complaints: the list is not full, full, and overflows |
| `scopes` | are the stored tables the abstract ones? | three names in two buckets (a chain of two and one alone), two scopes, two signatures, `MaxNodes` = 3; every order of calls, resets with and without a chain to free |
| `library` | are shapes drawn, lines read, loops ended? | all lines between the points of a 5 by 4 corner, rectangles in both orders, radii -2 to 5 with `MaxRadius` = 4, on a screen that has room on every side; 3 by 2 character cells, so that four keys and a number pass both edges of the screen; words where numbers are read go from `MinWord` = -64 to 63 (from -2^31 in the program) |

All runs state their properties in comments in the modules. Two more runs
(`draw_leak`, `parser_stuck`) each show a disagreement with a comment of the repository
(section 7).

`Exits` says that a call of the tools ends on two conditions: parsing each source file
that it meets returns (`ParsingReturns`), and no VM file has a line at which the VM
parser stands still (`AllGood`). The first is what `parser_stuck` refutes for some
erroneous files; without it the property would be false of the code, and of the model,
in which the frontend stays in `HandleSource` then. The second fails only for VM files
that something other than the frontend wrote.

Deadlock is not checked where the modelled part really ends: a program that
halts, a tool that exits, a compilation that is over, or one that hangs in a parser.

### Fairness

The code is sequential and, the keyboard apart, waits for nothing, so that it runs
until it returns: weak fairness of `Step` in `Parser`, of the allocators' and tools'
own steps, of the lexer's and the engine's in `Text`, and of the program's in
`Library`. The *calls* are not fair (a program need not allocate or free anything), and
neither is the user (`Strike`): a program may wait for a key forever, and `Settles`
allows that. `Spec` without fairness is used wherever only safety is checked.

## 6. What is proved

Eight modules of proofs are checked by TLAPS, for all values of the constants that
satisfy the named assumptions of the modules:

| Assumption | Says |
|---|---|
| `ProgramsAssumption` | a program is a list of at least one class, of which none declares `this` |
| `FrameAssumption`, `WordsAssumption` | a program uses what is declared; its stack is a range of two words at least, apart from the cells and from code; words can hold data, addresses of the stack and return addresses |
| `RoomAssumption` | the bound on activations, which only the lookup of frames uses, is no less than what the stack has room for |
| `ThatAssumption` | a program whose stack grows upwards uses word 0 of `that` only: section 7 |
| `ArenaAssumption` | capacity and alignment of a block are positive, requests are numbers |
| `LexerAssumption`, `NewlineAssumption`, `TextAssumption` | newline and nul are no letters, digits or blanks; texts are made of characters |
| `ClassesAssumption` | no character has two meanings; a file's text ends at its first nul, which is what the lexer takes for its end |
| `ParserAssumption` | an input is a sequence of words; the bounds on any input's nesting are numbers |
| `HashAssumption`, `NoneAssumption` | every name has a bucket; absent is told from present |
| `HeapAssumption` | the heap has two words at least, does not start at 0 and lies inside memory |
| `RequestsAssumption` | a program asks for one word at least and for no number that wraps: the other sizes are the two disagreements of section 7 |
| `JackcAssumption` | the command line and the disk are made of files, directories and links |
| `SqrtBoundAssumption` | 46341 is the least number whose square is no word |
| `ShapesAssumption` | a program draws inside the screen, and the square of a radius is a word |
| `WordAssumption` | words are the numbers from one below 0 up to its complement |
| `ConsoleAssumption` | the screen has a row and a column at least, the cursor is sent to numbers, the numbers printed are words |

Every theorem is `Spec => []P` or, for a refinement, `Spec => Abstract`, and each rests on
one inductive invariant, on one lemma per action and on the temporal step at its end.

**Declarations.** `TypeCorrect`, and the invariant of `StaticsNeverAlias`: that a root
scope is reset between classes does not show in one state, so the invariant adds that
every static emitted so far lies below the root scope's counter, which a reset keeps
(`EmittedBelow`), and that the scope's own statics are distinct and below it (`RootSound`).
`AInv` is the rest: the registry holds exactly the signatures of the classes visited
(`RegistryMatches`); the scopes hold exactly the declarations visited, the n-th of a
segment at index n - 1 (`ScopesFollow`); what has not been rejected was well formed, and
what has been was not (`CheckedSoFar`, `Verdict`). From it follow

* `AcceptedCompiles`: an accepted program never fails an assertion of the code generator;
* `VerdictIsRight`: exactly the well-formed programs are accepted, by a definition
  that knows neither scopes nor an order;
* `ReferencesResolve`: an emitted variable is the innermost declaration of its name, and
  `FramesSuffice`: its slot is inside what the frame reserves.

The last two say nothing of the body of a subroutine that is declared again in its class
(`HasOwnSignature`), which is compiled with the signature of the second; no property covers
what such a body then does.

**Frames.** `FInv` says that there is a sequence of registers, one for each function under
way (`Layout`): the last are the running function's (`Current`), each one's caller is
what its saved frame in memory restores (`CallerOf`), the first returns to the entry's
return address and starts at the bottom of the stack, and ARG is where the frame
says. Addresses are measured as depths from the bottom, so that one proof
serves both directions of growth. That it is inductive rests on what a command may
write: `Owned` are the words of the functions below and the registers saved above
them, and an argument, local or working word is none of these (`AddressIsOwn`), so that
the chain is the same afterwards (`LayoutKept`); a call appends to it, a return drops its
last, and the restored registers are the caller's as it left them. From it
`FramesStayContiguous`, programs with the inlined `Screen.drawPixel` included.

`CodeImplementsVM` is the refinement of `VMachine`. The walk from the registers finds the
sequence whose existence `FInv` asserts (`RunningFrames`), so that the abstract frames are
the activations of `fr[1..n]`. A command of the running function leaves the words of the
functions below (`BelowKept`) and so changes the last activation only (`CommandChanges`); what
it does to that one follows from which of its words the stored ones are (`KeptIs`: arguments,
locals, working words and cells never meet, whatever pointer a store goes through). A call
splits in two: `Call` and `Restore` are no steps of `VMachine`, since the arguments still
count as the caller's, and the result as already on its working stack, while control is on its
way (`WorkViews`); `Function` is its `VMCall`, or `VMStart` for the entry, and `Return` its
`VMReturn`. Programs with the inlined `Screen.drawPixel`, for which that is false
(section 7), count as never started.

**Arena.** `ArenaDisjoint`, `ArenaInBounds`, `ArenaAligned`: every region lies in the used part
of its block, so that one placed at the block's size meets no earlier one. For its
alignment the size must be a multiple of it, but a size that is held at the
capacity (`allocators.c:32`) need not be one; the invariant (`SizesAligned`) says
that it is a multiple or the capacity, and a block filled to its capacity takes
no request (`PhaseOK`). `ArenaImplementsRegions`: every step allocates a fresh region as
`Regions` has it, releases some, or stutters.

**Heap.** `HeapInv` says that there are a number n and a list f of n free blocks, the
first of which is `freeList` and each of which points to the next, that these and the
blocks of the regions are pairwise different, and that their headers tile the heap
(`Tiled`: a block ends where another starts or where the heap ends). While `alloc` walks,
its two pointers are neighbours in that list (`AtBlock`). The list is a function, so
that unlinking, splitting and pushing a block are functions built from it. From it follow
`HeapStaysTiled` (no word is lost or in two blocks), `HeapImplementsRegions` (a new
region has its words and none of a live one) and `HeapKeepsContents` (neither `alloc`
nor `deAlloc` writes outside of the heap or into a region that the program keeps).

**Lexer, diagnostics, source map.** `TInv` relates the lexer's counter to the newlines
behind it, inside and outside of comments (`CountsLines`), says that the list of diagnostics
is the start of what was complained about (`KeepsFirst`) and that complaints were made in the
order of the text; and carries the invariant of the map: `MapOfPrefix`
(the map holds the starts of the lines of the characters seen) and `Searching`
(no line up to `low` starts behind the target, and `high` is the end of the map or starts
behind it). `FindsLines` and `ReportFindsLines`: the search ends at the line a
position is in, the last line of the map excepted.

`ReadsLexemes` says that the tokens are the lexemes of the text. `Lexemes` is defined by what
stands at a position (`Piece`: a blank, a whole comment, the longest number or name, a
string) and goes on where that ends; that such a function exists and is the only one is
proved first, over the characters left (`LexemesExist`, `LexemesAre`). The lexer, which has
two flags and one character instead of the whole piece, is between two ends of pieces
most of the time: `Onward` is the position from which the lexemes are still to be told (where
the token starts, the end of the comment that is open, or where the lexer stands), and the
invariant `LexInv` is that the tokens so far, followed by the lexemes from there on, are
those of the text from its start. A blank or a character of a comment leaves the lexemes
from `Onward` the same (`BlankBehind`, `LineBehind`, `CommentBehind`), and a token that is
returned is the piece that starts there, because all characters since then belong to it
and the one in front does not (`Scanned`). A `*/` outside of a comment is the one place
where lexer and lexemes part; a text with one is excepted (`StarIsStray`, and section 7).

**Parser.** That a list of variables is left in order is a statement about everything that may
happen in between, so `PInv` is about the whole stack of what is left to do (`Placed`): the
push of a list's context, its loop and the pop are neighbours; in front of a loop under way are
steps of its own rounds only (`RoundSteps`), so that there is one such loop at most and it is
the innermost loop there; and a synchronisation stands directly in front of the loop, or the
brace, it is for. A list's context is set between its push and its pop only (`Inside`). A
panic drops the items down to the innermost loop (`Unwinds`), which inside of a list is its
own, and outside of one drops push, loop and pop together. From it follow `NoListContextLeft`
(`DeclarationContexts`) and `ListsNeverPanic` (`NeverPanics`): on every input, however long
and however nested. The context of statements has no such theorem, since the code leaves it
behind (section 7).

`AcceptsTheGrammar` (`AcceptsExactlyGrammar`): a source of any length is parsed without an error
exactly if a class of the grammar starts it. What the grammar derives is a recursive function
on sequences of symbols and places (`Derived`), and the first part of the proof is that such a
function exists, since the provers know of one only that it is chosen: leftmost derivations
of finite length give it (`DerivableIs`), so that it obeys its own equations (`DerivedIs`). The
second part turns the grammar around: for each nonterminal, which words it may start with and
what is left to read behind the first (`TermRead`, `StatementRead` and the like), whatever
comes after it. The third gives what is left to do a meaning, the sequences of
symbols it reads (`Meaning`), item by item: an item `Fits` on those below it if one word ahead is
enough for each choice it makes, and a stack is `Laid` if all do. That the sequences the routines
put on the stack read what they should is a lemma for each of them (`IndexLaid`, `BlockLaid`,
`StatementLaid`, `SubroutineLaid`, `ClassLaid`), and so is that each kind of item leaves one of
the same meaning behind, or finds a word that no class has there (`InfixStep`, `OptionStep`,
`VariablesStep` and others). The invariant (`Grammatical`) is that without an error the source is a class
exactly if what is left to do reads it from the current word on (`OnCourse`), and with
one it is none. Two items know more than the stack below tells: a list does not
count its first variable until the step after its name (`Uncounted`), and a body is behind its
declarations only while its statements are still to be read (`Behind`); `Pair` says which
neighbours they have. Of the invariant of the lists it needs the types of the items only. The theorem is about a
given source, for which `MaxNesting` and `MaxParens` bound nothing; the runs on any input leave the
grammar aside.

**Tables.** `Implementation`: the stored scopes and registry implement `NameTables`, for any
hash function, number of buckets, names, scopes and nodes. The invariant is that
no map has a key twice in a chain and that every registered class refers to a map of its
own that exists. There is a lemma per operation of the map, one per action for the
invariant, and one per action for the step of `NameTables` it is.

**Drivers.** The invariant `ToolsSound` of `JackcProofs` has a part for each driver: a file that
was met is in the list of sources, or the error that kept it out is recorded, or it is
still being parsed; the flags of a pass are those of the files that it has visited, and
the output holds the code of the sources up to the present one; and the parser of the backend, which is a line ahead of what it
returned, is the one that k - 1 calls of `Advance` leave (`LookingAhead`), so that the
assembly is the lines before (`InsideFile`). From it follow `NoOutputTwice`,
`OnlySoundPrograms`, `OkIsComplete` and `NoLineLost`.

**Math.** `SquareRoot`: what `Math.sqrt` returns is the integer part of the root of every
word, and no square it computes on the way overflows.

**Screen.** A line is hard because its error term says where the pen is only together with
the steps made. `LineInv` says that `err` is the pen's deviation from the straight line
plus a constant of the line (`ErrAt`), which is at most half a pixel's (`OnLine`), and
that what is painted is a trail: one such point for each distance along the longer side
up to the pen's (`Trail`). A round keeps to the half pixel because the
step it makes is chosen by the sign of what the other choice would leave
(`MovedAlong`; `Round` is the arithmetic of it, for either side being the longer); and at the distance of the goal the
only point within half a pixel is the goal (`Ends`), so that the loop, which waits
for both coordinates, ends there. That is `LinesEnd`: each round is one nearer. A
rectangle or disc is a row per line: what is painted is the part of it above the row
drawn (`Done`), and for a disc the square root in progress belongs to this row
(`RowRoot`, with the invariant of `SquareRoot`), whose value is the row's half width
(`CircleRow`). Words and pixels are one to one (`OnePixelPerWord`), whence `Drawing`.

**Console.** `Shows(t, o, cursor, cells)` says that text t stands on the screen from
cell o on: the cursor is behind it, every cell has the bodies of the characters
whose place it is and no other, and each character is wholly shown at its own. Adding a character
keeps it for any text (`OneMoreShown`); erasing one keeps it only if no other character
shares its cell (`OneLessShown`), that is, while the text is not longer than the
screen. What the text's length may still become depends on the keys that have been
struck and not yet printed, so the invariant bounds the line with them by all keys struck
(`Kept`). From it follows `Echo`. `SlowTypist` adds what line is owed to a user who
has never been early, in each state of `readChar` (`TypistInv`). `ReadAgain` is about
recursive functions of numbers and of strings: that the functions exist and are unique
(`DigitsDefined`, `ValuesDefined`, `LinesDefined`), that the digits written for v are read as
v behind any sign and stay within a word (`DigitsRead`), and that what is
a word does not wrap (`WrappedIs`).

Where a proof needs induction over the numbers it is made for a set of them, from the theorem on
minimal members of the library (`SetInduction`); and `RecursionExists` says that a function
defined by recursion over 1..n exists, with the step given as a function: the library's
theorems on both take an operator as a parameter, which the provers cannot instantiate.

Only model-checked:

* liveness (`Answered`, `AllocReturns`, `Exits`, `Settles`, `ComesToAnEnd`,
  `ProgressUnlessLeaked`), which is out of the prover's reach;
* everything about `Bodies`: what its syntax trees mean are recursive operators, beside which
  no prover for arithmetic is available, and what a tree is compiled to is an induction over it;
* `InlinedLikeACall` and `VariablesReturn`, which the code violates.

## 7. Disagreements with the repository's comments

Two have a run that shows them:

* **`draw_leak`.** The inlined `Screen.drawPixel` allocates two more words where
  it should give two back: the working stack is three words higher after it. A
  call would leave it one lower. Programs with that call are left out of the
  refinement; for them only the layout of frames is checked, which survives
  because `return` starts from `ARG` and `LOCAL`.
* **`parser_stuck`.** `parse_statements` returns at `var` without leaving its
  synchronisation context. A later `var int a let` then stops the recovery of
  `parse_variables` at `let`, which its loop neither takes nor ends at: `jackc` hangs in
  that file, whatever else it was given (`Exits` is about the other calls).

Others that the models show without a run of their own:

* A subroutine declared twice in one class is compiled without a diagnostic, the
  second signature standing for both bodies (`function_registry.c:56`), although
  `traversals.h:20` promises one for each redeclaration.
* With `--reversed-stack`, `that` is addressed downwards from its pointer, against the
  comment in `virtual_stack.c:48`: it is the only one of the memory segments for
  which the offset's sign changes.
* Freeing a region of no words (`Array.new(0)`, a constructor of a class without
  fields) writes the free list's link into the header of the next block
  (`Memory.jack:72`).
* An entry that `stat` refuses ends the walk over its directory; the frontend
  compiles what it met before and returns OK. The report of the iterator's error
  is inside the loop (`frontend.c:246`), where there is none.
* A string literal of n characters leaves n words on the working stack, one for each
  `appendChar`, and an empty literal none (`code_gen_utils.c:121`): `"ab"` before another
  argument, or as the right side of an operator, displaces what is beneath it, and
  `let s = "";` pops a word that belongs to nobody. `Displaces` and `HasEmptyLiteral`
  name the bodies that the properties leave out because of it.
* The search of the source map never returns the last line (`engine.c:73` starts with
  `r = lines_total - 1` and the result is one less than where it ends): a diagnostic in
  the last line counted, of a text without a newline at its end for instance, is
  reported one line too early. `RightLine` says so.
* A carriage return that no newline follows ends the compiler by an assertion
  (`compiler_lexer.c:70`) unless it is in a comment, and `*/` outside a
  comment is skipped as if it ended one (`LoneReturn`, `Stray`).
* A call on a variable that is no object ends the semantic pass by an assertion
  (`ast_traversal_utils.c:25`); in an argument or an index, whose types are not
  asked for, it gets a diagnostic. Such a body is not accepted either way, so that no
  property tells the two apart.
* `sync_context` is called a stack (`compiler_parser.h:28`), but is a set of bits: a
  nested list of statements that ends clears the bit of the list around it.
* At a character that starts neither a word nor a comment, the VM parser's loop over blanks
  does not move (`vm_parser.c:36`): the backend hangs in a file that has one (`AllGood`).
* At a VM line that cannot be parsed, the backend translates the line before
  last twice, drops the last one it read and the rest of the file, and returns
  OK (`Advance`, `TranslateLast`). If it is the second line, an `add` that is in no
  file is emitted as well; if it is the first, an assertion fails.
* A VM file without lines, which a class without subroutines is compiled to, has
  a line translated of which only the start was set (`Dummy`).
* Opening creates what is missing (`platform/linux/syscalls.c:7`), so that a missing
  `stdlib.s` is an empty one.
* All VM files in the output directory are translated, those that another
  compilation left there included.
* `Memory.alloc` of the largest word wraps around and is granted.
* `String.appendChar` does not look at the capacity (`String.jack:35`), so that the
  maximum length that the constructor's comment names is not one.
* `intValue` forgets the sign at a character that is no digit (`-5a` gives 5), and the
  least word is printed as `-` alone by both conversions.
* Erasing a character on the screen leaves its tail, if it has one, and a key struck
  before the last one's release was seen is lost.
* A circle whose radius is negative, down to -181, is the single pixel that lies
  that far above the centre.

## 8. What is not modelled

* The AST's constructors, the layout and the wording of diagnostics, locales,
  logging, the command line: text in, text out, or no decisions.
* Blanks and comments inside a VM line.
* Characters of source texts other than a few of each class; `int` literals' overflow.
* The addresses of nodes and scopes: `Arena` shows that what is handed out is
  disjoint, the other modules use values.
* Widths: offsets beyond the 12-bit immediates of RISC-V, the 16 bits of the
  number of locals and of the static area, 32-bit coordinates on the screen, the
  compiler's `size_t` in `Arena`.
* `Screen.clearScreen` and colours, `Sys`, `String.setCharAt`, `Array`'s thin wrappers,
  the array that `printInt` never frees, the pixels of the glyphs.
* Callees in `Bodies` are opaque; that a call comes back with its frame intact is
  what `frames` checks.
* Windows and RARS variants of the platform layer.

## 9. What could come next

In this order:

1. Widths: immediates of 12 bits and the 16-bit counts in `FrameMachine`.
2. `Bodies` with callees that are subroutines of the same class, which then needs a
   stack of activations in `JackMeaning` as well.
3. `clearScreen`, colours and the remaining operations of `String` and `Output`.
