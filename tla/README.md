# KeL in TLA+

Specifications of the KeL compiler (the C sources under `src/`): what its
parts do, from the text of a program to the bytes of its binary, model-checked
with TLC on small instances, and theorems proved with TLAPS for every size of
the instance: about the register allocator and the assignment it implements, the
code that is made with its slots, the parser, the quadruples with their symbol
table, and the status of the compiler.

KeL compiles one source file on one thread, in phases that each turn the result
of the one before into a new array. There are no processes and no messages.
What is hard in it is that every phase is driven by explicit stacks, indices and
counters in arrays of a size guessed beforehand, that a full stack drops what is
pushed, and that the phases agree on conventions (postorder and arities,
lifetimes by node, slot numbers) which no type checks.

## Inventory

| component | state | operations | interacts through | what makes it correct |
|---|---|---|---|---|
| source (`source.c`) | the text between two null characters | create, destroy | the text | it has both sentinels |
| lexer (`lexer/`) | tokens, delimiters still open, the string mark, nesting of a PAL's parentheses | `create_lexer`, `lexer_scan_errors` | the tokens, in an array sized by the text | delimiters match; the two passes agree; the tokens cover the text and are those of the program; there is room for all |
| parser (`parser/`) | stacks of scopes, operators and expression operators; nodes in postorder | `create_parser` and one handler for each construct | the forest: nodes with arities, offsets into the tokens | the forest is the program's; nothing is lost or used twice; the arities and the scopes nest; it stops |
| quadruples, symbol table (`tac/`) | stack of entries with watermarks, stack of nodes still to visit, evaluation stack, quadruples | `create_tac`, `tac_create_expression`, `tac_stab_*` | quadruples that refer to nodes | a name means the innermost declaration; operands are computed before they are used |
| register allocation (`register/`) | lifetimes by node, lifetimes by definition, pool of slots, active intervals | `create_regslots`, `regslots_alloc`, `regslots_free` | `lifetimes[]`, read by the code generator | values alive together have different slots; no slot is lost; it gives up only when it must |
| x64 (`x64/`) | position in the quadruples; what the registers hold when the code runs | `assembly_file_write`, `create_call`, `regmap_*` | instructions | an operand is in the register its instruction names, also after a call |
| ELF (`elf/`) | the file, the offset of the entry | initialize, emit, terminate | bytes | a processor reads the instructions that were meant; the header describes the file |
| allocator (`allocator.c`) | areas, stacks with a top, chains of areas | create, push, pop, save, restore, iterate | every phase | what is pushed is popped, unless the stack was full |
| `main.c` | the phases so far | run, destroy | the status of the process | the status tells whether there is a new binary; the compiler ends |
| debug printers | none | print the result of a phase | assertions and reads of their own | they stop the process only where a token was never written, the forest is empty or a child is missing |
| `parser_error.c`, `linker/` | none | never called; a placeholder | | |

The behaviours that are hard to test are listed with their lines under `hazards`
in `PROJECT.json`. They are of four kinds: long sequences of legal steps
(reuse of a slot, nesting of scopes and operators), arrays at their limit (silent
drops, capacities), values that are stale when used (`lifetimes[]` after a
redefinition, an interval moved by a swap) and boundaries (slot 0, `<` or `<=`,
an empty stack).

## Modules

    Lexer                 lexer_scan_errors, create_lexer
    Spelling              how the tokens of a program are written as a text

    Forest                the shape of a forest that the next two agree on
       ^ extended by
    Parser                create_parser
    Quadruples            create_tac, the symbol table, tac_create_expression

    Programs              which forest a program has
    Meanings              what a program does (extends Programs)

    SlotAssignment        what the allocator promises
       ^ implemented by
    RegSlots              create_regslots
       ^ extended by
    X64Code               the listing for the quadruples with those slots, and
                          its execution

    Binary                the bytes of the ELF file for the quadruples
       ^ extended by
    Compiler              main: instances of Lexer, Parser, Quadruples and
                          RegSlots, then the steps of Binary

    MCLexer, MCParserTokens, MCParserPrograms, MCQuadruples, MCRegSlots,
    MCX64Code, MCCompiler: the instances

    RegSlotsProofs            types, no shared slot; the ranges are the live
                              ranges, lifetimes[]; the pool, spilling, failing;
                              SlotAssignment
       ^ extended by
    X64CodeProofs             operands and arguments
    LexerProofs               bounds, tokens and text, parentheses, where
                              reading fails
    ParserProofs              bounds, types, stacks
       ^ extended by
    ParserForestProofs        the forest, every token once
       ^ extended by
    ParserShapeProofs         what create_tac is given, room for the nodes
    QuadruplesProofs          types, room, scopes, temporaries and arguments
    CompilerProofs            the status of the process

Each part is checked on its own, on inputs chosen for it, and `Compiler` runs all
of them one after the other on texts. Between the parts, `LexesItself` shows that
`Lexer` makes of a program the tokens `Parser` is given, `ParsesItself` that
`Parser` makes of these the forest `Quadruples` is given, `FeedsQuadruples` that
every forest the parser accepts has the shape that the theorems about
`Quadruples` start from, and `FeedsAllocator` that the quadruples satisfy
`Emitted`, which `RegSlots` takes for granted.

A definition whose name starts with `Mut` is no part of a model: it is the
definition it stands before, as a plausible mistake would write it, and shows
that the properties notice.

### Lexer

The lexer goes over the text twice. `lexer_scan_errors` (the `Scan...` actions)
matches delimiters, checks what stands around a colon and looks for the ends of
comments; `create_lexer` (the `Take...` actions) makes the tokens and passes over
comments with `lexer_skip_comment`, which checks nothing. `end` is where the next
word is looked for, as in the code, and one action is one turn of the loop of
either pass.

A text is a sequence of symbols: special characters one by one, blanks, and words.
`WordLength` says how many characters a word has, which only the assertion on the
length of the text asks for and which tells whether a token of one character ends
with its word: of a lock that begins with `_` only that character becomes the token
(`Of`, `First`), whose end then lies inside the word, and what is left of the word
is passed over. `At` is NUL in front of the text and behind it: those are the
sentinels of `create_source`. Reading further is `undefined`.

`Handlers` is the order of the tests in `create_lexer`, `Applies` what each of
them asks for, and `Taking(h)` says that `h` is the first that applies. A handler
that writes several tokens and then gives up (`get_Q`, the lock behind modifiers)
writes nothing in the model, since what it wrote is overwritten by the next
handler or lies behind the last token. `WithParenthesis` is the exception: an
opening parenthesis behind a lock is written at the second place from where the
handler began, also when modifiers have taken that place, and then the last token
of the handler is never written. It is `UNWRITTEN`; reading its type, which may be
what the allocation held or what such a handler left there, is undefined.

`KindOf` is what the predicates of `parser_utils.c` take a token for.
`Spelling` writes the tokens of a program as a text, densely, with blanks, or with
comments that contain delimiters and string marks between them. It models no code.

### RegSlots

`pc` is the loop of `create_regslots` that runs, `i`, `k` its indices,
`lifetimes`, `ranges` (`stack_range`), `poolReg`, `poolStack` and `active`
(`lifetime_active`) the arrays of the code. One action is one iteration of a loop
or one call: `ScanQuad`, `Collect`, `InsertKey`, `Expire`/`KeepActive`,
`AllocRegister`/`AllocSpilled`/`AllocFails`, `Assign` being the end of an
iteration that all of them share. The quadruples are chosen one at a time while
they are scanned, from the set `Inputs`; they are an input of the function and
only their operands count. `AllocFails` stands for the slot 0 with which
`regslots_alloc` reports failure, and the failures of `calloc` and `malloc` are
`CreateOutOfMemory` and `ActiveOutOfMemory`.

`SlotAssignment` says in four actions what the component is for: live ranges are
submitted, each gets a slot that no overlapping one has, or the request is
refused, and then every slot was taken. `RegSlots!Assignment` is the refinement
mapping.

### X64Code

The listing the code generator prints, which is complete where the binary is not
(see Binary). Extends `RegSlots`: `Allocate` runs it to its end, then each action emits and
executes the instructions of one quadruple, in program order, as one activation
without jumps (the code generator emits none). `regs` is what the registers hold
and `env` what the nodes mean to the program; both are symbolic, a value being
the position of the quadruple that made it. `Physical` is the map from a slot to
a register, without a look at the spilled flag; `Abort` is an assertion of
`x64_mapping.c` that fails, `ReadPastTable` an index beyond `reg_param` or
`saved_caller`. `EmitCall` is the whole of `create_call`: it pushes what
`regmap_caller_saved` selects, loads the arguments, calls, moves `rax` and pops.

`X64Assumption` says of the tables what `x64_mapping.c` has in them: the registers
of the parameters are different from each other, and the parameter at place c
lies in no register before the c-th. Parameters are moved one by one into the
first slots, and without the second a move would overwrite a parameter that is
still to come. Values are followed through an activation by `Straight`: each node
is written once, before it is read, nothing is spilled, and the parameters stand
in one run behind nothing but scopes (`OneActivation`). A parameter elsewhere
belongs to a function that is another activation.

### Parser

Tokens in, nodes in postorder out. `pc` is the place in `create_parser` or in the
handler it is in, `contexts`, `operators` and `buffer` are its three stacks.
Handlers that only move forward are one action (`GroupQualifiers`, `OpenScope`,
`ImportModules`, `CloseScope`), the handlers with a loop of their own are one
action for each turn: the expression loop from `PushCallee` to `EndExpression`,
the parameter loop, the type. `Write` is the creation of nodes with its assertion
that there is room, `Pushed` a push that is dropped when the stack is full, which
`dropped` remembers. A handler that fails halfway restores what it changed in the
code; since all such failures end in `set_error(-1)`, they are `Reject`.
`RunBelowBuffer` is the read below the base of an empty stack: what lies there in
the build is never the type of a parenthesis.

A token is its kind and a text; the parser looks at it to compare with `scope` only,
`Quadruples` to look up names and to find `entry`.
Operators are taken by precedence (`ADD` for + and -, `MUL` for * and /), the
three kinds of literals and the two kinds of modules are one each. `RSPE` are the
specials on the right of a colon that are no parenthesis, `OTHER` the tokens that
no handler accepts (`then`, the left of a colon without blanks, a lonely colon).
`ReadBehindTokens` is the look of `if_DECL_create_operator` two tokens ahead of an
`@` that is the last token.

`ShortestSource` is the least number of characters a source with these tokens
has, `Blanks` how many it has beyond that; the length of the source is the
capacity of the array of nodes.

`Programs` is the reference: it spells a program given as a tree as tokens, and
lists the nodes of its forest, without any of the parser's stacks. It models no
code.

### Quadruples

`create_tac` walks the forest from left to right without recursion: `stack`
(`stack_index`) holds the roots still to visit, `start_subtree` where each subtree
begins, which `MeasureSubtree` computes from the arities. One action visits one
node: the declarations, parameters and scopes each have their own, `PassOver` is
any other node. `StartExpression` is the call of `tac_create_expression`, whose
loop reads the postorder nodes of the expression one by one (`ReadLeaf`,
`ReadCall`, `ReadAssignment`, `ReadOperator`) with a stack of `operands`.
`entries` and `watermarks` are the two stacks of the symbol table.

`Unexpected` is an assertion that fails (`aborted`), and `MissingOperand` the read
below the base of `stack_index` or of `stack_buffer` (`undefined`), which happens
for `();` or `a+;`: the parser does not see that an operand is missing. What an
earlier instruction left on the stack of operands is taken instead if there is
any, and the model does the same. An operand that is left over, or that is taken from
in front of a declaration, moves the first node of that declaration away from its
name: then no scope is opened for it, while its `SCOPE_END` closes one
(`NoScopeLeft` is the assertion for which none is left). `Headed` says that no
declaration is so. `Pushed` drops what finds no room, and `dropped` remembers it.

`Parsed` is that the forest is `WellShaped`: every parent has children, the nodes of
a scope and of what it initializes stand side by side, and the source has a
character for each quadruple and each operand. `ProgramsAreWellShaped` evaluates it
for every program of the run.

The null node, the sentinel, the null entry of the symbol table and the null
quadruples are left out, and the capacities are those of the code less these.
`stack_depth` is written and never read.

`Meanings` says what a program of `Programs` does, on its tree: names are looked up
in an environment passed downwards, and the value of an expression is a term.
`MCQuadruples!Execution` runs the quadruples. Both yield the list of what happened
(stores, calls, scopes), and `DoesWhatItMeans` compares them. It leaves out the
programs in which the order of evaluation decides, for a name is read when its
operator is emitted and not where it stands: `a + (a = b)` reads what was just
stored. Nothing in the repository says which is meant.

### Binary

`file` is the sequence of bytes written, `pos` the quadruple, `start` the offset
of the entry. One action writes the bytes of one quadruple: `WriteMove`,
`WriteSum`, `WriteExit`; `WriteMark` notes where the marked scope begins, and
everything else is `WriteNothing`. That is much: parameters, arguments, calls other
than `exit`, multiplications and divisions leave no byte. `WriteEnd` is
`binary_x64_elf_terminate`, which writes the size and the entry over the header.

`LitToU64` is the reading of a literal with its base, the mark between digits and
the wrap at 64 bits, in eight bytes because TLC's integers are shorter. The
encoders are operators named for the instruction. `AbortWriting` stands for the
assertions on registers and on the size of an operand, `ReadBehindTable` for an
index beyond `reg_param` or `saved_caller`.

`RegSlots` keeps the names and the temporaries of one node apart, the code has one
entry for both: `Place` and `SlotOf` translate.

### Compiler

`phase` is where `main` is. The parts are instances that share their variables: the
tokens of `Lexer` become those of `Parser` in `Lexed`, the quadruples are scanned
by `RegSlots` in their order (`Seen` is what it sees of one), and `Emission` reads
the lifetimes. `Enters` is a part that begins or that had no memory to. `Printed`
is the tree printer of the debug build, which stops a compilation with an empty
forest or a missing child; the release build goes on, and so the phase is chosen
between both. `CannotOpenSource` is the source that cannot be opened or allocated:
`create_source` then goes on with null pointers.

`MCCompiler` has a processor for the instructions that are written
(`Instruction` decodes, `Executed` executes on symbolic registers), and
`BinaryExits` compares the register of the status with what the program means by
`Meanings`.

## Runs

| run | question | bounds |
|---|---|---|
| `regslots` | are the lifetimes the live ranges, does the linear scan keep values apart, lose no slot, spill and fail only when it must, is the table right that the code generator reads? | all lists of up to 4 quadruples over 3 nodes, one of them a temporary; lists of 5 over 4 nodes of the shapes that keep values alive; 2 registers, 1 spilled slot: four values can be alive, so that every slot is reused, spilled, refused; every allocation failure |
| `x64_code` | does every operand hold its value, do arguments arrive? | 5 quadruples, 4 nodes written once, 3 registers, 2 of them destroyed by a call |
| `x64_assertion` | can the encoder be handed an operand without a register? (finding) | the same |
| `x64_redefinition` | does a value survive a call when its node is written again later? (finding) | assignments and calls only |
| `lexer` | do both passes agree on comments and strings, do the tokens cover the text, does a program become the tokens it was spelled from, does the lexer return? | all texts of up to 3 pieces, and of 4 for most sets, from eight sets of 4 to 14 pieces (colons and parentheses, comments, literals, keywords, qualifiers, nesting, comments one pass reads as code); every instruction of the language spelled in three ways |
| `parser_programs` | is every program parsed into its own forest? | 9498 programs: expressions of two and, on one side, three levels; pairs of instructions; scopes, labels and PALs nested twice |
| `parser_tokens` | whatever the tokens are, is what is accepted a well-nested forest that uses each token once and has the shape `create_tac` needs, is there room for it, and does the parser stop? | all balanced lists of up to 4 of 16 pieces and up to 6 of the pieces that nest, stacks of 4 entries |
| `parser_nodes` | is there room when the source has not a single blank? (finding) | the declarations of PALs without parameters |
| `quadruples` | do the quadruples do what the program means, is every scope closed, and is there room for all? | some 5000 programs: expressions of two levels over two names, redeclarations in scopes, labels and PALs, prototypes, qualifiers, missing operands and operators |
| `quadruples_names` | is every name that is used declared? (finding) | the same |
| `quadruples_scopes` | is there a scope for every end of a scope? (finding) | the same |
| `compiler` | does the binary of a program exit with the status the program means, from the entry it marks; does the header describe the file; does the status of the compiler tell whether there is a binary; does it end? | some 200 texts: literals in all bases and at 32 and 64 bits, nested sums and differences, 13 to 15 variables for 14 registers, entries at labels, scopes and PALs before and behind other scopes, and texts each part rejects; any part may be without memory; `MaxNodes` 122, the size of the largest forest; three spilled slots |

Why these bounds: the linear scan compares two intervals at a time and moves a
third (the last active one), so that four nodes and three slots meet all
combinations of ended, moved and kept; with two registers and one spilled slot
five quadruples reach the point where nothing is free. A call has one argument
register and one for the result in `x64_code`, and one register that survives it.
The parser's stacks interact through at most three nested constructs
(declaration, initialization, scope), which six pieces write. In `quadruples` a
name is declared up to three times at up to three depths, so that a scope can
hide, leak or forget it; about a thousand programs leave the order of evaluation
open or miss an operand or an operator, and are checked for everything but
`DoesWhatItMeans` and `AbortsOnlyUndeclared`; as many of the others use a name that is
not visible. Sources
are as short as the lexer accepts, which makes the lists as short as they can be.
The handlers of the lexer look at most two symbols ahead of a word and one behind,
or for the next word that is no modifier, so that texts of four pieces hold a
handler, what it looks at and what the next one makes of the rest; comments, which
reach further, are pieces of three symbols. The compiler runs one program after
another rather than all short ones: its parts have been checked on their own, and
what is asked here is whether they agree. `CountSpilled` is 3 where the code has
512: a sum of fifteen variables spills no more than two values, and the first
spilled slot already ends in an assertion of the encoder.

`PROJECT.json` gives for each property a mutant of the model that TLC rejects
under the same configuration.

## Fairness

The compiler is one thread that never waits: while a step is possible it takes
one. `FairSpec` is therefore weak fairness of the whole next-state relation and
of nothing else; no single action is promised anything. `Terminates` then says
that no loop spins. It is checked of the lexer, of the parser, of the walk, and of
the compiler with all its parts, where the loops of the allocator are among them.

## What is proved

Every theorem holds for all values of the constants that satisfy the named
assumption of its module; `PROJECT.json` lists them. Each rests on an inductive
invariant that is stronger than the property, checked by TLC before it was proved.

### The register allocator

From `RegSlotsAssumption` alone (the sizes are natural numbers, inputs are
quadruples over the nodes), for every number of registers, spilled slots, nodes
and quadruples:

* `Typing`: `Spec => []TypeOK`: the slots are null, a register or a spilled slot of the
  pool, `active` holds positions in `ranges`, and in each loop `i` and `k` stay within
  what that loop walks or one past it (`IndicesInside`). `TypeOK` is not inductive,
  because it does not say that nothing is active before the ranges are sorted;
  `TypeInv` adds that.
* `NoSharedSlot`: `Spec => []OverlapDistinct`, that values alive at one quadruple
  have different slots, from `IInv`. While intervals are given slots, `IInv` is
  `ScanInv`: the active positions lie before the interval at hand and their slots
  are taken in the pool (`ActiveTaken`), their slots are distinct
  (`ActiveDistinct`), an interval before it that is not active ended before it
  starts (`InactiveEnded`), and `ranges` is sorted by start (`SortedUpTo`). The last
  is needed because an interval is dropped when it ended before the *current* one,
  which says nothing of later ones unless those start later still; the first is
  needed because a slot that is not taken in the pool must belong to no active
  interval when it is given out. `InsertSorted` is that the insertion sort sorts,
  `ExpireKeepsScanInv` that the swap which removes an active interval loses none,
  `AssignKeepsScanInv` the end of an iteration.
* `RangesComputed`: `Spec => []RangesAreLiveRanges`, from `RangesInv`. It describes
  `lifetimes[]` in the middle of the scan (for each node the range of its last
  definition so far, ending at the last use so far) and `ranges` as a *set* (the
  ranges of the definitions overwritten so far; later of all), since the sort
  changes the order and nothing else. That no push is dropped is part of it:
  there are at most as many ranges as definitions, which is a bound on a
  cardinality.
* `LastSlotFound`: `Spec => []LifetimeHasLastSlot`, the table the code generator
  reads, from `SlotsInv`: an interval that got its slot has written it to its node,
  and since later intervals start later the last write is the last range's.
* `PoolConserved`: `Spec => []PoolMatchesActive`, from `PoolInv`: a slot that is
  not free is held by an active interval. The other direction is `ActiveTaken`.
* `LowestSlotTaken` and `FailsUnderPressure`: a slot of rank R + 1 is given out, or
  the allocation fails with R slots, only where R + 1 values are alive. The
  intervals that hold the R lower slots and the one at hand are different, and all
  are alive where it starts, because the inner loop has been over every active
  interval (`StillAlive`); the map from ranks to intervals is an injection, and so
  `Pressure` counts R + 1 at least (`PressureBound`).
* `Implements`: `Spec => ImplementsSlotAssignment`. Initial states map to initial
  states; the end of the sort maps to `Submit`, an iteration to `Accept`, a failure
  to `Refuse`, and everything else to a stutter. `MappingFacts` shows that the
  mapping is a function: no two intervals have the same start, so that a live range
  has the slot of the one interval it belongs to.

### The listing

* `XTyping`, without a hypothesis on the program.
* `ValuesReachOperands`: `XSpec => []OperandsHoldValues`, and `ArgumentsLoaded`:
  `XSpec => []ArgumentsArrive`, from `AllocInv` (all of the above, about the slots)
  and `XInv` (about the registers): a value made so far that may still be read is in
  the register of its node, and the parameters that have not been moved are where
  the caller left them. A value survives the move of another because their nodes
  have different registers, which is `NoSharedSlot` and `LastSlotFound`; it survives
  a call because what `regmap_caller_saved` selects is every register with a value
  alive behind the call; and a parameter still to come survives the moves before
  it because with c values alive no slot beyond the c-th has been given out
  (`LowestSlotTaken`) and `X64Assumption` has it further right. So the last theorem
  of the pool, which reads like one about speed, carries correctness here.

### The lexer

From `LexerAssumption` (the kinds of words are disjoint from the special
characters, a word has at least one character, and two words never touch), for
every text:

* `Invariant`: `Spec => []IInv`. Its parts are proved together, since each handler
  disturbs all of them. A handler is looked at once, by what it makes: `Fills(ts, e)`
  says that the tokens `ts`, made of the text from the word at hand up to `e`, are in
  order, hold what is there or stand for it (`Cover`), and are no more than the
  symbols they replace. `TakenKeeps` shows that appending such tokens keeps the
  invariant, `AbsorbedKeeps` that `then` may take earlier ones back, and for each
  handler a lemma shows that its tokens fill (`FillsQualifiers`, `FillsParenthesis`,
  ...).
* `WithinBounds`: `Spec => []TypeOK`. The array of tokens is allocated for as many
  as the source has characters, before any is made. What is inductive is
  `CountInv`, that there are no more than the characters read so far (`Offset`),
  and not the bound itself; `nest` is bounded the same way.
* `CoversText`: `Spec => []TokensCoverText`, from `OrderInv` and `CoverInv`. The order
  holds whenever all tokens are written. That nothing is lost is about accepted
  texts in which `~` and `,` stand alone (`SignsAlone`) and every `[` is closed
  (`BracketsClosed`), and except for the rest of a lock that begins with `_`; that
  each of these is needed is shown below, under the behaviours. `SignsInv`
  is what the absorption needs: a token that begins with a sign is that sign, so
  that nothing but the sign is lost, and that sign is one `Mark` knows. `SkippedInv`
  keeps apart what is passed over as a comment and what is in a token.
* `LeavesUnwritten` and `ReadsWhatIsThere`: `Spec => []UnwrittenOnlyBehindModifiers` and
  `Spec => []UndefinedOnlyUnclosed`.
* `AbortsDense`: `Spec => []AbortsOnlyDense`, from `DenseInv`: as long as there are as
  many tokens as characters, every character is one. The handlers that pass over a
  symbol without a token for it lose the race for good, because `Offset` grows by
  one at least with each symbol (`OffsetGrows`). The one handler that makes a token
  of nothing is `get_Q` in the text `[`, and `LoneInv` says that the scan refuses it.
* `DepthInvariant`: `Spec => []DepthInv`. `Level(S)` is how many parentheses are open at
  each position of the text if those in `S` do not count. As long as the scan runs,
  those open in what it has read, its comments aside, are those in its memory area;
  when it lets the text through, all are closed and none was closed that had not been
  opened. This needs that it passes over no parenthesis unseen: it does so only in a
  comment and in a character literal (`PassKeeps`, of which each `Scan...` action is an
  instance).
* `ClosesWhatItOpens`: `Spec => []ParenthesesBalanced`. The depth of the tokens is the
  level of the text at the last symbol each of them holds (`TokenAdds`): what stands
  between two tokens is blank, a comment or a `Mark`, none of which is a parenthesis
  (`CoverInv`), and a token that can be one is a single symbol and known by it (`Alone`
  in `SignsInv`), so that one parenthesis is one token, in the order of the text, and
  nothing else is.

### The parser

From `ParserAssumption` alone, for every list of tokens, length of the source and
size of the stacks:

* `BoundsKept`: `Spec => []BoundsInv`, also in runs that dropped pushes: `i` stays on
  the tokens and the sentinel, no handler pops an empty stack, the scope that
  `create_parser` opens first is never closed, the nodes fit their array. The parser
  does read behind the sentinel, for an `@` that is the last token
  (`ReadBehindTokens`), and `BoundsInv` says that this is the only place where a run
  ends as `undefined`.
* `StacksOwned`: `Spec => [](BoundsInv /\ StackInv)`, while nothing was dropped. It
  says in every phase which operators lie above the watermark of the innermost
  scope (`OwnedOK`) and what the watermarks of two nested scopes have to do with each
  other (`ScopesOK`). Scopes come in two sorts, one that initializes a label or a PAL,
  whose operators lie below the watermark and are taken up again at its end, and
  one that is an instruction and has none below. The stacks look the same for
  both. `TokensOK` tells them apart: an operator that a scope initializes was pushed
  behind the scope around it, so that tokens decide which operators belong to which
  scope.
* `Typing`: `Spec => []TypeOK`, and `StacksEmptied`: `Spec => []Emptied`, that an
  accepted source leaves no operator and no scope but the first. A dropped push
  breaks this, which is why both inductive invariants are needed: the first holds
  always, the second only while `dropped` is false.
* `ForestNested`: `Spec => []Nested`. The parser never looks at a tree: it counts
  arities on its stack and children in its scopes. `Trees` counts the complete trees
  among the nodes written, an expression being one, and `ForestOK` says where each
  of them will be a child: `SharesOK` gives every open scope a place among the
  nodes from where on they are its own, and the trees behind it are the children
  it has counted and those counted on the operators above its watermark
  (`Waiting`). A `SCOPE` then finds its children exactly (`ClosedOK`), because the
  tokens of the nodes behind its place are those read since its own (`PlacesOK`).
* `AcceptedForestKept`: `Spec /\ ParenthesesMatch => []AcceptedForest`, about sources
  of which no push was dropped. Whether an
  opening parenthesis is written as if it was an operator is a question about the
  whole source: one that is never closed in its expression is. `ParenthesesInv`
  counts: as many parentheses were opened as were closed, wait in the buffer, have
  been written, or enclose the parameters being read. At the end of a source whose
  parentheses match, none is left to have been written. `ParenthesesMatch` is what
  the scan of `lexer_error.c` refuses a source without: `ClosesWhatItOpens` is the
  same of the tokens that the lexer returns.
* `TokensKeptOnce`: `Spec => []EveryTokenOnce`, from `NamesInv`: while nothing was
  dropped, each token read that is a name, a literal, a lock, a qualifier or an
  operator (`Named`) is named by one node or by one item of the buffer and not by both
  (`Said`, `Once`), and nothing names a token that was not read. Every handler is one
  of three kinds: it writes all it reads (`NamesWritten`), it reads and writes no name
  (`NamesMute`), or it moves the top of the buffer to the nodes (`NamesMoved`). The
  operators of the instructions need not be followed: none of them names a token
  (`MuteTypes`). The `=` of an initialization is not among the operators: it follows
  what a declaration ends with (`DeclarationEnds`), which is where the parser passes
  over it (`PhaseOK`). A source that loses a push to a full stack may lose an
  operator with it, and nothing is said of it. The theorem needs no assumption on the
  parentheses.
* `AcceptedFeedsQuadruples`: `Spec => []FeedsQuadruples`, and `AbortsAtComma`: if
  `Blanks > 0`, `Spec => []AbortsOnlyAtComma`. Both rest on two invariants.
  `ShapeOK` says of the nodes already written what `WellShaped` says of all, except
  that an `INIT_VAR` at their end waits for the declaration that the operators
  hold; that a `SCOPE` finds the operators it initializes is `TokensOK` and
  `VariableOK`. `RoomOK` weighs: the nodes written, one for every operator that
  waits on a stack and two for every open scope are no more than the characters
  read so far (`Spent`), and the same with a second quadruple for every callee
  (`Excess`), whose parenthesis pays for it. A handler may write before it reads
  what pays: `Allowed` is how far that goes in each phase, between one character
  too many and three too few, and where it is above zero the period or semicolon
  that settles it is still to come. `Characters` is the recursive function behind
  `ShortestSource`, token by token, and two tokens that would run together need a
  character between them; that the two agree is the argument of the least
  difference below. At a comma outside parentheses the code takes a node of its
  buffer that is not there, which is why that one abort remains. A push that was
  dropped voids both: `parser_tokens` starts from such a source too, where the
  scope of a PAL whose operator was dropped takes that of another declaration and
  aborts.

### The quadruples

For every forest that is `WellShaped`, which is `Parsed`. It is a
hypothesis of every theorem here, since `create_tac` looks at none of it, and the
conclusion of `AcceptedFeedsQuadruples`: whatever the parser accepts without having
dropped a push satisfies it. The run `quadruples` checks it of the programs it
walks. Forests with operands missing or left over
are well-shaped too.

* `QuadruplesInvariance`: `Spec /\ Parsed => []IInv`. While subtrees are measured,
  `MeasureInv`: those measured tile the nodes (`Tiles`), so that the children of a
  node are the subtrees right before it. While they are visited, `VisitInv`: the
  subtrees still to visit are disjoint (`Apart`), and there is a set of nodes, no
  variable of the code, that holds them all (`Covers`) and none of the nodes a
  quadruple, an entry or an operand was made of. All the rest hangs on that set,
  which loses a node whenever one is processed.
* `NothingLostToFullStack`: `Spec /\ Parsed => []NothingDropped`, from `Room`: what was
  made so far and what the nodes left may still make (`Weight`) is together no more
  than the capacities. A call makes two quadruples at one node and an
  argument one each, and the arguments are paid for by the nodes they were read
  from.
* `ScopesNested`: `Spec /\ Parsed => []ScopesNest`, from `Nested`: each scope that is
  open ends at a `SCOPE_END` still to visit (`Open`), in the order of the stack, and
  the watermarks are as many as the quadruples opened and did not close. The
  scope of a declaration is opened at the declaration and closed two nodes before
  its initialization, which is where `SideBySide` is needed.
* `AllocatorFed`: `Spec /\ Parsed => []FeedsAllocator`, from `Feeding`: an operand is a
  temporary that one quadruple wrote, no other node is made twice, and what is read
  was written before. `Produced` says what one node of an expression adds, and
  leaves, call, assignment and operator are instances of it.
* `OperandsTyped`: `Spec /\ Parsed => []TypeOK`.

`Headed`, with which `ScopesNest` and the last part of `FeedsAllocator` begin, is a
hypothesis on the program. Without it both are false, as `quadruples_scopes` shows.

### The compiler

* `StatusTold`: `Spec => []StatusTellsBinary`, from `PhaseInv`: whoever is in a phase
  knows what every part before it returned, and nothing is written before the last
  phase begins. It uses of each part only the places where it ends.

### How, and what stays with TLC

Recursive definitions are out of reach where a proof needs induction over data.
Some are not: a set of numbers has a least element (`LeastNat`, from the
well-foundedness of finite sets), and a recursively defined function whose
definition fits a number and its predecessor can be compared with another one at
the least place where they differ. In this way the proofs have the sum of arities
`Trees`, the length `ShortestSource`, the registers `Loaded` for a call and the depth
of parentheses.

With TLC stay liveness (`Terminates`), since it needs `ENABLED`; of the parser
`ParsesItself`, which compares with the reference in `Programs`; of the quadruples
`DoesWhatItMeans`, `AbortsOnlyUndeclared` and `StartsAtPlainEntry`, which compare with
`Meanings`; of the lexer `SameComments`, which would need to know in each of its two
passes how the other has read or will read the text, and `LexesItself`, which compares
it with `Spelling`; the properties of
`Binary`, whose references are recursive on bytes.

## Findings

* A key that is read and never written reaches the encoder without a register,
  whose assertion fails (`x64_assertion`).
* When a key is written before a call, read after it and written again later, the
  register of the first value is not saved around the call (`x64_redefinition`):
  `lifetimes[]` has forgotten it.
* `@f:();` without any blank or newline in the file has as many nodes as
  characters, and an assertion of `parser_node.c` fails (`parser_nodes`). A comma
  outside parentheses fails the same assertion; `AbortsOnlyAtComma` says that
  there is nothing else while the stacks have room.
* A name that is used and not declared, as in the program `a = 1;`, is not
  reported: the assertion that it has an entry fails (`quadruples_names`).
* A label or PAL whose first node is an operand that was missing or left over opens
  no scope and closes one: `@a:A; @l:scope() a a; . @l:scope() (); .` closes
  SCOPE_0, and then fails the assertion that there is a scope to close
  (`quadruples_scopes`). The proof of `ScopesNested` found it.

Behaviours that are no findings; the models have them, and the properties say where
they stop. Of one a comment of the code says otherwise:

* A comment that the text ends in, as `|-- x --`, is closed for the scan, and
  `lexer_skip_comment` runs on behind the text (`UndefinedOnlyUnclosed`). Where it
  looks for the end of the comment, `lexer_utils.c:258` says "error checked", which
  this one was not.

Of the others nothing in the repository speaks:

* `[entry]` before a scope that begins with another scope marks the inner one,
  since `scope_is_entry` looks at what stands before the first node of a subtree
  and both have the same (`StartsAtPlainEntry`).
* In `@f:&b(x:u8);` the parenthesis is written over the lock, and the last of the
  tokens is never written (`UnwrittenOnlyBehindModifiers`).
* Of a lock that begins with `_` the token is the underscore alone, while the whole
  word is passed over: in `a:_foo` no token holds `foo` (`TokensCoverText`, with the
  underscore in `Mark`; the word `_x` of the run `lexer`).
* `then` absorbs a token before it that begins with `~` or `,` whatever its type is:
  in `` `~x` then `` the string is lost, and the scope is taken for that of an else
  (`TokensCoverText`, with `SignsAlone`).
* Behind a bracket that the scan took for a part of a comment, and so did not
  match, the last word of the text is lost (`TokensCoverText`, with
  `BracketsClosed`). The attempt to prove `TokensCoverText` found both.
* The scan takes `|--` behind a special character for modifiers, and the mark
  between digits for that of a string: `;|-- ( --|` is rejected where
  `; |-- ( --|` is not, and an odd number of marks in a number is refused
  (`SameComments`, with `Detached` and `MarksDelimit`).
* A mark of a string between brackets is a qualifier for `create_lexer` and begins a
  string for the scan; and where the scan sees the character literal of a colon,
  `create_lexer` sees the left of a colon, and takes the next character for the
  literal that ended for the scan (`SameComments`, with `MarksDelimit`).
* Between the brackets of a qualifier a parenthesis is a qualifier too: in
  `[(+] )]` the scan finds the brackets closed, because it takes `]` behind `+` for a
  modifier, and the parser is given a closing parenthesis without the other
  (`ParenthesesBalanced`, with `NoParenthesisElsewhere`).
* A parenthesis in front of a colon that touches it is no parenthesis for the
  parser (`ParenthesesBalanced`, with `NoParenthesisElsewhere`), and a parameter
  written `x:A` is not one: it must be `x :A` or `x: A`.
* `exit` takes what the quadruple before its call reads for its argument, so that
  `exit()` and `exit(f(a))` exit with something else; multiplications and
  divisions leave no instruction; a literal added must be below 2^31, which is
  asserted; digits A to F count in every base (`BinaryExits`, `LitToU64`).
* With fourteen variables alive a value is spilled, and the encoder aborts.
* In the debug build `();`, `a+;` and `;` stop in the tree printer.

## Not modelled

* The wording of the listing and of the debug printers, and the results of
  `fwrite`, which the code does not look at.
* `MemoryChain` of the allocator, `binary_x64_elf_write` and `parser_error.c`,
  which no file uses, and the linker, which is a placeholder.
* Null characters inside a source file, and which characters a word consists of:
  the words are constants with the properties `lexer_is_name` and
  `if_LIT_create_token` would find.
* The order in which `main` destroys what it made: every part is destroyed once,
  by a call on a line of its own, whatever was created.

`OperandsHoldValues` speaks of programs that write each node once and spill
nothing, `ArgumentsArrive` of arguments that do not lie in a register an earlier
argument is loaded into: the code does nothing about the others. `BinaryExits`
speaks of calls of `exit` with one argument whose value the binary can know.

## Plan

1. Register allocation, its abstract specification and proofs; the listing made
   from it; the parser; the quadruples and the symbol table. (done)
2. The lexer with its two passes; the binary; all parts composed as in `main`,
   from texts to bytes. (done)
3. Proofs about the allocator, the refinement of `SlotAssignment`, the listing,
   the stacks and the forest of the parser and the status of the compiler. (done)
4. Proofs about the quadruples: their types and room, that scopes nest, that a
   temporary is written by one quadruple and before it is read. (done)
5. `FeedsQuadruples` and `AbortsOnlyAtComma` as theorems of the parser; of the
   lexer its bounds, that the tokens cover the text and balance its parentheses, and
   where it fails. (done)
