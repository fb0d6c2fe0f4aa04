# Verification of Custom Lox Abomination

TLA+ modules, TLC runs and TLAPS proofs about CLA, the interpreter in
`src/src` and `src/include`. Source paths below are relative to `src/src`
unless they say otherwise.

## The system

CLA compiles a source text to bytecode in a single pass and executes it on a
stack machine. It is used in two ways: `cla FILE` interprets one file,
and without an argument a REPL edits physical lines, joins them to logical
lines while the compiler reports an unexpected end of the source, and
interprets each logical line in a virtual machine that lives as long as the
session. The C code is sequential; what is concurrent is that several REPL
sessions share one history file, that signal handlers interrupt the program and
each other at any step, and that keys arrive while the program waits for the
rest of an escape sequence.

| component | state | operations | talks to |
|---|---|---|---|
| Lexer `frontend/lexer.c` | cursor, line, column | `lexer_init`, `lexer_scan` | called by the compiler, a token at a time |
| Compiler `frontend/compiler.c` | previous and current token, error state, the C call stack | `compiler_compile` | lexer; appends to a chunk; makes string objects |
| Chunk `backend/chunk.c`, `include/utils/darray.h` | code bytes, run-length encoded lines, constants | append instruction, append constant instruction, find the line of an offset | written by the compiler, read by the VM |
| VM `backend/vm.c`, `value.c` | operand stack, instruction pointer | `vm_init`, `vm_execute`, `vm_destroy` | chunk, objects |
| Objects and GC `backend/object.c`, `gc.c` | list of made objects, content blocks | make a string, release everything | linked from the VM, made by compiler and VM |
| Interpreter `interpreter.c` | none of its own | `interpreter_init`, `interpreter_interpret`, `interpreter_destroy` | compiler, then VM |
| Gap buffer `cli/gap_buffer.c` | buffer, capacity, the two ends of the gap | insert, delete, move, load, clear | used by the REPL for the physical line |
| History `cli/history.c` | ring of entries, browsed entry, file | init (trim, load), append, browse, destroy | REPL; the file, shared with other sessions |
| REPL `cli/repl.c` | physical line, logical line, modified flag, continuation flag | one step per key, one per finished line | all of the above, the terminal |
| Terminal `cli/terminal.c` | terminal mode, handlers, queue of rejected characters | enable noncanonical mode, read a key, restore | REPL; the terminal, the signals that reach the process |
| Command line, file execution, I/O, errors | option values, global streams | | `main` |

### What is hard, and what makes each component correct

* **Compiler.** The call stack of mutually recursive handlers is abandoned
  half-way at a syntax error, but the callers still emit. Correct code must
  nevertheless balance the operand stack, because the VM cannot tell (its
  assertions compare with the whole stack). Only the first error counts, and
  whether it was the end of the source decides whether the REPL asks for
  another line. The main loop has no synchronisation point, so termination
  rests on every iteration consuming a token.
* **Chunk.** Operands of one and two bytes, the limit of the constant pool, a
  growth that must make room for two bytes at once, and a line lookup that
  walks bytes in which operands look like opcodes.
* **VM and interpreter.** A runtime error does not unwind the stack; the
  next call of the session executes on top of what is left. Strings point into
  source text that its owner overwrites after the call.
* **Gap buffer.** Index arithmetic on unsigned numbers, two coordinate systems
  (content and buffer), growth.
* **History.** A ring that wraps, `-1` as two different sentinels, a file that
  is trimmed, loaded and appended to in separate steps by several processes
  that may be killed in between.
* **Lexer.** Loops that must stop at the terminating NUL, the longest token by
  one character of lookahead, and a position kept in two loops.
* **REPL.** A flag decides which keys may replace the line; the logical line is
  an allocation that still holds what earlier lines left, with counts that
  include the NUL; recorded errors are shown for one status and dropped for
  another.
* **Terminal.** A sequence that is given up early gives its characters back, in
  order and before what is typed later; the end of a sequence may arrive just
  too late; signals nest, and each handler raises its own signal again.

`PROJECT.json` lists the hazards line by line with the properties that cover
them.

## The modules

```
Bytecode <- InstructionList <- Compiler <- CompilerGrammar <- CompilerReference <- MCCompiler
            Objects         <-/   ^             \<-- CompilerProofs
               ^-- VM <-- Interpreter
Interpreter, CompilerGrammar        <- InterpreterMeaning <- InterpreterReference <- MCInterpreter
InterpreterMeaning, CompilerProofs  <- InterpreterProofs
DynamicArray, Bytecode <- Chunk (INSTANCE ChunkPromise) <- MCChunk, ChunkProofs
Lexer        <- LexerReference <- MCLexer, LexerProofs
GapBuffer (INSTANCE TextLine)       <- MCGapBuffer, GapBufferProofs
History   (INSTANCE RecentEntries)  <- MCHistory,   HistoryProofs
History, DynamicArray <- Repl (INSTANCE TextLine) <- MCRepl
Repl, HistoryProofs   <- ReplProofs
TerminalKeys <- Terminal <- MCTerminal, TerminalProofs
```

**Bytecode, InstructionList.** The instruction set and a chunk as its users see
it: a list of instructions (opcode, operand, position of the source token) and
a pool of constants. `height` in an instruction is auxiliary: how many operands
are on the stack when it starts, by the arithmetic of `Pops` and `Pushes`.

**Objects.** Values, string objects and content blocks. Texts are sequences of
opaque atoms. `origin` says which source text a string points into.

**Compiler.** `frames` is the C call stack; each action is one stretch of one
`compile_*` function between two calls or returns (`CompileHead` and
`CompileTail` are the two halves of `compile_precedence_expr`,
`CompileOperator` the emitting end of the handlers). `Nud`, `PrecedenceOf` and
`RightOperandPrecedence` are `parse_rules` and the two associativity handlers.
`height` and `token` of a frame are auxiliary: the height of the operand stack at
which the frame's expression starts, and where in the source its operator is.
The lexer is nondeterministic: each scan may deliver any token of `Tokens`,
preceded by up to `MaxErrors` ERROR tokens, or EOF, after which it delivers EOF
again. `status = "exit"` is `ERROR_MEMORY`, which ends the process.

**VM, Interpreter.** One action per group of opcodes that `vm_execute` treats
alike. `Interpreter` composes compiler and VM: `InterpretCall`, `Compile`,
`CompilerReturns`, `Execute`, `VmReturns`, `Destroy`. Doubles are opaque; what
C does with them (`==`, `<`, arithmetic, `%g`) are constant operators.
Auxiliary are `base`, the height of the stack when the running chunk started;
`results`, what each of its instructions made, or discarded if it makes nothing;
`output`, the texts it printed; and `errorPos`, the position of the instruction that
failed.

**Chunk, ChunkPromise, DynamicArray.** The three dynamic arrays of `chunk.c`
with their capacities. `Decoded` reads the bytes back with the walk of
`chunk_get_instruction_line` and the operand decoding of `vm_execute`.
`ChunkPromise` is an instruction list that is appended to. `KeepsInstructions`
says that the chunk implements it and, call by call (`CallsAppend`), that what a
call appends is its own opcode or constant, with its own line.

**GapBuffer, TextLine.** The buffer cell by cell, with an arbitrary character in
cells never written. `TextLine` is a text with a cursor, with an action for what
each operation is named for; `EditsLine` ties every operation to its own
(`InsertsOrLoads`, `Deletes`, `Moves`). Only moving right by a word does not
do what it says (see below): `EditsLine` asks for the end of the next word when
the gap is empty, and otherwise that the text stays and the cursor moves to
the right (`MoveRight`).

**History, RecentEntries.** Ring, file and phase of a session (`closed`,
`trimming`, `truncated`, `trimmed`, `open`), with `AppendElsewhere` for the
other sessions and `Kill` for the end of the process. `RecentEntries` is a list
of the most recent lines, a cursor and the list the next session starts with.
`KeepsRecentEntries` says which of its actions each operation is
(`OperationsKeepEntries`): the line appended is the line entered, older and
newer go their own ways, trimming changes nothing.

**Lexer, LexerReference.** `lexer_scan` a character at a time; `pc` is the loop it
is in, `cursor` the index of `lexer.char_cursor`. Texts are sequences of
characters of a few classes. `scanned` is auxiliary: all tokens but EOF, with
their first and next index. `LexerReference` is the lexical grammar without a
cursor: what a token looks like, what a gap is, and that the longest token wins.
The compiler does not run on this module but on any sequence of tokens, of
which these are some (`EofIsForEver` is what it relies on).

**Repl.** One action per kind of key, `EnterKey` for `handle_physical_line_end`,
`InterpretLogicalLine` for what follows. It extends `History` and takes the
physical line to be a `TextLine`, which is what `edits` and `GapBufferProofs`
show of the gap buffer for lines that fit its initial capacity. `data` is the
allocation of the logical line, byte by byte, with what earlier lines left in
it; `errorFile` the temporary file with its position. The interpreter is two
constants: the status it returns for a source and the errors it records.
`logical`, `settled` and `lastLine` are auxiliary: what was entered, the line
when it was last browsed, the last line that is not blank.

**TerminalKeys, Terminal.** `TerminalKeys` is `terminal_read_key` a character at a
time, with stdin as a script of which a growing part has been typed. A read that
waits for the rest of a sequence may give up whenever nothing is there
(`ContinuationMissing`): 50 ms pass in no particular order with the typing.
`Terminal` adds the mode, the registration of handlers step by step, and
`Deliver`, by which a signal arrives between any two steps. `handling` is the
stack of handlers that have not returned.

**CompilerGrammar, CompilerReference, InterpreterMeaning, InterpreterReference.** The language stated
without parser, stack or instructions. `CompilerGrammar` has what proofs are
about: viable prefixes (`After` is an automaton with a counter for parentheses),
programs, what can still become one, the literals of a source, and the order of
evaluation. That order needs no parse: what ends an operand is the next infix
operator in the same parentheses that binds no tighter, the closing parenthesis
around it, or the semicolon (`EndsOperandOf`), an operator is applied right after its
operand's last token (`EvaluatedAfter`), and of what one token completes the
innermost goes first (`Precedes`). An instruction finds its operands by the heights
of the stack alone (`FindsOperands`): the left operand of an infix operator is
what the last instruction before the operator's token left, and nothing
since then went below it.

`InterpreterMeaning` says what each evaluation makes of what its operands made
(`MeaningFrom`), a value or a failure, without a stack, an instruction or an
object. The left operand is what is evaluated last before the operator's token, the
right one what is evaluated last before the operator itself (`LeftOperand`,
`RightOperand`). Neither module has a recursive operator, so both can be
proved about. `CompilerReference` adds the postfix order of a token sequence,
`InterpreterReference` the value, output and failure position of a program as a
whole, both recursively.

## The runs

| run | question | states |
|---|---|---|
| `errors` | any source of at most 5 tokens of 9 kinds and ERROR tokens: inductive invariant, acceptance of exactly the programs, error reporting, unexpected end exactly when the source can be completed, termination | 628,000 |
| `language` | correct sources: exactly the programs of the grammar compile, to the postfix form of their expressions, which performs every operator where its operand is complete, the innermost first, and finds its operands in their places on the stack; operands fit and constants are in order | 1,081,000 |
| `calls` | two calls and a destroy: operands above the base, leftovers untouched, no string of an earlier source reachable, every call returns | 370,000 |
| `programs` | output, success and error position are those of the program's meaning; every single result is what the operator makes of its operands' | 2,484,000 |
| `chunks` | the bytes read back are the instructions appended, each with the opcode, constant and line of its call; appends stay in their allocations | 6,300 |
| `edits` | each operation of a gap buffer whose line fits edits the line as it is named and stays within its buffer | 41,000 |
| `sessions` | ring and file keep the most recent entries through appends of others and kills; appending and browsing do what they are called for | 37,000 |
| `texts` | tokens are the longest ones of the lexical grammar, with their positions; the scanner stops at the NUL, stays there and gets there | 164,000 |
| `keys` | no character is lost or reordered by sequences, rejects, timeouts and hang-ups; signals and exits restore the terminal; input is delivered | 865,000 |
| `lines` | what is interpreted is what was entered, errors are shown for their own line, browsing keeps what was typed, the last line is recalled | 1,473,000 |

Two more runs show where the code does not do what it says:

* `growth`: `gap_buffer_resize` never assigns the new capacity and computes the
  new gap end from the old one. From the character after the initial capacity
  (128 in the REPL) on, typing overwrites the text after the cursor.
* `overflow`: the load trusts the trim before it; another session's append in
  between makes it write past `entries[HISTORY_SIZE]`.

### Known divergences without a run

These follow from a single line each, so no run is spent on them; the models
leave the case out or leave its result unspecified.

* `cli/gap_buffer.c:331`: moving right by a word uses an index of the content as an
  index of the buffer, so it looks at the gap. Type `aa_`, go to the start and
  move right by a word: the cursor gets behind the separator instead of the
  end of `aa` (what TLC shows when `Moves` asks for `MoveRightByWord` with a gap
  too). `EditsLine` states where the two indices agree.
* `cli/history.c:117`: trimming prints the kept entries as a `printf` format.
  `Formatted` is a constant of `History`; the runs have texts without `%`.
* `backend/vm.c:337`: `"" .. ""` allocates no byte, gets NULL and fails
  `assert(content != NULL)` in `backend/object.c:45`.
* `backend/vm.c:343`: the contents of concatenations and number texts belong to
  objects that do not own them and are never freed (`heap` keeps them after
  `Destroy`). Both callers of `vm_destroy` end the process next.
* `cli/terminal.c:491`: the end of stdin is returned as `TERMINAL_KEY_UNKNOWN`,
  never as `TERMINAL_KEY_EOF`, so the case at `cli/repl.c:113` is dead and the REPL
  redraws its prompt for ever.
* `cli/terminal.c:363`: a signal between this line and the registration of the
  handlers leaves the terminal in noncanonical mode (without its condition on
  `setup`, `RestoredOnTermination` fails), and so does `abort()` at any time.
* `cli/history.c:161`: after loading an empty history the newest entry counts as
  browsed while none is, so Down with the cursor at column 0 clears a typed
  line (`cli/repl.c:197`). `BrowsingKeepsEdits` allows it, as it allows
  replacing a line by an entry from there.
* `frontend/lexer.c:134`: a newline in a string does not reset the column, so
  what follows the string on its last line is reported further to the right.
  `PositionsAreThoseOfTheSource` states the positions as they are.

### Bounds, and why they are enough

* `errors`: 5 tokens reach every handler, two nested frames of each kind and an
  error in each, and a token after the error. `MaxErrors = 1`: a second
  ERROR token in a row changes nothing because the first one already caused the
  panic. Liveness is checked without a constraint.
* `language`: a constraint keeps to sources without an error and to three
  families: all operators up to 6 tokens (all pairs of binary operators), one
  operator per level with parentheses up to 8 tokens (all triples, and groups
  on either side), and literals up to 10 tokens with a byte of 2 values, which
  passes from one-byte to two-byte operands and exceeds the pool of 4.
* `calls`: 4 tokens suffice for a failing operation of each arity, a
  concatenation, a print, a failed compilation and an unexpected end; two calls
  because a call depends on earlier ones only through the stack and the
  objects. The proofs cover any number.
* `programs`: numbers are a toy format with both zeros, both infinities and
  NaN. 5 tokens suffice for `print a op b;` with every operator and literal, 7
  for a failing operation nested in another one or in a group. The infinities
  and NaN have no literals and are computed, `(1 + 1)` and `(0 * (1 + 1))`:
  `NumberPrograms`, of up to 21 tokens, print what every infix operator makes of
  every two of 1, the zeros, the infinities and NaN, as divisors too.
* `chunks`: a byte of 3 values, three opcodes, so a pool of 9. All chunks of at
  most 6 instructions on two lines, and those of at most 11 with at most one
  simple instruction and one change of line, which exhaust the pool.
* `edits`: capacity and line length 6, characters of both classes (two
  different word characters, so that swapped characters are noticed).
  The gap is empty when the line is full. `growth` needs a capacity of 2 only.
* `sessions`: 3 entries and a file of at most 8 lines: the ring wraps twice and
  the file is trimmed. Other sessions append while this one is closed or open
  (`AppendPhases`). Appending between trim and load is the run `overflow`;
  appending or killing between the truncation and the write loses the file's
  content, which no comment of the code rules out, so these are left out
  (`KillPhases` has no `truncated`) and listed as a hazard.
* `texts`: all texts of up to 4 characters of nine classes reach every pair of
  neighbours in every context (literal, comment, string over two lines); 6
  characters of those that numbers, strings and comments depend on; every
  keyword, every prefix of one, one letter more and one letter different.
* `keys`: the scripts are every control sequence, every proper beginning of one
  with twelve continuations (a sequence, a control key, a lone or a double ESC,
  an unknown character among them). A rejected sequence leaves at most five
  characters, and one script has at most three escapes in a row. Two signals
  show nesting and the same signal twice; the proofs cover any number.
* `lines`: two characters (a word character and a separator), physical lines of at
  most 2 and continued logical lines of at most 5 characters: the allocation
  starts with 2 bytes and is doubled in the middle of a continuation, and a short
  line follows a longer one. A ring of 2 entries and a file of at most 4
  lines, initially none, empty or too long: the ring wraps and is trimmed.
  History is proved on its own; kills and other sessions are left to
  `sessions` (`AppendPhases` and `KillPhases` are empty).

### Fairness

`FairSpec` and `FairInterpreterSpec` assume weak fairness of the whole
next-state relation, nothing more: the program is one thread and runs until it
waits for input. Each scan delivers a token, and since a source is finite EOF
arrives after at most `MaxTokens` of them. The environment chooses which token,
never whether. `CallReturns` has the process's exit and abort among its outcomes.

`FairLexerSpec` is weak fairness of the scanner's steps, the next call of
`lexer_scan` included: the compiler's loop calls it until it has seen EOF
(`Termination`). `FairTerminalSpec` is weak fairness of the program's own steps
and of the handlers that run; typing, hanging up, signals, `exit` and `abort` are
not fair. `InputIsDelivered` uses it for the timeout of 50 ms, which passes
whether or not anything is typed; `SignalEndsProcess` for a handler that has
been entered.

## The proofs

TLAPS checks these for every value of the constants under the named
assumptions of the modules (`ByteAssumption`, `TokensAssumption`,
`NumbersAssumption`, `GrowthAssumption`, `GapBufferAssumption`,
`HistoryAssumption`, `CharsAssumption`, `ScriptsAssumption`, `ReplAssumption` and so on, which TLC evaluates in the runs).

* **CompilerProofs**: `TypeOK`, `StackDiscipline`, `OperandsFit`,
  `PositionsAscend`. None of them is inductive. `CompilerInv`, a theorem itself,
  adds how
  the frames stack up (`FramesOK`), how high the operand stack is when the top
  frame resumes (`HeightsOK`, the heart of the argument: each frame knows the
  height at which its expression starts and the callee adds exactly one), that
  heights follow from one instruction to the next, and what the lookahead looks
  like (`ScanOK`). Lemmas about `Emit` and the frames come first, then one lemma
  per action.

  The second part proves that the recursive-descent, precedence-climbing compiler
  recognises the language of `CompilerGrammar`: `AcceptsThePrograms`,
  `UnexpectedEofIffCompletable`, `ReportsFirstOffender` and `ConstantsInOrder`. All
  four speak of the end of a compilation only, so what is inductive is
  `LanguageInv`, which says at every moment where in the language the compiler is.
  Its parts are:
  * `Expects`: while there is no error, the tokens before the current one are a
    viable prefix; what may follow is told by the function on top of the call
    stack, and as many parentheses are open as `compile_grouping_expr` frames
    are on it. Functions called for a whole expression are left only before a
    token that is no binary operator, which is why `PrecedencesOK` (a statement
    and a grouping ask for the loosest precedence, nobody for less) is needed:
    without it an operator left over would be taken for the offender.
  * `Reported`: from the first error on, the report names a position whose prefix is
    viable and which is not itself part of a viable prefix, or a malformed lexeme,
    and later errors, the panic and further scanning do not change that.
    `UNEXPECTED_EOF` means that the offender was EOF.
  * `Loaded`: the literals before the current token are the constants so far.

  `ViableIsCompletable` and `DeadIsNotCompletable` relate viable prefixes to what
  can be completed: an operand, closing parentheses and a semicolon suffice. That
  the outlook of a prefix follows its recursion (`OutlookSteps`) is proved from
  the beginnings of that recursion, by the least length that would have none.
  TLC agreed on `LanguageInv` over all states of `errors` before it was proved.

  The third part proves `EvaluatesInOrder`: precedence, associativity, prefix
  operators and parentheses, for every source. A successful chunk performs what the
  tokens call for, each once, as an instruction attributed to the last token of its
  operand, in the order of `CompilerGrammar`. `EvaluationInv` is inductive given
  `LanguageInv`. While there is no error it says:
  * `FramesPlaced`: the operators of the `unary` and `binary` frames stand in the
    source in the order of the frames, at the depth of parentheses that the
    `grouping` frames below them make, and none of their operands has ended yet;
    every `compile_precedence_expr` above such a frame in the same parentheses asks
    for at least the precedence that the frame's operator requires (`Tight`). This
    is the argument for the single `>=` of the loop: an operator that is taken ends
    no pending operand, one that is left ends that of the caller (`TopEnds`).
  * `Performed`: what the tokens before the current one complete and no frame is
    waiting for is emitted, in order; an operator that was read is in a frame or
    emitted, and what is emitted after the last token stands right of what the
    frames wait for (`InnermostFirst`).
  * `Statement`: the statement being compiled is a print statement exactly when the
    source says so.

  The order is by rank among what is evaluated (`Rank`), so that neither the
  statement nor the proof needs a recursion. TLC agreed on `EvaluationInv` over the
  states of `language` and of `errors` before it was proved.

  That the operands are in their places is `OperandsInv`: the left operand of each
  `binary` frame waits below everything that was computed since
  (`LeftOperandsWait`), because the frames above it start their expressions
  higher (`HigherInside`) and no instruction pops below its frame.
* **InterpreterProofs**: the compiler's invariant carried over into the composition,
  with `NeverBelowBase`, `SuccessRestoresStack`, `NoDanglingString` and
  `LeftoversUntouched`. The strengthening says that the running chunk is one that compiled
  without an error and that the stack above `base` is as high as the `height`
  of the next instruction: this is where the compiler's theorem pays.

  `ComputesMeanings` is the correctness of compiler and virtual machine together, for
  every source: every value that the running chunk makes is what its token means on
  what its operands mean, every `print` prints such a value, and a runtime error
  is reported for the first operation that has no value. `MeaningInv` is inductive given
  that strengthening. While compiling it is `LanguageInv`, `EvaluationInv` and
  `OperandsInv`. While executing, the instructions are the evaluations of the source in
  order, those before `ip` have the results they must (`Evaluated`), and for
  each height above `base` the last result that was left there is what the stack
  holds there (`ResultsOnStack`). That, and where the compiler put the
  operands, makes what an instruction pops the results of `LeftOperand` and
  `RightOperand` (`OperandsAre`). Each group of opcodes then has its lemma:
  it goes on with a result that is the meaning, or stops with the failure.
* **ChunkProofs**: every append stays within its allocation (`ChunkInv`). It
  needs `InitialGrowthCapacity >= 2`: a growth by less could not hold a two-byte
  operand. Then `KeepsInstructions`, the refinement of `ChunkPromise` in
  which each call appends its own instruction and line (`EachCallAppends`), for every
  size of a byte and every table of opcodes. `Walk` and `PartialSums` are recursive
  functions of the naturals and are proved to follow their recursion
  (`WalkSteps`, `SumSteps`). `DecodingInv` says that the walk ends exactly at the
  end of the bytes, after as many instructions as the runs of lines count: this is
  what makes appended bytes one more instruction and leaves the others what they
  were (`SameInstructions`, `LastRunCounts`, `DecodesAppended`). `IndexReadsBack`
  is the arithmetic of the two-byte operand.
* **GapBufferProofs**: `GapWithinBuffer`, and that `GapBuffer` implements
  `TextLine`, each operation its own action (`EachOperationEdits`), both for lines that fit in the initial capacity
  (`ShortLines`).
* **HistoryProofs**: `HistoryInv` if no session appends between trim and load
  (`LoadsWhatItTrimmed`; the run `overflow` shows that this is needed). The
  strengthening `StoreInv` says what the file holds in each phase. Then
  `KeepsRecentEntries`, the refinement of `RecentEntries` operation by operation
  (`EachOperationKeepsEntries`), which needs
  `WritesWhatItRead` besides: `vfprintf` prints the line itself
  (`Formatted(line) = {line}`), nobody appends while the kept entries are not in
  the file, and no session is killed between truncating it and writing them
  back. `At` and `Position` relate the index of an entry in the ring to its place
  in the list, round the end of the ring; `LastLinesAppend` says that trimming
  before and after an append keep the same lines; `KeptInv` says that what is in
  memory while trimming is the end of the file.
* **LexerProofs**: `LexerTypeOK`, which is inductive: each loop advances only past
  a character that is not the NUL. `EofIsForEver` adds that after EOF the
  cursor is at the end.

  `TokensAreThoseOfTheSource` says of finished tokens that they are the longest ones
  of the lexical grammar. `LexInv` adds what each loop knows of the unfinished one:
  that only blanks and comments lie between the last token and the cursor (`Gap`),
  and that the characters since the lexeme began are the beginning of a literal, a
  number with at most one point that is followed by a digit, a name (`Literal`). Each
  kind of token then has its lemma: the characters scanned match the grammar and
  no longer text does, because of the one character of lookahead.
  `PositionsAreThoseOfTheSource` needs in addition that the line is the number of
  newlines before the cursor, in a string literal too (`LineOfCursor`), while the
  column is counted from the last newline outside literals (`ColumnOfCursor`),
  which is the same newline only while no literal is being read.
* **TerminalProofs**: `TerminalTypeOK`, `NoCharacterLost` and
  `RestoredOnTermination`. `EachInPlace` says where each character is: delivered,
  then queued, then in the unfinished sequence, index by index, which is what a
  step can be shown to keep; `NoCharacterLost` follows. The queue fits because
  a sequence is begun only when it is empty and is shorter than it
  (`BeginsSequence`). `HandlersInv` says that the handler of a registered signal is
  still there or running, and that one that has restored the terminal left it
  so.
* **ReplProofs**: all five properties of the run `lines`, under
  `LoadsWhatItTrimmed` and, where the interpreter is called, `InterpreterReports`
  (it returns a status, and errors that are text). `LineInv` ties the flag to the
  text (an unmodified line is the `settled` one); `RecallInv` says that the newest
  entry of the ring is the last line, through loading, skipping, wrapping and
  browsing; it uses the invariant of `HistoryProofs`, the REPL's steps being steps
  of History or leaving it alone. `LogicalInv` says that the allocation holds the
  logical line up to its NUL (`Holds`), which `count` counts, and that the file of
  errors is empty between interpretations: `InterpretsWhatWasEntered`,
  `ShowsItsOwnErrors` and `ReplTypeOK` follow. `ReserveMakesRoom` says that
  `DARRAY_RESERVE` ends at a capacity that suffices. The capacities it passes are a
  recursive function of the naturals; that there is one is proved from its
  beginnings, by the least length that would have none (`BeginningsExist`).

Only model-checked:

* `CompilesTheLanguage`, as far as it goes beyond `AcceptsThePrograms` and
  `EvaluatesInOrder`, which are proved: that the order of evaluation is the postfix
  form of the program. `Postfix` and `ReferenceOps` split a text at the
  operator evaluated last, recursively: an induction over data.
* `InterpretsTheLanguage`, as far as it goes beyond `ComputesMeanings`, which is
  proved: that evaluating one operation after another gives what the recursive definition
  over the whole text gives, for the same reason. What arithmetic on doubles computes is
  left to the constants (`Arithmetic`, `NumberText`) in both.
* Liveness (`Termination`, `CallReturns`, `ReachesEof`, `InputIsDelivered`,
  `SignalEndsProcess`), which is out of the prover's reach.

## What is not modelled

* The Windows half of `cli/terminal.c`: console calls, and the same keys from
  another decoder.
* Screen output (redrawing, clearing, moving the cursor): no state depends on it.
* Command line and manual: a single pass over the arguments that keeps no state.
* Reading a file, exit codes, the wording of messages, debugging output.
* I/O errors and failed allocations: they end the process (`Exit` of `Terminal`)
  and have no other effect.
* `object_make_owning_string`, `gc_memory_manage`'s collection: never called, or
  empty.
* The scripts that run the tests, and the tests.

## Left for later

The Repl with the gap buffer in place of `TextLine`, once growth is repaired:
until then a line longer than the initial capacity is not a line editor's.
