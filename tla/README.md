# BREXX for VM/370 CMS: a verification of the interpreter

BREXX is a REXX interpreter in C (here: its VM/370 CMS port). A program is
compiled clause by clause to byte code (`compile.c`, `expr.c`, `template.c`,
scanner `nextsymb.c`) and run by one loop (`RxInterpret` in `interpre.c`) on a
table of activations (`RxProc`, `rexx.h`) and a pool of variables
(`variable.c`). All of it is single-threaded and works on one global
`Context`; the difficulty is in long sequences of legal instructions that share
state through pointers: scopes that share variable objects, literals that cache
the tree leaf they last resolved to, result slots that point into the pool,
`longjmp` out of nested INTERPRETs.

## Inventory

| component | state | operations | what it must keep right |
|---|---|---|---|
| Variable pool (`variable.c`) | seven hash trees per scope; per stem seven more; `exposed` marks; the leaf cached in each literal (`IdentInfo`) | find, add, set, drop, expose, stem assignment, free a scope, pools by number | a name means one variable per activation; objects shared by EXPOSE are freed once and not too early; a cached leaf is the one a search would find |
| Interpreter: frames (`interpre.c`, `rexx.c`) | `rexx_proc[0..rx_proc]`, `interpreRx_id`, `interpre_VarScope`, `procidcnt` | call, PROCEDURE, INTERPRET, RETURN, EXIT, unwinding | ids and scopes stay in step; every frame's settings come back on return |
| Interpreter: operands (`interpre.c`) | operand stack of pointers with one temporary per slot | load, create, copy, arithmetic, comparison, what loops keep | an expression leaves one value and the operands as they were; a clause finds on the stack what the loops around it keep |
| Conditions (`error.c`) | trap bits and labels per frame, two `jmp_buf`s | SIGNAL ON/OFF, raise, `Rerror` | a trap fires once, in the right frame, with the right stack |
| Clause compiler (`compile.c`) | queue of loops, code, jumps to fill in, labels, clause table, the scanner's state | DO/LEAVE/ITERATE, IF, SELECT, SIGNAL, CALL, the simple clauses | jumps land where the clause says and pop what the loops keep; the end of a text inside a structure is told |
| Expression compiler (`expr.c`) | byte code, stack depth | the precedence levels, function calls, `InsTmp` | the code computes the expression, temporaries in the right slots |
| PARSE (`template.c`, `OP_TR_*`) | data string, break positions | triggers and targets | targets get the substring the template says |
| Scanner (`nextsymb.c`) | place and line in the text, the comment flag, the blank in front | next symbol, word, string, comment, look-ahead for "=" | the longest symbol, its line, comments as gaps; it gets to the end of the text |
| Binary trees (`bintree.c`) | nodes, item count, depth bookkeeping | add, find, delete, rebalance, dispose | search order, count, leaves keep their address |
| EXECCOMM (`rxexcomm.c`) | none of its own | get, set, drop for a host program | return codes, effect on the caller's pool |
| Host commands (`address.c`, `cmsfunc.c`) | environment pair of the frame | ADDRESS, commands | the right environment per activation |
| Trace (`trace.c`) | trace setting of the frame | TRACE, per-clause tracing | restored on return |
| Data queue (`dqueue.c`, `stack.c`), memory list (`bmem.c`) | doubly linked lists | push, pop, delete; allocate, move, free | order, counts, both link directions; each block is owned |
| Strings, numbers, built-in functions | none between calls | about 90 functions | the definitions of the help files |
| Files, date, host interface in assembler, options, disassembler, tests, tools | - | - | not modelled: I/O, clock, System/370 code, printouts |

Interactions: the compiler emits references to literals, the interpreter
resolves them through the caches of the variable pool; a call pushes a frame
and may open a scope; PROCEDURE EXPOSE copies object pointers from the caller's
trees to the callee's; RETURN frees the scope and stores into a variable of the
caller; a trap unwinds frames from any depth. There is no concurrency, so the
hard behaviours are protocol sequences, stale pointers, partial failures (an
error between two steps of an instruction) and bounds. `PROJECT.json`
(`hazards`) lists them at their lines with the properties that cover them.

## Plan

1. `VarPool` - scopes, caches, EXPOSE, calls and returns; `Scoping` what
   they promise; `VarPool_proofs`, `VarMarks_proofs`, `VarPoolScoping_proofs`,
   `VarReach_proofs`. **Done.**
2. `Frames` - the rest of a frame; `Routines` what calls promise; `FramesKept`
   what the documentation says and the code does not do; `Frames_proofs`,
   `FramesRoutines_proofs`. **Done.**
3. `Clauses`, `Machine` - the clause compiler and the interpreter on its code,
   against `Structure`, the nesting of the text. **Modelled and checked.**
4. `ExprCode` - C_expr and the operand opcodes, against `ExprMeaning`. **Modelled
   and checked.**
5. `Parse` - C_template and OP_TR_*, against `ParseMeaning`. **Modelled and
   checked.**
6. `BinTree`, `DQueue`, `Mem`, composed in `Store`. **Modelled and checked;** `Mem`
   and `DQueue` **proved.**
7. `Scanner` against `ScanMeaning`. **Modelled and checked.**
8. `Builtin` against `BuiltinMeaning`. **Modelled and checked.**
9. `Execcomm` - requests and return codes over VarPool's operations. To do.

Theorem still worth proving: `ExposeShares`, from the invariants that the proofs of the
pool have already.

How the modules compose: `MCVarPool`, `MCFrames` and the others give constants
to one component each. `Store` runs the tree, the queue and a string on the
heap of `Mem`. `Machine` runs what `Clauses` compiled. `VarPoolScoping`,
`FramesRoutines` and `Machine` (of `Structure`) hold the refinement mappings;
the modules named `...Meaning` define the answer a second time, from the language's
definition, and compare.

## Modules

Variables and activations:

* `VarPool.tla` - the detailed model. `pool` is all of `variable.c`'s state:
  `head[scope][name]` and `tail[stem object][slot]` are the trees, `value` and
  `mark` the fields `value` and `exposed` of a Variable, `live` says which storage is
  allocated, `cache[name]` is the `IdentInfo` of a literal. `proc`, `rx_proc`
  and `procidcnt` are the frame table. `pending` holds the names of a PROCEDURE
  or DROP (list) still to be processed, so that each is a step of its own;
  `closing` says that the loop at `interpreter_fin` is running.
  Operators are named for the functions: `Find` is RxVarFind with its effect on
  the caches, `Add` RxVarAdd, `Expose` RxVarExpose, `Release` RxVarFree,
  `ScopeFree` RxScopeFree, `Drop` RxVarDel, `DropName` RxVarDelName, `VarSet`
  RxVarSet. Each action is an opcode or one iteration of its loop.
* `Scoping.tla` - what a programmer is promised of simple variables: a stack of
  activations, each name owned by one of them; no objects, trees, caches or
  marks.
* `VarPoolScoping.tla` - the refinement mapping: of the scopes that hold an
  object, the outermost owns it.
* `MCVarPool.tla` - small programs for TLC, and the VIEW.
* `Frames.tla` - the table of activations. `proc` is `rexx_proc[0..rx_proc]`
  with the fields of `RxProc` (`alt` is `env_alt`, `lbl` the `lbl_` fields),
  `top` is `interpre_RxStckTop`, `heap` and `live` the CmsEnv objects, `codelen`
  the length of `rexx_code` counted in appended texts, `Rxcip` the place of the
  next instruction: which text it is in, and whether it is the label of a
  PROCEDURE (`"label"`) or that PROCEDURE (`"proc"`). Actions are opcodes or
  the options of OP_STOREOPT; `InitInterStr`, `DoneInterStr`, `MakeArgs`,
  `Leave`, `RxSignalCondition`, `Rerror`, `TraceSet` are the functions of these
  names (`Leave` is the body that I_ReturnProc, interpreter_fin and Rerror
  share). `mode` names the loop that is unwinding activations (`Trap`,
  `ReturnProc`, `Unwind`, `RunExit` are one iteration each). `held` is not in
  the code: it counts the operands of a command that OP_SYSTEM takes off after
  a console line has been pushed, so that `Floor` can say what belongs to whom.
* `Routines.tla` - what `call.helprexx` promises of a call: operands, NUMERIC,
  TRACE and traps of the caller come back. `FramesRoutines.tla` is the refinement
  mapping: a routine owns its activation and those of the texts above it; its
  settings are those of the topmost.
* `FramesKept.tla` - statements of help files and comments that the code does
  not keep, over `Frames` with a history variable: what was in force when an
  activation was pushed.
* `MCFrames.tla`, `MCKept.tla` - values for TLC, and the VIEW.

Compiler and interpreter:

* `Clauses.tla` - compile.c. The text is not given beforehand: each `nextsymbol`
  picks the next clause, a record of its kind, its name (of a control variable,
  a label, an END), the order of its TO, BY and FOR phrases and its condition.
  `open` is the C stack: which C_ functions are in progress, with
  their local variables; each action is one of them up to the next
  instruction, END, or end of the text. `stat` and `checked` are
  `symbolstat` and `checked_semicolon`; `code`, `table`, `labels` and `loops` the
  compiler's globals. An instruction is one element, its operand the place
  it jumps to; `of` and `role` say which loop it belongs to and are not in the
  code. The code of an expression is the one instruction `EXPR`.
* `Machine.tla` - RxInterpret on that code. An entry of `stack` is which loop
  keeps it and for which phrase; conditional jumps go both ways. `Effect` is what
  the opcodes without control flow leave on the stack.
* `Structure.tla` - which clause may come after which, by the nesting of the
  text alone: `WellFormed`, `After`, `Flow`. `Machine` is shown to implement it.
* `ExprCode.tla` - expr.c and the opcodes it emits. `Exp(n, p)` is
  the function Exp<n> on a parse in progress, its operators `Exp0Op` to
  `Exp6Op`; comparing and multiplying operators have one or two representatives. A value is a term: what was
  applied to what; the stack holds references, as in C, to the variables, the literals
  or the temporary of a stack position.
* `ExprMeaning.tla` - the same text taken apart where the operator applied last is.
* `Parse.tla` - template.c and OP_PARSE, OP_TR_*, OP_PVAR and OP_PDOT on texts.
* `ParseMeaning.tla` - the pieces, their triggers and the words of each piece.
* `Scanner.tla` - nextsymb.c, character by character. `sc` is the scanner's
  state; `nextsymbol` is one step. The model was compared with the compiled C
  on 169,871 texts (every text of the run's alphabets to a smaller length); they
  agree in symbol, text, line, place and error.
* `ScanMeaning.tla` - comments taken out first, then the longest symbol.

Data:

* `BinTree.tla` - bintree.c; `keys` is a history of what was added and not deleted.
* `DQueue.tla` - dqueue.c; `content` is such a history.
* `Mem.tla` - bmem.c's list of blocks.
* `Store.tla` - the three together: what BinAdd, DQAdd and Lfx allocate and what
  their opposites free, in the order of the code.
* `Builtin.tla` - the string library: `Lpos`, `Linsert` and so on are the C
  functions of these names, with their positions counted from 0; `Returns` is the
  check of the arguments, by their kinds. An answer depends on what the buffer it is
  written to holds, `Stale`, because a function that appends must have emptied it.
* `BuiltinMeaning.tla` - the answers by their definition: words, pieces, places,
  codes.

The modules whose names end in `_proofs` hold the theorems, those
whose names begin with `MC` the values for TLC.

Operators whose names end in `Bug` are deliberately wrong versions of the one
that follows; no specification uses them. They document which mistake each
property is able to notice.

Abstractions of `VarPool`: names and values are model values; the seven trees of a scope are
one map (the tree is a function of the name); of a stem's trees the model keeps
the one distinction that matters, whether the tail's tree is chosen by
RxVarExpose as by RxVarFind (`Split`, `Slots`). Storage is reused only when
nothing refers to it, so that a reference to freed storage stays visible; a
write through such a reference (undefined behaviour in C) is modelled as a
write that is lost. The cached leaf of the code is a tree node, the model's the
object in it: nodes keep their object and their address for life (`bintree.c`).
An abbreviated list of what a program may contain is a constant: references
(`Lits`), EXPOSE lists, DROP lists, and the targets of assignments (`Targets`) whose
expression calls a function or fails: of those the model makes the OP_CREATE that
comes before the expression and the end of the assignment two steps, or leaves it at
the first (`Trap`); other assignments are one step, since nothing can come between.

In `Frames` an operand has no value, only its place on the stack. An instruction
that fails before it has changed anything is `Error`. A text is code that is
there or not; typed lines and INTERPRETed texts either compile or do not. The
host's trace flag changes at any clause (`TracePoll`). The poll after a command
does the same, and where the flag is newly on it steps over one opcode besides
(`interpre.c:1888`, "skipping NEWCLAUSE"): what runs if that opcode is another, the end of
an INTERPRET text or a jump, is not modelled. RxInterpret keeps the last value of that
flag in a local variable across `setjmp`; the model takes it to survive, as it
does where the compiler keeps such variables in storage. The exits of an error
in a routine leave by `longjmp` to RxRun after the same loop that
`interpreter_fin` runs, so both are `Unwind`.

## Runs

Programs, texts and calls are let end (no deadlock check: a program returns to
CMS), but for `store`, which never stops.

| run | question | result |
|---|---|---|
| `heads` | caches, ids, marks, freeing of simple variables, no leak; the pool implements `Scoping` | holds |
| `tails` | a stem and its compound variables, lists of several names, tails whose two trees differ: isolation, EXPOSE shares | holds |
| `deeper` | a tail exposed by two routines in turn is not freed while one of them has it | violated |
| `calls` | conditions, texts that do not compile, ADDRESS: operands, environments and code of activations; `Frames` implements `Routines`; the unwinding loops end | holds |
| `console` | TRACE, host flag, typed lines, failing commands, a missing label: operands, tracing in force | holds |
| `loops` | which texts compile; the code follows the text (`Machine` implements `Structure`); the operand stack at each clause, and where loops find their values | holds |
| `expr` | which expressions compile; the code computes their meaning, keeps its operands and assigns last | holds |
| `parse` | every target gets what the template means, each trigger is obeyed once and in time | holds |
| `store` | tree, queue and heap hold what was put there; every block is owned, the list is linked | holds |
| `scan` | symbols, lines, blanks, assignments; the scanner gets on | holds |
| `strings` | 44 functions answer by their definition | holds |
| `disable` | a trap is off once taken, also from an INTERPRET | violated |

### Statements TLC refutes

`deeper` and `disable` are the violations kept as runs; `PROJECT.json` (`findings`)
quotes the statements. In `deeper`, 14 steps: a routine without PROCEDURE calls one that exposes
a tail and drops it inside INTERPRET, one frame higher than its mark tells, so that the mark
stays behind when both have returned. The next routine exposes the tail and calls one that
exposes it again; the return of the inner one takes the old mark off, since the depth
agrees, and a DROP in the outer one frees what the program still has. The others are
stated beside the properties that hold, and TLC refutes each within a minute or so with the constants of a run. Put the name in the place
of the run's properties (and change what the last column says).

| property | says | of run | with |
|---|---|---|---|
| `ResultLands` | the result of x = f() reaches x (f may drop x) | `tails` | |
| `NoLeak` | as in `heads`, with a stem: a routine with an exposed tail drops its stem inside an INTERPRET, the tail keeps its mark and nobody frees it | `tails` | |
| `Isolation` | a name not exposed is not reached, also by EXPOSE (name) with a compound name | `tails` | `ExposeLists <- ParenExposes`, `Lits <- ParenLits` |
| `DropUnassigns` | DROP leaves a name without value | `heads` | |
| `ReturnUnsetsResult` | after RETURN without a value RESULT is unassigned | `heads` | |
| `AddressKept` | ADDRESS in INTERPRET in a routine leaves the caller's alone | `disable` | |
| `ConditionKept`, `ClockKept` | undone by RETURN | `disable` | |
| `SignalEndsInterpret`, `InterpretSettings`, `AllTraced` | of INTERPRET and typed lines | `disable` | |
| `FuzzBelowDigits`, `DigitsLimited` | of NUMERIC | `disable` | |
| `TraceTurnedOn` | the host's flag turns tracing on | `disable` | |
| `ProcedureAccepted`, `StackAfterArgs` | also with a line typed before the next instruction | `disable` | |
| `StackBound`, `EnvFreed` | the array of operands, `env_alt` | `disable` | |
| `ByObeyed` | the test of TO is the one for the sign of this loop's BY | `loops` | |
| `TracingInForce` | also where a line typed at the console does not compile and the program traps SYNTAX | `console` | `Conditions`, `Labels`, `Defined` `= {"SYNTAX"}` |
| `OtherwiseRequired` | SELECT without a true WHEN and without OTHERWISE is an error | `loops` | |

Most of the statements about activations have one cause: INTERPRET and
interactive trace push an activation of their own, and what has to reach the one
below it is listed by hand. `ByObeyed` fails because BYINIT writes the test into
the code, which the loop of a recursive routine shares: with a BY of another sign
the outer loop goes on with the wrong test.

### Bounds

*Variables.* `MaxProc` is the deepest frame, `MaxId` the number of PROCEDURE
activations in one run, `VarIds` the storage; steps that would exceed them are
disabled. With frames 0..3 and two PROCEDUREs a variable can be exposed twice
in a row, with a routine without PROCEDURE or an INTERPRET between or on top,
and a second activation can start after the first has ended, with stale caches
of the first: the situations the marks and ids exist for. `tails` has one frame
less, for its size: its lists have up to four names, a tail named before and after the
variable it depends on and before its stem, and one value (`sigl`, the number of a line) is
a tail of which the two trees differ. `deeper` has the third frame and nothing but one
exposed tail. `VarIds` is meant
for all objects reachable plus the three one operation may allocate, so that
`Room` stops runs that leak; the 9 of `tails` also stop some that do not. Objects
are interchangeable, so the VIEW `Shape` describes an object by the slots that hold it,
and a cached leaf counts only while its frame exists. No property tells two states of the
same shape apart.

*Activations.* `MaxProc` activations, `MaxCode` texts appended at a time,
`STCK_SIZE` entries of the operand stack, `EnvIds` environment objects (two per
activation that uses ADDRESS; those that leak are gone), `MaxResets`. Three
activations are a routine that calls a routine, an INTERPRET in an INTERPRET, a
typed line in an INTERPRET, a routine called from either; a trap, too, passes
through at most two texts on the way to its routine. The stack holds an operand of each activation, with one entry left to
be full. Each run restricts the operands of the settings it is not about;
all three kinds of activation a program may start with are in `Started` where the
difference matters (a FUNCTION must return data). The VIEW of `MCFrames` leaves
out the label of a condition that is not trapped (SIGNAL ON sets it again),
the name in an environment object no activation refers to (its next owner
overwrites it) and whether TIME('E') was asked (no property of `console` looks at
it). `calls`, with a liveness property, uses no VIEW. No property sees frames and operands
pile up in a SIGNAL out of INTERPRET: the bounds cut that off. (That the frame stays is
`SignalEndsInterpret`, refuted.)

*Programs* (`loops`). Texts of up to six clauses, and three nested loops with a
LEAVE or ITERATE and their ENDs, which is seven: enough to leave an outer loop
through two others with different phrases, for IF with ELSE in a loop in a SELECT, and
for a routine that calls itself out of a loop (`MaxCalls` 2 activations below,
`MaxStack` 8 operands). Texts of more than three clauses are those
that can still become well-formed; every other kind of clause is tried by
itself with what may stand around it. Whether a refusal is
right is decided against the endings `Closers`.

*Expressions* (`expr`). All texts of up to four symbols, expressions of four terms
with operators of every level but AND's between them and one parenthesis, prefix operator or
function, three terms with two of those, and calls of up to seven symbols with missing arguments. Four
terms are what a temporary needs to be reused while an older one waits.

*Templates* (`parse`). Any three symbols, or five of the usual ones, over sources of up to
six characters with leading, double and trailing blanks, where the source is itself a
target and a trigger. Positions are numbers in the template and texts in variables: with
blanks before and after, a sign with and without a blank behind it, a point with and
without digits, and no numbers at all. Left out are exponents and what needs more than 15
digits.

*Texts* (`scan`). All texts over nine alphabets, up to four to eight characters
(or pieces such as "then" or a whole comment) long. The buffer holds
four characters, so that it overflows.

*Containers* (`store`). Six keys, with balancing at each second level
(`BALANCE_START`, `BALANCE_INC`), two elements, a string of three sizes, five blocks at a
time. Six keys make a tree in which the leaf that replaces a deleted one has a branch of
its own.

*Strings* (`strings`). Texts of up to four letters and blanks, six (seven for JUSTIFY)
for the functions on words, numbers up to two beyond that; bytes and
numbers where a conversion changes its mind; a `long` of two bytes.

### Fairness

`FairSpec` of `Frames` is weakly fair to the unwinding loops alone. They are
loops of a single thread that wait for nothing, and nothing else is enabled
while they run. Nothing is assumed of the program itself. No other liveness is
claimed: whether a REXX program ends is up to the program, and the operations of
the pool, the containers and the string library are finite computations in one
action. That the scanner gets to the end of the text is a safety property here,
`Advances`: every symbol takes it on, or takes down the flag that a comment left.

### What the properties except

A property excepts a case by name where the code is known to do something else;
the exception is a definition beside it, and each is a divergence worth a look:

* `PassesCounter` (`StackAtClause`, `OwnValues`): LEAVE or ITERATE with a name,
  out of a loop that counts without a variable. C_leave's and C_iterate's count
  leaves that loop's values on the stack (`compile.c` 1102-1180).
* `ElseLast`: INTERPRET "if a then b; else c" gets error 14 though nothing is missing.
  `ThenLast`: "do; if a then b" compiles, the END missing.
* `NoEmpty` (bound of `loops`): an empty DO group or OTHERWISE shares its
  entry of the clause table with what follows.
* `Chained`: comparisons do not chain, `a = b = c` is refused.
* `HollowArgument`: in `f(())` an argument is counted that has no value.
* `Overtaken`, `Misplaced` (`ExposeShares`): RxVarExpose looks a name up among the routine's
  variables first (`variable.c` 706-715). A tail exposed before its stem has
  made a stem there, so that the stem is not exposed at all. And a tail is entered in the tree of
  its first character (`variable.c` 774) but searched in that of the sum of all its
  characters: one of several characters, such as `x.10`, is in general not found again, so that
  the routine has a variable of its own. `procedur.helprexx` says that exposed
  variables "may be read or written by the routine", and one of its examples exposes `x.j`.
* `m.lost` (`Parsed`): OP_TOINT spells a literal or variable used as a position
  anew, in place; and a point alone is taken for the number 0 (`lstring.c` 481-491).
* `TablesOmitted` (`Pieces`): TRANSLATE(s,,,pad) leaves the text as it is, where
  `translat.helprexx` 10-11 has it translated to upper case.
* `Stale`: a comment directly in front of a word gives an empty
  word first (`nextsymb.c` 473-479). `Swallowed`: a semicolon behind a comma, on a
  later line, passes for the comma's line end. `Stuck`: "." in front of a comment or a
  parenthesis is a number or a function. `Detached`: `name/**/ :` is no
  label. `Full`: a word may fill the buffer, a string may not. A line "#!..." makes all
  line numbers one too high, and in `name/**/ =` the comment and the blank behind it keep
  the equal sign from being seen (`name/**/=` and `name /**/=` are assignments).
* `Codes` leaves out C2D and X2D of `sizeof(long)` bytes without a length, which the code
  takes for signed, and conversions beyond a long.

* `LinesCompile` (`TracingKept`; in `console` no trap of SYNTAX): tracing is
  switched off for a typed line and on again where the line ends. A line that
  is refused by the compiler never runs; if SYNTAX is trapped, the program goes
  on at the label with tracing off, whatever TRACE says.

### More that reading has shown

Where the definitions of `Builtin` follow the code and the help says otherwise, the
properties follow the code: DELSTR(s,n,0) deletes the rest; INSERT and OVERLAY
with an explicit length 0 return the target without padding; `bitxor.helprexx` names 'FF'x as the
default pad, its examples and the code '00'x. Not in the model's bounds: Labbrev
compares beyond a shorter text, STRIP and VERIFY read a byte of an
empty option. OPTIONS, UPPER and LOWER work in place on the operand. LOAD
pushes a reference, so `x + g()` uses the x that g left.

`parse.helprexx` and the code agree in the definitions but for one: between two targets
one blank is taken and not "1 or more" (63-66), so that the last target keeps the others.
Its examples do not agree with it or with each other. Those at 119-130 count a
position from 0, so that the target before position 5 would get five characters; those at
157-163 have `s1` end before position 10 and `s2` before 19; the one at 145-147
has the trigger ' ' end the data at the fifth blank and not the first. `ParseMeaning`
follows the definitions.

Where a trapped condition stops the expression of `x = ...`, x has been created and is
left with the value that OP_CREATE gave it.

BYINIT writes the test of TO into the loop's code, at a place that the compiler fills in
where there is a TO. Without one the place stays 0, and BYINIT overwrites the first opcode of the
program. The model does that too, but no program of `loops` with BY and no TO comes
back to its first clause, so that what the overwritten opcode does is not seen. `ByObeyed`,
refuted, is about loops with TO.

## Proofs

`VarPool_proofs` proves, for all values of the constants (any program, depth,
storage), `TypeCorrect`, `FramesCorrect` and `CacheCorrect`: `TypeOK`,
`FramesOK` and `CacheCoherent` hold in every state, from the assumptions
`PoolConstants` and the hypothesis `ListsSimple`, that every parenthesised
name in an EXPOSE list is a simple symbol. The hypothesis is necessary:
with `ParenExposes` isolation fails exactly because the cache is not coherent then.

Cache coherence is not inductive by itself: after RETURN the caches of the
caller's id count again, although the callee changed the caller's scope through
its own. The invariant `IInv` has three parts.
`Framed`: a frame runs in its own scope or in that of the frame below, equal
ids are equal scopes, an INTERPRET frame shares its scope, ids
do not exceed `procidcnt`. `Sound`: for every active frame the leaves cached
under its id are those of its scope, scopes not in use are empty, no cached id
lies in the future. `PendingOK`: while names are pending, their PROCEDURE's
frame is on top and its predecessor has another scope and id. Each operation of
the pool is shown to be `Quiet` (heads untouched, caches only filled
from them), `Adds` (a nil head becomes an object), or `Safe` (a head is removed
and its literal's cache forgotten) for the scope it works on; one lemma per
action lifts that to the frames, `NextInv` collects them. The step that is easy
to get wrong in the code is the middle one: adding a head to a caller's scope from
a callee is harmless only because a literal never caches a failure.

`VarMarks_proofs` proves, from the same assumptions and hypothesis, who owns a
simple variable or stem: `MarksKept` (`HeadMarks`) and `HeadsKept`
(`HeadsLive`). A mark is one number and the object may be in any number of
scopes; RxVarFree goes by the number alone. Neither property is inductive: the end
of a scope frees by mark, so that what is left is alive depends on the marks, and the
marks say who shares an object only while one object has one name and is not also
the tail of a stem that is emptied. The invariant is `MarksInv`, which is
`IInv` with `Owned`:

* `Tidy`: every head, in any of the frames, is storage in use, belongs to one
  name, and is no tail.
* `Accounted`: what `HeadMarks` says, of a pool and a table given as parameters,
  so that it can be said of the states inside an operation: after a name of an
  EXPOSE list is shared and before the next, after a scope is freed and before the
  activation is gone.

For each operation of the pool a lemma says that it `Keeps` `Owned`, and which
objects it takes: storage that was `Unused` stays so unless the operation took it,
which is what allows three fresh objects to serve a chain of operations.
Most operations move no head (`ShapeKeeps`). The others are a new head, which is
unmarked and in one scope (`NewHeadKeeps`); a head removed by DROP (`RemoveKeeps`),
which the code does to unmarked objects only, and those nobody shares; and a head entered into a callee's scope and marked with the frame
it came from (`ShareKeeps`), where a mark that the object has already must not be
overwritten. A scope is freed as one step over all its names (`FreeOwned`): it is
the topmost one, so an unmarked object in it is nobody else's and is freed, and a
mark that names the frame below has no other scope to stand for and is taken off.
Activations that come and go without a scope of their own leave the marks
(`FramesOwned`, `CutOwned`).

`VarPoolScoping_proofs` proves `ScopingKept`: `Spec => Scoped`, every step of
`VarPool` is one of `Scoping`, in which a simple variable is a value owned by
one activation and there are no objects, marks, caches or freeing. Beside
`ListsSimple` it has two hypotheses. `ResultsCompound`, that no expression which calls a
function or fails under a trap is assigned to a simple variable, excludes what the
code does not keep: `x = f()`
creates the storage of x before the call, so that x has a value while f runs
and f may free the storage (`ResultLands` is refuted), and if the expression is left by a
trap x keeps that value. `NullUngiven` says that the mark of storage
without a value is no value a program can assign. The mapping finds the owner of
a variable as the outermost running scope that has its object. For that the
induction needs `MarksInv`, because a return may free the object of an owner
only when nobody else has it, and two facts of `ScopeInv`: `Given`, an object
found under a name has been given a value or stands for its own name (EXPOSE
makes storage before anything is assigned), and `Slotted`, no place that a
returning function writes to is a simple variable. The operations are
classified by what they do to who shares a name and to what is seen under it: `Still`,
`Sets`, `Shares`. Each lemma named `...Fits` turns an action of `VarPool` into
its counterpart of `Scoping`; the return of a routine takes several of them, since the
frame, its scope, RESULT and the value in the caller's storage change in one step.

`VarReach_proofs` proves what no routine may do to the storage of others.
`NothingLost`: `NoLeak` holds in a program without stems. `NoLeak` is not
inductive; the invariant `ReachInv` adds to `MarksInv` that storage which is a
variable of no scope, running or not, has no tails and, without stems, is
not in use (`Idle`). A scope that ends leaves only the objects with a
mark, and by `MarksInv` each of them is in another scope; DROP leaves a marked
object where it is. That scopes of activations that are gone are empty
gives `NoLeak`. The hypothesis is needed (see the table above).

`IsolationKept`: `Isolation` holds, with stems and tails, under `ListsSimple`. For
each operation of the pool a lemma says which objects it may touch (`Spares`): fresh
storage, the variable itself, the tails of the stem that is assigned or dropped. These sets
compose along an action (`SparesTrans`), and the action's set is shown to be fresh or within
the running scope (`Near`): the caller's object that a name of an EXPOSE list is looked up in is
never written to, and a tail of a stem is no stem, so that emptying one goes one level deep.
`Idle` is needed again here: a stem made from fresh storage must not bring old tails along.

`Frames_proofs` proves of the table of activations, for any program, depth,
stack and number of environments, that `TypeOK`, `Floors`, `CodeKept` and
`EnvOwned` hold in every state (`TypesKept`, `FloorsKept`, `CodeAlwaysKept`,
`EnvsOwned`), from the assumption `FrameConstants` alone. They have one inductive
invariant, `FramesInv`, because none of them is inductive:

* `Stacked`: each activation's operands begin above the `Floor` of the one
  below, and floors rise. `Floors` speaks of the operands of an activation that
  waits; a trap goes down to `stacktop`, a return to `stack`, and only the order of
  all of them says that neither reaches below the activation that gets control.
* `Layered`: a text is compiled behind all code that anybody runs or returns
  to, so each INTERPRET's and typed line's `codelen`, where its end cuts the code
  off, is at or above the place of every activation below. `CodeKept` is what that
  means for the activations that still run; the induction needs it for all pairs, because
  several texts end in one step.
* `Paired`: an environment pair is that of the activation below or one that no
  activation below has; the two of a pair are changed together. `EnvOwned` alone
  would allow a pair shared with the activation two below, which would be freed
  twice.
* `Rooted`: at the bottom is the program, and a RETURN that is leaving texts has a
  routine to leave: the loops of I_ReturnProc and of a trap stop before the table is empty.

The parts speak of a table and not of the variable `proc`; lemmas say which of them
survive a change of settings (`Settle`), a new activation, the end of one
(`Leave`), and the loops compose these. `TracingKept` proves `TracingInForce`
with a second invariant, `InForce`, from the hypothesis `LinesCompile` (above), which
is needed: TLC refutes it without.

`FramesRoutines_proofs` proves `PromisesKept`: `Spec => Promised`, every step of
`Frames` is one of `Routines` under the mapping of `FramesRoutines`. The mapping
counts routines, so the first part shows that a set of k places has an i-th
element for each i up to k, by a smallest counterexample (`WFMin`); that makes the i-th
routine of a table a place, with the texts up to the next routine above it. Then
tables are compared: `Same` and `More` say that one has the routines of another, or
those and one on top, and three lemmas (`WorkStep`, `EnterStep`, `LeaveStep`) turn
that into a step of `Routines`. One fact has to be added to `FramesInv`:
`Resting`, that the place a routine's return cuts the stack back to is not above
the `Floor` of its own activation. With `Stacked` it gives that nothing a routine does
before it returns, in however many texts, takes operands from below that place.

The other two modules prove, each from one assumption (the null pointer is no
block, no element), that a doubly linked list stays one through any sequence
of operations:

* `Mem_proofs`, `BlocksLinked`: `Linked` holds in every state of `MemSpec`.
  `Linked` says what neighbours say of each other and is not inductive: a
  ring of blocks beside the list satisfies it, and freeing all but one of
  the ring breaks it. `MemInv` adds that the used blocks
  form one row: there is a numbering f of them from 1 to n, each block's
  neighbours are those of the numbers beside its own, and the head is f[n]. Each operation
  shows the row it leaves: one longer (`MallocInv`), without one
  (`FreeInv`), with one put in another's place (`ReallocInv`).
* `DQueue_proofs`, `QueueKept`: `Queued` holds in every state of `DQSpec`. `DQInv`
  adds that no element is twice in `content`: without that a step that unlinks one
  would unlink both.

Only model-checked: `ExposeShares`;
`LoopsEnd` of `Frames`, as all liveness; the
compiler, and `Machine` with its refinement of `Structure`, whose theorem would need an
induction over the code a text compiles to; `Kept` and `Shallow` of the tree and
`Owned` of the composition, which use recursive operators. The modules of
expressions, templates, symbols and strings define values by recursion over the
text, which the installed provers cannot induct over: what they compute
stays with TLC's bounded inputs.

## Not modelled

Beside the components the inventory and `PROJECT.json` name as such:

* calls to external programs and functions (RxRun within RxRun), host I/O, the
  wording of messages and trace output, the clock's readings, and the growth of
  `rexx_proc` (RxProcResize moves the table; `I_CallFunction` and
  `RxInitInterStr` take their pointers after it);
* a full heap: MALLOC never fails; the operand stack's limit is in `Frames` only;
* the results of arithmetic: numbers are doubles or longs that depend on the
  host's floating point. JUSTIFY's one division of doubles is taken as exact;
* the built-in functions SOUNDEX, SYMBOL, DATATYPE, UPPER, LOWER, FORMAT, those on
  dates, files and the system, and texts held as binary numbers (STRIP and
  SPACE copy them, ABBREV compares them as they are in memory);
* the list of names behind PROCEDURE EXPOSE in `Clauses` (its byte count is a
  hazard of 256 names), and the valid words of simple clauses;
* the request block of EXECCOMM with its uninitialised response: the drop and
  set requests themselves are actions of `VarPool`.

NUMERIC DIGITS starts at 9 here as in the CMS build (`rexx.c`); without an
operand it becomes LMAXNUMERICDIGITS (`interpre.c:442`).
