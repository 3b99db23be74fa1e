------------------------------- MODULE Frames -------------------------------
(***************************************************************************)
(* The table of activations (RxProc, rexx.h) and what a program changes    *)
(* in it: calls, INTERPRET, RETURN and EXIT, SIGNAL and the condition      *)
(* traps, NUMERIC, ADDRESS, TRACE with its interactive mode, and commands  *)
(* (interpre.c, error.c, trace.c, address.c).  Variable scopes are the     *)
(* subject of VarPool.                                                     *)
(*                                                                         *)
(* An activation starts as a copy of the one below it.  It remembers where *)
(* the code below goes on, how much of the operand stack is not its own,   *)
(* and every setting.  INTERPRET and interactive trace push an activation  *)
(* too, whose code is appended to the program's and cut off at its end.    *)
(*                                                                         *)
(* What an operand is worth does not matter here, only how many there are. *)
(* An instruction that fails before it has changed anything is Error.      *)
(* The loops that leave several activations are taken one at a time: mode  *)
(* says which loop is running, and nothing else can happen meanwhile.      *)
(***************************************************************************)
EXTENDS Integers, Sequences, FiniteSets

CONSTANTS
    EnvNames,    \* names of host command environments
    System,      \* the one a program starts with
    EnvIds,      \* storage for CmsEnv objects
    DigitValues, \* operands of NUMERIC DIGITS
    LMaxDigits,  \* LMAXNUMERICDIGITS
    FuzzValues,  \* operands of NUMERIC FUZZ
    Forms,       \* operands of NUMERIC FORM
    Conditions,  \* the conditions the program traps
    Labels,      \* the labels it names, among them those of the conditions
    Defined,     \* the labels it has
    Started,     \* how it may be called: as PROGRAM, PROCEDURE, FUNCTION
    TraceFlags,  \* the values the host's trace flag takes
    TraceArgs,   \* operands of TRACE: [toggle, letter]
    Texts,       \* what INTERPRET is given, in "good", "bad" (does not compile)
    Typed,       \* what is typed at an interactive prompt, same values
    Codes,       \* signs of the return codes of commands
    Arities,     \* numbers of arguments of calls
    STCK_SIZE,   \* entries of the operand stack
    MaxProc,     \* bound: activations at one time
    MaxCode,     \* bound: texts in the code at one time
    MaxResets    \* bound: resets of the elapsed-time clock

Letters == {"A", "C", "E", "F", "I", "L", "N", "O", "R", "S"}
Quiet   == {"N", "O", "E", "F"}
Inner   == {"INTERPRET", "INTERACTIVE"}
Kinds   == {"PROGRAM", "PROCEDURE", "FUNCTION"}
Modes   == {"run", "trap", "return", "exit", "end"}

ASSUME FrameConstants ==
    /\ System \in EnvNames
    /\ Conditions \subseteq {"ERROR", "FAILURE", "HALT", "NOVALUE", "NOTREADY", "SYNTAX"}
    /\ Conditions \cup Defined \subseteq Labels
    /\ DigitValues \subseteq Nat \ {0} /\ FuzzValues \subseteq Nat
    /\ LMaxDigits \in Nat /\ LMaxDigits >= 9
    /\ "SCIENTIFIC" \in Forms
    /\ Texts \cup Typed \subseteq {"good", "bad"}
    /\ Started \subseteq Kinds /\ TraceFlags \subseteq BOOLEAN
    /\ TraceArgs \subseteq [toggle : BOOLEAN, letter : Letters \cup {"bad"}]
    /\ Codes \subseteq {-1, 0, 1}
    /\ Arities \subseteq Nat
    /\ STCK_SIZE \in Nat /\ MaxProc \in Nat \ {0} /\ MaxCode \in Nat /\ MaxResets \in Nat
    /\ \E e, a \in EnvIds : e # a

VARIABLES
    proc,           \* rexx_proc[0..rx_proc], as a sequence
    top,            \* interpre_RxStckTop
    heap,           \* the environment names in the CmsEnv objects
    live,           \* the CmsEnv objects allocated and not freed
    lNumericDigits, \* the digits arithmetic rounds to
    tracing,        \* interpre__trace: clauses are traced
    traceflag,      \* oldTraceFlag: the host's trace flag as last seen
    trapped,        \* interpre_SignalCondition, for CONDITION()
    elapsed,        \* ltime_elapsed, as the number of resets
    codelen,        \* LLEN(rexx_code): texts appended to the program
    Rxcip,          \* the text the next instruction is in, and what it is
    mode            \* the loop that is running

vars == <<proc, top, heap, live, lNumericDigits, tracing, traceflag, trapped,
          elapsed, codelen, Rxcip, mode>>

\* Places in the code: seg 0 is the program.  A "label" is a clause whose
\* instruction is PROCEDURE, "proc" that instruction itself.
Places == [seg : 0..(MaxCode + 1), next : {"any", "label", "proc"}]
Main   == [seg |-> 0, next |-> "any"]

FrameType ==
    [calltype : Kinds \cup Inner, ip : Places, stack : -1..STCK_SIZE,
     stacktop : -1..STCK_SIZE, held : {0, 2}, codelen : 0..(MaxCode + 1),
     env : EnvIds, alt : EnvIds, digits : Nat, fuzz : Nat, form : Forms,
     condition : SUBSET Conditions, lbl : [Conditions -> Labels],
     trace : Letters, interactive : BOOLEAN]

-----------------------------------------------------------------------------
(* The running activation.                                                 *)

rx == Len(proc)
Running   == proc[rx]
Below(k)  == proc[k - 1]
Loud(t)   == t \notin Quiet
Idle      == mode = "run" /\ Rxcip.next = "any"

\* The operands that belong to f lie above Floor(f).  OP_SYSTEM takes its two
\* operands off only after the console line it was interrupted for was pushed.
Floor(f) == f.stacktop - f.held

SharesEnv(k) == k > 1 /\ proc[k].env = Below(k).env
SharesAlt(k) == k > 1 /\ proc[k].alt = Below(k).alt

\* LPMALLOC: storage nothing refers to any more.
FreeEnvs == EnvIds \ (live \cup UNION {{proc[k].env, proc[k].alt} : k \in 1..rx})
FreshEnv == CHOOSE t \in FreeEnvs \X FreeEnvs : t[1] # t[2]

Update(p, f) == [p EXCEPT ![Len(p)] = f]
Pop(p)       == SubSeq(p, 1, Len(p) - 1)

-----------------------------------------------------------------------------
(* Conditions and errors (error.c).  An outcome is the table of            *)
(* activations, the condition for CONDITION(), and the loop that follows.  *)

Disable(p, c) == [p EXCEPT ![Len(p)].condition = @ \ {c}]
HasLabel(p, c) == p[Len(p)].lbl[c] \in Defined

Jump(p, c) == [proc |-> p, trapped |-> c, mode |-> "trap"]
Quit(p, c) == [proc |-> p, trapped |-> c, mode |-> "exit"]

RxSignalCondition(p, c) ==
    LET off == Disable(p, c) IN
    CASE HasLabel(p, c) -> Jump(off, c)
      [] ~ HasLabel(p, c) /\ "SYNTAX" \notin off[Len(p)].condition -> Quit(off, c)
      [] OTHER -> IF HasLabel(p, "SYNTAX")
                  THEN Jump(Disable(off, "SYNTAX"), "SYNTAX")
                  ELSE Quit(Disable(off, "SYNTAX"), "SYNTAX")

Rerror(p) ==
    IF "SYNTAX" \in p[Len(p)].condition
    THEN RxSignalCondition(p, "SYNTAX") ELSE Quit(p, trapped)

\* Leave the instruction with this outcome; a trap goes on at the label.
Take(o) ==
    /\ proc' = o.proc /\ trapped' = o.trapped /\ mode' = o.mode
    /\ Rxcip' = Main

-----------------------------------------------------------------------------
(* Activations for texts: INTERPRET and interactive trace.                 *)

\* (..Bug: a way the next operator could be wrong; no specification uses it.)
InitInterStrBug(p, type, at, t, held) ==  \* does not note how long the code is
    Append(p, [p[Len(p)] EXCEPT !.calltype = type, !.ip = at,
                                !.stack = t - 1, !.stacktop = t, !.held = held])

InitInterStr(p, type, at, t, held) ==
    Append(p, [p[Len(p)] EXCEPT !.calltype = type, !.ip = at, !.codelen = codelen,
                                !.stack = t - 1, !.stacktop = t, !.held = held])

\* A text that does not compile: the compiler stops at Rerror, and if the
\* activation made for it traps SYNTAX, the one below gets the condition.
CompileError(p) ==
    IF "SYNTAX" \in p[Len(p)].condition
    THEN RxSignalCondition(p, "SYNTAX") ELSE Quit(p, trapped)

Appended == codelen < MaxCode /\ codelen' = codelen + 1

DoneInterStrBug ==  \* does not hand the settings of TRACE down
    /\ proc' = Pop(proc)
    /\ heap' = heap /\ live' = live
    /\ codelen' = Running.codelen

DoneInterStr ==
    LET f == Running
        g == Below(rx)
    IN  /\ proc' = Update(Pop(proc), [g EXCEPT !.trace = f.trace,
                                               !.interactive = f.interactive])
        /\ IF SharesEnv(rx)
           THEN heap' = heap /\ live' = live
           ELSE /\ heap' = [heap EXCEPT ![g.env] = heap[f.env], ![g.alt] = heap[f.alt]]
                /\ live' = live \ {f.env, f.alt}
        /\ codelen' = f.codelen

\* TraceInteractive in the topmost activation of p, with operands up to t and
\* the code to go on at `at` when the line has been obeyed; a line was typed.
ObeyLine(p, at, t, held) ==
    /\ "good" \in Typed /\ Len(p) < MaxProc /\ t < STCK_SIZE /\ Appended
    /\ proc' = InitInterStr(p, "INTERACTIVE", at, t + 1, held)
    /\ top' = t + 1 - held
    /\ Rxcip' = [seg |-> codelen + 1, next |-> "any"]
    /\ tracing' = FALSE
    /\ UNCHANGED <<trapped, mode>>

RefuseLine(p, t) ==
    /\ "bad" \in Typed /\ Len(p) < MaxProc /\ t < STCK_SIZE /\ Appended
    /\ Take(CompileError(p)) /\ top' = t + 1
    /\ tracing' = FALSE

TraceInteractive(p, at, t) == ObeyLine(p, at, t, 0) \/ RefuseLine(p, t)

-----------------------------------------------------------------------------
(* Instructions.                                                           *)

\* PUSH, INCSTACK, CHKERROR
Push ==
    /\ Idle /\ top < STCK_SIZE
    /\ top' = top + 1
    /\ IF top' = STCK_SIZE - 1
       THEN Take(Rerror(proc))
       ELSE UNCHANGED <<proc, trapped, mode, Rxcip>>
    /\ UNCHANGED <<heap, live, lNumericDigits, tracing, traceflag, elapsed, codelen>>

\* Every instruction that uses up an operand.
Drop ==
    /\ Idle /\ top > Floor(Running)
    /\ top' = top - 1
    /\ UNCHANGED <<proc, heap, live, lNumericDigits, tracing, traceflag, trapped,
                   elapsed, codelen, Rxcip, mode>>

Error ==
    /\ Idle /\ Take(Rerror(proc))
    /\ UNCHANGED <<top, heap, live, lNumericDigits, tracing, traceflag, elapsed, codelen>>

\* A condition raised inside an instruction, if the activation traps it.
Condition(c) ==
    /\ Idle /\ c \in Running.condition
    /\ Take(RxSignalCondition(proc, c))
    /\ UNCHANGED <<top, heap, live, lNumericDigits, tracing, traceflag, elapsed, codelen>>

RxHaltTrap ==
    /\ mode = "run" /\ Rxcip.next # "proc"
    /\ Take(IF "HALT" \in Running.condition
            THEN RxSignalCondition(proc, "HALT") ELSE Rerror(proc))
    /\ UNCHANGED <<top, heap, live, lNumericDigits, tracing, traceflag, elapsed, codelen>>

SetEnvBug(f, n) ==  \* an activation gets no current environment of its own
    LET alt == IF SharesAlt(rx) THEN FreshEnv[1] ELSE f.alt IN
    /\ heap' = [heap EXCEPT ![alt] = heap[f.env], ![f.env] = n]
    /\ live' = live \cup {alt}
    /\ proc' = Update(proc, [f EXCEPT !.alt = alt])

SetEnv(f, n) ==
    LET new == IF SharesEnv(rx) \/ SharesAlt(rx) THEN FreshEnv ELSE <<f.alt, f.env>>
        alt == IF SharesAlt(rx) THEN new[1] ELSE f.alt
        env == IF SharesEnv(rx) THEN new[2] ELSE f.env
    IN  /\ heap' = [heap EXCEPT ![alt] = heap[f.env], ![env] = n]
        /\ live' = live \cup {alt, env}
        /\ proc' = Update(proc, [f EXCEPT !.alt = alt, !.env = env])

\* ADDRESS name, and ADDRESS alone, which swaps.
Address ==
    /\ Idle
    /\ SharesEnv(rx) \/ SharesAlt(rx) => \E e, a \in FreeEnvs : e # a
    /\ \E n \in EnvNames \cup {heap[Running.alt]} : SetEnv(Running, n)
    /\ UNCHANGED <<top, lNumericDigits, tracing, traceflag, trapped, elapsed,
                   codelen, Rxcip, mode>>

\* TraceSet; a bad letter is found out when the toggle has been obeyed.
TraceSet(f, a) ==
    LET flip == IF a.toggle THEN ~ f.interactive ELSE f.interactive IN
    [f EXCEPT !.interactive = IF a.letter = "O" THEN FALSE ELSE flip,
              !.trace = IF a.letter = "bad" THEN @ ELSE a.letter]

Trace ==
    /\ Idle
    /\ \E a \in TraceArgs :
        IF a.letter = "bad"
        THEN Take(Rerror(Update(proc, TraceSet(Running, a)))) /\ tracing' = tracing
        ELSE /\ proc' = Update(proc, TraceSet(Running, a))
             /\ tracing' = Loud(a.letter)
             /\ UNCHANGED <<trapped, Rxcip, mode>>
    /\ UNCHANGED <<top, heap, live, lNumericDigits, traceflag, elapsed, codelen>>

\* The host's trace flag was switched (polled at NEWCLAUSE and after commands).
\* Newly on after a command, the poll also steps over one opcode, "skipping
\* NEWCLAUSE", which may be another (the end of a text, a jump): what then runs
\* is not modelled.
TracePoll ==
    /\ mode = "run" /\ Rxcip.next # "proc"
    /\ traceflag' = ~ traceflag /\ traceflag' \in TraceFlags
    /\ tracing' = traceflag'
    /\ proc' = Update(proc, TraceSet(Running, [toggle |-> traceflag',
                                  letter |-> IF traceflag' THEN "A" ELSE "O"]))
    /\ UNCHANGED <<top, heap, live, lNumericDigits, trapped, elapsed, codelen, Rxcip, mode>>

Numeric(f) ==
    IF f.digits <= f.fuzz
    THEN Take(Rerror(Update(proc, f)))
    ELSE proc' = Update(proc, f) /\ UNCHANGED <<trapped, Rxcip, mode>>

Min2(m, n) == IF m <= n THEN m ELSE n

Digits ==
    /\ Idle
    /\ \E n \in DigitValues \cup {LMaxDigits} :
        /\ lNumericDigits' = Min2(n, LMaxDigits)
        /\ Numeric([Running EXCEPT !.digits = n])
    /\ UNCHANGED <<top, heap, live, tracing, traceflag, elapsed, codelen>>

Fuzz ==
    /\ Idle
    /\ \E n \in FuzzValues \cup {0} : Numeric([Running EXCEPT !.fuzz = n])
    /\ UNCHANGED <<top, heap, live, lNumericDigits, tracing, traceflag, elapsed, codelen>>

\* NUMERIC FORM, SIGNAL ON c [NAME l], SIGNAL OFF c.
Form      == {[Running EXCEPT !.form = n] : n \in Forms}
SignalOn  == UNION {{[Running EXCEPT !.condition = @ \cup {c}, !.lbl[c] = l] :
                        l \in {c} \cup (Labels \ Conditions)} : c \in Conditions}
SignalOff == {[Running EXCEPT !.condition = @ \ {c}] : c \in Conditions}

Set ==
    /\ Idle
    /\ \E f \in Form \cup SignalOn \cup SignalOff : proc' = Update(proc, f)
    /\ UNCHANGED <<top, heap, live, lNumericDigits, tracing, traceflag, trapped,
                   elapsed, codelen, Rxcip, mode>>

\* TIME('R')
ResetClock ==
    /\ Idle /\ elapsed < MaxResets
    /\ elapsed' = elapsed + 1
    /\ UNCHANGED <<proc, top, heap, live, lNumericDigits, tracing, traceflag, trapped,
                   codelen, Rxcip, mode>>

-----------------------------------------------------------------------------
(* Calls, texts and jumps.                                                 *)

\* OP_NEWCLAUSE with clause tracing on: an empty line goes on (and leads to
\* a PROCEDURE where there is one), any other line is obeyed first.
NewClause ==
    /\ mode = "run" /\ Rxcip.next # "proc"
    /\ \/ /\ tracing /\ Running.interactive
          /\ TraceInteractive(proc, Rxcip, top)
       \/ /\ Rxcip.next = "label"
          /\ Rxcip' = [Rxcip EXCEPT !.next = "proc"]
          /\ UNCHANGED <<proc, top, tracing, trapped, codelen, mode>>
    /\ UNCHANGED <<heap, live, lNumericDigits, traceflag, elapsed>>

\* OP_PROC met by the main loop: PROCEDURE is not expected here.
Proc ==
    /\ mode = "run" /\ Rxcip.next = "proc"
    /\ Take(Rerror(proc))
    /\ UNCHANGED <<top, heap, live, lNumericDigits, tracing, traceflag, elapsed, codelen>>

\* I_MakeArgs: the result slot lies below the arguments.
MakeArgsBug(type, n) ==  \* makes room for a result one entry too low
    Append(proc, [Running EXCEPT !.calltype = type, !.ip = Rxcip, !.held = 0,
        !.stacktop = top, !.stack = IF type = "FUNCTION" THEN top - n - 1 ELSE top - n - 2])

MakeArgs(type, n) ==
    Append(proc, [Running EXCEPT !.calltype = type, !.ip = Rxcip, !.held = 0,
        !.stacktop = top, !.stack = IF type = "FUNCTION" THEN top - n ELSE top - n - 1])

\* I_CallFunction for a label of the program, whose first instruction may be
\* PROCEDURE (then the scope is opened here, unless a line is typed first).
Call(type, n, isproc) ==
    /\ Idle /\ rx < MaxProc /\ top - n > Floor(Running)
    /\ \/ /\ proc' = MakeArgs(type, n)
          /\ Rxcip' = Main
          /\ UNCHANGED <<top, tracing, trapped, codelen, mode>>
       \/ /\ tracing /\ Running.interactive
          /\ TraceInteractive(MakeArgs(type, n),
                [Main EXCEPT !.next = IF isproc THEN "label" ELSE "any"], top)
    /\ UNCHANGED <<heap, live, lNumericDigits, traceflag, elapsed>>

\* OP_INTERPRET, RxInitInterStr
Interpret ==
    /\ Idle /\ rx < MaxProc /\ top > Floor(Running) /\ Appended
    /\ \/ /\ "good" \in Texts
          /\ proc' = InitInterStr(proc, "INTERPRET", Rxcip, top, 0)
          /\ Rxcip' = [seg |-> codelen + 1, next |-> "any"]
          /\ UNCHANGED <<trapped, mode>>
       \/ "bad" \in Texts /\ Take(CompileError(proc))
    /\ UNCHANGED <<top, heap, live, lNumericDigits, tracing, traceflag, elapsed>>

\* OP_INTER_END, the last instruction of a text.
InterEnd ==
    /\ Idle /\ Running.calltype \in Inner /\ Rxcip.seg = Running.codelen + 1
    /\ DoneInterStr
    /\ Rxcip' = Running.ip /\ top' = Running.stack
    /\ tracing' = IF Running.calltype = "INTERACTIVE" THEN Loud(Running.trace) ELSE tracing
    /\ UNCHANGED <<lNumericDigits, traceflag, trapped, elapsed, mode>>

\* OP_SIGNAL, OP_SIGNALVAL
SignalBug ==  \* clears the arguments as well
    /\ Idle /\ top' = Running.stack
    /\ Labels \cap Defined # {} /\ Rxcip' = Main
    /\ UNCHANGED <<proc, heap, live, lNumericDigits, tracing, traceflag, trapped,
                   elapsed, codelen, mode>>

Signal ==
    /\ Idle /\ top' = Running.stacktop
    /\ \/ /\ Labels \cap Defined # {}
          /\ proc' = Update(proc, [Running EXCEPT !.held = 0])
          /\ Rxcip' = Main
          /\ UNCHANGED <<trapped, mode>>
       \/ Labels \ Defined # {} /\ Take(Rerror(proc))
    /\ UNCHANGED <<heap, live, lNumericDigits, tracing, traceflag, elapsed, codelen>>

\* The routine a RETURN leaves: its activation is below those for texts.
Routine(p) == CHOOSE k \in 1..Len(p) :
    /\ k = 1 \/ p[k].calltype \notin Inner
    /\ \A j \in (k + 1)..Len(p) : p[j].calltype \in Inner

\* OP_RETURN, OP_RETURNF (data)
Return(data) ==
    /\ Idle
    /\ LET r == Routine(proc) IN
       IF ~ data /\ proc[r].calltype = "FUNCTION"
       THEN Take(Rerror(proc))
       ELSE mode' = (IF r = 1 THEN "exit" ELSE "return") /\ UNCHANGED <<proc, trapped, Rxcip>>
    /\ UNCHANGED <<top, heap, live, lNumericDigits, tracing, traceflag, elapsed, codelen>>

\* OP_EXIT; OP_IEXIT at the end of the program
Exit ==
    /\ Idle /\ top' = -1 /\ mode' = "exit"
    /\ UNCHANGED <<proc, heap, live, lNumericDigits, tracing, traceflag, trapped,
                   elapsed, codelen, Rxcip>>

IExit ==
    /\ Idle /\ Rxcip.seg = 0
    /\ IF Running.calltype = "FUNCTION"
       THEN Take(Rerror(proc)) /\ top' = top
       ELSE mode' = "exit" /\ top' = -1 /\ UNCHANGED <<proc, trapped, Rxcip>>
    /\ UNCHANGED <<heap, live, lNumericDigits, tracing, traceflag, elapsed, codelen>>

\* OP_SYSTEM, RxExecuteCmd: the operands are the command and its environment.
Shown(f, rc) ==
    \/ rc < 0 /\ f.trace \in {"F", "N"}
    \/ rc > 0 /\ f.trace = "E"

CommandTrap(rc) ==
    Running.condition \cap ((IF rc < 0 THEN {"FAILURE"} ELSE {})
                         \cup (IF rc # 0 THEN {"ERROR"} ELSE {}))

\* The condition of a failing command is raised in the activation of the line.
TrappedLine(c) ==
    /\ "good" \in Typed /\ rx < MaxProc /\ top < STCK_SIZE /\ Appended
    /\ Take(RxSignalCondition(InitInterStr(proc, "INTERACTIVE", Rxcip, top + 1, 0), c))
    /\ top' = top + 1 /\ tracing' = FALSE

Command(rc) ==
    /\ Idle /\ top > Floor(Running) + 1
    /\ LET c == IF "FAILURE" \in CommandTrap(rc) THEN "FAILURE" ELSE "ERROR" IN
       \/ /\ IF CommandTrap(rc) # {}
             THEN Take(RxSignalCondition(proc, c)) /\ top' = top
             ELSE top' = top - 2 /\ UNCHANGED <<proc, trapped, Rxcip, mode>>
          /\ UNCHANGED <<tracing, codelen>>
       \/ /\ Shown(Running, rc) /\ Running.interactive
          /\ \/ CommandTrap(rc) = {} /\ ObeyLine(proc, Rxcip, top, 2)
             \/ CommandTrap(rc) # {} /\ TrappedLine(c)
             \/ RefuseLine(proc, top)
    /\ UNCHANGED <<heap, live, lNumericDigits, traceflag, elapsed>>

-----------------------------------------------------------------------------
(* The loops that leave activations.                                       *)

\* RxInterpret after the longjmp: leave the texts, clear the stack.
TrapBug ==  \* clears the arguments as well
    /\ mode = "trap"
    /\ IF Running.calltype = "INTERPRET"
       THEN DoneInterStr /\ mode' = mode
       ELSE mode' = "run" /\ UNCHANGED <<proc, heap, live, codelen>>
    /\ top' = Running.stack
    /\ UNCHANGED <<lNumericDigits, tracing, traceflag, trapped, elapsed, Rxcip>>

Trap ==
    /\ mode = "trap"
    /\ IF Running.calltype = "INTERPRET"
       THEN DoneInterStr /\ top' = Running.stack /\ mode' = mode
       ELSE /\ top' = Running.stacktop /\ mode' = "run"
            /\ proc' = Update(proc, [Running EXCEPT !.held = 0])
            /\ UNCHANGED <<heap, live, codelen>>
    /\ UNCHANGED <<lNumericDigits, tracing, traceflag, trapped, elapsed, Rxcip>>

\* What I_ReturnProc, interpreter_fin and Rerror do to leave one activation.
LeaveBug ==  \* leaves the digits of arithmetic as they are
    /\ proc' = Pop(proc)
    /\ live' = IF SharesEnv(rx) THEN live ELSE live \ {Running.env}
    /\ tracing' = Loud(Below(rx).trace)
    /\ UNCHANGED <<heap, lNumericDigits, traceflag, trapped, elapsed, codelen>>

Leave ==
    /\ proc' = Pop(proc)
    /\ live' = IF SharesEnv(rx) THEN live ELSE live \ {Running.env}
    /\ lNumericDigits' = Below(rx).digits
    /\ tracing' = Loud(Below(rx).trace)
    /\ UNCHANGED <<heap, traceflag, trapped, elapsed, codelen>>

ReturnProc ==
    /\ mode = "return" /\ Leave
    /\ top' = Running.stack /\ Rxcip' = Running.ip
    /\ mode' = IF Running.calltype \in Inner THEN "return" ELSE "run"

UnwindBug ==  \* stops one activation early
    /\ mode = "exit" /\ rx > 2 /\ Leave /\ UNCHANGED <<top, Rxcip, mode>>

Unwind ==
    /\ mode = "exit" /\ rx > 1 /\ Leave /\ UNCHANGED <<top, Rxcip, mode>>

\* The end of RxRun.
RunExit ==
    /\ mode = "exit" /\ rx = 1
    /\ live' = live \ {Running.env} /\ mode' = "end"
    /\ UNCHANGED <<proc, top, heap, lNumericDigits, tracing, traceflag, trapped,
                   elapsed, codelen, Rxcip>>

Loops == Trap \/ ReturnProc \/ Unwind \/ RunExit

-----------------------------------------------------------------------------
FirstEnv == CHOOSE t \in EnvIds \X EnvIds : t[1] # t[2]

Base(type) ==
    [calltype |-> type, ip |-> Main, stack |-> -1, stacktop |-> -1, held |-> 0,
     codelen |-> 0, env |-> FirstEnv[1], alt |-> FirstEnv[2], digits |-> 9, fuzz |-> 0,
     form |-> "SCIENTIFIC", condition |-> {}, lbl |-> [c \in Conditions |-> c],
     trace |-> "N", interactive |-> FALSE]

\* RxRun: the first activation, called as a command or a routine, possibly
\* with a TRACE operand.
Init ==
    /\ traceflag \in TraceFlags
    /\ live = {FirstEnv[1], FirstEnv[2]}
    /\ \E type \in Started : LET base == Base(type) IN
        proc \in {<<base>>} \cup
            {<<TraceSet(base, a)>> : a \in {b \in TraceArgs : b.letter # "bad"}}
    /\ heap = [e \in EnvIds |-> System]
    /\ top = -1 /\ lNumericDigits = 9 /\ tracing = Loud(proc[1].trace)
    /\ trapped = "" /\ elapsed = 0 /\ codelen = 0 /\ Rxcip = Main /\ mode = "run"

Next ==
    \/ Push \/ Drop \/ Error \/ Address \/ Trace \/ TracePoll \/ Digits \/ Fuzz \/ Set
    \/ ResetClock \/ NewClause \/ Proc \/ RxHaltTrap
    \/ \E c \in Conditions \cap {"NOVALUE", "NOTREADY"} : Condition(c)
    \/ \E type \in {"PROCEDURE", "FUNCTION"}, n \in Arities, isproc \in BOOLEAN :
            Call(type, n, isproc)
    \/ Interpret \/ InterEnd \/ Signal
    \/ \E data \in BOOLEAN : Return(data)
    \/ Exit \/ IExit
    \/ \E rc \in Codes : Command(rc)
    \/ Loops

Spec == Init /\ [][Next]_vars
FairSpec == Spec /\ WF_vars(Loops)

-----------------------------------------------------------------------------
(* What must hold.                                                         *)

\* Every variable keeps to the values its C declaration and the interpreter
\* allow.
TypeOK ==
    /\ proc \in Seq(FrameType) /\ Len(proc) \in 1..MaxProc
    /\ top \in -1..(STCK_SIZE + 1)
    /\ heap \in [EnvIds -> EnvNames] /\ live \subseteq EnvIds
    /\ lNumericDigits \in Nat
    /\ tracing \in BOOLEAN /\ traceflag \in BOOLEAN
    /\ trapped \in Conditions \cup {"", "SYNTAX"}
    /\ elapsed \in 0..MaxResets /\ codelen \in 0..MaxCode
    /\ Rxcip \in Places /\ mode \in Modes

\* The operands an activation left on the stack when it called or interpreted
\* something stay there until it runs again (stack and stacktop, rexx.h:185):
\* neither returns nor traps nor SIGNAL, from any depth, cut into them.
Floors ==
    /\ \A k \in 2..rx : /\ proc[k].stack >= Floor(Below(k))
                         /\ Floor(proc[k]) >= Floor(Below(k))
    /\ mode \in {"run", "return"} => top >= Floor(Running)

\* An activation has an environment pair of its own or the pair of the one
\* below; every pair in use is allocated and freed once (interpre.c:935, 1046).
EnvOwned ==
    mode # "end" =>
        \A k \in 1..rx :
            /\ {proc[k].env, proc[k].alt} \subseteq live /\ proc[k].env # proc[k].alt
            /\ SharesEnv(k) <=> SharesAlt(k)
            /\ k > 1 /\ ~ SharesEnv(k) =>
                 \A j \in 1..(k - 1) :
                    {proc[k].env, proc[k].alt} \cap {proc[j].env, proc[j].alt} = {}

\* Clauses are traced when the TRACE setting of the running activation says
\* so, whatever was called, interpreted, trapped or returned from before;
\* while a line from the console is obeyed nothing is (trace.c:313).
TracingInForce ==
    mode \in {"run", "return"} /\ (\A k \in 1..rx : proc[k].calltype # "INTERACTIVE")
        => tracing = Loud(Running.trace)

\* Code that is running or will be returned to has not been cut off, and the
\* text of an activation stands above all that was there before it.
CodeKept ==
    /\ \A k \in 1..rx : proc[k].ip.seg <= proc[k].codelen \/ proc[k].calltype \notin Inner
    /\ \A k \in 2..rx : /\ proc[k].ip.seg <= codelen
                         /\ proc[k].calltype \in Inner => proc[k].codelen < codelen
    /\ mode \in {"run", "return"} => Rxcip.seg <= codelen

\* A trap, a return and an exit come to an end.
LoopsEnd == mode \in {"trap", "return", "exit"} ~> mode \in {"run", "end"}
=============================================================================
