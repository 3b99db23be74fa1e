----------------------------- MODULE FramesKept -----------------------------
(***************************************************************************)
(* What the documentation says of calls, INTERPRET, SIGNAL, traps and      *)
(* interactive trace, and the code does not do.  saved[k] remembers what   *)
(* was in force below activation k when it was pushed.  One run checks  *)
(* TrapDisabled; TLC refutes the others with the constants of disable.cfg. *)
(***************************************************************************)
EXTENDS Frames

VARIABLE saved

now == [address |-> heap[Running.env], trapped |-> trapped, elapsed |-> elapsed]

KeptInit == Init /\ saved = <<now>>
KeptNext ==
    /\ Next
    /\ saved' = [k \in 1..Len(proc') |-> IF k <= rx THEN saved[k] ELSE now]
KeptSpec == KeptInit /\ [][KeptNext]_<<vars, saved>>

\* A routine that was called has returned, and its caller goes on.
Returned == mode = "return" /\ mode' = "run"

\* "ADDRESS, NUMERIC, and TRACE settings" are restored when a routine returns
\* (call.helprexx:40).  RxDoneInterStr copies the environment of an INTERPRET
\* into the object of the activation below, which may be its caller's.
AddressKept == [][Returned => heap[proc'[Len(proc')].env] = saved[rx].address]_vars

\* "The condition information is saved and restored during CALL processing"
\* (conditio.helprexx:23).  It is one global (error.c:71).
ConditionKept == [][Returned => trapped = saved[rx].trapped]_vars

\* "any reset operation affects only the routine, and is undone upon return"
\* (call.helprexx:45).  The clock is one global (ltime.c:264).
ClockKept == [][Returned => elapsed = saved[rx].elapsed]_vars

\* SIGNAL terminates INTERPRET (signal.helprexx:28): the program itself is not
\* run in the activation of a text.  OP_SIGNAL leaves it in place.
SignalEndsInterpret ==
    mode = "run" /\ Rxcip.seg = 0 => Running.calltype # "INTERPRET"

\* "disable the trap" (error.c:67): when the program goes on after a trap, the
\* condition is not trapped any more.  The bit is cleared in the activation
\* of an INTERPRET, which is then left.
TrapDisabled ==
    [][mode = "trap" /\ mode' = "run" => trapped \notin proc'[Len(proc')].condition]_vars

\* INTERPRET works "as if the value were contained in a DO-END group"
\* (interpre.helprexx:8): what it sets stays set.  RxDoneInterStr hands down
\* only TRACE and ADDRESS.
InterpretSettings ==
    [][mode = "run" /\ mode' = "run" /\ Len(proc') = rx - 1 =>
        LET f == proc'[rx - 1] IN
        <<f.digits, f.fuzz, f.form, f.condition>> =
            <<Running.digits, Running.fuzz, Running.form, Running.condition>>]_vars

\* "NUMERIC DIGITS" "must exceed NUMERIC FUZZ" (errortxt.c:271), so a
\* program that goes on never has it otherwise.  I_StoreOption stores first.
FuzzBelowDigits == mode = "run" => Running.fuzz < Running.digits

\* "Value of NUMERIC DIGITS must not exceed" its limit (errortxt.c:272): it is
\* not refused but cut down to LMAXNUMERICDIGITS for arithmetic, until a return
\* restores it as it was given.
DigitsLimited == lNumericDigits <= LMaxDigits

\* "Turn on interactive trace" (interpre.c:1259), which toggles it.
TraceTurnedOn ==
    [][traceflag' # traceflag /\ traceflag' => proc'[Len(proc')].interactive]_vars

\* PROCEDURE "may be used as the first instruction in an internal routine"
\* (procedur.helprexx:7).  A line obeyed at the call's trace prompt comes
\* between the call and its PROCEDURE, which the main loop does not accept.
ProcedureAccepted == ~ (mode = "run" /\ Rxcip.next = "proc")

\* The operands of an activation lie above stacktop, "stack after args"
\* (rexx.h:186).  OP_SYSTEM takes its operands off from under a console line.
StackAfterArgs == mode = "run" => top >= Running.stacktop

\* interpre_RxStck has STCK_SIZE entries (context.h:118).  TraceInteractive
\* pushes without CHKERROR, whose test for equality then comes too late.
StackBound == top < STCK_SIZE

\* "If the setting is 'ALL', then all clauses are traced" (trace.helprexx:17).
\* A console line that does not compile leaves tracing off when its error is
\* trapped.
AllTraced ==
    mode = "run" /\ Running.trace = "A" /\ (\A k \in 1..rx : proc[k].calltype # "INTERACTIVE")
        => tracing

\* A return frees "everything that it is new" (interpre.c:928).  env_alt stays.
EnvFreed ==
    mode = "run" => live = UNION {{proc[k].env, proc[k].alt} : k \in 1..rx}
=============================================================================
