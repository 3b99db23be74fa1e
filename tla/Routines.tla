------------------------------ MODULE Routines ------------------------------
(***************************************************************************)
(* What calls promise a program (call.helprexx): a routine starts with a   *)
(* copy of its caller's settings, whatever it does with them it does to    *)
(* its own, and when it returns its caller goes on with the settings and   *)
(* the operands it had.  INTERPRET, SIGNAL, traps and interactive trace    *)
(* are work a routine does.                                                *)
(***************************************************************************)
EXTENDS Integers, Sequences

CONSTANT Settings  \* of NUMERIC (digits ..), TRACE and SIGNAL ON (condition, lbl)

VARIABLES
    routine,   \* the active ones: [kind, resume: operands left at return, settings]
    operands,  \* index of the last operand
    rounding,  \* the digits arithmetic rounds to
    over       \* the program is being ended

rvars == <<routine, operands, rounding, over>>

n == Len(routine)

Init ==
    /\ n = 1 /\ routine[1].kind \in {"PROGRAM", "PROCEDURE", "FUNCTION"}
    /\ routine[1].resume = -1 /\ routine[1].settings \in Settings
    /\ rounding = routine[1].settings.digits
    /\ operands = -1 /\ over = FALSE

\* A routine traps what its caller traps, but for what it has trapped by then.
Inherits(s, t) ==
    /\ t.condition \subseteq s.condition
    /\ t = [s EXCEPT !.condition = t.condition]

Enter ==
    /\ ~ over /\ Len(routine') = n + 1 /\ SubSeq(routine', 1, n) = routine
    /\ LET r == routine'[n + 1] IN
        /\ r.kind \in {"PROCEDURE", "FUNCTION"}
        /\ r.resume \in routine[n].resume..operands
        /\ r.kind = "PROCEDURE" => r.resume < operands
        /\ Inherits(routine[n].settings, r.settings)
    /\ operands' >= operands /\ rounding' = rounding

Work ==
    /\ Len(routine') = n /\ n > 0
    /\ SubSeq(routine', 1, n - 1) = SubSeq(routine, 1, n - 1)
    /\ routine'[n].settings \in Settings
    /\ routine'[n] = [routine[n] EXCEPT !.settings = routine'[n].settings]
    /\ over => over'
    /\ over' \/ operands' >= routine[n].resume

Leave ==
    /\ n > 1 /\ routine' = SubSeq(routine, 1, n - 1)
    /\ over' = over
    /\ over \/ operands' = routine[n].resume
    /\ rounding' = routine[n - 1].settings.digits

Next == Enter \/ Work \/ Leave
Spec == Init /\ [][Next]_rvars
=============================================================================
