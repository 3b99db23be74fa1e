------------------------------ MODULE Scoping ------------------------------
(***************************************************************************)
(* What the variable pool promises of simple variables.                    *)
(*                                                                         *)
(* A program runs as a stack of activations.  Every activation sees every  *)
(* name as a variable that some activation owns: its own after PROCEDURE,  *)
(* the caller's for a name that was exposed and for a routine without      *)
(* PROCEDURE.  A variable that was never assigned, or was dropped, reads   *)
(* as its own name.                                                        *)
(***************************************************************************)
EXTENDS Integers

CONSTANTS
    Names,        \* simple symbols
    Sigl, Result, \* two of them, set by CALL and by RETURN
    Data,         \* values a program assigns
    MaxDepth      \* bound: deepest activation

Depths == 0..MaxDepth

VARIABLES
    owner,   \* the activation whose variable a name is, seen from each one
    val,     \* the value of each activation's own variables
    kind,    \* how each activation was entered
    top,     \* the running activation, -1 once the program has ended
    opening, \* the names of a PROCEDURE EXPOSE are being processed
    ending   \* the program is being terminated

vars == <<owner, val, kind, top, opening, ending>>

Unset    == [n \in Names |-> n]
Own(f)   == [n \in Names |-> f]
Idle     == "PROGRAM"
Read(f, n) == val[owner[f][n]][n]

Init ==
    /\ owner = [f \in Depths |-> Own(f)]
    /\ val = [f \in Depths |-> Unset]
    /\ kind = [f \in Depths |-> Idle]
    /\ top = 0
    /\ opening = FALSE
    /\ ending = FALSE

Running == top >= 0 /\ ~opening /\ ~ending

\* The value v for name n as activation f sees it.
Put(f, n, v) == [val EXCEPT ![owner[f][n]][n] = v]

\* Assignment; also VALUE and EXECCOMM on the pool of an outer activation.
Set(f, n, v) ==
    /\ Running
    /\ val' = Put(f, n, v)
    /\ UNCHANGED <<owner, kind, top, opening, ending>>

Drop(n) ==
    /\ Running
    /\ val' = Put(top, n, n)
    /\ UNCHANGED <<owner, kind, top, opening, ending>>

\* A routine without PROCEDURE, or the text of an INTERPRET.
Enter(k) ==
    /\ Running /\ top < MaxDepth
    /\ top' = top + 1
    /\ owner' = [owner EXCEPT ![top + 1] = owner[top]]
    /\ kind' = [kind EXCEPT ![top + 1] = k]
    /\ UNCHANGED <<opening, ending>>

EnterRoutine(k, line) == Enter(k) /\ val' = Put(top, Sigl, line)
EnterText(k) == Enter(k) /\ UNCHANGED val

\* A routine with PROCEDURE: all its names are new.
EnterProcedure(k, line) ==
    /\ Running /\ top < MaxDepth
    /\ top' = top + 1
    /\ val' = Put(top, Sigl, line)
    /\ kind' = [kind EXCEPT ![top + 1] = k]
    /\ UNCHANGED <<owner, ending>>
    /\ opening' \in BOOLEAN

\* EXPOSE: the name is the caller's variable from now on.
Expose(n) ==
    /\ opening /\ top > 0
    /\ owner' = [owner EXCEPT ![top][n] = owner[top - 1][n]]
    /\ opening' \in BOOLEAN
    /\ UNCHANGED <<val, kind, top, ending>>

\* A list may end with names that need no exposing.
Opened ==
    opening /\ opening' = FALSE /\ UNCHANGED <<owner, val, kind, top, ending>>

\* The activations above k end, and what they own with them.
LeaveTo(k, v) ==
    /\ top' = k
    /\ owner' = [f \in Depths |-> IF f <= k THEN owner[f] ELSE Own(f)]
    /\ val' = [f \in Depths |-> IF f <= k THEN v[f] ELSE Unset]
    /\ kind' = [f \in Depths |-> IF f <= k THEN kind[f] ELSE Idle]
    /\ UNCHANGED <<opening, ending>>

\* The innermost routine or program, under any INTERPRET texts.
Routine(f) ==
    /\ f \in 0..top /\ kind[f] # "INTERPRET"
    /\ \A g \in (f + 1)..top : kind[g] = "INTERPRET"

LeaveText ==
    /\ Running /\ top > 0 /\ kind[top] = "INTERPRET"
    /\ LeaveTo(top - 1, val)

\* A trap: SIGL is set where the condition arose, then all texts are left.
Trap(line) ==
    /\ Running
    /\ \E f \in Depths : Routine(f) /\ LeaveTo(f, Put(top, Sigl, line))

\* A function has to return a value, and it is the value of an expression.
ReturnFunction ==
    /\ Running
    /\ \E f \in Depths \ {0} :
        Routine(f) /\ kind[f] = "FUNCTION" /\ LeaveTo(f - 1, val)

Return ==
    /\ Running
    /\ \E f \in Depths \ {0} :
        Routine(f) /\ kind[f] = "PROCEDURE" /\ LeaveTo(f - 1, val)

\* The value of a CALLed routine becomes RESULT as the caller sees it.
ReturnValue(v) ==
    /\ Running
    /\ \E f \in Depths \ {0} :
        /\ Routine(f) /\ kind[f] = "PROCEDURE"
        /\ LeaveTo(f - 1, Put(f - 1, Result, v))

\* EXIT ends the activations one by one, without any more assignments.
Exit == Running /\ ending' = TRUE /\ UNCHANGED <<owner, val, kind, top, opening>>
End  == ending /\ top >= 0 /\ LeaveTo(top - 1, val)

Next ==
    \/ \E f \in Depths, n \in Names, v \in Data : f <= top /\ Set(f, n, v)
    \/ \E n \in Names : Drop(n) \/ Expose(n)
    \/ \E k \in {"PROCEDURE", "FUNCTION"}, line \in Data :
          EnterRoutine(k, line) \/ EnterProcedure(k, line)
    \/ EnterText("INTERPRET") \/ LeaveText
    \/ Opened
    \/ \E line \in Data : Trap(line)
    \/ ReturnFunction \/ Return \/ \E v \in Data : ReturnValue(v)
    \/ Exit \/ End

Spec == Init /\ [][Next]_vars
=============================================================================
