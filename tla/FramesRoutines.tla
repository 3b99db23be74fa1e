--------------------------- MODULE FramesRoutines ---------------------------
(* The table of activations keeps the promises of Routines.                *)
EXTENDS Frames

\* The activations of a routine are its own and those of the texts above it.
Starts     == {k \in 1..rx : k = 1 \/ proc[k].calltype \notin Inner}
Start(i)   == CHOOSE k \in Starts : Cardinality({j \in Starts : j < k}) = i - 1
Topmost(i) == IF i = Cardinality(Starts) THEN rx ELSE Start(i + 1) - 1

SettingsOf(f) ==
    [digits |-> f.digits, fuzz |-> f.fuzz, form |-> f.form, trace |-> f.trace,
     interactive |-> f.interactive, condition |-> f.condition, lbl |-> f.lbl]

AllSettings ==
    [digits : Nat, fuzz : Nat, form : Forms, trace : Letters, interactive : BOOLEAN,
     condition : SUBSET Conditions, lbl : [Conditions -> Labels]]

RoutinesOf ==
    [i \in 1..Cardinality(Starts) |->
        [kind |-> proc[Start(i)].calltype, resume |-> proc[Start(i)].stack,
         settings |-> SettingsOf(proc[Topmost(i)])]]

R == INSTANCE Routines WITH
        Settings <- AllSettings, routine <- RoutinesOf, operands <- top,
        rounding <- lNumericDigits, over <- mode \in {"exit", "end"}

\* Calls keep what call.helprexx:33-44 promises of operands, NUMERIC, TRACE
\* and traps, whatever routines do between call and return (I_MakeArgs,
\* I_ReturnProc).
Promised == R!Spec
=============================================================================
