------------------------------ MODULE MCFrames ------------------------------
EXTENDS FramesRoutines
CONSTANTS cms, xedit

AllTrace == [toggle : {FALSE}, letter : {"A", "O"}] \cup
            [toggle : {TRUE}, letter : {"bad", "A"}]

AllCodes == {-1, 0, 1}

(* The label of a condition that is not trapped, the name in an environment *)
(* object nothing refers to and whether TIME('E') was asked are immaterial. *)
Shape ==
    LET used == UNION {{proc[k].env, proc[k].alt} : k \in 1..rx} IN
    <<[k \in 1..rx |-> [proc[k] EXCEPT
            !.lbl = [c \in proc[k].condition |-> proc[k].lbl[c]]]],
      [e \in used |-> heap[e]], top, live, lNumericDigits, tracing, traceflag, trapped,
      codelen, Rxcip, mode>>
=============================================================================
