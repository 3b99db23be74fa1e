----------------------------- MODULE MCVarPool -----------------------------
(* Small programs for the variable pool: which names, lists and references *)
(* occur in the text.                                                      *)
EXTENDS VarPoolScoping

CONSTANTS sigl, result, a, item, key,
    own, other  \* the names A.T and A.(any other tail)

MCSimple == {sigl, result}
MCText   == Names \cup Data \cup {Empty, Null} \cup IF a \in Stems THEN {own, other} ELSE {}
MCJoin   == [q \in Stems \X MCText |-> IF q[2] = key THEN own ELSE other]

\* Simple variables only.
HeadLits    == MCSimple
HeadWords   == [v \in MCText |-> IF v \in MCSimple THEN <<v>> ELSE
                  IF v \in Data THEN <<sigl>> ELSE << >>]
HeadExposes == {<< >>, <<[op |-> "expose", ref |-> result]>>,
                <<[op |-> "list", ref |-> result]>>}
HeadDrops   == {<<sigl>>}

\* One stem with one constant tail.
TailLits    == {a, <<a, key>>}
TailWords   == [v \in MCText |-> IF v \in Names THEN <<v>> ELSE
                  IF v \in {key, own} THEN <<<<a, key>>>> ELSE << >>]
Exposed(rs) == [i \in 1..Len(rs) |-> [op |-> "expose", ref |-> rs[i]]]
TailExposes == {Exposed(<< >>), Exposed(<<a, <<a, key>>>>),
                Exposed(<<<<a, sigl>>, sigl, <<a, sigl>>, a>>)}
TailNames   == {<<a, key>>}

\* One exposed tail, and one named in parentheses.
OneExpose    == {Exposed(<<<<a, key>>>>)}
ParenExposes == {<<[op |-> "list", ref |-> <<a, key>>]>>}
ParenLits    == {<<a, key>>, <<a, sigl>>}

-----------------------------------------------------------------------------
(* Which storage an object got is immaterial: TLC tells states apart by    *)
(* who refers to what.  An object is named by the slots that hold it, and  *)
(* a cached leaf counts only while the frame it was cached for is there.   *)
(* (TypeOK is there to have TLC evaluate the functions in pool.)           *)
Shape ==
    LET HS  == Frames \X Names
        H   == [v \in VarIds |-> {q \in HS : pool.head[q[1]][q[2]] = v}]
        TS  == {v \in VarIds : pool.tail[v] # NoTails} \X Slots
        L   == [v \in VarIds \cup {Nil} |->
                  IF v = Nil THEN Nil
                  ELSE <<H[v], {<<H[q[1]], q[2]>> :
                                  q \in {q \in TS : pool.tail[q[1]][q[2]] = v}}>>]
        ids == {proc[f].id : f \in 0..rx_proc}
    IN  <<[f \in Frames |-> [n \in Names |-> L[pool.head[f][n]]]],
          {<<L[v], v \in pool.live, pool.value[v], pool.mark[v]>> :
              v \in {v \in VarIds : L[v] # <<{}, {}>>}},
          Cardinality(pool.live),
          [n \in Names |-> IF pool.cache[n].id \in ids
                           THEN [pool.cache[n] EXCEPT !.var = L[@]] ELSE NoLeaf],
          [f \in Frames |-> [proc[f] EXCEPT !.r = L[@]]],
          rx_proc, procidcnt, pending, closing, TypeOK>>
=============================================================================
