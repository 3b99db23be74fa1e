------------------------------ MODULE MCScan ------------------------------
EXTENDS ScanMeaning
Stats == {"normal", "in_do", "in_if", "in_do_init", "in_if_init", "in_parse_value", "in_parse"}
One(s) == {<<c>> : c \in s}
Texts == {
  \* comments, and what they stand between
  [pieces |-> One({"a", "/", "*", " ", NL, "="}), len |-> 6, stats |-> {"normal"}],
  \* words
  [pieces |-> One({"a", "e", "1", ".", "+", "(", ":", " "}), len |-> 5, stats |-> {"normal"}],
  \* operators
  [pieces |-> One({"a", "=", "<", ">", "~", "|", "&", "*", "/", "-", "%", ")", "?", "["}), len |-> 4, stats |-> {"normal"}],
  \* strings
  [pieces |-> One({"'", "\"", "x", "b", "1", " ", "(", NL}), len |-> 5, stats |-> {"normal"}],
  [pieces |-> One({"'", "x", "(", NL}) \cup {<<"/", "*", "*", "/">>}, len |-> 7, stats |-> {"normal"}],
  \* continuations
  [pieces |-> One({",", NL, " ", ";", "a", "="}) \cup {<<CR, NL>>}, len |-> 5, stats |-> {"normal"}],
  [pieces |-> One({",", NL, ";", "a"}) \cup {<<"/", "*", NL, "*", "/">>, <<"/", "*">>}, len |-> 8, stats |-> {"normal"}],
  \* keywords, and the end of the text
  [pieces |-> {<<"t", "h", "e", "n">>, <<"t", "o">>, <<"b", "y">>, <<"w", "i", "t", "h">>, <<"f", "o", "r">>, <<" ">>, <<".">>, <<"=">>, <<",">>},
   len |-> 6, stats |-> Stats],
  \* a first line for the system's shell
  [pieces |-> {<<"#", "!">>, <<NL>>, <<"a">>, <<" ">>, <<"/", "*">>}, len |-> 5, stats |-> {"normal"}] }
=============================================================================
