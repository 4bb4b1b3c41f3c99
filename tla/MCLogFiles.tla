----------------------------- MODULE MCLogFiles -----------------------------
(* LogFiles on logs of a few lines of a few bytes, scanned back 3 bytes.   *)
EXTENDS LogFiles

Line(t, p, n, w) == [time |-> t, path |-> p, size |-> n, wide |-> w]

(* Events of two paths, a long one with wide characters, and a line that   *)
(* does not parse.                                                         *)
MCKind == {Line(1, "x", 2, FALSE), Line(2, "y", 3, FALSE), Line(3, "x", 5, TRUE),
           Line(Bad, "x", 1, FALSE)}

F(o, n) == [op |-> o, at |-> n]

MCQueries == {{}, {F("Gt", 1), F("Ge", 2)}, {F("Ge", 2), F("Lt", 3)}}
MCCleans  == {<<F("Gt", 1), F("Ge", 4)>>, <<F("Ge", 1), F("Gt", 2)>>}
=============================================================================
