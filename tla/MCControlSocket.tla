--------------------------- MODULE MCControlSocket ---------------------------
(* Two commands about one entry or about two, one of them refused; or one  *)
(* command and a subscriber; or two subscribers.                           *)
EXTENDS ControlSocket

CONSTANTS c1, c2, e1, e2

Op(o, e) == [op |-> o, entry |-> e]
Sub      == [op |-> "subscribe"]

MCJobs ==
    {[x \in {c1, c2} |-> IF x = c1 THEN j[1] ELSE j[2]] :
       j \in ({Op("add", e1), Op("remove", e1)} \X {Op("add", e1), Op("add", e2)})
              \cup ({Op("add", e1), Sub} \X {Sub})}

MCStores == {{}, {e1}}
=============================================================================
