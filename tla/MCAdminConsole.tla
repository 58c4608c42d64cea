--------------------------- MODULE MCAdminConsole ---------------------------
(* An instance of AdminConsole for TLC: a connection that sends up to two    *)
(* lines, and one that only connects, reads and leaves.                      *)
EXTENDS AdminConsole

CONSTANTS c1, c2

MCScripts ==
    c1 :> {<<"login", "registered">>, <<"login", "quit">>}
    @@ c2 :> {<<>>}

MCLeaves == c1 :> {"closed", "reset"} @@ c2 :> {"reset"}
=============================================================================
