---------------------------- MODULE MCControlTrial ----------------------------
(* A small instance of ControlTrial: two turns of at most two calls, two    *)
(* database attempts and two ticks of time.                                 *)
EXTENDS ControlTrial

CONSTANTS Right, Wrong, NotANumber

MCQuery  == [parses |-> TRUE, statements |-> 1, leading |-> TRUE,
             forbidden |-> FALSE, select |-> TRUE]
MCSql    == {MCQuery, [MCQuery EXCEPT !.forbidden = TRUE]}
MCPayload    == {Right, Wrong, NotANumber}
MCUnhashable == {NotANumber}
MCAllowed    == {"db.describe_relations", "db.execute_readonly",
                 "benchmark.submit_result"}
=============================================================================
