---------------------------- MODULE MCNativeTrial -----------------------------
(* A small instance of NativeTrial: two turns of at most two calls, two      *)
(* preflight checks, two database attempts and one native result.             *)
EXTENDS NativeTrial

CONSTANTS Finite, NotANumber

MCQuery  == [parses |-> TRUE, statements |-> 1, leading |-> TRUE,
             forbidden |-> FALSE, select |-> TRUE]
MCSql    == {MCQuery, [MCQuery EXCEPT !.forbidden = TRUE]}
MCPayload    == {Finite, NotANumber}
MCUnhashable == {NotANumber}
MCAllowed    == {"db.describe_relations", "db.execute_readonly",
                 "benchmark.submit_result"}
=============================================================================
