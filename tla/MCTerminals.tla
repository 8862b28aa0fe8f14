----------------------------- MODULE MCTerminals -----------------------------
(***************************************************************************)
(* Terminals for TLC: two processes, two providers with three models, one  *)
(* old id, lists of two rows.                                              *)
(***************************************************************************)
EXTENDS Terminals, TLC

MCProvider == {"deepseek", "zai"}
MCStored == {{"zai"}}
MCModel == {"flash", "pro", "glm"}
MCName == MCModel \cup {"chat"}
MCAlias == [n \in {"chat"} |-> "flash"]
MCMadeBy == [n \in MCName |-> IF n = "glm" THEN "zai" ELSE "deepseek"]
MCFirstOf == [q \in MCProvider |-> IF q = "zai" THEN "glm" ELSE "flash"]
MCGiven == [default_provider |-> {"zai"}, default_model |-> {"chat"},
            retry_initial_delay |-> {1}, retry_max_delay |-> {0},
            tui_permission_mode |-> {"full_access"}]
MCText == {"", "k"}
\* Rows by id
MCOrder == <<"deepseek", "flash", "glm", "pro", "zai">>
MCListing == [S \in SUBSET (MCModel \cup MCProvider) |->
                SelectSeq(MCOrder, LAMBDA r : r \in S)]
MCKeeps == [t \in MCText |-> IF t = "" THEN MCModel \cup MCProvider
                             ELSE {"deepseek", "glm", "pro"}]
MCSymmetry == Permutations(Proc)
===============================================================================
