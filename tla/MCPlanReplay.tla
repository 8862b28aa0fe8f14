---------------------------- MODULE MCPlanReplay ----------------------------
(* Instances of PlanReplay for TLC.                                         *)
EXTENDS PlanReplay

CONSTANTS i1, i2, parent, child
MCId == {i1, i2}
MCSession == {parent, child}

\* Entries the program writes, each also with an id, a source or a digest that
\* does not fit
Submission(c) == {Message("assistant", c, alone, complete) :
                    alone \in BOOLEAN, complete \in BOOLEAN}
Talk == {Message("user", None, FALSE, TRUE)} \cup UNION {Submission(c) : c \in MCId}
Switches == {ModeChange("plan", p, "user", None) : p \in MCId}
              \cup {ModeChange("default", p, "user", None) : p \in MCId}
              \cup {ModeChange(m, p, "handoff", x) :
                      m \in {"plan", "default"}, p \in MCId, x \in {parent, child}}
Dialogue == {Question(p, i1) : p \in MCId} \cup {Answer(p, q) : p \in {i1}, q \in MCId}
Copies == {Revision(p, n, i1, 1, parent) : p \in MCId, n \in 1..2}
Plans == Copies \cup {Revision(i1, n, c, source, None) :
                        n \in 1..2, c \in MCId, source \in 2..4}
Forged == {[r EXCEPT !.digest = Digest(i1, 1, None)] : r \in Plans}
Attempts == {Run(status, <<p, n, Digest(p, n, i1)>>, r) :
               status \in {"started", "completed", "aborted"},
               p \in MCId, n \in 1..2, r \in MCId}
MCEntry == Talk \cup Switches \cup Dialogue \cup Plans \cup Forged
             \cup Attempts \cup {Issue, Other}
=============================================================================
