---------------------------- MODULE MCMemoryJobs ----------------------------
(* Instances of MemoryJobs for TLC.                                         *)
EXTENDS MemoryJobs, TLC

CONSTANTS p1, p2, a, b

MCTask == 1..2
MCProc == {p1, p2}

OneTask == {1}
OneInA == [t \in OneTask |-> a]

\* One project, two processes that share its queue
OneProject == {a}
AllInA == [t \in MCTask |-> a]
BothInA == [p \in MCProc |-> a]

\* Two projects of one user: separate queues, one directory of receipts
TwoProjects == {a, b}
TaskPerProject == (1 :> a) @@ (2 :> b)
ProcPerProject == (p1 :> a) @@ (p2 :> b)

Symmetry == Permutations(MCProc)
=============================================================================
