-------------------------- MODULE MCTaskLifecycle --------------------------
(* An instance of TaskLifecycle: two runs, of a task and of one whose id *)
(* begins with its id.                                                   *)
EXTENDS TaskLifecycle

TwoRuns == {"r1", "r2"}
TasksOneAndTen == [r \in TwoRuns |-> IF r = "r1" THEN <<1>> ELSE <<1, 0>>]
AnyThenRemote == [r \in TwoRuns |->
                    IF r = "r1" THEN {"django", "remote"} ELSE {"remote"}]
=============================================================================
