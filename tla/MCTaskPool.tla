----------------------------- MODULE MCTaskPool -----------------------------
(* An instance of TaskPool: three tasks, two workers, and up to two starts. *)
EXTENDS TaskPool, TLC

CONSTANTS task1, task2, task3, sentinel

MCTasks == {task1, task2, task3}
=============================================================================
