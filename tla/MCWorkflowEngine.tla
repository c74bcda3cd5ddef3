------------------------- MODULE MCWorkflowEngine -------------------------
(* Instances of WorkflowEngine for TLC. *)
EXTENDS WorkflowEngine, TLC

FaultBounds(term, crash, dberr, queue, slow) ==
  [f \in Fault |-> CASE f = "term" -> term [] f = "crash" -> crash
                     [] f = "db" -> dberr [] f = "queue" -> queue
                     [] f = "slow" -> slow]

\* Overlapping leaders, a crash, a lost reply of the queue.
FailoverFaults == FaultBounds(2, 1, 0, 1, 0)

\* One leader; a worker crash, a failed database call, a slow worker.
SteadyFaults == FaultBounds(1, 1, 1, 0, 1)

\* One leader; a crash, a failed database call, a failed queue call.
LiveFaults == FaultBounds(1, 1, 1, 1, 0)

\* Nothing goes wrong.
NoFaults == FaultBounds(1, 0, 0, 0, 0)

AllModes == {"local", "single", "distributed"}

Symmetry == Permutations(Task) \cup Permutations(Node) \cup Permutations(Msg)
              \cup Permutations(Exec)
=============================================================================
