------------------------------ MODULE TaskPool ------------------------------
(***************************************************************************)
(* What a parallel inference call promises to its caller, whatever the     *)
(* number of threads and the order in which they work: each component that *)
(* has to be solved is counted in the result exactly once, and the call    *)
(* comes back early only if every one of its threads was lost.             *)
(*                                                                         *)
(* The specification knows nothing of threads and queues.  InferBucket     *)
(* implements it.                                                          *)
(***************************************************************************)
EXTENDS Naturals, FiniteSets

CONSTANTS
  Bucket,       \* the inference calls that may run side by side
  Task,         \* Task[b]: the components bucket b has to solve
  Capacity,     \* Capacity[b]: how many solvers work for bucket b
  Faulty        \* the components on which the solver may fail

VARIABLES
  running,      \* running[b]: a call is in progress
  pending,      \* pending[b]: components not solved yet
  counted,      \* counted[b]: components whose cost is in the result
  lost          \* lost[b]: components on which a solver failed

poolVars == <<running, pending, counted, lost>>

PoolInit ==
  /\ running = [b \in Bucket |-> FALSE]
  /\ pending = [b \in Bucket |-> {}]
  /\ counted = [b \in Bucket |-> {}]
  /\ lost    = [b \in Bucket |-> {}]

(* A call starts from nothing: a result of an earlier call is forgotten.   *)
Submit(b) ==
  /\ ~ running[b]
  /\ running' = [running EXCEPT ![b] = TRUE]
  /\ pending' = [pending EXCEPT ![b] = Task[b]]
  /\ counted' = [counted EXCEPT ![b] = {}]
  /\ lost'    = [lost EXCEPT ![b] = {}]

Complete(b, c) ==
  /\ running[b]
  /\ c \in pending[b]
  /\ pending' = [pending EXCEPT ![b] = @ \ {c}]
  /\ counted' = [counted EXCEPT ![b] = @ \cup {c}]
  /\ UNCHANGED <<running, lost>>

Lose(b, c) ==
  /\ running[b]
  /\ c \in pending[b] \cap Faulty
  /\ Cardinality(lost[b]) < Capacity[b]
  /\ pending' = [pending EXCEPT ![b] = @ \ {c}]
  /\ lost'    = [lost EXCEPT ![b] = @ \cup {c}]
  /\ UNCHANGED <<running, counted>>

Deliver(b) ==
  /\ running[b]
  /\ pending[b] = {} \/ Cardinality(lost[b]) = Capacity[b]
  /\ running' = [running EXCEPT ![b] = FALSE]
  /\ UNCHANGED <<pending, counted, lost>>

PoolNext ==
  \E b \in Bucket :
    \/ Submit(b)
    \/ \E c \in Task[b] : Complete(b, c) \/ Lose(b, c)
    \/ Deliver(b)

PoolSpec == PoolInit /\ [][PoolNext]_poolVars
=============================================================================
