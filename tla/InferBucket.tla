---------------------------- MODULE InferBucket -----------------------------
(***************************************************************************)
(* InferBucket.runInferParallel and its CompWorker threads                 *)
(* (core/tuffy/infer/InferBucket.java): the caller fills a queue with the  *)
(* components of a bucket, starts the worker threads, each of which takes  *)
(* one component after the other from the queue, infers on it and adds its *)
(* cost to the bucket's, and joins them.                                   *)
(*                                                                         *)
(* Several buckets are inferred on at the same time when two web sessions  *)
(* clean their data sets in one server.  Their queues and sums are their   *)
(* own; UIMan.silent is a static field they share.                         *)
(*                                                                         *)
(* The sum of costs is kept as what it is the sum of: cost[c] is how many  *)
(* times the cost of component c has been added since the sum was reset.   *)
(***************************************************************************)
EXTENDS Naturals, FiniteSets

CONSTANTS
  Bucket,                \* InferBucket objects, one per concurrent caller
  Component,
  Worker,                \* CompWorker threads
  BucketOf,              \* the bucket of a component or of a worker
  HasQueryAtom,          \* the components with comp.hasQueryAtom
  NoPushdown,            \* Config.no_pushdown
  SilentOnSingleThread,  \* Config.silent_on_single_thread
  Faulty,                \* components whose inference may throw
  NoComponent,           \* Java's null
  MaxCalls               \* bound on the calls of infer() of one bucket

ASSUME InferBucketAssumption ==
  /\ BucketOf \in [Component \cup Worker -> Bucket]
  /\ HasQueryAtom \subseteq Component
  /\ Faulty \subseteq Component
  /\ NoPushdown \in BOOLEAN
  /\ SilentOnSingleThread \in BOOLEAN
  /\ NoComponent \notin Component
  /\ MaxCalls \in Nat
  /\ IsFiniteSet(Worker)

VARIABLES
  main,        \* main[b]: where the caller of bucket b stands
  calls,       \* calls[b]: infer() calls made so far
  q,           \* q[b]: the components still in the queue
  cost,        \* cost[c]: times the cost of c was added
  wstate,      \* wstate[w]: where worker thread w stands
  comp,        \* comp[w]: the component w took from the queue
  silent,      \* UIMan.silent, static
  initSilent   \* initSilent[b]: local variable of runInferParallel

vars == <<main, calls, q, cost, wstate, comp, silent, initSilent>>

WorkersOf(b) == {w \in Worker : BucketOf[w] = b}

(* The components put in the queue: those with a query atom, or all.       *)
Tasks(b) ==
  {c \in Component : BucketOf[c] = b /\ (c \in HasQueryAtom \/ NoPushdown)}

WorkerState == {"new", "ready", "infer", "ended", "crashed"}

MainState == {"idle", "filled", "starting", "returned"}

(* Mutation: a thread that died is not seen as ended.                      *)
TerminatedMut(w) == wstate[w] = "ended"

Terminated(w) == wstate[w] \in {"ended", "crashed"}

TypeOK ==
  /\ main       \in [Bucket -> MainState]
  /\ calls      \in [Bucket -> 0..MaxCalls]
  /\ q          \in [Bucket -> SUBSET Component]
  /\ cost       \in [Component -> Nat]
  /\ wstate     \in [Worker -> WorkerState]
  /\ comp       \in [Worker -> Component \cup {NoComponent}]
  /\ \A w \in Worker :
       wstate[w] \in {"infer", "crashed"} => comp[w] \in Component
  /\ silent     \in BOOLEAN
  /\ initSilent \in [Bucket -> BOOLEAN]

Init ==
  /\ main       = [b \in Bucket |-> "idle"]
  /\ calls      = [b \in Bucket |-> 0]
  /\ q          = [b \in Bucket |-> {}]
  /\ cost       = [c \in Component |-> 0]
  /\ wstate     = [w \in Worker |-> "new"]
  /\ comp       = [w \in Worker |-> NoComponent]
  /\ silent     \in BOOLEAN
  /\ initSilent = [b \in Bucket |-> FALSE]

-----------------------------------------------------------------------------
(* The calling thread.                                                     *)

ResetCost(b) == [c \in Component |-> IF BucketOf[c] = b THEN 0 ELSE cost[c]]

(* Resets the sum, fills the queue and remembers the console's state.  The *)
(* queue is a list filled from a HashSet, whose order is arbitrary, and is *)
(* emptied from its end: any component may come first.  The thread objects *)
(* of an earlier call are dropped for new ones.                            *)
Fill(b) ==
  /\ main[b] \in {"idle", "returned"}
  /\ calls[b] < MaxCalls
  /\ main'  = [main EXCEPT ![b] = "filled"]
  /\ calls' = [calls EXCEPT ![b] = @ + 1]
  /\ cost'  = ResetCost(b)
  /\ q'     = [q EXCEPT ![b] = Tasks(b)]
  /\ wstate' = [w \in Worker |-> IF BucketOf[w] = b THEN "new" ELSE wstate[w]]
  /\ comp'   = [w \in Worker |-> IF BucketOf[w] = b THEN NoComponent
                                                    ELSE comp[w]]
  /\ initSilent' = [initSilent EXCEPT ![b] = silent]
  /\ UNCHANGED silent

SilenceConsole(b) ==
  /\ main[b] = "filled"
  /\ main' = [main EXCEPT ![b] = "starting"]
  /\ silent' = IF Cardinality(WorkersOf(b)) > 1 \/ SilentOnSingleThread
               THEN TRUE ELSE silent
  /\ UNCHANGED <<calls, q, cost, wstate, comp, initSilent>>

Start(w) ==
  /\ main[BucketOf[w]] = "starting"
  /\ wstate[w] = "new"
  /\ wstate' = [wstate EXCEPT ![w] = "ready"]
  /\ UNCHANGED <<main, calls, q, cost, comp, silent, initSilent>>

(* Mutation: the caller waits for the first thread only.                   *)
JoinedMut(b) == \E w \in WorkersOf(b) : Terminated(w)

Joined(b) == \A w \in WorkersOf(b) : Terminated(w)

(* Mutation: the console is left as the call wanted it.                    *)
RestoredSilentMut(b) == silent

RestoredSilent(b) == initSilent[b]

(* The joins: each of them waits for a thread to end, and a thread that    *)
(* died of an exception has ended as well as one that found no task.       *)
JoinAll(b) ==
  /\ main[b] = "starting"
  /\ Joined(b)
  /\ main' = [main EXCEPT ![b] = "returned"]
  /\ silent' = RestoredSilent(b)
  /\ UNCHANGED <<calls, q, cost, wstate, comp, initSilent>>

-----------------------------------------------------------------------------
(* The worker threads.  getTask and addCost hold the monitor `sentinel'.   *)

(* Mutation: the component stays in the queue.                             *)
QueueWithoutMut(b, c) == q[b]

QueueWithout(b, c) == q[b] \ {c}

(* Mutation: the worker does not notice that there was no task.            *)
OnNullMut(w) == "infer"

OnNull(w) == "ended"

GetTask(w) ==
  /\ wstate[w] = "ready"
  /\ \/ /\ q[BucketOf[w]] = {}
        /\ wstate' = [wstate EXCEPT ![w] = OnNull(w)]
        /\ comp' = [comp EXCEPT ![w] = NoComponent]
        /\ UNCHANGED q
     \/ \E c \in q[BucketOf[w]] :
          /\ q' = [q EXCEPT ![BucketOf[w]] = QueueWithout(BucketOf[w], c)]
          /\ comp' = [comp EXCEPT ![w] = c]
          /\ wstate' = [wstate EXCEPT ![w] = "infer"]
  /\ UNCHANGED <<main, calls, cost, silent, initSilent>>

(* InferComponent is done with the component: its cost is added.           *)
AddCost(w) ==
  /\ wstate[w] = "infer"
  /\ cost' = [cost EXCEPT ![comp[w]] = @ + 1]
  /\ wstate' = [wstate EXCEPT ![w] = "ready"]
  /\ UNCHANGED <<main, calls, q, comp, silent, initSilent>>

(* The inference throws: run() catches nothing, the thread is gone.        *)
Throw(w) ==
  /\ wstate[w] = "infer"
  /\ comp[w] \in Faulty
  /\ wstate' = [wstate EXCEPT ![w] = "crashed"]
  /\ UNCHANGED <<main, calls, q, cost, comp, silent, initSilent>>

-----------------------------------------------------------------------------
MainStep(b) == Fill(b) \/ SilenceConsole(b) \/ JoinAll(b)

WorkerStep(w) == Start(w) \/ GetTask(w) \/ AddCost(w) \/ Throw(w)

(* All calls the bound allows have been made.                              *)
AllReturned ==
  /\ \A b \in Bucket : main[b] \in {"idle", "returned"} /\ calls[b] = MaxCalls
  /\ UNCHANGED vars

Next ==
  \/ \E b \in Bucket : MainStep(b)
  \/ \E w \in Worker : WorkerStep(w)
  \/ AllReturned

Spec == Init /\ [][Next]_vars

(* The scheduler of the JVM runs every thread that can run; the inference  *)
(* on one component is a bounded number of flips.  Nobody has to call      *)
(* infer() again.                                                          *)
Fairness ==
  /\ \A b \in Bucket : WF_vars(SilenceConsole(b)) /\ WF_vars(JoinAll(b))
  /\ \A w \in Worker : WF_vars(WorkerStep(w))

FairSpec == Spec /\ Fairness

-----------------------------------------------------------------------------
(* Properties.                                                             *)

InHand(b) == {comp[w] : w \in {v \in WorkersOf(b) : wstate[v] = "infer"}}

LostBy(b) == {comp[w] : w \in {v \in WorkersOf(b) : wstate[v] = "crashed"}}

(* No component is solved by two threads, and the cost of none enters the  *)
(* sum twice: a component is in the queue, or in the hands of one worker,  *)
(* or counted.  It is what `sentinel' protects.                            *)
SolvedOnce ==
  /\ \A c \in Component : cost[c] <= 1
  /\ \A c \in Component : cost[c] = 1 =>
        c \notin q[BucketOf[c]] \cup InHand(BucketOf[c])
  /\ \A v, w \in Worker :
       v # w /\ wstate[v] = "infer" /\ wstate[w] = "infer" => comp[v] # comp[w]

(* When infer() has returned, the cost it reports counts every component   *)
(* that had to be solved, except those whose worker died and, if all       *)
(* workers died, those still in the queue: one failing component costs the *)
(* caller nothing but that component, as long as a worker is left.         *)
ReturnIsComplete ==
  \A b \in Bucket : main[b] = "returned" =>
    \A c \in Tasks(b) :
      \/ cost[c] = 1
      \/ c \in LostBy(b)
      \/ c \in q[b] /\ \A w \in WorkersOf(b) : wstate[w] = "crashed"

(* The console is given back as it was found, as long as calls do not      *)
(* overlap: whenever the only bucket in use has no call in progress        *)
(* UIMan.silent has the value the program gave it.  Two that overlap may   *)
(* each save the other's TRUE and leave the console mute.                  *)
ConsoleRestored ==
  \A v \in BOOLEAN, b \in Bucket :
    (silent = v /\ [](\A d \in Bucket \ {b} : main[d] = "idle"))
      => [](main[b] \in {"idle", "returned"} => silent = v)

(* Every call that has been made comes back: no worker waits for another,  *)
(* and a worker that died does not block the caller.                       *)
CallReturns ==
  \A b \in Bucket : main[b] = "filled" ~> main[b] = "returned"

(* Seen from outside, a bucket is a TaskPool.                              *)
Pool == INSTANCE TaskPool WITH
  Task     <- [b \in Bucket |-> Tasks(b)],
  Capacity <- [b \in Bucket |-> Cardinality(WorkersOf(b))],
  running  <- [b \in Bucket |-> main[b] \in {"filled", "starting"}],
  pending  <- [b \in Bucket |-> q[b] \cup InHand(b)],
  counted  <- [b \in Bucket |-> {c \in Tasks(b) : cost[c] = 1}],
  lost     <- [b \in Bucket |-> LostBy(b)]

ImplementsTaskPool == Pool!PoolSpec
=============================================================================
