------------------------------ MODULE HostPool ------------------------------
(***************************************************************************)
(* The host's worker threads for the region path (host/asm/phi512/pool.S): *)
(* one group's job block, the workers that sleep on its generation word    *)
(* and take items by lock xadd, and the thread in the SIGILL handler that  *)
(* starts them (pool_start), posts a job and takes items itself            *)
(* (pool_run).  sigill_lock admits one such thread at a time.              *)
(*                                                                         *)
(* Every load, store and locked instruction on the job block is a step of  *)
(* its own; the work on an item (region.S wu_refresh_unit) is one step.    *)
(***************************************************************************)
EXTENDS Integers, FiniteSets

CONSTANTS NWorkers,  \* POOL_PER_CARD (16)
          NThreads,  \* bound: threads ever made
          MaxItems,  \* bound: items of a job (wu_n)
          MaxJobs,   \* bound: jobs
          Env        \* see EnvKinds

\* "fork":  the program forks after a job and the child's handler runs (a
\*          fork before the first job needs no liberty);
\* "clone": pool_start may fail with some workers made (a failure before
\*          the first needs none).
EnvKinds == {"fork", "clone"}

ASSUME HostPoolAssumption ==
  /\ NWorkers \in Nat \ {0} /\ NThreads \in Nat /\ NThreads >= NWorkers
  /\ MaxItems \in Nat /\ MaxJobs \in Nat
  /\ Env \subseteq EnvKinds

Threads == 1 .. NThreads
Items == 0 .. MaxItems - 1

VARIABLES
  \* the job block
  gen, next, done, idle, n,
  \* pool_start's state
  workers,  \* pool_workers
  child,    \* the process is a fork's child
  ours,     \* pool_pid is this process
  bufs,     \* pool_bufs: which mapping the buffers are in
  made,     \* workers made so far by the pool_start under way
  \* the handler's thread
  pc,       \* "out", "clone", "started", the stores of pool_run, "take",
            \* "compare", "call", "count", "done", "idle", "inline", "back"
  mine,     \* the item it took
  items,    \* its own copy of the items
  jobs,     \* jobs posted
  \* the workers
  wpc,      \* "none", "born", "look", "futex", "asleep", "take",
            \* "compare", "call", "count" or "idle"
  num,      \* the worker number
  buf,      \* the buffer
  seen,     \* the generation seen
  took,     \* the item taken
  \* history
  ran       \* how often each item of the job was run

blockVars == <<gen, next, done, idle, n>>
startVars == <<workers, child, ours, bufs, made>>
callerVars == <<pc, mine, items, jobs>>
workerVars == <<wpc, num, buf, seen, took>>
vars == <<blockVars, startVars, callerVars, workerVars, ran>>

InJob == {"take", "compare", "call", "count", "idle"}

\* Every variable has its type.
TypeOK ==
  /\ gen \in Nat /\ next \in Nat /\ done \in Nat /\ idle \in Nat /\ n \in Nat
  /\ workers \in {0, NWorkers} /\ bufs \in Nat /\ made \in 0 .. NWorkers
  /\ child \in BOOLEAN /\ ours \in BOOLEAN
  /\ pc \in {"out", "clone", "started", "n", "done0", "idle0", "next0", "gen",
             "wake", "take", "compare", "call", "count", "done", "idle",
             "inline", "back"}
  /\ mine \in Nat /\ items \in 0 .. MaxItems /\ jobs \in 0 .. MaxJobs
  /\ wpc \in [Threads -> {"none", "born", "look", "futex", "asleep"}
                           \cup InJob]
  /\ num \in [Threads -> 0 .. NWorkers - 1]
  /\ buf \in [Threads -> Nat \X (0 .. NWorkers)]
  /\ seen \in [Threads -> Nat] /\ took \in [Threads -> Nat]
  /\ ran \in [Items -> Nat]

Init ==
  /\ gen = 0 /\ next = 0 /\ done = 0 /\ idle = 0 /\ n = 0
  /\ workers = 0 /\ child = FALSE /\ ours = FALSE /\ bufs = 0 /\ made = 0
  /\ pc = "out" /\ mine = 0 /\ items = 0 /\ jobs = 0
  /\ wpc = [t \in Threads |-> "none"]
  /\ num = [t \in Threads |-> 0]
  /\ buf = [t \in Threads |-> <<0, 0>>]
  /\ seen = [t \in Threads |-> 0]
  /\ took = [t \in Threads |-> 0]
  /\ ran = [i \in Items |-> 0]

-----------------------------------------------------------------------------
(* pool_start.                                                             *)

\* The program forks: the child has the memory and none of the workers.
Fork ==
  /\ ~child /\ pc = "out"
  /\ gen # 0 => "fork" \in Env
  /\ child' = TRUE /\ ours' = FALSE
  /\ wpc' = [t \in Threads |-> "none"]
  /\ UNCHANGED <<blockVars, workers, bufs, made, callerVars, num, buf, seen,
                 took, ran>>

\* The pool of this process is there; otherwise the buffers are mapped and
\* the workers made.
Start ==
  /\ pc = "out" /\ jobs < MaxJobs
  /\ IF workers # 0 /\ ours
     THEN pc' = "started" /\ UNCHANGED <<workers, bufs, made>>
     ELSE /\ workers' = 0
          /\ \/ pc' = "clone" /\ bufs' = bufs + 1 /\ made' = 0
             \/ pc' = "started" /\ UNCHANGED <<bufs, made>>
  /\ UNCHANGED <<blockVars, child, ours, mine, items, jobs, workerVars, ran>>

\* The next worker's thread, or the failure of its stack or its clone: the
\* workers made before it stay.
Clone ==
  /\ pc = "clone" /\ made < NWorkers
  /\ \/ /\ \E t \in Threads :
             /\ wpc[t] = "none" /\ \A u \in 1 .. t - 1 : wpc[u] # "none"
             /\ wpc' = [wpc EXCEPT ![t] = "born"]
             /\ num' = [num EXCEPT ![t] = made]
             /\ seen' = [seen EXCEPT ![t] = 0]
        /\ made' = made + 1
        /\ UNCHANGED pc
     \/ /\ made # 0 => "clone" \in Env
        /\ pc' = "started"
        /\ UNCHANGED <<made, wpc, num, seen>>
  /\ UNCHANGED <<blockVars, workers, child, ours, bufs, mine, items, jobs, buf,
                 took, ran>>

Started ==
  /\ pc = "clone" /\ made = NWorkers
  /\ workers' = NWorkers /\ ours' = TRUE
  /\ pc' = "started"
  /\ UNCHANGED <<blockVars, child, bufs, made, mine, items, jobs, workerVars,
                 ran>>

-----------------------------------------------------------------------------
(* pool_run.                                                               *)

\* A job of k items: over the workers, or here when there are none.
Post(k) ==
  /\ pc = "started"
  /\ items' = k /\ jobs' = jobs + 1
  /\ ran' = [i \in Items |-> 0]
  /\ pc' = IF workers # 0 /\ ours THEN "n" ELSE "inline"
  /\ UNCHANGED <<blockVars, startVars, mine, workerVars>>

Inline ==
  /\ pc = "inline"
  /\ ran' = [i \in Items |-> IF i < items THEN ran[i] + 1 ELSE ran[i]]
  /\ pc' = "back"
  /\ UNCHANGED <<blockVars, startVars, mine, items, jobs, workerVars>>

\* Mutant: the workers are called before the counters are reset.
StoreEarly ==
  /\ \/ pc = "n" /\ n' = items /\ pc' = "gen"
        /\ UNCHANGED <<done, idle, next, gen>>
     \/ pc = "gen" /\ gen' = gen + 1 /\ pc' = "done0"
        /\ UNCHANGED <<n, done, idle, next>>
     \/ pc = "done0" /\ done' = 0 /\ pc' = "idle0"
        /\ UNCHANGED <<n, idle, next, gen>>
     \/ pc = "idle0" /\ idle' = 0 /\ pc' = "next0"
        /\ UNCHANGED <<n, done, next, gen>>
     \/ pc = "next0" /\ next' = 0 /\ pc' = "wake"
        /\ UNCHANGED <<n, done, idle, gen>>
  /\ UNCHANGED <<startVars, mine, items, jobs, workerVars, ran>>

\* The stores, in the code's order, the generation last.
Store ==
  /\ \/ pc = "n" /\ n' = items /\ pc' = "done0"
        /\ UNCHANGED <<done, idle, next, gen>>
     \/ pc = "done0" /\ done' = 0 /\ pc' = "idle0"
        /\ UNCHANGED <<n, idle, next, gen>>
     \/ pc = "idle0" /\ idle' = 0 /\ pc' = "next0"
        /\ UNCHANGED <<n, done, next, gen>>
     \/ pc = "next0" /\ next' = 0 /\ pc' = "gen"
        /\ UNCHANGED <<n, done, idle, gen>>
     \/ pc = "gen" /\ gen' = gen + 1 /\ pc' = "wake"
        /\ UNCHANGED <<n, done, idle, next>>
  /\ UNCHANGED <<startVars, mine, items, jobs, workerVars, ran>>

\* Mutant: one worker is woken.
WakeOne ==
  /\ pc = "wake"
  /\ \/ \E t \in Threads :
          wpc[t] = "asleep" /\ wpc' = [wpc EXCEPT ![t] = "look"]
     \/ (\A t \in Threads : wpc[t] # "asleep") /\ UNCHANGED wpc
  /\ pc' = "take"
  /\ UNCHANGED <<blockVars, startVars, mine, items, jobs, num, buf, seen, took,
                 ran>>

\* FUTEX_WAKE of every worker.
Wake ==
  /\ pc = "wake"
  /\ wpc' = [t \in Threads |-> IF wpc[t] = "asleep" THEN "look" ELSE wpc[t]]
  /\ pc' = "take"
  /\ UNCHANGED <<blockVars, startVars, mine, items, jobs, num, buf, seen, took,
                 ran>>

\* The handler's thread takes items as the workers do, by its own count.
Take ==
  /\ \/ pc = "take" /\ mine' = next /\ next' = next + 1 /\ pc' = "compare"
        /\ UNCHANGED <<done, ran>>
     \/ pc = "compare" /\ pc' = (IF mine < items THEN "call" ELSE "done")
        /\ UNCHANGED <<mine, next, done, ran>>
     \/ pc = "call" /\ ran' = [ran EXCEPT ![mine] = @ + 1] /\ pc' = "count"
        /\ UNCHANGED <<mine, next, done>>
     \/ pc = "count" /\ done' = done + 1 /\ pc' = "take"
        /\ UNCHANGED <<mine, next, ran>>
  /\ UNCHANGED <<gen, idle, n, startVars, items, jobs, workerVars>>

\* Mutant: the thread goes when the items are done.
AwaitItems ==
  /\ pc = "done" /\ done >= items /\ pc' = "back"
  /\ UNCHANGED <<blockVars, startVars, mine, items, jobs, workerVars, ran>>

\* Back when the items are done and the workers have left the job.
Await ==
  /\ \/ pc = "done" /\ done >= items /\ pc' = "idle"
     \/ pc = "idle" /\ idle >= NWorkers /\ pc' = "back"
  /\ UNCHANGED <<blockVars, startVars, mine, items, jobs, workerVars, ran>>

Return ==
  /\ pc = "back" /\ pc' = "out"
  /\ UNCHANGED <<blockVars, startVars, mine, items, jobs, workerVars, ran>>

-----------------------------------------------------------------------------
(* pool_worker.                                                            *)

At(t, from, to) == wpc[t] = from /\ wpc' = [wpc EXCEPT ![t] = to]

\* The thread's first instructions: its buffer, by its number.
Born(t) ==
  /\ At(t, "born", "look")
  /\ buf' = [buf EXCEPT ![t] = <<bufs, num[t]>>]
  /\ UNCHANGED <<blockVars, startVars, callerVars, num, seen, took, ran>>

\* The generation moved: into the job; or to sleep on it.
Look(t) ==
  /\ \/ gen # seen[t] /\ At(t, "look", "take")
        /\ seen' = [seen EXCEPT ![t] = gen]
     \/ gen = seen[t] /\ At(t, "look", "futex") /\ UNCHANGED seen
  /\ UNCHANGED <<blockVars, startVars, callerVars, num, buf, took, ran>>

Futex(t) ==
  /\ At(t, "futex", IF gen = seen[t] THEN "asleep" ELSE "look")
  /\ UNCHANGED <<blockVars, startVars, callerVars, num, buf, seen, took, ran>>

WorkerTake(t) ==
  /\ At(t, "take", "compare")
  /\ took' = [took EXCEPT ![t] = next]
  /\ next' = next + 1
  /\ UNCHANGED <<gen, done, idle, n, startVars, callerVars, num, buf, seen,
                 ran>>

WorkerCompare(t) ==
  /\ At(t, "compare", IF took[t] < n THEN "call" ELSE "idle")
  /\ UNCHANGED <<blockVars, startVars, callerVars, num, buf, seen, took, ran>>

WorkerCall(t) ==
  /\ At(t, "call", "count")
  /\ ran' = [ran EXCEPT ![took[t]] = @ + 1]
  /\ UNCHANGED <<blockVars, startVars, callerVars, num, buf, seen, took>>

WorkerCount(t) ==
  /\ At(t, "count", "take")
  /\ done' = done + 1
  /\ UNCHANGED <<gen, next, idle, n, startVars, callerVars, num, buf, seen,
                 took, ran>>

WorkerIdle(t) ==
  /\ At(t, "idle", "look")
  /\ idle' = idle + 1
  /\ UNCHANGED <<gen, next, done, n, startVars, callerVars, num, buf, seen,
                 took, ran>>

\* What the thread does once it is in pool_start.
Caller == \/ Clone \/ Started
          \/ \E k \in 0 .. MaxItems : Post(k)
          \/ Inline \/ Store \/ Wake \/ Take \/ Await \/ Return

Worker(t) == Born(t) \/ Look(t) \/ Futex(t) \/ WorkerTake(t)
               \/ WorkerCompare(t) \/ WorkerCall(t) \/ WorkerCount(t)
               \/ WorkerIdle(t)

Next == Start \/ Caller \/ Fork \/ \E t \in Threads : Worker(t)

\* The handler's thread and the workers are threads of the host, each
\* scheduled for ever; nothing obliges the program to start a job.
Spec == /\ Init /\ [][Next]_vars
        /\ WF_vars(Caller)
        /\ \A t \in Threads : WF_vars(Worker(t))

-----------------------------------------------------------------------------
(* What must hold.                                                         *)

\* When pool_run comes back every item of the job was run, once, and no
\* worker is inside the job (pool.S: "so no worker of this job can take an
\* item of the next").
JobComplete ==
  pc = "back" =>
    /\ \A i \in Items : ran[i] = IF i < items THEN 1 ELSE 0
    /\ \A t \in Threads : wpc[t] \notin InJob

\* No two threads work on an item at once, nor in one buffer (copy_mapped
\* reads a unit into it, wu_refresh_unit compares it).
OwnItem ==
  \A t \in Threads :
    /\ wpc[t] = "call" => took[t] < items /\ ran[took[t]] = 0
    /\ wpc[t] = "call" /\ pc = "call" => took[t] # mine
    /\ \A u \in Threads \ {t} :
         wpc[t] = "call" /\ wpc[u] = "call" =>
           buf[t] # buf[u] /\ took[t] # took[u]

\* Every job ends: its thread is in the SIGILL handler of the program, with
\* the handler's lock held.
JobReturns == (pc = "n") ~> (pc = "back")
=============================================================================
