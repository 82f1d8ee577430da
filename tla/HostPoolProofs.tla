--------------------------- MODULE HostPoolProofs ---------------------------
(***************************************************************************)
(* Proofs about HostPool, for any number of workers, items and jobs, of a  *)
(* program that does not fork after a job and whose pool_start makes all   *)
(* its workers or none.                                                    *)
(*                                                                         *)
(* The two counters pool_run waits for are read as sets: idle counts the   *)
(* workers that saw this job and left it, done the items run and counted.  *)
(* The handler's thread and the workers hold items alike, so both are      *)
(* hands: 0 is the handler's thread, t the worker t.                       *)
(***************************************************************************)
EXTENDS HostPool, FiniteSetTheorems, TLAPS

Stores == {"n", "done0", "idle0", "next0", "gen"}
Window == {"wake", "take", "compare", "call", "count", "done", "idle"}

Hands == 0 .. NThreads
Stage(h) == IF h = 0 THEN pc ELSE wpc[h]
Item(h) == IF h = 0 THEN mine ELSE took[h]
Holding == {"compare", "call", "count"}

\* The workers that have seen the job and are not, or no longer, inside it.
Left == {t \in 1 .. NWorkers : seen[t] = gen /\ wpc[t] \notin InJob}

\* An item that was taken and is not run yet; one that was run and is not
\* counted yet; the items run and counted.
Pending(i) == \E h \in Hands : Stage(h) \in {"compare", "call"} /\ Item(h) = i
Counting(i) == \E h \in Hands : Stage(h) = "count" /\ Item(h) = i
Finished == {i \in 0 .. items - 1 : ran[i] = 1 /\ ~Counting(i)}

\* The pool is made once, before the first generation, and its worker t has
\* number and buffer t - 1.
StartInv ==
  /\ \A t \in Threads : wpc[t] # "none" <=> t <= made
  /\ \A t \in Threads : t <= made => num[t] = t - 1
  /\ \A t \in Threads : wpc[t] \notin {"none", "born"} => buf[t][2] = t - 1
  /\ ours => /\ workers = NWorkers /\ made = NWorkers
             /\ pc \notin {"clone", "inline"}
             /\ gen = 0 => pc \in {"started"} \cup Stores
  /\ ~ours => /\ workers = 0 /\ gen = 0 /\ pc \notin Stores \cup Window
              /\ pc # "clone" => made = 0

\* A worker is inside the job of the present generation or in none, and
\* between jobs all have seen the last one and left it.
SeenInv ==
  /\ \A t \in Threads : seen[t] <= gen
  /\ \A t \in Threads : wpc[t] \in InJob => seen[t] = gen /\ pc \in Window
  /\ pc \notin Window => \A t \in Threads : t <= made => seen[t] = gen

\* The stores of pool_run, in order, and what has been run outside a job.
JobInv ==
  /\ pc \in Stores \cup {"inline"} => \A i \in Items : ran[i] = 0
  /\ pc \in (Stores \ {"n"}) \cup Window => n = items
  /\ pc \in {"idle0", "next0", "gen"} => done = 0
  /\ pc \in {"next0", "gen"} => idle = 0
  /\ pc = "gen" => next = 0
  /\ \A i \in Items : i >= items => ran[i] = 0
  /\ pc = "idle" => done >= items
  /\ pc = "back" => \A i \in Items : i < items => ran[i] = 1

\* The items of a job while hands take them.
ShareInv ==
  /\ done = Cardinality(Finished)
  /\ \A h \in Hands : Stage(h) \in Holding => Item(h) < next
  /\ \A h \in Hands : Stage(h) \in {"call", "count"} => Item(h) < items
  /\ \A h, k \in Hands :
       h # k /\ Stage(h) \in Holding /\ Stage(k) \in Holding =>
         Item(h) # Item(k)
  /\ \A i \in 0 .. items - 1 :
       ran[i] = IF i < next /\ ~Pending(i) THEN 1 ELSE 0

\* A job is begun only within the bound.
Bounded == pc \in {"clone", "started"} => jobs < MaxJobs

Inv == /\ TypeOK /\ Bounded /\ StartInv /\ SeenInv /\ JobInv
       /\ pc \in Window => idle = Cardinality(Left) /\ ShareInv

-----------------------------------------------------------------------------
(* Counting.                                                               *)

LEMMA Sizes ==
  /\ NWorkers \in Nat /\ NWorkers > 0 /\ NThreads \in Nat
  /\ \A t \in 1 .. NWorkers : t \in Threads
  /\ \A t \in Threads : t \in Nat /\ t > 0 /\ t \in Hands
  /\ \A h \in Hands : h = 0 \/ h \in Threads
  /\ 0 \in Hands
  BY HostPoolAssumption DEF Threads, Hands

\* The counters are numbers, and they reach their limit when all are counted.
LEMMA LeftCount ==
  /\ IsFiniteSet(Left) /\ Cardinality(Left) \in Nat
  /\ Cardinality(Left) >= NWorkers => Left = 1 .. NWorkers
  <1>1. IsFiniteSet(1 .. NWorkers) /\ Cardinality(1 .. NWorkers) = NWorkers
    BY FS_Interval, HostPoolAssumption
  <1>2. Left \in SUBSET (1 .. NWorkers)
    BY DEF Left
  <1>3. /\ IsFiniteSet(Left) /\ Cardinality(Left) <= NWorkers
        /\ NWorkers = Cardinality(Left) => Left = 1 .. NWorkers
    BY <1>1, <1>2, FS_Subset
  <1>4. Cardinality(Left) \in Nat
    BY <1>3, FS_CardinalityType
  <1> QED
    BY <1>3, <1>4, HostPoolAssumption

LEMMA FinishedCount ==
  ASSUME items \in Nat
  PROVE  /\ IsFiniteSet(Finished) /\ Cardinality(Finished) \in Nat
         /\ Cardinality(Finished) >= items => Finished = 0 .. items - 1
  <1>1. IsFiniteSet(0 .. items - 1) /\ Cardinality(0 .. items - 1) = items
    BY FS_Interval
  <1>2. Finished \in SUBSET (0 .. items - 1)
    BY DEF Finished
  <1>3. /\ IsFiniteSet(Finished) /\ Cardinality(Finished) <= items
        /\ items = Cardinality(Finished) => Finished = 0 .. items - 1
    BY <1>1, <1>2, FS_Subset
  <1>4. Cardinality(Finished) \in Nat
    BY <1>3, FS_CardinalityType
  <1> QED
    BY <1>3, <1>4

-----------------------------------------------------------------------------
(* A hand's steps with an item.  The other hands stand still.              *)

Still(h) == /\ \A k \in Hands \ {h} : Stage(k)' = Stage(k) /\ Item(k)' = Item(k)
            /\ UNCHANGED items

Typed == /\ next \in Nat /\ items \in 0 .. MaxItems /\ ran \in [Items -> Nat]
         /\ \A h \in Hands : Item(h) \in Nat

LEMMA TypedInv == TypeOK => Typed
  BY Sizes DEF TypeOK, Typed, Item

\* No hand that holds an item moves, and none takes one.
LEMMA ShareIdle ==
  ASSUME Typed, ShareInv, NEW h \in Hands, Still(h),
         Stage(h) \notin Holding, Stage(h)' \notin Holding,
         UNCHANGED <<next, done, ran>>
  PROVE  ShareInv'
  <1>1. \A k \in Hands : Stage(k)' \in Holding \/ Stage(k) \in Holding =>
           Stage(k)' = Stage(k) /\ Item(k)' = Item(k)
    BY DEF Still
  <1>2. \A i : Pending(i)' <=> Pending(i)
    BY <1>1 DEF Pending, Holding
  <1>3. \A i : Counting(i)' <=> Counting(i)
    BY <1>1 DEF Counting, Holding
  <1>4. Finished' = Finished
    BY <1>3 DEF Finished, Still
  <1> QED
    BY <1>1, <1>2, <1>4 DEF ShareInv, Still, Holding

\* lock xadd on the item counter.
LEMMA ShareTake ==
  ASSUME Typed, ShareInv, NEW h \in Hands, Still(h),
         Stage(h) \notin Holding, Stage(h)' = "compare", Item(h)' = next,
         next' = next + 1, UNCHANGED <<done, ran>>
  PROVE  ShareInv'
  <1>1. \A k \in Hands \ {h} : Stage(k)' = Stage(k) /\ Item(k)' = Item(k)
    BY DEF Still
  <1>2. \A i : Pending(i)' <=> Pending(i) \/ i = next
    BY <1>1 DEF Pending, Holding
  <1>3. \A i : Counting(i)' <=> Counting(i)
    BY <1>1 DEF Counting, Holding
  <1>4. Finished' = Finished
    BY <1>3 DEF Finished, Still
  <1>5. /\ \A k \in Hands : Stage(k)' \in Holding => Item(k)' < next'
        /\ \A k \in Hands : Stage(k)' \in {"call", "count"} => Item(k)' < items
    BY <1>1 DEF ShareInv, Holding, Typed
  <1>6. ASSUME NEW j \in Hands, NEW k \in Hands, j # k,
               Stage(j)' \in Holding, Stage(k)' \in Holding
        PROVE  Item(j)' # Item(k)'
    BY <1>1, <1>6 DEF ShareInv, Holding, Typed
  <1>7. \A i \in 0 .. items - 1 :
           ran[i] = IF i < next' /\ ~Pending(i)' THEN 1 ELSE 0
    BY <1>2 DEF ShareInv, Typed
  <1> QED
    BY <1>4, <1>5, <1>6, <1>7 DEF ShareInv, Still

\* The item is one of the job's, and is run; or it is not, and is dropped.
LEMMA ShareCompare ==
  ASSUME Typed, ShareInv, NEW h \in Hands, Still(h),
         Stage(h) = "compare", Item(h)' = Item(h),
         Item(h) < items => Stage(h)' = "call",
         ~(Item(h) < items) => Stage(h)' \notin Holding,
         UNCHANGED <<next, done, ran>>
  PROVE  ShareInv'
  <1>1. \A k \in Hands : /\ Item(k)' = Item(k)
                         /\ k # h => Stage(k)' = Stage(k)
    BY DEF Still
  <1>2. \A i \in 0 .. items - 1 : Pending(i)' <=> Pending(i)
    BY <1>1 DEF Pending, Holding, Typed
  <1>3. \A i : Counting(i)' <=> Counting(i)
    BY <1>1 DEF Counting, Holding
  <1>4. Finished' = Finished
    BY <1>3 DEF Finished, Still
  <1>5. \A k \in Hands : Stage(k)' \in Holding => Stage(k) \in Holding
    BY <1>1 DEF Holding
  <1>6. \A k \in Hands : Stage(k)' \in {"call", "count"} => Item(k)' < items
    BY <1>1 DEF ShareInv, Holding
  <1> QED
    BY <1>1, <1>2, <1>4, <1>5, <1>6 DEF ShareInv, Still

\* The item is run.
LEMMA ShareCall ==
  ASSUME Typed, ShareInv, NEW h \in Hands, Still(h),
         Stage(h) = "call", Stage(h)' = "count", Item(h)' = Item(h),
         ran' = [ran EXCEPT ![Item(h)] = @ + 1], UNCHANGED <<next, done>>
  PROVE  ShareInv'
  <1>1. \A k \in Hands : /\ Item(k)' = Item(k)
                         /\ k # h => Stage(k)' = Stage(k)
    BY DEF Still
  <1>2. /\ Item(h) \in 0 .. items - 1 /\ Item(h) \in Items /\ Item(h) < next
        /\ Pending(Item(h)) /\ ran[Item(h)] = 0
    BY HostPoolAssumption DEF ShareInv, Typed, Pending, Items, Holding
  <1>3. /\ ran'[Item(h)] = 1
        /\ \A i \in 0 .. items - 1 : i # Item(h) => ran'[i] = ran[i]
    BY <1>2, HostPoolAssumption DEF Typed, Items
  <1>4. \A i : Pending(i)' <=> Pending(i) /\ i # Item(h)
    BY <1>1 DEF Pending, ShareInv, Holding
  <1>5. \A i : Counting(i)' <=> Counting(i) \/ i = Item(h)
    BY <1>1 DEF Counting
  <1>6. Finished' = Finished
    BY <1>2, <1>3, <1>5 DEF Finished, Still
  <1>7. \A k \in Hands : Stage(k)' \in Holding <=> Stage(k) \in Holding
    BY <1>1 DEF Holding
  <1>8. \A k \in Hands : Stage(k)' \in {"call", "count"} => Item(k)' < items
    BY <1>1, <1>2 DEF ShareInv, Typed
  <1>9. \A i \in 0 .. items - 1 :
           ran'[i] = IF i < next /\ ~Pending(i)' THEN 1 ELSE 0
    BY <1>2, <1>3, <1>4 DEF ShareInv
  <1> QED
    BY <1>1, <1>6, <1>7, <1>8, <1>9 DEF ShareInv, Still

\* The item is counted.
LEMMA ShareCount ==
  ASSUME Typed, ShareInv, NEW h \in Hands, Still(h),
         Stage(h) = "count", Stage(h)' = "take", Item(h)' = Item(h),
         done' = done + 1, UNCHANGED <<next, ran>>
  PROVE  ShareInv'
  <1>1. \A k \in Hands : /\ Item(k)' = Item(k)
                         /\ k # h => Stage(k)' = Stage(k)
    BY DEF Still
  <1>2. /\ Item(h) \in 0 .. items - 1 /\ Item(h) < next
        /\ Counting(Item(h)) /\ ~Pending(Item(h)) /\ ran[Item(h)] = 1
    <2>1. Item(h) \in 0 .. items - 1 /\ Item(h) < next /\ Counting(Item(h))
      BY DEF ShareInv, Typed, Counting, Holding
    <2>2. ~Pending(Item(h))
      BY DEF ShareInv, Pending, Holding
    <2> QED
      BY <2>1, <2>2 DEF ShareInv
  <1>3. \A i : Pending(i)' <=> Pending(i)
    BY <1>1 DEF Pending
  <1>4. \A i : Counting(i)' <=> Counting(i) /\ i # Item(h)
    BY <1>1 DEF Counting, ShareInv, Holding
  <1>5. Finished' = Finished \cup {Item(h)} /\ Item(h) \notin Finished
    BY <1>2, <1>4 DEF Finished, Still
  <1>6. Cardinality(Finished') = Cardinality(Finished) + 1
    <2>1. IsFiniteSet(Finished)
      BY FinishedCount, HostPoolAssumption DEF Typed
    <2> QED
      BY <1>5, <2>1, FS_AddElement
  <1>7. \A k \in Hands : Stage(k)' \in Holding => Stage(k) \in Holding
    BY <1>1 DEF Holding
  <1>8. \A k \in Hands : Stage(k)' \in {"call", "count"} => Item(k)' < items
    BY <1>1 DEF ShareInv
  <1> QED
    BY <1>1, <1>3, <1>6, <1>7, <1>8 DEF ShareInv, Still

-----------------------------------------------------------------------------
(* The steps.                                                              *)

LEMMA InitInv == Init => Inv
  <1> SUFFICES ASSUME Init PROVE Inv
    OBVIOUS
  <1>1. TypeOK /\ Bounded
    <2>1. 0 \in 0 .. NWorkers - 1 /\ <<0, 0>> \in Nat \X (0 .. NWorkers)
      BY HostPoolAssumption
    <2>2. buf \in [Threads -> Nat \X (0 .. NWorkers)]
      BY <2>1 DEF Init
    <2>3. /\ wpc \in [Threads -> {"none", "born", "look", "futex", "asleep"}
                                 \cup InJob]
          /\ num \in [Threads -> 0 .. NWorkers - 1]
          /\ seen \in [Threads -> Nat] /\ took \in [Threads -> Nat]
          /\ ran \in [Items -> Nat]
      BY <2>1 DEF Init
    <2>4. child \in BOOLEAN /\ ours \in BOOLEAN
      BY Zenon DEF Init
    <2> QED
      BY <2>2, <2>3, <2>4, HostPoolAssumption DEF Init, TypeOK, Bounded
  <1>2. StartInv
    BY Sizes DEF Init, StartInv, Stores, Window
  <1>3. SeenInv /\ JobInv /\ pc \notin Window
    BY Sizes DEF Init, SeenInv, JobInv, Stores, Window, InJob
  <1> QED
    BY <1>1, <1>2, <1>3 DEF Inv

\* One more run of an item.
LEMMA Bump ==
  ASSUME NEW S, NEW f \in [S -> Nat], NEW x
  PROVE  [f EXCEPT ![x] = @ + 1] \in [S -> Nat]
  <1> DEFINE g == [f EXCEPT ![x] = @ + 1]
  <1>1. \A i \in S : g[i] \in Nat
    OBVIOUS
  <1> QED
    BY <1>1

\* Every step of every thread, whatever Env allows, keeps the types.
LEMMA TypeNext == ASSUME TypeOK, Bounded, [Next]_vars PROVE TypeOK' /\ Bounded'
  <1> USE HostPoolAssumption
      DEF TypeOK, Bounded, InJob, blockVars, startVars, callerVars, workerVars
  <1>1. CASE Start
    BY <1>1 DEF Start
  <1>2. CASE Clone
    <2>1. made \in 0 .. NWorkers - 1 /\ made + 1 \in 0 .. NWorkers
      BY <1>2 DEF Clone
    <2>2. CASE pc' = "started"
      BY <1>2, <2>1, <2>2 DEF Clone
    <2>3. CASE UNCHANGED pc
      <3>1. PICK t \in Threads : /\ wpc' = [wpc EXCEPT ![t] = "born"]
                                /\ num' = [num EXCEPT ![t] = made]
                                /\ seen' = [seen EXCEPT ![t] = 0]
                                /\ made' = made + 1
        BY <1>2, <2>3 DEF Clone
      <3> QED
        BY <1>2, <2>1, <2>3, <3>1 DEF Clone
    <2> QED
      BY <1>2, <2>2, <2>3 DEF Clone
  <1>3. CASE Started
    BY <1>3 DEF Started
  <1>4. ASSUME NEW k \in 0 .. MaxItems, Post(k) PROVE TypeOK' /\ Bounded'
    BY <1>4 DEF Post
  <1>5. CASE Inline
    BY <1>5 DEF Inline
  <1>6. CASE Store
    BY <1>6 DEF Store
  <1>7. CASE Wake
    BY <1>7 DEF Wake
  <1>8. CASE Take
    BY <1>8 DEF Take
  <1>9. CASE Await
    BY <1>9 DEF Await
  <1>10. CASE Return
    BY <1>10 DEF Return
  <1>11. CASE Fork
    BY <1>11 DEF Fork
  <1>12. ASSUME NEW t \in Threads, Worker(t) PROVE TypeOK' /\ Bounded'
    <2>1. CASE Born(t)
      BY <2>1 DEF Born, At
    <2>2. CASE Look(t)
      BY SMTT(30), <2>2 DEF Look, At
    <2>3. CASE Futex(t)
      BY <2>3 DEF Futex, At
    <2>4. CASE WorkerTake(t)
      BY <2>4 DEF WorkerTake, At
    <2>5. CASE WorkerCompare(t)
      BY <2>5 DEF WorkerCompare, At
    <2>6. CASE WorkerCall(t)
      <3>1. ran' \in [Items -> Nat]
        BY <2>6, Bump DEF WorkerCall
      <3> QED
        BY <2>6, <3>1 DEF WorkerCall, At
    <2>7. CASE WorkerCount(t)
      BY <2>7 DEF WorkerCount, At
    <2>8. CASE WorkerIdle(t)
      BY <2>8 DEF WorkerIdle, At
    <2> QED
      BY <1>12, <2>1, <2>2, <2>3, <2>4, <2>5, <2>6, <2>7, <2>8 DEF Worker
  <1>13. CASE UNCHANGED vars
    BY <1>13 DEF vars
  <1> QED
    BY <1>1, <1>2, <1>3, <1>4, <1>5, <1>6, <1>7, <1>8, <1>9, <1>10, <1>11,
       <1>12, <1>13 DEF Next, Caller

\* The invariant besides the types, and between jobs.
Rest == /\ StartInv /\ SeenInv /\ JobInv
        /\ pc \in Window => idle = Cardinality(Left) /\ ShareInv
\* While the pool is made or a job is laid out, nobody is inside one.
LEMMA BetweenJobs ==
  ASSUME Inv, pc \notin Window
  PROVE  \A t \in Threads : wpc[t] \notin InJob
  BY DEF Inv, SeenInv

LEMMA StartStep == ASSUME Inv, Start PROVE Rest'
  <1> USE Sizes DEF Start, blockVars, workerVars
  <1>1. pc' \in {"clone", "started"} /\ pc = "out"
    OBVIOUS
  <1>2. StartInv'
    BY <1>1 DEF Inv, TypeOK, StartInv, Stores, Window
  <1>3. SeenInv'
    BY <1>1, BetweenJobs DEF Inv, SeenInv, StartInv, Window
  <1>4. JobInv' /\ pc' \notin Window
    BY <1>1 DEF Inv, JobInv, Stores, Window
  <1> QED
    BY <1>2, <1>3, <1>4 DEF Rest

LEMMA CloneStep == ASSUME Env = {}, Inv, Clone PROVE Rest'
  <1> USE Sizes DEF blockVars
  <1>1. /\ pc = "clone" /\ ~ours /\ workers = 0 /\ gen = 0
        /\ pc' \in {"clone", "started"} /\ ~ours' /\ workers' = 0 /\ gen' = 0
    BY DEF Clone, Inv, StartInv
  <1>2. CASE UNCHANGED <<made, wpc, num, seen>> /\ made = 0
    <2>1. StartInv'
      BY <1>1, <1>2 DEF Clone, Inv, StartInv, Stores, Window
    <2>2. SeenInv' /\ JobInv' /\ pc' \notin Window
      BY <1>1, <1>2, BetweenJobs
         DEF Clone, Inv, SeenInv, JobInv, Stores, Window
    <2> QED
      BY <2>1, <2>2 DEF Rest
  <1>3. CASE /\ UNCHANGED pc /\ made' = made + 1
             /\ \E t \in Threads :
                  /\ wpc[t] = "none" /\ \A u \in 1 .. t - 1 : wpc[u] # "none"
                  /\ wpc' = [wpc EXCEPT ![t] = "born"]
                  /\ num' = [num EXCEPT ![t] = made]
                  /\ seen' = [seen EXCEPT ![t] = 0]
    <2>1. PICK t \in Threads :
                  /\ wpc[t] = "none" /\ \A u \in 1 .. t - 1 : wpc[u] # "none"
                  /\ wpc' = [wpc EXCEPT ![t] = "born"]
                  /\ num' = [num EXCEPT ![t] = made]
                  /\ seen' = [seen EXCEPT ![t] = 0]
      BY <1>3
    <2>2. made \in Nat /\ t = made + 1
      <3>1. made \in Nat /\ t > made
        BY <2>1, HostPoolAssumption DEF Inv, TypeOK, StartInv
      <3>2. CASE t > made + 1
        <4>1. made + 1 \in 1 .. t - 1 /\ made + 1 \in Threads
          BY <3>1, <3>2, HostPoolAssumption DEF Threads
        <4>2. wpc[made + 1] # "none" /\ ~(made + 1 <= made)
          BY <2>1, <3>1, <4>1
        <4> QED
          BY <4>1, <4>2 DEF Inv, StartInv
      <3> QED
        BY <3>1, <3>2
    <2>3. /\ wpc'[t] = "born" /\ num'[t] = t - 1 /\ seen'[t] = 0
          /\ \A u \in Threads \ {t} : /\ wpc'[u] = wpc[u] /\ num'[u] = num[u]
                                      /\ seen'[u] = seen[u]
      BY <2>1, <2>2 DEF Inv, TypeOK
    <2>4. \A u \in Threads \ {t} : u <= made' <=> u <= made
      BY <1>3, <2>2
    <2>5. StartInv'
      BY <1>1, <1>3, <2>2, <2>3, <2>4 DEF Clone, Inv, StartInv, Stores, Window
    <2>6. SeenInv' /\ JobInv' /\ pc' \notin Window
      BY <1>1, <1>3, <2>3, <2>4, BetweenJobs
         DEF Clone, Inv, SeenInv, JobInv, Stores, Window, InJob
    <2> QED
      BY <2>5, <2>6 DEF Rest
  <1> QED
    BY <1>2, <1>3 DEF Clone

LEMMA StartedStep == ASSUME Inv, Started PROVE Rest'
  <1> USE Sizes DEF Started, blockVars, workerVars
  <1>1. StartInv'
    BY DEF Inv, StartInv, Stores, Window
  <1>2. SeenInv'
    BY BetweenJobs DEF Inv, SeenInv, Window
  <1>3. JobInv' /\ pc' \notin Window
    BY DEF Inv, JobInv, Stores, Window
  <1> QED
    BY <1>1, <1>2, <1>3 DEF Rest

LEMMA ForkStep == ASSUME Env = {}, Inv, Fork PROVE Rest'
  <1> USE Sizes DEF Fork, blockVars, callerVars
  <1>1. gen = 0 /\ ~ours /\ made = 0 /\ pc = "out" /\ ~ours'
    BY DEF Inv, StartInv, Stores
  <1>2. StartInv'
    BY <1>1 DEF Inv, StartInv, Window, Stores
  <1>3. SeenInv'
    BY <1>1 DEF Inv, SeenInv, InJob
  <1>4. JobInv' /\ pc' \notin Window
    BY <1>1 DEF Inv, JobInv, Window
  <1> QED
    BY <1>2, <1>3, <1>4 DEF Rest

LEMMA PostStep ==
  ASSUME Inv, NEW k \in 0 .. MaxItems, Post(k) PROVE Rest'
  <1> USE Sizes DEF Post, blockVars, startVars, workerVars
  <1>1. pc = "started" /\ pc' = IF ours THEN "n" ELSE "inline"
    BY DEF Inv, StartInv
  <1>2. StartInv'
    BY <1>1 DEF Inv, StartInv, Window, Stores
  <1>3. SeenInv'
    BY <1>1, BetweenJobs DEF Inv, SeenInv, Window
  <1>4. JobInv' /\ pc' \notin Window
    BY <1>1 DEF JobInv, Window, Stores
  <1> QED
    BY <1>2, <1>3, <1>4 DEF Rest

LEMMA InlineStep == ASSUME Inv, Inline PROVE Rest'
  <1> USE Sizes DEF Inline, blockVars, startVars, workerVars
  <1>1. StartInv'
    BY DEF Inv, StartInv, Window, Stores
  <1>2. SeenInv'
    BY BetweenJobs DEF Inv, SeenInv, Window
  <1>3. \A i \in Items : ran'[i] = IF i < items THEN 1 ELSE 0
    BY DEF Inv, JobInv
  <1>4. \A i \in Items : i \in Int /\ items \in Int
    BY HostPoolAssumption DEF Items, Inv, TypeOK
  <1>5. JobInv' /\ pc' \notin Window
    BY <1>3, <1>4 DEF JobInv, Window, Stores
  <1> QED
    BY <1>1, <1>2, <1>5 DEF Rest

LEMMA ReturnStep == ASSUME Inv, Return PROVE Rest'
  <1> USE Sizes DEF Return, blockVars, startVars, workerVars
  <1>1. StartInv'
    BY DEF Inv, StartInv, Window, Stores
  <1>2. SeenInv'
    BY BetweenJobs DEF Inv, SeenInv, Window
  <1>3. JobInv' /\ pc' \notin Window
    BY DEF Inv, JobInv, Window, Stores
  <1> QED
    BY <1>1, <1>2, <1>3 DEF Rest

\* The stores: each resets its counter, and the generation opens the job.
LEMMA StoreStep == ASSUME Inv, Store PROVE Rest'
  <1> USE Sizes DEF startVars, workerVars
  <1>1. pc \in Stores /\ ours /\ made = NWorkers
    BY DEF Store, Stores, Inv, StartInv, Window
  <1>2. CASE pc # "gen"
    <2>1. pc' \in Stores \ {"n"} /\ gen' = gen
      BY <1>2 DEF Store, Stores
    <2>2. StartInv'
      BY <1>1, <2>1 DEF Store, Inv, StartInv, Stores
    <2>3. SeenInv'
      BY <1>1, <2>1, BetweenJobs DEF Store, Inv, SeenInv, Stores, Window
    <2>4. JobInv' /\ pc' \notin Window
      BY <1>2 DEF Store, Inv, JobInv, Stores, Window
    <2> QED
      BY <2>2, <2>3, <2>4 DEF Rest
  <1>3. CASE pc = "gen"
    <2>1. /\ pc' = "wake" /\ gen' = gen + 1 /\ gen \in Nat
          /\ UNCHANGED <<n, done, idle, next>>
      BY <1>3 DEF Store, Inv, TypeOK
    <2>2. n = items /\ done = 0 /\ idle = 0 /\ next = 0
          /\ \A i \in Items : ran[i] = 0
      BY <1>3 DEF Inv, JobInv, Stores
    <2>3. \A t \in Threads : wpc[t] \notin InJob /\ seen[t] <= gen
      BY <1>3, BetweenJobs DEF Inv, SeenInv, Window
    <2>4. StartInv'
      BY <1>1, <2>1 DEF Store, Inv, StartInv
    <2>5. SeenInv'
      BY <2>1, <2>3 DEF Store, SeenInv, Window, Inv, TypeOK
    <2>6. JobInv'
      BY <2>1, <2>2 DEF Store, JobInv, Stores
    <2>7. idle' = Cardinality(Left')
      <3>1. Left' = {}
        BY <2>1, <2>3 DEF Left, Store, Inv, TypeOK
      <3> QED
        BY <2>1, <2>2, <3>1, FS_EmptySet
    <2>8. ShareInv'
      <3>1. \A h \in Hands : Stage(h)' \notin Holding
        BY <2>1, <2>3 DEF Stage, Holding, InJob, Store
      <3>2. \A i \in 0 .. items - 1 : i \in Items /\ ~(i < 0)
        BY HostPoolAssumption DEF Items, Inv, TypeOK
      <3>3. Finished' = {}
        BY <2>2, <3>2 DEF Finished, Store
      <3>4. done' = Cardinality(Finished')
        BY <2>1, <2>2, <3>3, FS_EmptySet
      <3> QED
        BY <2>1, <2>2, <3>1, <3>2, <3>4 DEF ShareInv, Holding, Store
    <2> QED
      BY <2>4, <2>5, <2>6, <2>7, <2>8 DEF Rest
  <1> QED
    BY <1>2, <1>3

\* The sleepers look again: nobody's item moves.
LEMMA WakeStep == ASSUME Inv, Wake PROVE Rest'
  <1> USE Sizes DEF Wake, blockVars, startVars
  <1>1. \A t \in Threads : /\ wpc'[t] \in InJob <=> wpc[t] \in InJob
                           /\ wpc[t] \in InJob => wpc'[t] = wpc[t]
                           /\ wpc[t] \in {"none", "born"} => wpc'[t] = wpc[t]
                           /\ wpc'[t] \in {"none", "born"} => wpc'[t] = wpc[t]
    BY DEF InJob
  <1>2. StartInv'
    BY <1>1 DEF Inv, StartInv, Window, Stores
  <1>3. SeenInv'
    BY <1>1 DEF Inv, SeenInv, Window
  <1>4. JobInv'
    BY DEF Inv, JobInv, Window, Stores
  <1>5. Left' = Left
    BY <1>1 DEF Left
  <1>6. ShareInv'
    <2>1. /\ \A h \in Hands : Stage(h)' \in Holding \/ Stage(h) \in Holding =>
                                Stage(h)' = Stage(h)
          /\ \A h \in Hands : Item(h)' = Item(h)
      BY <1>1 DEF Stage, Item, Holding, InJob
    <2>2. /\ \A i : Pending(i)' <=> Pending(i)
          /\ \A i : Counting(i)' <=> Counting(i)
      BY <2>1 DEF Pending, Counting, Holding
    <2>3. Finished' = Finished
      BY <2>2 DEF Finished
    <2> QED
      BY <2>1, <2>2, <2>3 DEF Inv, Window, ShareInv, Holding
  <1> QED
    BY <1>2, <1>3, <1>4, <1>5, <1>6 DEF Rest, Inv, Window

\* What the handler's thread does inside the job leaves the workers alone.
LEMMA CallerInJob ==
  ASSUME Inv, pc \in Window, pc' \in Window,
         UNCHANGED <<gen, idle, n, startVars, items, workerVars>>
  PROVE  StartInv' /\ SeenInv' /\ idle' = Cardinality(Left')
  <1> USE DEF startVars, workerVars
  <1>1. StartInv'
    BY DEF Inv, StartInv, Window, Stores
  <1>2. SeenInv'
    BY DEF Inv, SeenInv
  <1>3. Left' = Left
    BY DEF Left
  <1> QED
    BY <1>1, <1>2, <1>3 DEF Inv

LEMMA TakeStep == ASSUME Inv, Take PROVE Rest'
  <1>1. /\ pc \in {"take", "compare", "call", "count"}
        /\ pc' \in {"take", "compare", "call", "count", "done"}
        /\ UNCHANGED <<gen, idle, n, startVars, items, workerVars>>
    BY DEF Take
  <1>2. pc \in Window /\ pc' \in Window
    BY <1>1 DEF Window
  <1>3. StartInv' /\ SeenInv' /\ idle' = Cardinality(Left')
    BY <1>1, <1>2, CallerInJob
  <1>4. /\ Typed /\ ShareInv /\ Stage(0) = pc /\ Stage(0)' = pc'
        /\ Item(0) = mine /\ Item(0)' = mine' /\ 0 \in Hands
    BY <1>2, TypedInv, Sizes DEF Inv, Stage, Item
  <1>5. Still(0)
    BY <1>1 DEF Still, Stage, Item, workerVars
  <1>6. ShareInv'
    <2>1. CASE pc = "take"
      BY <1>4, <1>5, <2>1, ShareTake DEF Take, Holding
    <2>2. CASE pc = "compare"
      BY <1>4, <1>5, <2>2, ShareCompare DEF Take, Holding
    <2>3. CASE pc = "call"
      BY <1>4, <1>5, <2>3, ShareCall DEF Take
    <2>4. CASE pc = "count"
      BY <1>4, <1>5, <2>4, ShareCount DEF Take
    <2> QED
      BY <1>1, <2>1, <2>2, <2>3, <2>4
  <1>7. \A i \in Items : i >= items => ran'[i] = 0
    <2>1. CASE pc = "call"
      <3>1. mine < items /\ mine \in Nat /\ items \in Int
        BY <1>4, <2>1, HostPoolAssumption DEF ShareInv, Inv, TypeOK
      <3> QED
        BY <2>1, <3>1 DEF Take, Inv, TypeOK, JobInv
    <2>2. CASE pc # "call"
      BY <2>2 DEF Take, Inv, JobInv
    <2> QED
      BY <2>1, <2>2
  <1>8. JobInv'
    BY <1>1, <1>2, <1>7 DEF Inv, JobInv, Window, Stores
  <1> QED
    BY <1>3, <1>6, <1>8 DEF Rest

\* The items are done; then the workers have left.
LEMMA AwaitStep == ASSUME Inv, Await PROVE Rest'
  <1> USE DEF blockVars
  <1>1. CASE pc = "done"
    <2>1. pc \in Window /\ pc' = "idle" /\ pc' \in Window /\ done >= items
      BY <1>1 DEF Await, Window
    <2>2. StartInv' /\ SeenInv' /\ idle' = Cardinality(Left')
      BY <2>1, CallerInJob DEF Await
    <2>3. ShareInv'
      <3>1. Still(0) /\ Stage(0) = pc /\ Stage(0)' = pc' /\ 0 \in Hands
        BY Sizes DEF Still, Stage, Item, Await, workerVars
      <3> QED
        BY <1>1, <2>1, <3>1, ShareIdle, TypedInv DEF Inv, Holding, Await
    <2>4. JobInv'
      BY <2>1 DEF Inv, JobInv, Await, Stores
    <2> QED
      BY <2>2, <2>3, <2>4 DEF Rest
  <1>2. CASE pc = "idle"
    <2>1. pc \in Window /\ pc' = "back" /\ idle >= NWorkers /\ ours
      BY <1>2 DEF Await, Window, Inv, StartInv
    <2>2. Left = 1 .. NWorkers
      BY <2>1, LeftCount DEF Inv
    <2>3. \A t \in Threads : /\ t <= made => seen[t] = gen
                             /\ wpc[t] \notin InJob
      <3>1. \A t \in Threads : t <= made => t \in Left
        BY <2>1, <2>2, Sizes DEF Inv, StartInv
      <3>2. \A t \in Threads : ~(t <= made) => wpc[t] = "none"
        BY DEF Inv, StartInv
      <3> QED
        BY <3>1, <3>2 DEF Left, InJob
    <2>4. Finished = 0 .. items - 1
      BY <1>2, <2>1, FinishedCount, HostPoolAssumption
         DEF Inv, TypeOK, JobInv, ShareInv
    <2>5. \A i \in Items : i < items => ran[i] = 1
      <3>1. \A i \in Items : i < items => i \in 0 .. items - 1
        BY HostPoolAssumption DEF Items, Inv, TypeOK
      <3> QED
        BY <2>4, <3>1 DEF Finished
    <2>6. StartInv'
      BY <1>2, <2>1 DEF Inv, StartInv, Stores, Await, startVars, workerVars
    <2>7. SeenInv'
      BY <2>1, <2>3 DEF Inv, SeenInv, Await, startVars, workerVars
    <2>8. JobInv' /\ pc' \notin Window
      BY <2>1, <2>5 DEF Inv, JobInv, Await, Stores, Window
    <2> QED
      BY <2>6, <2>7, <2>8 DEF Rest
  <1> QED
    BY <1>1, <1>2 DEF Await
\* A step of a worker, of which the handler's thread sees the counters only.
LEMMA WorkerStep ==
  ASSUME Inv, NEW t \in Threads, NEW from, NEW to, At(t, from, to),
         from \notin {"none"}, to \notin {"none", "born"},
         from = "born" => buf'[t] = <<bufs, num[t]>>,
         \A u \in Threads : u # t \/ from # "born" => buf'[u] = buf[u],
         to \in InJob => seen'[t] = gen /\ pc \in Window,
         seen'[t] \in {seen[t], gen},
         \A u \in Threads \ {t} : seen'[u] = seen[u],
         UNCHANGED <<gen, n, startVars, callerVars, num>>
  PROVE  StartInv' /\ SeenInv'
  <1> USE DEF startVars, callerVars
  <1>1. /\ wpc[t] = from /\ wpc'[t] = to
        /\ \A u \in Threads \ {t} : wpc'[u] = wpc[u]
    BY DEF At, Inv, TypeOK
  <1>2. \A u \in Threads : wpc'[u] \notin {"none", "born"} => buf'[u][2] = u - 1
    <2>1. CASE from = "born"
      BY <1>1, <2>1 DEF Inv, StartInv
    <2>2. CASE from # "born"
      BY <1>1, <2>2 DEF Inv, StartInv
    <2> QED
      BY <2>1, <2>2
  <1>3. StartInv'
    BY <1>1, <1>2 DEF Inv, StartInv
  <1>4. SeenInv'
    BY SMTT(30), <1>1 DEF Inv, SeenInv, TypeOK
  <1> QED
    BY <1>3, <1>4

\* Of a job that is not open, a worker sees nothing to do.
LEMMA OpenJob ==
  ASSUME Inv, NEW t \in Threads, wpc[t] # "none"
  PROVE  /\ gen # seen[t] => pc \in Window
         /\ wpc[t] \in InJob => pc \in Window /\ seen[t] = gen
         /\ pc \in Window => t \in 1 .. NWorkers
  <1>1. t <= made
    BY DEF Inv, StartInv
  <1>2. pc \in Window => made = NWorkers
    BY DEF Inv, StartInv
  <1> QED
    BY <1>1, <1>2, Sizes DEF Inv, SeenInv

\* Outside its job, and on the way into it.
LEMMA LookStep ==
  ASSUME Inv, NEW t \in Threads, Born(t) \/ Look(t) \/ Futex(t)
  PROVE  Rest'
  <1> USE DEF blockVars, startVars, callerVars
  <1>1. PICK from \in {"born", "look", "futex"},
             to \in {"look", "futex", "asleep", "take"} :
          /\ At(t, from, to)
          /\ from = "born" => buf'[t] = <<bufs, num[t]>>
          /\ \A u \in Threads : u # t \/ from # "born" => buf'[u] = buf[u]
          /\ to = "take" => gen # seen[t] /\ seen'[t] = gen
          /\ to # "take" => seen'[t] = seen[t]
          /\ \A u \in Threads \ {t} : seen'[u] = seen[u]
          /\ UNCHANGED <<blockVars, startVars, callerVars, num, took, ran>>
    BY DEF Born, Look, Futex, At, Inv, TypeOK
  <1>2. /\ wpc[t] = from /\ wpc'[t] = to
        /\ \A u \in Threads \ {t} : wpc'[u] = wpc[u]
    BY <1>1 DEF At, Inv, TypeOK
  <1>3. to = "take" => pc \in Window
    BY <1>1, <1>2, OpenJob
  <1>4. StartInv' /\ SeenInv'
    BY <1>1, <1>3, WorkerStep DEF InJob
  <1>5. JobInv'
    BY <1>1 DEF Inv, JobInv
  <1>6. ASSUME pc \in Window
        PROVE  idle' = Cardinality(Left') /\ ShareInv'
    <2>1. Left' = Left
      <3>1. t \in Left' <=> t \in Left
        BY <1>1, <1>2 DEF Left, InJob
      <3> QED
        BY <1>1, <1>2, <3>1, Sizes DEF Left
    <2>2. Still(t) /\ Stage(t) = from /\ Stage(t)' = to /\ t \in Hands
      BY <1>1, <1>2, Sizes DEF Still, Stage, Item
    <2>3. ShareInv'
      BY <1>1, <1>6, <2>2, ShareIdle, TypedInv DEF Inv, Holding
    <2> QED
      BY <1>1, <1>6, <2>1, <2>3 DEF Inv
  <1> QED
    BY <1>1, <1>4, <1>5, <1>6 DEF Rest

\* Inside the job: the workers take, compare, run and count as the handler's
\* thread does.
LEMMA WorkStep ==
  ASSUME Inv, NEW t \in Threads,
         \/ WorkerTake(t) \/ WorkerCompare(t) \/ WorkerCall(t)
         \/ WorkerCount(t) \/ WorkerIdle(t)
  PROVE  Rest'
  <1> USE DEF blockVars, startVars, callerVars
  <1>1. PICK from \in InJob, to \in InJob \cup {"look"} :
          /\ At(t, from, to) /\ (to = "look" <=> from = "idle")
          /\ UNCHANGED <<gen, n, startVars, callerVars, num, buf, seen>>
    BY DEF WorkerTake, WorkerCompare, WorkerCall, WorkerCount, WorkerIdle,
           InJob
  <1>2. /\ wpc[t] = from /\ wpc'[t] = to
        /\ \A u \in Threads \ {t} : wpc'[u] = wpc[u]
    BY <1>1 DEF At, Inv, TypeOK
  <1>3. pc \in Window /\ seen[t] = gen /\ t \in 1 .. NWorkers
    BY <1>2, OpenJob DEF InJob
  <1>4. StartInv' /\ SeenInv'
    BY <1>1, <1>3, WorkerStep DEF InJob
  <1>5. /\ Typed /\ ShareInv /\ Stage(t) = from /\ Stage(t)' = to
        /\ Item(t) = took[t] /\ Item(t)' = took'[t] /\ t \in Hands
        /\ t # 0
    BY <1>2, <1>3, TypedInv, Sizes DEF Inv, Stage, Item
  <1>6. Still(t)
    <2>1. \A u \in Threads \ {t} : took'[u] = took[u]
      BY DEF WorkerTake, WorkerCompare, WorkerCall, WorkerCount, WorkerIdle,
             Inv, TypeOK
    <2> QED
      BY <1>1, <1>2, <1>5, <2>1, Sizes DEF Still, Stage, Item
  <1>7. ShareInv'
    <2>1. CASE WorkerTake(t)
      <3>1. took'[t] = next
        BY <2>1 DEF WorkerTake, Inv, TypeOK
      <3>2. from = "take" /\ to = "compare"
        BY <1>2, <2>1 DEF WorkerTake, At, Inv, TypeOK
      <3> QED
        BY <1>5, <1>6, <2>1, <3>1, <3>2, ShareTake DEF WorkerTake, Holding
    <2>2. CASE WorkerCompare(t)
      <3>1. from = "compare" /\ to = IF took[t] < n THEN "call" ELSE "idle"
        BY <1>2, <2>2 DEF WorkerCompare, At, Inv, TypeOK
      <3>2. n = items
        BY <1>3 DEF Inv, JobInv
      <3> QED
        BY <1>5, <1>6, <2>2, <3>1, <3>2, ShareCompare
           DEF WorkerCompare, Holding
    <2>3. CASE WorkerCall(t)
      <3>1. from = "call" /\ to = "count"
        BY <1>2, <2>3 DEF WorkerCall, At, Inv, TypeOK
      <3> QED
        BY <1>5, <1>6, <2>3, <3>1, ShareCall DEF WorkerCall
    <2>4. CASE WorkerCount(t)
      <3>1. from = "count" /\ to = "take"
        BY <1>2, <2>4 DEF WorkerCount, At, Inv, TypeOK
      <3> QED
        BY <1>5, <1>6, <2>4, <3>1, ShareCount DEF WorkerCount
    <2>5. CASE WorkerIdle(t)
      <3>1. from = "idle" /\ to = "look"
        BY <1>2, <2>5 DEF WorkerIdle, At, Inv, TypeOK
      <3> QED
        BY <1>5, <1>6, <2>5, <3>1, ShareIdle DEF WorkerIdle, Holding
    <2> QED
      BY <2>1, <2>2, <2>3, <2>4, <2>5
  <1>8. idle' = Cardinality(Left')
    <2>1. CASE WorkerIdle(t)
      <3>1. from = "idle" /\ to = "look"
        BY <1>2, <2>1 DEF WorkerIdle, At, Inv, TypeOK
      <3>2. Left' = Left \cup {t} /\ t \notin Left
        BY <1>1, <1>2, <1>3, <3>1, Sizes DEF Left, InJob
      <3>3. Cardinality(Left') = Cardinality(Left) + 1
        BY <3>2, LeftCount, FS_AddElement
      <3> QED
        BY <1>3, <2>1, <3>3 DEF WorkerIdle, Inv
    <2>2. CASE ~WorkerIdle(t)
      <3>1. to \in InJob /\ idle' = idle
        BY <1>2, <2>2 DEF WorkerTake, WorkerCompare, WorkerCall, WorkerCount,
                          At, Inv, TypeOK, InJob
      <3>2. Left' = Left
        BY <1>1, <1>2, <1>3, <3>1, Sizes DEF Left
      <3> QED
        BY <1>3, <3>1, <3>2 DEF Inv
    <2> QED
      BY <2>1, <2>2
  <1>9. \A i \in Items : i >= items => ran'[i] = 0
    <2>1. CASE WorkerCall(t)
      <3>1. took[t] < items /\ took[t] \in Nat /\ items \in Int
        BY <1>2, <1>5, <2>1, HostPoolAssumption
           DEF WorkerCall, At, ShareInv, Inv, TypeOK
      <3> QED
        BY <2>1, <3>1 DEF WorkerCall, Inv, TypeOK, JobInv
    <2>2. CASE ~WorkerCall(t)
      BY <2>2 DEF WorkerTake, WorkerCompare, WorkerCount, WorkerIdle, Inv,
         JobInv
    <2> QED
      BY <2>1, <2>2
  <1>10. JobInv'
    <2>1. done' >= done
      BY DEF WorkerTake, WorkerCompare, WorkerCall, WorkerCount, WorkerIdle,
             Inv, TypeOK
    <2>2. done' \in Nat /\ done \in Nat /\ items \in Int
      BY HostPoolAssumption DEF WorkerTake, WorkerCompare, WorkerCall,
         WorkerCount, WorkerIdle, Inv, TypeOK
    <2> QED
      BY <1>1, <1>3, <1>9, <2>1, <2>2 DEF Inv, JobInv, Window, Stores
  <1> QED
    BY <1>4, <1>7, <1>8, <1>10 DEF Rest

-----------------------------------------------------------------------------
(* The theorems.                                                           *)

LEMMA NextInv == ASSUME Env = {}, Inv, [Next]_vars PROVE Inv'
  <1>1. TypeOK' /\ Bounded'
    BY TypeNext DEF Inv
  <1>2. CASE UNCHANGED vars
    BY <1>2 DEF vars, blockVars, startVars, callerVars, workerVars, Inv,
       TypeOK, Bounded, StartInv, SeenInv, JobInv, ShareInv, Left, Finished,
       Pending, Counting, Stage, Item
  <1>3. ASSUME NEW t \in Threads, Worker(t) PROVE Rest'
    BY <1>3, LookStep, WorkStep DEF Worker
  <1>4. ASSUME Start \/ Fork \/ Clone \/ Started PROVE Rest'
    BY <1>4, StartStep, ForkStep, CloneStep, StartedStep
  <1>5. ASSUME NEW k \in 0 .. MaxItems, Post(k) PROVE Rest'
    BY <1>5, PostStep
  <1>6. ASSUME Inline \/ Store \/ Wake PROVE Rest'
    BY <1>6, InlineStep, StoreStep, WakeStep
  <1>7. ASSUME Take \/ Await \/ Return PROVE Rest'
    BY <1>7, TakeStep, AwaitStep, ReturnStep
  <1>8. CASE Next
    BY <1>1, <1>3, <1>4, <1>5, <1>6, <1>7, <1>8 DEF Next, Caller, Inv, Rest
  <1> QED
    BY <1>2, <1>8

\* Whatever is forked or fails: the job block, the workers' copies and the
\* handler's thread of pool.S keep their types.
THEOREM Typing == Spec => []TypeOK
  <1>1. Init => TypeOK /\ Bounded
    BY InitInv DEF Inv
  <1>2. TypeOK /\ Bounded /\ [Next]_vars => TypeOK' /\ Bounded'
    BY TypeNext
  <1> QED
    BY <1>1, <1>2, PTL DEF Spec

LEMMA InductiveInv == ASSUME Env = {} PROVE Spec => []Inv
  <1>1. Inv /\ [Next]_vars => Inv'
    BY NextInv
  <1> QED
    BY <1>1, InitInv, PTL DEF Spec

\* When pool_run comes back, every item of its job was run exactly once and
\* no worker is inside the job, for any number of workers, items and jobs.
THEOREM JobsComplete == ASSUME Env = {} PROVE Spec => []JobComplete
  <1>1. Inv => JobComplete
    BY HostPoolAssumption
       DEF Inv, JobComplete, JobInv, SeenInv, Window, Items, TypeOK
  <1> QED
    BY <1>1, InductiveInv, PTL

\* No two threads refresh one item at once, or in one buffer: the lock xadd
\* of pool_worker and pool_run gives an item to one thread, and the buffer
\* is chosen by the worker's number.
THEOREM ItemsAreOwn == ASSUME Env = {} PROVE Spec => []OwnItem
  <1>1. Inv => OwnItem
    <2> SUFFICES ASSUME Inv, NEW t \in Threads, wpc[t] = "call"
                 PROVE  /\ took[t] < items /\ ran[took[t]] = 0
                        /\ pc = "call" => took[t] # mine
                        /\ \A u \in Threads \ {t} : wpc[u] = "call" =>
                              buf[t] # buf[u] /\ took[t] # took[u]
      BY DEF OwnItem
    <2>1. ShareInv
      BY DEF Inv, SeenInv, InJob
    <2>2. /\ t \in Hands /\ 0 \in Hands /\ t # 0
          /\ Stage(t) = "call" /\ Item(t) = took[t]
      BY Sizes DEF Stage, Item
    <2>3. took[t] < items /\ ran[took[t]] = 0
      <3>1. took[t] \in 0 .. items - 1 /\ Pending(took[t])
        BY <2>1, <2>2, HostPoolAssumption DEF ShareInv, Pending, Inv, TypeOK
      <3> QED
        BY <2>1, <2>2, <3>1 DEF ShareInv
    <2>4. pc = "call" => took[t] # mine
      BY <2>1, <2>2 DEF ShareInv, Stage, Item, Holding
    <2>5. ASSUME NEW u \in Threads \ {t}, wpc[u] = "call"
          PROVE  buf[t] # buf[u] /\ took[t] # took[u]
      <3>1. u \in Hands /\ Stage(u) = "call" /\ Item(u) = took[u]
        BY <2>5, Sizes DEF Stage, Item
      <3>2. took[t] # took[u]
        BY <2>1, <2>2, <3>1 DEF ShareInv, Holding
      <3>3. buf[t][2] = t - 1 /\ buf[u][2] = u - 1
        BY <2>5 DEF Inv, StartInv
      <3> QED
        BY <3>2, <3>3, Sizes
    <2> QED
      BY <2>3, <2>4, <2>5
  <1> QED
    BY <1>1, InductiveInv, PTL
=============================================================================
