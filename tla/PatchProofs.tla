---------------------------- MODULE PatchProofs ----------------------------
(***************************************************************************)
(* Proofs about Patch for any number of threads, sites and table entries.  *)
(*                                                                         *)
(* The invariant says who may write: the holder of PATCH_LOCK alone fills  *)
(* the entry behind the published ones, and every entry that is being      *)
(* rewritten is the holder's.  From it, the text of a site without a live  *)
(* entry is the program's own, and the text of a live one is where its     *)
(* entry's rewrite has come to.                                            *)
(***************************************************************************)
EXTENDS Patch, TLAPS

\* Where the lock's holder is, and where it has an entry of its own.
Busy == {"publish", "stubbing", "unprotect", "w1", "w2", "w3", "ready"}
Locked == Busy \cup {"locked", "unlock"}

Live(i) == site[i].state \in {"patching", "ready"}

\* No published entry is live at the address.
Untouched(s) == \A i \in 1..count : ~(site[i].rip = s /\ Live(i))

\* PATCH_LOCK has one holder.
LockInv == \A t \in Threads : pc[t] \in Locked <=> lock = t

\* A published entry names a site, a live one alone does, a finished one has
\* its jump and its stub, and one being rewritten is the lock holder's.
TableInv ==
    /\ \A i \in 1..count : site[i].rip \in Sites /\ site[i].state # "empty"
    /\ \A i, j \in 1..count :
          Live(i) /\ Live(j) /\ site[i].rip = site[j].rip => i = j
    /\ \A i \in 1..count : site[i].state = "ready" =>
          /\ head[site[i].rip] = "jump" /\ rest[site[i].rip] = i
          /\ i \in stubs
    /\ \A i \in 1..count : site[i].state = "patching" =>
          \E t \in Threads : pc[t] \in Busy \ {"publish"} /\ idx[t] = i

\* Text without a live entry is the program's own.
TextInv == \A s \in Sites : Untouched(s) => head[s] = "orig" /\ rest[s] = 0

\* How far a rewrite has come.
Progress(t) ==
    /\ idx[t] = IF pc[t] = "publish" THEN count + 1 ELSE count
    /\ idx[t] \in Entries
    /\ site[idx[t]] = [rip |-> at[t], state |-> "patching"]
    /\ pc[t] = "publish" => Untouched(at[t])
    /\ head[at[t]] = IF pc[t] \in {"w2", "w3"} THEN "trap"
                     ELSE IF pc[t] = "ready" THEN "jump" ELSE "orig"
    /\ rest[at[t]] = IF pc[t] \in {"w3", "ready"} THEN idx[t] ELSE 0
    /\ pc[t] \notin {"publish", "stubbing"} => idx[t] \in stubs

HolderInv == \A t \in Threads : pc[t] \in Busy => Progress(t)

\* What a thread in the handlers, or sent to a stub, knows of the text.
ThreadInv == \A t \in Threads :
    /\ pc[t] # "run" => at[t] \in Sites
    /\ pc[t] = "decode" /\ seen[t] # "orig" => head[at[t]] # "orig"
    /\ pc[t] \in {"recheck", "trap"} => head[at[t]] # "orig"
    /\ pc[t] = "stub" => idx[t] \in 1..count /\ site[idx[t]].rip = at[t]
    /\ pc[t] = "await" => idx[t] \in 1..count
    /\ pc[t] \notin {"killed", "crashed"}

Inv == TypeOK /\ LockInv /\ TableInv /\ TextInv /\ HolderInv /\ ThreadInv

-----------------------------------------------------------------------------
\* site_at finds nothing exactly where no published entry is live.
LEMMA SiteAtEmpty ==
    ASSUME NEW s PROVE SiteAt(s) = {} <=> Untouched(s)
  BY DEF SiteAt, Untouched, Live

LEMMA InitInv == Init => Inv
  <1> SUFFICES ASSUME Init PROVE Inv
    OBVIOUS
  <1>1. TypeOK
    BY PatchAssumption DEF Init, TypeOK, Entries, NoSite, PCs
  <1>2. LockInv /\ HolderInv
    BY PatchAssumption DEF Init, LockInv, HolderInv, Busy, Locked
  <1>3. TableInv /\ TextInv
    BY DEF Init, TableInv, TextInv
  <1>4. ThreadInv
    BY DEF Init, ThreadInv
  <1> QED
    BY <1>1, <1>2, <1>3, <1>4 DEF Inv

\* A thread that does not hold the lock moves on: what is known of the lock,
\* the table, the text and the holder stays true.
LEMMA LocalStep ==
    ASSUME Inv, NEW t \in Threads, NEW where \in PCs \ Locked,
           pc[t] \notin Locked, Goto(t, where),
           UNCHANGED <<text, table, lock>>,
           \A u \in Threads \ {t} : idx'[u] = idx[u] /\ at'[u] = at[u]
    PROVE  LockInv' /\ TableInv' /\ TextInv' /\ HolderInv'
  <1> USE DEF text, table
  <1>1. pc \in [Threads -> PCs] /\ lock \in Threads \cup {None}
    BY DEF Inv, TypeOK
  <1>2. /\ pc'[t] = where
        /\ \A u \in Threads \ {t} : pc'[u] = pc[u]
    BY <1>1 DEF Goto
  <1>3. LockInv'
    BY <1>1, <1>2 DEF Inv, LockInv
  <1>4. TableInv'
    <2>1. ASSUME NEW i \in 1..count, site[i].state = "patching"
          PROVE  \E u \in Threads : pc'[u] \in Busy \ {"publish"} /\ idx'[u] = i
      <3>1. PICK u \in Threads : pc[u] \in Busy \ {"publish"} /\ idx[u] = i
        BY <2>1 DEF Inv, TableInv
      <3>2. u # t
        BY <3>1 DEF Locked
      <3> QED
        BY <3>1, <3>2, <1>2
    <2> QED
      BY <2>1 DEF Inv, TableInv, Live
  <1>5. TextInv'
    BY DEF Inv, TextInv, Untouched, Live
  <1>6. HolderInv'
    <2> SUFFICES ASSUME NEW u \in Threads, pc'[u] \in Busy
                 PROVE  /\ pc[u] \in Busy /\ pc'[u] = pc[u]
                        /\ idx'[u] = idx[u] /\ at'[u] = at[u]
      BY DEF Inv, HolderInv, Progress, Untouched, Live
    <2>1. u # t
      BY <1>2 DEF Locked
    <2> QED
      BY <2>1, <1>2
  <1> QED
    BY <1>3, <1>4, <1>5, <1>6

\* ThreadInv of a thread that stands still while another writes: the table
\* only grows, and text that is not the program's own does not become so.
LEMMA OthersThread ==
    ASSUME Inv, NEW t \in Threads, NEW where \in PCs, Goto(t, where),
           UNCHANGED <<at, seen>>,
           count' \in Nat, count <= count',
           \A i \in 1..count : site'[i].rip = site[i].rip,
           \A s \in Sites : head[s] # "orig" => head'[s] # "orig",
           \A u \in Threads \ {t} : idx'[u] = idx[u],
           pc[t] # "run", where \in Locked \cup {"step"}
    PROVE  ThreadInv'
  <1>1. pc \in [Threads -> PCs] /\ count \in Nat
        /\ at \in [Threads -> Sites \cup {None}]
    BY PatchAssumption DEF Inv, TypeOK
  <1>2. /\ pc'[t] = where
        /\ \A u \in Threads \ {t} : pc'[u] = pc[u]
    BY <1>1 DEF Goto
  <1>3. ASSUME NEW u \in Threads, u # t
        PROVE  ThreadInv!(u)'
    BY <1>1, <1>2, <1>3 DEF Inv, ThreadInv
  <1>4. ThreadInv!(t)'
    BY <1>1, <1>2 DEF Inv, ThreadInv, Locked, Busy
  <1> QED
    BY <1>3, <1>4 DEF ThreadInv

\* A site whose text is a jump has a live entry, and the jump leads to it.
LEMMA JumpLeadsHome == Inv => JumpsHome
  <1> SUFFICES ASSUME Inv PROVE JumpsHome
    OBVIOUS
  <1>1. ASSUME NEW s \in Sites, head[s] = "jump"
        PROVE  rest[s] \in stubs /\ rest[s] \in SiteAt(s)
    <2>1. PICK i \in 1..count : site[i].rip = s /\ Live(i)
      BY <1>1 DEF Inv, TextInv, Untouched
    <2>2. CASE site[i].state = "ready"
      BY <2>1, <2>2 DEF Inv, TableInv, SiteAt
    <2>3. CASE site[i].state = "patching"
      <3>1. PICK t \in Threads : pc[t] \in Busy \ {"publish"} /\ idx[t] = i
        BY <2>3 DEF Inv, TableInv
      <3>2. Progress(t)
        BY <3>1 DEF Inv, HolderInv
      <3>3. at[t] = s
        BY <2>1, <3>1, <3>2 DEF Progress
      <3>4. pc[t] = "ready"
        BY <1>1, <3>1, <3>2, <3>3 DEF Progress
      <3> QED
        BY <2>1, <2>3, <3>1, <3>2, <3>3, <3>4 DEF SiteAt, Progress
    <2> QED
      BY <2>1, <2>2, <2>3 DEF Live
  <1> QED
    BY <1>1 DEF JumpsHome, Inv, TableInv, Live

\* The bytes after the first change only behind a breakpoint or a jump.
LEMMA RestBehindTrap ==
    ASSUME Inv, NEW s \in Sites, rest[s] # 0
    PROVE  head[s] # "orig"
  <1>1. PICK i \in 1..count : site[i].rip = s /\ Live(i)
    BY DEF Inv, TextInv, Untouched
  <1>2. CASE site[i].state = "ready"
    BY <1>1, <1>2 DEF Inv, TableInv
  <1>3. CASE site[i].state = "patching"
    <2>1. PICK t \in Threads : pc[t] \in Busy \ {"publish"} /\ idx[t] = i
      BY <1>3 DEF Inv, TableInv
    <2>2. Progress(t)
      BY <2>1 DEF Inv, HolderInv
    <2>3. at[t] = s
      BY <1>1, <2>1, <2>2 DEF Progress
    <2> QED
      BY <2>1, <2>2, <2>3 DEF Progress
  <1> QED
    BY <1>1, <1>2, <1>3 DEF Live

\* A thread that found an entry waits for a published one.
LEMMA FoundEntry ==
    ASSUME NEW t \in Threads, Found(t)
    PROVE  /\ \E i \in 1..count : idx' = [idx EXCEPT ![t] = i]
           /\ Goto(t, "await")
  BY DEF Found, SiteAt

\* A handler that gives up finds the program's own text.
LEMMA NothingFound ==
    ASSUME Inv, NEW t \in Threads, pc[t] # "run", SiteAt(at[t]) = {}
    PROVE  head[at[t]] = "orig" /\ rest[at[t]] = 0
  BY SiteAtEmpty DEF Inv, TextInv, ThreadInv

\* Appending an instruction to what was performed.
LEMMA AppendType ==
    ASSUME NEW S, NEW q \in Seq(S), NEW e \in S
    PROVE  Append(q, e) \in Seq(S)
  OBVIOUS

-----------------------------------------------------------------------------
(* The steps of a thread that does not hold the lock.                       *)

LEMMA ExecuteInv == ASSUME Inv, NEW t \in Threads, Execute(t) PROVE Inv'
  <1>1. TypeOK'
    BY SMTT(30), PatchAssumption DEF Inv, TypeOK, Execute, Goto, PCs, text,
       table, local
  <1>2. LockInv' /\ TableInv' /\ TextInv' /\ HolderInv'
    BY LocalStep DEF Execute, Goto, PCs, Locked, Busy, text, table, local,
       Inv, TypeOK
  <1>3. ThreadInv'
    BY DEF Inv, TypeOK, ThreadInv, Execute, Goto, text, table, local
  <1> QED
    BY <1>1, <1>2, <1>3 DEF Inv

LEMMA FetchInv == ASSUME Inv, NEW t \in Threads, Fetch(t) PROVE Inv'
  <1>1. TypeOK'
    <2>1. rest[at[t]] \in 0..MaxSites
      BY DEF Inv, TypeOK, ThreadInv, Fetch
    <2>2. idx' \in [Threads -> 0..MaxSites]
      BY <2>1 DEF Inv, TypeOK, Fetch
    <2>3. pc' \in [Threads -> PCs]
      BY DEF Inv, TypeOK, Fetch, Goto, PCs
    <2> QED
      BY <2>2, <2>3 DEF Inv, TypeOK, Fetch, text, table
  <1>2. LockInv' /\ TableInv' /\ TextInv' /\ HolderInv'
    <2>1. PICK where \in PCs \ Locked : Goto(t, where)
      BY DEF Fetch, PCs, Locked, Busy
    <2>2. pc[t] \notin Locked /\ UNCHANGED <<text, table, lock>>
      BY DEF Fetch, Locked, Busy
    <2>3. \A u \in Threads \ {t} : idx'[u] = idx[u] /\ at'[u] = at[u]
      BY DEF Fetch, Inv, TypeOK
    <2> QED
      BY <2>1, <2>2, <2>3, LocalStep
  <1>3. ThreadInv'
    <2>1. head[at[t]] = "jump" =>
              /\ rest[at[t]] \in stubs /\ rest[at[t]] \in 1..count
              /\ site[rest[at[t]]].rip = at[t]
      BY JumpLeadsHome DEF JumpsHome, SiteAt, Inv, ThreadInv, Fetch
    <2> QED
      BY <2>1 DEF Inv, TypeOK, ThreadInv, Fetch, Goto, text, table
  <1> QED
    BY <1>1, <1>2, <1>3 DEF Inv

LEMMA StubInv == ASSUME Inv, NEW t \in Threads, Stub(t) PROVE Inv'
  <1>1. TypeOK'
    <2>1. did' \in [Threads -> Seq(Sites \cup {Other})]
      <3>1. site[idx[t]].rip \in Sites \cup {Other}
        BY DEF Inv, ThreadInv, Stub
      <3>2. Append(did[t], site[idx[t]].rip) \in Seq(Sites \cup {Other})
        BY <3>1, AppendType DEF Inv, TypeOK
      <3> QED
        BY <3>2 DEF Inv, TypeOK, Stub
    <2> QED
      BY <2>1 DEF Inv, TypeOK, Stub, Goto, PCs, text, table
  <1>2. LockInv' /\ TableInv' /\ TextInv' /\ HolderInv'
    BY LocalStep DEF Stub, Goto, PCs, Locked, Busy, text, table, local, Inv,
       TypeOK
  <1>3. ThreadInv'
    BY DEF Inv, TypeOK, ThreadInv, Stub, Goto, text, table, local
  <1> QED
    BY <1>1, <1>2, <1>3 DEF Inv

LEMMA SigIllInv == ASSUME Inv, NEW t \in Threads, SigIll(t) PROVE Inv'
  <1>1. CASE Found(t)
    <2>1. PICK i \in 1..count :
              idx' = [idx EXCEPT ![t] = i] /\ Goto(t, "await")
      BY <1>1, FoundEntry
    <2>2. i \in 0..MaxSites /\ i \in 1..count'
      BY <2>1, PatchAssumption DEF Inv, TypeOK, SigIll, table
    <2>3. TypeOK'
      BY <2>1, <2>2 DEF Inv, TypeOK, SigIll, Goto, PCs, text, table
    <2>4. LockInv' /\ TableInv' /\ TextInv' /\ HolderInv'
      <3>1. \A u \in Threads \ {t} : idx'[u] = idx[u] /\ at'[u] = at[u]
        BY <2>1 DEF Inv, TypeOK, SigIll
      <3> QED
        BY <2>1, <3>1, LocalStep DEF SigIll, PCs, Locked, Busy, text, table
    <2>5. ThreadInv'
      BY <2>1, <2>2 DEF Inv, TypeOK, ThreadInv, SigIll, Goto, text, table
    <2> QED
      BY <2>3, <2>4, <2>5 DEF Inv
  <1>2. CASE SiteAt(at[t]) = {} /\ Goto(t, "read") /\ UNCHANGED idx
    <2>1. TypeOK'
      BY <1>2 DEF Inv, TypeOK, SigIll, Goto, PCs, text, table
    <2>2. LockInv' /\ TableInv' /\ TextInv' /\ HolderInv'
      BY <1>2, LocalStep DEF SigIll, PCs, Locked, Busy, text, table
    <2>3. ThreadInv'
      BY <1>2 DEF Inv, TypeOK, ThreadInv, SigIll, Goto, text, table
    <2> QED
      BY <2>1, <2>2, <2>3 DEF Inv
  <1> QED
    BY <1>1, <1>2 DEF SigIll

LEMMA ReadHeadInv == ASSUME Inv, NEW t \in Threads, ReadHead(t) PROVE Inv'
  <1>1. TypeOK'
    BY DEF Inv, TypeOK, ThreadInv, ReadHead, Goto, PCs, text, table
  <1>2. LockInv' /\ TableInv' /\ TextInv' /\ HolderInv'
    BY LocalStep DEF ReadHead, Goto, PCs, Locked, Busy, text, table, local,
       Inv, TypeOK
  <1>3. ThreadInv'
    BY DEF Inv, TypeOK, ThreadInv, ReadHead, Goto, text, table, local
  <1> QED
    BY <1>1, <1>2, <1>3 DEF Inv

LEMMA DecodeInv == ASSUME Inv, NEW t \in Threads, Decode(t) PROVE Inv'
  <1> PICK where \in {"refused", "perform", "recheck"} :
          /\ Goto(t, where)
          /\ where = "recheck" => seen[t] # "orig" \/ rest[at[t]] # 0
    BY DEF Decode
  <1>a. at[t] \in Sites /\ seen' \in [Threads -> {"orig", "trap", "jump", Other}]
        /\ \A u \in Threads \ {t} : seen'[u] = seen[u]
    BY DEF Decode, Inv, TypeOK, ThreadInv
  <1>1. TypeOK'
    BY <1>a DEF Inv, TypeOK, Decode, Goto, PCs, text, table
  <1>2. LockInv' /\ TableInv' /\ TextInv' /\ HolderInv'
    BY LocalStep DEF Decode, Goto, PCs, Locked, Busy, text, table, local, Inv,
       TypeOK
  <1>3. ThreadInv'
    <2>1. where = "recheck" => head[at[t]] # "orig"
      <3>1. rest[at[t]] # 0 => head[at[t]] # "orig"
        BY <1>a, RestBehindTrap
      <3> QED
        BY <3>1 DEF Decode, Inv, ThreadInv
    <2> QED
      BY <1>a, <2>1 DEF Inv, TypeOK, ThreadInv, Decode, Goto, text, table
  <1> QED
    BY <1>1, <1>2, <1>3 DEF Inv

LEMMA RecheckInv == ASSUME Inv, NEW t \in Threads, Recheck(t) PROVE Inv'
  <1>1. CASE Found(t)
    <2>1. PICK i \in 1..count :
              idx' = [idx EXCEPT ![t] = i] /\ Goto(t, "await")
      BY <1>1, FoundEntry
    <2>2. i \in 0..MaxSites /\ i \in 1..count'
      BY <2>1, PatchAssumption DEF Inv, TypeOK, Recheck, table
    <2>3. TypeOK'
      BY <2>1, <2>2 DEF Inv, TypeOK, Recheck, Goto, PCs, text, table
    <2>4. LockInv' /\ TableInv' /\ TextInv' /\ HolderInv'
      <3>1. \A u \in Threads \ {t} : idx'[u] = idx[u] /\ at'[u] = at[u]
        BY <2>1 DEF Inv, TypeOK, Recheck
      <3> QED
        BY <2>1, <3>1, LocalStep DEF Recheck, PCs, Locked, Busy, text, table
    <2>5. ThreadInv'
      BY <2>1, <2>2 DEF Inv, TypeOK, ThreadInv, Recheck, Goto, text, table
    <2> QED
      BY <2>3, <2>4, <2>5 DEF Inv
  <1>2. SiteAt(at[t]) # {}
    BY NothingFound DEF Inv, ThreadInv, Recheck
  <1> QED
    BY <1>1, <1>2 DEF Recheck

LEMMA PerformInv == ASSUME Inv, NEW t \in Threads, Perform(t) PROVE Inv'
  <1>1. TypeOK'
    <2>1. did' \in [Threads -> Seq(Sites \cup {Other})]
      <3> DEFINE e == IF seen[t] = Other THEN Other ELSE at[t]
      <3>1. e \in Sites \cup {Other}
        BY DEF Inv, ThreadInv, Perform
      <3>2. Append(did[t], e) \in Seq(Sites \cup {Other})
        BY <3>1, AppendType DEF Inv, TypeOK
      <3> QED
        BY <3>2 DEF Inv, TypeOK, Perform
    <2> QED
      BY <2>1 DEF Inv, TypeOK, Perform, Goto, PCs, text, table
  <1>2. LockInv' /\ TableInv' /\ TextInv' /\ HolderInv'
    BY LocalStep DEF Perform, Goto, PCs, Locked, Busy, text, table, local,
       Inv, TypeOK
  <1>3. ThreadInv'
    BY DEF Inv, TypeOK, ThreadInv, Perform, Goto, text, table, local
  <1> QED
    BY <1>1, <1>2, <1>3 DEF Inv

LEMMA StepInv == ASSUME Inv, NEW t \in Threads, Step(t) PROVE Inv'
  <1>1. TypeOK'
    BY PatchAssumption DEF Inv, TypeOK, Step, Goto, PCs, text, table, local
  <1>2. LockInv' /\ TableInv' /\ TextInv' /\ HolderInv'
    BY LocalStep DEF Step, Goto, PCs, Locked, Busy, text, table, local, Inv,
       TypeOK
  <1>3. ThreadInv'
    BY DEF Inv, TypeOK, ThreadInv, Step, Goto, text, table, local
  <1> QED
    BY <1>1, <1>2, <1>3 DEF Inv

LEMMA SigTrapInv == ASSUME Inv, NEW t \in Threads, SigTrap(t) PROVE Inv'
  <1>1. CASE Found(t)
    <2>1. PICK i \in 1..count :
              idx' = [idx EXCEPT ![t] = i] /\ Goto(t, "await")
      BY <1>1, FoundEntry
    <2>2. i \in 0..MaxSites /\ i \in 1..count'
      BY <2>1, PatchAssumption DEF Inv, TypeOK, SigTrap, table
    <2>3. TypeOK'
      BY <2>1, <2>2 DEF Inv, TypeOK, SigTrap, Goto, PCs, text, table
    <2>4. LockInv' /\ TableInv' /\ TextInv' /\ HolderInv'
      <3>1. \A u \in Threads \ {t} : idx'[u] = idx[u] /\ at'[u] = at[u]
        BY <2>1 DEF Inv, TypeOK, SigTrap
      <3> QED
        BY <2>1, <3>1, LocalStep DEF SigTrap, PCs, Locked, Busy, text, table
    <2>5. ThreadInv'
      BY <2>1, <2>2 DEF Inv, TypeOK, ThreadInv, SigTrap, Goto, text, table
    <2> QED
      BY <2>3, <2>4, <2>5 DEF Inv
  <1>2. SiteAt(at[t]) # {}
    BY NothingFound DEF Inv, ThreadInv, SigTrap
  <1> QED
    BY <1>1, <1>2 DEF SigTrap

LEMMA AwaitInv == ASSUME Inv, NEW t \in Threads, Await(t) PROVE Inv'
  <1>1. TypeOK'
    BY PatchAssumption DEF Inv, TypeOK, Await, Goto, PCs, text, table, local
  <1>2. LockInv' /\ TableInv' /\ TextInv' /\ HolderInv'
    BY LocalStep DEF Await, Goto, PCs, Locked, Busy, text, table, local, Inv,
       TypeOK
  <1>3. ThreadInv'
    BY DEF Inv, TypeOK, ThreadInv, Await, Goto, text, table, local
  <1> QED
    BY <1>1, <1>2, <1>3 DEF Inv

-----------------------------------------------------------------------------
(* The steps of the lock's holder.                                          *)

\* No other thread is under the lock, and the holder keeps it.
LEMMA HolderAlone ==
    ASSUME Inv, NEW t \in Threads, pc[t] \in Locked,
           NEW where \in PCs, Goto(t, where)
    PROVE  /\ lock = t /\ pc'[t] = where
           /\ \A u \in Threads \ {t} : pc'[u] = pc[u] /\ pc[u] \notin Locked
           /\ where \in Locked /\ UNCHANGED lock => LockInv'
  <1>1. lock = t /\ pc \in [Threads -> PCs]
    BY DEF Inv, TypeOK, LockInv
  <1>2. /\ pc'[t] = where
        /\ \A u \in Threads \ {t} : pc'[u] = pc[u] /\ pc[u] \notin Locked
    BY <1>1 DEF Inv, LockInv, Goto
  <1> QED
    BY <1>1, <1>2 DEF LockInv

LEMMA TryPatchInv == ASSUME Inv, NEW t \in Threads, TryPatch(t) PROVE Inv'
  <1>1. CASE Goto(t, "step") /\ UNCHANGED lock
    <2>1. TypeOK'
      BY <1>1 DEF Inv, TypeOK, TryPatch, Goto, PCs, text, table, local
    <2>2. LockInv' /\ TableInv' /\ TextInv' /\ HolderInv'
      BY <1>1, LocalStep DEF TryPatch, PCs, Locked, Busy, text, table, local
    <2>3. ThreadInv'
      BY <1>1 DEF Inv, TypeOK, ThreadInv, TryPatch, Goto, text, table, local
    <2> QED
      BY <2>1, <2>2, <2>3 DEF Inv
  <1>2. CASE lock = None /\ lock' = t /\ Goto(t, "locked")
    <2>1. TypeOK'
      BY <1>2 DEF Inv, TypeOK, TryPatch, Goto, PCs, text, table, local
    <2>2. \A u \in Threads : pc[u] \notin Locked
      BY <1>2, PatchAssumption DEF Inv, LockInv
    <2>3. /\ pc'[t] = "locked"
          /\ \A u \in Threads \ {t} : pc'[u] = pc[u]
      BY <1>2 DEF Inv, TypeOK, Goto
    <2>4. LockInv'
      BY <1>2, <2>2, <2>3 DEF LockInv, Locked
    <2>5. \A u \in Threads : pc'[u] \notin Busy
      BY <2>2, <2>3 DEF Locked, Busy
    <2>6. \A i \in 1..count : site[i].state # "patching"
      BY <2>2 DEF Inv, TableInv, Locked
    <2>7. TableInv' /\ TextInv' /\ HolderInv'
      BY <2>5, <2>6 DEF TryPatch, Inv, TableInv, TextInv, HolderInv,
                        Untouched, Live, text, table, local
    <2>8. ThreadInv'
      BY <1>2 DEF Inv, TypeOK, ThreadInv, TryPatch, Goto, text, table, local
    <2> QED
      BY <2>1, <2>4, <2>7, <2>8 DEF Inv
  <1> QED
    BY <1>1, <1>2 DEF TryPatch


LEMMA PublishInv == ASSUME Inv, NEW t \in Threads, Publish(t) PROVE Inv'
  <1>1. /\ lock = t /\ pc[t] = "publish" /\ pc'[t] = "stubbing"
        /\ \A u \in Threads \ {t} : pc'[u] = pc[u] /\ pc[u] \notin Locked
        /\ LockInv'
    BY HolderAlone DEF Publish, PCs, Locked, Busy
  <1>2. Progress(t)
    BY <1>1 DEF Inv, HolderInv, Busy
  <1>3. /\ count \in 0..MaxSites /\ count' = count + 1 /\ idx[t] = count + 1
        /\ count + 1 \in Entries /\ at[t] \in Sites
        /\ site[count + 1] = [rip |-> at[t], state |-> "patching"]
        /\ Untouched(at[t])
    BY <1>1, <1>2 DEF Publish, Inv, TypeOK, ThreadInv, Progress
  <1>4. TypeOK'
    BY SMTT(30), <1>3, PatchAssumption
       DEF Inv, TypeOK, Entries, Publish, Goto, PCs, text, local
  <1>5. \A i \in 1..count' : i \in 1..count \/ i = count + 1
    BY <1>3
  <1>6. TableInv'
    <2>1. \A i \in 1..count' : site[i].rip \in Sites /\ site[i].state # "empty"
      BY <1>3, <1>5 DEF Inv, TableInv
    <2>2. \A i, j \in 1..count' :
              Live(i) /\ Live(j) /\ site[i].rip = site[j].rip => i = j
      BY <1>3, <1>5 DEF Inv, TableInv, Untouched
    <2>3. \A i \in 1..count' : site[i].state = "ready" =>
              /\ head[site[i].rip] = "jump" /\ rest[site[i].rip] = i
              /\ i \in stubs
      BY <1>3, <1>5 DEF Inv, TableInv
    <2>4. \A i \in 1..count' : site[i].state = "patching" =>
              \E u \in Threads : pc'[u] \in Busy \ {"publish"} /\ idx[u] = i
      <3>1. \A i \in 1..count : site[i].state # "patching"
        BY <1>1 DEF Inv, TableInv, Locked
      <3>2. pc'[t] \in Busy \ {"publish"} /\ idx[t] = count + 1
        BY <1>1, <1>3 DEF Busy
      <3> QED
        BY <1>5, <3>1, <3>2
    <2> QED
      BY <2>1, <2>2, <2>3, <2>4 DEF TableInv, Live, Publish, text, local
  <1>7. TextInv'
    BY <1>3 DEF Inv, TextInv, Untouched, Live, Publish, text
  <1>8. HolderInv'
    <2>1. Progress(t)'
      BY <1>1, <1>2, <1>3 DEF Progress, Publish, text, local
    <2> QED
      BY <1>1, <2>1 DEF HolderInv, Locked
  <1>9. ThreadInv'
    BY <1>1, <1>3, OthersThread, PatchAssumption
       DEF PCs, Locked, Busy, Publish, text, local
  <1> QED
    BY <1>1, <1>4, <1>6, <1>7, <1>8, <1>9 DEF Inv

\* The entry of a rewrite in progress is the last, the only one in progress,
\* and the only live one at its address.
LEMMA HolderEntry ==
    ASSUME Inv, NEW t \in Threads, pc[t] \in Busy \ {"publish"}
    PROVE  /\ Progress(t) /\ at[t] \in Sites
           /\ idx[t] = count /\ count \in Entries /\ count \in 1..count
           /\ site[count] = [rip |-> at[t], state |-> "patching"]
           /\ \A i \in 1..count : i # count =>
                 site[i].state # "patching" /\ (Live(i) => site[i].rip # at[t])
  <1>1. Progress(t) /\ at[t] \in Sites
    BY DEF Inv, HolderInv, ThreadInv, Busy
  <1>2. /\ idx[t] = count /\ count \in Entries
        /\ site[count] = [rip |-> at[t], state |-> "patching"]
    BY <1>1 DEF Progress
  <1>3. count \in 1..count
    BY <1>2, PatchAssumption DEF Entries
  <1>4. ASSUME NEW i \in 1..count, i # count
        PROVE  site[i].state # "patching"
    <2> SUFFICES ASSUME site[i].state = "patching" PROVE FALSE
      OBVIOUS
    <2>1. PICK u \in Threads : pc[u] \in Busy \ {"publish"} /\ idx[u] = i
      BY DEF Inv, TableInv
    <2>2. u = t
      BY <2>1 DEF Inv, LockInv, Locked
    <2> QED
      BY <1>2, <1>4, <2>1, <2>2
  <1>5. ASSUME NEW i \in 1..count, i # count, Live(i)
        PROVE  site[i].rip # at[t]
    BY <1>2, <1>3, <1>5 DEF Inv, TableInv, Live
  <1> QED
    BY <1>1, <1>2, <1>3, <1>4, <1>5

\* A step of a rewrite that changes no entry and no other site's text.
LEMMA RewriteStep ==
    ASSUME Inv, NEW t \in Threads, pc[t] \in Busy \ {"publish"},
           NEW where \in Busy \ {"publish"}, Goto(t, where), Progress(t)',
           UNCHANGED <<site, count, lock, at, idx, seen>>,
           stubs \subseteq stubs',
           \A s \in Sites \ {at[t]} : head'[s] = head[s] /\ rest'[s] = rest[s],
           head[at[t]] # "orig" => head'[at[t]] # "orig"
    PROVE  LockInv' /\ TableInv' /\ TextInv' /\ HolderInv' /\ ThreadInv'
  <1>1. where \in PCs /\ where \in Locked /\ pc[t] \in Locked
    BY DEF Busy, PCs, Locked
  <1>2. /\ pc'[t] = where /\ LockInv'
        /\ \A u \in Threads \ {t} : pc'[u] = pc[u] /\ pc[u] \notin Locked
    BY <1>1, HolderAlone
  <1>3. /\ at[t] \in Sites /\ idx[t] = count /\ count \in 1..count
        /\ site[count] = [rip |-> at[t], state |-> "patching"]
        /\ \A i \in 1..count : i # count =>
              site[i].state # "patching" /\ (Live(i) => site[i].rip # at[t])
    BY HolderEntry
  <1>4. TableInv'
    <2>1. ASSUME NEW i \in 1..count, site[i].state = "ready"
          PROVE  /\ head'[site[i].rip] = "jump" /\ rest'[site[i].rip] = i
                 /\ i \in stubs'
      <3>1. i # count /\ Live(i)
        BY <1>3, <2>1 DEF Live
      <3>2. site[i].rip \in Sites \ {at[t]}
        BY <1>3, <3>1 DEF Inv, TableInv
      <3> QED
        BY <2>1, <3>2 DEF Inv, TableInv
    <2>2. ASSUME NEW i \in 1..count, site[i].state = "patching"
          PROVE  \E u \in Threads : pc'[u] \in Busy \ {"publish"} /\ idx[u] = i
      BY <1>2, <1>3, <2>2
    <2> QED
      BY <2>1, <2>2 DEF Inv, TableInv, Live
  <1>5. TextInv'
    <2> SUFFICES ASSUME NEW s \in Sites, Untouched(s)
                 PROVE  s # at[t]
      BY DEF Inv, TextInv, Untouched, Live
    <2> QED
      BY <1>3 DEF Untouched, Live
  <1>6. HolderInv'
    BY <1>2 DEF HolderInv, Locked
  <1>7. ThreadInv'
    <2>1. count \in Nat /\ count <= count'
      BY PatchAssumption DEF Inv, TypeOK
    <2>2. \A s \in Sites : head[s] # "orig" => head'[s] # "orig"
      OBVIOUS
    <2>3. pc[t] # "run" /\ where \in Locked \cup {"step"}
      BY <1>1 DEF Busy
    <2> QED
      BY <1>1, <2>1, <2>2, <2>3, OthersThread
  <1> QED
    BY <1>2, <1>4, <1>5, <1>6, <1>7

LEMMA BuildStubInv == ASSUME Inv, NEW t \in Threads, BuildStub(t) PROVE Inv'
  <1>1. /\ pc[t] = "stubbing" /\ pc[t] \in Busy \ {"publish"} /\ Goto(t, "unprotect")
        /\ "unprotect" \in Busy \ {"publish"} /\ pc'[t] = "unprotect"
    BY DEF BuildStub, Busy, Goto, Inv, TypeOK
  <1>2. /\ Progress(t) /\ at[t] \in Sites /\ idx[t] = count
        /\ count \in Entries
    BY <1>1, HolderEntry
  <1>3. TypeOK'
    BY <1>2, PatchAssumption
       DEF Inv, TypeOK, BuildStub, Goto, PCs, Entries, text, table, local
  <1>4. Progress(t)'
    BY <1>1, <1>2, PatchAssumption
       DEF Progress, BuildStub, text, table, local, Inv, TypeOK
  <1>5. LockInv' /\ TableInv' /\ TextInv' /\ HolderInv' /\ ThreadInv'
    <2>1. /\ \A s \in Sites \ {at[t]} : head'[s] = head[s] /\ rest'[s] = rest[s]
          /\ head[at[t]] # "orig" => head'[at[t]] # "orig"
      BY <1>2 DEF BuildStub, text, Inv, TypeOK
    <2> QED
      BY <1>1, <1>4, <2>1, RewriteStep DEF BuildStub, table, local
  <1> QED
    BY <1>3, <1>5 DEF Inv

LEMMA WriteTrapInv == ASSUME Inv, NEW t \in Threads, WriteTrap(t) PROVE Inv'
  <1>1. /\ pc[t] = "w1" /\ pc[t] \in Busy \ {"publish"} /\ Goto(t, "w2")
        /\ "w2" \in Busy \ {"publish"} /\ pc'[t] = "w2"
    BY DEF WriteTrap, Busy, Goto, Inv, TypeOK
  <1>2. /\ Progress(t) /\ at[t] \in Sites /\ idx[t] = count
        /\ count \in Entries
    BY <1>1, HolderEntry
  <1>3. TypeOK'
    BY <1>2, PatchAssumption
       DEF Inv, TypeOK, WriteTrap, Goto, PCs, Entries, text, table, local
  <1>4. Progress(t)'
    BY <1>1, <1>2, PatchAssumption
       DEF Progress, WriteTrap, text, table, local, Inv, TypeOK
  <1>5. LockInv' /\ TableInv' /\ TextInv' /\ HolderInv' /\ ThreadInv'
    <2>1. /\ \A s \in Sites \ {at[t]} : head'[s] = head[s] /\ rest'[s] = rest[s]
          /\ head[at[t]] # "orig" => head'[at[t]] # "orig"
      BY <1>2 DEF WriteTrap, text, Inv, TypeOK
    <2> QED
      BY <1>1, <1>4, <2>1, RewriteStep DEF WriteTrap, table, local
  <1> QED
    BY <1>3, <1>5 DEF Inv

LEMMA WriteRestInv == ASSUME Inv, NEW t \in Threads, WriteRest(t) PROVE Inv'
  <1>1. /\ pc[t] = "w2" /\ pc[t] \in Busy \ {"publish"} /\ Goto(t, "w3")
        /\ "w3" \in Busy \ {"publish"} /\ pc'[t] = "w3"
    BY DEF WriteRest, Busy, Goto, Inv, TypeOK
  <1>2. /\ Progress(t) /\ at[t] \in Sites /\ idx[t] = count
        /\ count \in Entries
    BY <1>1, HolderEntry
  <1>3. TypeOK'
    BY <1>2, PatchAssumption
       DEF Inv, TypeOK, WriteRest, Goto, PCs, Entries, text, table, local
  <1>4. Progress(t)'
    BY <1>1, <1>2, PatchAssumption
       DEF Progress, WriteRest, text, table, local, Inv, TypeOK
  <1>5. LockInv' /\ TableInv' /\ TextInv' /\ HolderInv' /\ ThreadInv'
    <2>1. /\ \A s \in Sites \ {at[t]} : head'[s] = head[s] /\ rest'[s] = rest[s]
          /\ head[at[t]] # "orig" => head'[at[t]] # "orig"
      BY <1>2 DEF WriteRest, text, Inv, TypeOK
    <2> QED
      BY <1>1, <1>4, <2>1, RewriteStep DEF WriteRest, table, local
  <1> QED
    BY <1>3, <1>5 DEF Inv

LEMMA WriteJumpInv == ASSUME Inv, NEW t \in Threads, WriteJump(t) PROVE Inv'
  <1>1. /\ pc[t] = "w3" /\ pc[t] \in Busy \ {"publish"} /\ Goto(t, "ready")
        /\ "ready" \in Busy \ {"publish"} /\ pc'[t] = "ready"
    BY DEF WriteJump, Busy, Goto, Inv, TypeOK
  <1>2. /\ Progress(t) /\ at[t] \in Sites /\ idx[t] = count
        /\ count \in Entries
    BY <1>1, HolderEntry
  <1>3. TypeOK'
    BY <1>2, PatchAssumption
       DEF Inv, TypeOK, WriteJump, Goto, PCs, Entries, text, table, local
  <1>4. Progress(t)'
    BY <1>1, <1>2, PatchAssumption
       DEF Progress, WriteJump, text, table, local, Inv, TypeOK
  <1>5. LockInv' /\ TableInv' /\ TextInv' /\ HolderInv' /\ ThreadInv'
    <2>1. /\ \A s \in Sites \ {at[t]} : head'[s] = head[s] /\ rest'[s] = rest[s]
          /\ head[at[t]] # "orig" => head'[at[t]] # "orig"
      BY <1>2 DEF WriteJump, text, Inv, TypeOK
    <2> QED
      BY <1>1, <1>4, <2>1, RewriteStep DEF WriteJump, table, local
  <1> QED
    BY <1>3, <1>5 DEF Inv

LEMMA UnprotectInv == ASSUME Inv, NEW t \in Threads, Unprotect(t) PROVE Inv'
  <1>1. pc[t] = "unprotect" /\ pc[t] \in Busy \ {"publish"}
    BY DEF Unprotect, Busy
  <1>2. /\ Progress(t) /\ at[t] \in Sites /\ idx[t] = count
        /\ count \in Entries /\ count \in 1..count
        /\ site[count] = [rip |-> at[t], state |-> "patching"]
        /\ \A i \in 1..count : i # count =>
              site[i].state # "patching" /\ (Live(i) => site[i].rip # at[t])
    BY <1>1, HolderEntry
  <1>3. CASE Goto(t, "w1") /\ UNCHANGED site
    <2>1. TypeOK'
      BY <1>3 DEF Inv, TypeOK, Unprotect, Goto, PCs, text, local
    <2>2. Progress(t)'
      BY <1>1, <1>2, <1>3 DEF Progress, Unprotect, Goto, text, local, Inv,
         TypeOK
    <2>3. LockInv' /\ TableInv' /\ TextInv' /\ HolderInv' /\ ThreadInv'
      BY <1>1, <1>3, <2>2, RewriteStep DEF Unprotect, Busy, text, local
    <2> QED
      BY <2>1, <2>3 DEF Inv
  <1>4. CASE /\ site' = [site EXCEPT ![idx[t]].state = "failed"]
             /\ Goto(t, "unlock")
    <2>1. /\ pc'[t] = "unlock" /\ LockInv'
          /\ \A u \in Threads \ {t} : pc'[u] = pc[u] /\ pc[u] \notin Locked
      BY <1>1, <1>4, HolderAlone DEF Unprotect, PCs, Locked, Busy
    <2>2. /\ site'[count].rip = at[t] /\ site'[count].state = "failed"
          /\ \A i \in 1..count : i # count => site'[i] = site[i]
      BY <1>2, <1>4, PatchAssumption DEF Inv, TypeOK, Entries
    <2>3. site' \in [Entries -> [rip : Sites \cup {None},
                      state : {"empty", "patching", "ready", "failed"}]]
      BY <1>2, <1>4 DEF Inv, TypeOK
    <2>4. TypeOK'
      BY <1>4, <2>3 DEF Inv, TypeOK, Unprotect, Goto, PCs, text, local
    <2>5. TableInv'
      BY <1>2, <2>1, <2>2 DEF Inv, TableInv, Live, Unprotect, text, local
    <2>6. TextInv'
      <3> SUFFICES ASSUME NEW s \in Sites, Untouched(s)'
                   PROVE  head[s] = "orig" /\ rest[s] = 0
        BY DEF TextInv, Unprotect, text
      <3>1. CASE s = at[t]
        BY <1>1, <1>2, <3>1 DEF Progress
      <3>2. CASE s # at[t]
        <4>1. Untouched(s)
          BY <1>2, <2>2, <3>2 DEF Untouched, Live, Unprotect
        <4> QED
          BY <4>1 DEF Inv, TextInv
      <3> QED
        BY <3>1, <3>2
    <2>7. HolderInv'
      BY <2>1 DEF HolderInv, Locked, Busy
    <2>8. ThreadInv'
      <3>1. count \in Nat /\ count' = count
        BY PatchAssumption DEF Inv, TypeOK, Unprotect
      <3>2. \A i \in 1..count : site'[i].rip = site[i].rip
        BY <1>2, <2>2
      <3> QED
        BY <1>1, <1>4, <3>1, <3>2, OthersThread
           DEF Unprotect, PCs, Locked, Busy, text, local
    <2> QED
      BY <2>1, <2>4, <2>5, <2>6, <2>7, <2>8 DEF Inv
  <1> QED
    BY <1>3, <1>4 DEF Unprotect

LEMMA ReadyInv == ASSUME Inv, NEW t \in Threads, Ready(t) PROVE Inv'
  <1>1. pc[t] = "ready" /\ pc[t] \in Busy \ {"publish"}
    BY DEF Ready, Busy
  <1>2. /\ Progress(t) /\ at[t] \in Sites /\ idx[t] = count
        /\ count \in Entries /\ count \in 1..count
        /\ site[count] = [rip |-> at[t], state |-> "patching"]
        /\ \A i \in 1..count : i # count =>
              site[i].state # "patching" /\ (Live(i) => site[i].rip # at[t])
    BY <1>1, HolderEntry
  <1>3. head[at[t]] = "jump" /\ rest[at[t]] = count /\ count \in stubs
    BY <1>1, <1>2 DEF Progress
  <1>4. /\ pc'[t] = "unlock" /\ LockInv'
        /\ \A u \in Threads \ {t} : pc'[u] = pc[u] /\ pc[u] \notin Locked
    BY <1>1, HolderAlone DEF Ready, PCs, Locked, Busy
  <1>5. /\ site'[count].rip = at[t] /\ site'[count].state = "ready"
        /\ \A i \in 1..count : i # count => site'[i] = site[i]
    BY <1>2, PatchAssumption DEF Inv, TypeOK, Entries, Ready
  <1>6. site' \in [Entries -> [rip : Sites \cup {None},
                    state : {"empty", "patching", "ready", "failed"}]]
    BY <1>2 DEF Inv, TypeOK, Ready
  <1>7. TypeOK'
    BY <1>6 DEF Inv, TypeOK, Ready, Goto, PCs, text, local
  <1>8. TableInv'
    <2>1. /\ \A i \in 1..count : site'[i].rip = site[i].rip
          /\ \A i \in 1..count : Live(i)' <=> Live(i)
          /\ \A i \in 1..count : site'[i].state \notin {"patching", "empty"}
      BY <1>2, <1>5 DEF Inv, TableInv, Live
    <2>2. ASSUME NEW i \in 1..count, site'[i].state = "ready"
          PROVE  /\ head[site[i].rip] = "jump" /\ rest[site[i].rip] = i
                 /\ i \in stubs
      BY <1>2, <1>3, <1>5, <2>2 DEF Inv, TableInv
    <2> QED
      BY <2>1, <2>2 DEF Inv, TableInv, Ready, text
  <1>9. TextInv'
    BY <1>2, <1>5 DEF Inv, TextInv, Untouched, Live, Ready, text
  <1>10. HolderInv'
    BY <1>4 DEF HolderInv, Locked, Busy
  <1>11. ThreadInv'
    <2>1. count \in Nat /\ count' = count
      BY PatchAssumption DEF Inv, TypeOK, Ready
    <2>2. \A i \in 1..count : site'[i].rip = site[i].rip
      BY <1>2, <1>5
    <2> QED
      BY <1>1, <2>1, <2>2, OthersThread
         DEF Ready, PCs, Locked, Busy, text, local
  <1> QED
    BY <1>4, <1>7, <1>8, <1>9, <1>10, <1>11 DEF Inv

LEMMA UnlockInv == ASSUME Inv, NEW t \in Threads, Unlock(t) PROVE Inv'
  <1>1. /\ pc[t] = "unlock" /\ pc'[t] = "step" /\ lock' = None
        /\ \A u \in Threads \ {t} : pc'[u] = pc[u] /\ pc[u] \notin Locked
    BY HolderAlone DEF Unlock, PCs, Locked
  <1>2. TypeOK'
    BY DEF Inv, TypeOK, Unlock, Goto, PCs, text, table, local
  <1>3. \A u \in Threads : pc'[u] \notin Locked /\ pc[u] \notin Busy
    BY <1>1 DEF Locked, Busy
  <1>4. LockInv'
    BY <1>1, <1>3, PatchAssumption DEF LockInv
  <1>5. \A i \in 1..count : site[i].state # "patching"
    BY <1>3 DEF Inv, TableInv
  <1>6. TableInv' /\ TextInv' /\ HolderInv'
    BY <1>3, <1>5 DEF Inv, TableInv, TextInv, HolderInv, Untouched, Live,
                      Unlock, Locked, text, table, local
  <1>7. ThreadInv'
    BY DEF Inv, TypeOK, ThreadInv, Unlock, Goto, text, table, local
  <1> QED
    BY <1>2, <1>4, <1>6, <1>7 DEF Inv

LEMMA PatchLockedInv ==
  ASSUME Inv, NEW t \in Threads, PatchLocked(t)
  PROVE  Inv'
  <1>1. /\ pc[t] = "locked" /\ at[t] \in Sites
        /\ count \in Nat /\ count <= MaxSites /\ count' = count
        /\ arena' \in {"none", "made", "failed"}
    BY PatchAssumption DEF PatchLocked, EnsureArena, Inv, TypeOK, ThreadInv
  <1>2. \A u \in Threads : pc[u] \notin Busy
    BY <1>1 DEF Inv, LockInv, Locked, Busy
  <1>3. \A i \in 1..count : site[i].state # "patching"
    BY <1>2 DEF Inv, TableInv
  <1>4. CASE Goto(t, "unlock") /\ UNCHANGED <<site, idx>>
    <2>1. /\ pc'[t] = "unlock" /\ LockInv'
          /\ \A u \in Threads \ {t} : pc'[u] = pc[u]
      BY <1>1, <1>4, HolderAlone DEF PatchLocked, PCs, Locked
    <2>2. TypeOK'
      BY <1>1, <1>4 DEF Inv, TypeOK, PatchLocked, Goto, PCs, text
    <2>3. \A u \in Threads : pc'[u] \notin Busy
      BY <1>2, <2>1 DEF Busy
    <2>4. TableInv' /\ TextInv' /\ HolderInv'
      BY <1>3, <1>4, <2>3 DEF Inv, TableInv, TextInv, HolderInv, Untouched,
                              Live, PatchLocked, text
    <2>5. ThreadInv'
      BY <1>4 DEF Inv, TypeOK, ThreadInv, PatchLocked, Goto, text
    <2> QED
      BY <2>1, <2>2, <2>4, <2>5 DEF Inv
  <1>5. CASE /\ SiteAt(at[t]) = {} /\ count < MaxSites
             /\ site' = [site EXCEPT ![count + 1] =
                             [rip |-> at[t], state |-> "patching"]]
             /\ idx' = [idx EXCEPT ![t] = count + 1]
             /\ Goto(t, "publish")
    <2>1. /\ pc'[t] = "publish" /\ LockInv'
          /\ \A u \in Threads \ {t} : pc'[u] = pc[u] /\ pc[u] \notin Locked
      BY <1>1, <1>5, HolderAlone DEF PatchLocked, PCs, Locked, Busy
    <2>2. /\ count + 1 \in Entries /\ count + 1 \in 0..MaxSites
          /\ \A i \in 1..count : i # count + 1 /\ i \in Entries
      BY <1>1, <1>5, PatchAssumption DEF Entries
    <2>3. /\ site'[count + 1] = [rip |-> at[t], state |-> "patching"]
          /\ \A i \in 1..count : site'[i] = site[i]
      BY <1>5, <2>2 DEF Inv, TypeOK
    <2>4. site' \in [Entries -> [rip : Sites \cup {None},
                      state : {"empty", "patching", "ready", "failed"}]]
      BY <1>1, <1>5 DEF Inv, TypeOK
    <2>5. /\ idx' \in [Threads -> 0..MaxSites] /\ idx'[t] = count + 1
          /\ \A u \in Threads \ {t} : idx'[u] = idx[u]
      BY <1>5, <2>2 DEF Inv, TypeOK
    <2>6. TypeOK'
      BY <1>1, <1>5, <2>4, <2>5 DEF Inv, TypeOK, PatchLocked, Goto, PCs, text
    <2>7. TableInv'
      BY <1>1, <1>3, <2>3 DEF Inv, TableInv, Live, PatchLocked, text
    <2>8. \A s \in Sites : Untouched(s)' <=> Untouched(s)
      BY <1>1, <2>3 DEF Untouched, Live
    <2>9. TextInv'
      BY <2>8 DEF Inv, TextInv, PatchLocked, text
    <2>10. HolderInv'
      <3>1. Untouched(at[t]) /\ head[at[t]] = "orig" /\ rest[at[t]] = 0
        BY <1>1, <1>5, SiteAtEmpty DEF Inv, TextInv
      <3>2. Progress(t)'
        BY <1>1, <2>1, <2>2, <2>3, <2>5, <2>8, <3>1 DEF Progress, PatchLocked,
           text
      <3> QED
        BY <2>1, <3>2 DEF HolderInv, Locked
    <2>11. ThreadInv'
      BY <1>1, <1>5, <2>3, <2>5, OthersThread DEF PatchLocked, PCs, Locked,
         Busy, text
    <2> QED
      BY <2>1, <2>6, <2>7, <2>9, <2>10, <2>11 DEF Inv
  <1> QED
    BY <1>4, <1>5 DEF PatchLocked

-----------------------------------------------------------------------------

-----------------------------------------------------------------------------
(* The theorems.                                                            *)

LEMMA NextInv == ASSUME Inv, [Next]_vars PROVE Inv'
  <1>1. ASSUME NEW t \in Threads, Thread(t) PROVE Inv'
    BY <1>1, ExecuteInv, FetchInv, StubInv, SigIllInv, ReadHeadInv,
       DecodeInv, RecheckInv, PerformInv, StepInv, SigTrapInv, AwaitInv,
       TryPatchInv, PatchLockedInv, PublishInv, BuildStubInv, UnprotectInv,
       WriteTrapInv, WriteRestInv, WriteJumpInv, ReadyInv, UnlockInv
       DEF Thread
  <1>2. CASE UNCHANGED vars
    BY <1>2 DEF vars, text, table, local, Inv, TypeOK, LockInv, TableInv,
                TextInv, HolderInv, Progress, ThreadInv, Untouched, Live
  <1> QED
    BY <1>1, <1>2 DEF Next

LEMMA InductiveInv == Spec => []Inv
  BY InitInv, NextInv, PTL DEF Spec

\* Whatever mmap and mprotect refuse and however the reads of the text tear,
\* every access of the patcher stays within the site table, and the text,
\* the table and the threads keep their forms (patch.rs, handler.rs).
THEOREM Typing == Spec => []TypeOK
  <1>1. Inv => TypeOK
    BY DEF Inv
  <1> QED
    BY <1>1, InductiveInv, PTL

\* For any number of threads, sites and entries: the site table has one live
\* entry per address, and a site that jumps leads to the finished stub of its
\* own entry (patch_locked's order of writes under PATCH_LOCK).
THEOREM JumpsLeadHome == Spec => []JumpsHome
  BY InductiveInv, JumpLeadsHome, PTL

\* No thread is killed by on_sigill or on_sigtrap for meeting a site that is
\* being rewritten, and none jumps to where there is no stub: not even with
\* torn reads, a refused mmap or a refused mprotect.
THEOREM RewriteKillsNobody == Spec => []Survives
  <1>1. Inv => Survives
    BY DEF Inv, ThreadInv, Survives
  <1> QED
    BY <1>1, InductiveInv, PTL

\* What has been performed for the instruction a thread is at: nothing before
\* the handler or the stub has performed it, and then it, once.
DidInv == \A t \in Threads :
    /\ seen[t] # Other
    /\ pc[t] \in {"fetch", "ill", "read", "decode", "recheck", "perform",
                 "await", "trap", "stub"} => did[t] = <<>>
    /\ pc[t] \in {"try", "step"} \cup Locked => did[t] = <<at[t]>>
    /\ pc[t] = "run" => did[t] = IF at[t] = None THEN <<>> ELSE <<at[t]>>

LEMMA InitDid == Init => DidInv
  BY DEF Init, DidInv, Locked, Busy, Other

LEMMA AppendFirst == ASSUME NEW e PROVE Append(<< >>, e) = <<e>>
  OBVIOUS

LEMMA NextDid ==
    ASSUME "torn" \notin Faults, Inv, DidInv, [Next]_vars
    PROVE  DidInv'
  <1>1. CASE UNCHANGED vars
    BY <1>1 DEF vars, local, DidInv
  <1> SUFFICES ASSUME NEW t \in Threads, Thread(t) PROVE DidInv'
    BY <1>1 DEF Next
  <1>2. /\ pc \in [Threads -> PCs] /\ seen \in [Threads -> {"orig", "trap", "jump", Other}]
        /\ head \in [Sites -> {"orig", "trap", "jump"}]
        /\ at \in [Threads -> Sites \cup {None}]
        /\ did \in [Threads -> Seq(Sites \cup {Other})]
        /\ pc[t] # "run" => at[t] \in Sites
    BY DEF Inv, TypeOK, ThreadInv
  <1> USE DEF DidInv, Goto, Locked, Busy, text, table, local, Other
  <1>3. CASE Execute(t)
    BY <1>2, <1>3 DEF Execute
  <1>4. CASE Fetch(t)
    BY <1>2, <1>4 DEF Fetch
  <1>5. CASE Stub(t)
    <2>1. did' = [did EXCEPT ![t] = <<at[t]>>] /\ at[t] # None
      <3>1. site[idx[t]].rip = at[t] /\ site[idx[t]].state # "empty"
        BY <1>5 DEF Stub, Inv, ThreadInv, TableInv
      <3>2. at[t] # None /\ did[t] = <<>>
        BY <1>2, <1>5, PatchAssumption DEF Stub
      <3> QED
        BY <1>5, <3>1, <3>2, AppendFirst DEF Stub
    <2> QED
      BY <1>2, <1>5, <2>1 DEF Stub
  <1>6. CASE SigIll(t)
    BY <1>2, <1>6 DEF SigIll, Found
  <1>7. CASE ReadHead(t)
    BY <1>2, <1>7 DEF ReadHead
  <1>8. CASE Decode(t)
    BY <1>2, <1>8 DEF Decode
  <1>9. CASE Recheck(t)
    BY <1>2, <1>9 DEF Recheck, Found
  <1>10. CASE Perform(t)
    <2>1. did[t] = <<>> /\ seen[t] # Other
      BY <1>10 DEF Perform
    <2>2. did' = [did EXCEPT ![t] = <<at[t]>>]
      BY <1>10, <2>1, AppendFirst DEF Perform
    <2> QED
      BY <1>2, <1>10, <2>2 DEF Perform
  <1>11. CASE Step(t)
    <2>1. at[t] # None
      BY <1>2, <1>11, PatchAssumption DEF Step
    <2> QED
      BY <1>2, <1>11, <2>1 DEF Step
  <1>12. CASE SigTrap(t)
    BY <1>2, <1>12 DEF SigTrap, Found
  <1>13. CASE Await(t)
    BY <1>2, <1>13 DEF Await
  <1>14. CASE TryPatch(t)
    BY <1>2, <1>14 DEF TryPatch
  <1>15. CASE PatchLocked(t)
    BY <1>2, <1>15 DEF PatchLocked
  <1>16. CASE Publish(t)
    BY <1>2, <1>16 DEF Publish
  <1>17. CASE BuildStub(t)
    BY <1>2, <1>17 DEF BuildStub
  <1>18. CASE Unprotect(t)
    BY <1>2, <1>18 DEF Unprotect
  <1>19. CASE WriteTrap(t)
    BY <1>2, <1>19 DEF WriteTrap
  <1>20. CASE WriteRest(t)
    BY <1>2, <1>20 DEF WriteRest
  <1>21. CASE WriteJump(t)
    BY <1>2, <1>21 DEF WriteJump
  <1>22. CASE Ready(t)
    BY <1>2, <1>22 DEF Ready
  <1>23. CASE Unlock(t)
    BY <1>2, <1>23 DEF Unlock
  <1> QED
    BY <1>3, <1>4, <1>5, <1>6, <1>7, <1>8, <1>9, <1>10, <1>11, <1>12,
       <1>13, <1>14, <1>15, <1>16, <1>17, <1>18, <1>19, <1>20, <1>21,
       <1>22, <1>23
       DEF Thread

\* Where reads of the text do not tear: when a thread has left an AVX-512
\* instruction, that instruction and no other was performed for it, once, in
\* the handler or through the stub, however the rewrite of the site raced it.
THEOREM PerformedOnce ==
    ASSUME "torn" \notin Faults
    PROVE  Spec => []Performed
  <1>1. Inv /\ DidInv /\ [Next]_vars => Inv' /\ DidInv'
    BY NextInv, NextDid
  <1>2. DidInv => Performed
    BY DEF DidInv, Performed
  <1> QED
    BY <1>1, <1>2, InitInv, InitDid, PTL DEF Spec
=============================================================================
