-------------------------------- MODULE Patch --------------------------------
(****************************************************************************)
(* Rewriting a faulting AVX-512 instruction into a jump, while other        *)
(* threads fault on it, trap on it and run it (phi512/src/patch.rs, and     *)
(* on_sigill and on_sigtrap of phi512/src/handler.rs with PHI512_EMULATE=1).*)
(*                                                                          *)
(* A site is an instruction's address.  Its text is its first byte (head)   *)
(* and the bytes after it (rest): the instruction, a breakpoint, or a jump  *)
(* whose displacement names an entry of the site table.  Every access to    *)
(* the text, the table, the lock and the published count is a step of its   *)
(* own.  The processor fetches head and rest together.                      *)
(****************************************************************************)
EXTENDS Naturals, Sequences, FiniteSets

CONSTANTS
    Threads,        \* the program's threads
    Sites,          \* the AVX-512 instructions of its text
    Short,          \* those shorter than a five-byte jump (kmovw k2, k1)
    Far,            \* those a five-byte jump does not take to their stub
    Unsupported,    \* those the emulator has no code for
    MaxSites,       \* MAX_SITES: entries of the table
    MaxRuns,        \* bound: instructions each thread meets
    Faults          \* what may go wrong: subset of {"mmap", "mprotect",
                    \*   "torn"}

\* Not a thread, not a site.
None == "none"
\* What a torn read of the text decodes to: another AVX-512 instruction.
Other == "other"

ASSUME PatchAssumption ==
    /\ Short \subseteq Sites /\ Far \subseteq Sites /\ Unsupported \subseteq Sites
    /\ MaxSites \in Nat /\ MaxRuns \in Nat
    /\ Faults \subseteq {"mmap", "mprotect", "torn"}
    /\ None \notin Threads \cup Sites

VARIABLES
    head,       \* first byte at a site: "orig", "trap" (0xcc), "jump" (0xe9)
    rest,       \* the other bytes: 0 the instruction's, i a jump to stub i
    site,       \* SITES: per entry its address and its state
    count,      \* SITE_COUNT: entries site_at looks through
    stubs,      \* entries whose stub is in the arena
    arena,      \* "none", "made", "failed"
    lock,       \* PATCH_LOCK
    pc,         \* where a thread is
    at,         \* the instruction it is at
    idx,        \* the entry it waits for, fills or came through
    seen,       \* the first byte it read; Other if torn bytes decoded
    did,        \* what was performed for the instruction it is at
    runs        \* instructions it has met

text == <<head, rest>>
table == <<site, count, stubs, arena>>
local == <<at, idx, seen, did, runs>>
vars == <<text, table, lock, pc, local>>

Entries == 1..MaxSites
NoSite == [rip |-> None, state |-> "empty"]

PCs == {"run", "fetch", "ill", "read", "decode", "recheck", "perform", "try",
        "locked", "publish", "stubbing", "unprotect", "w1", "w2", "w3",
        "ready", "unlock", "step", "await", "trap", "stub",
        "refused", "killed", "crashed"}

TypeOK ==
    /\ head \in [Sites -> {"orig", "trap", "jump"}]
    /\ rest \in [Sites -> 0..MaxSites]
    /\ site \in [Entries -> [rip : Sites \cup {None},
                    state : {"empty", "patching", "ready", "failed"}]]
    /\ count \in 0..MaxSites /\ stubs \subseteq Entries
    /\ arena \in {"none", "made", "failed"}
    /\ lock \in Threads \cup {None}
    /\ pc \in [Threads -> PCs]
    /\ at \in [Threads -> Sites \cup {None}]
    /\ idx \in [Threads -> 0..MaxSites]
    /\ seen \in [Threads -> {"orig", "trap", "jump", Other}]
    /\ did \in [Threads -> Seq(Sites \cup {Other})]
    /\ runs \in [Threads -> 0..MaxRuns]

Init ==
    /\ head = [s \in Sites |-> "orig"] /\ rest = [s \in Sites |-> 0]
    /\ site = [i \in Entries |-> NoSite] /\ count = 0 /\ stubs = {}
    /\ arena = "none" /\ lock = None
    /\ pc = [t \in Threads |-> "run"] /\ at = [t \in Threads |-> None]
    /\ idx = [t \in Threads |-> 0] /\ seen = [t \in Threads |-> "orig"]
    /\ did = [t \in Threads |-> <<>>] /\ runs = [t \in Threads |-> 0]

Goto(t, where) == pc' = [pc EXCEPT ![t] = where]

-----------------------------------------------------------------------------
(* The site table.                                                          *)

\* site_at: the published entries being rewritten or rewritten at an address.
SiteAt(s) == {i \in 1..count : /\ site[i].rip = s
                               /\ site[i].state \in {"patching", "ready"}}

\* An entry found: the thread waits for it (await_ready) and then executes
\* its instruction again.
Found(t) == /\ SiteAt(at[t]) # {}
            /\ \E i \in SiteAt(at[t]) :
                   /\ \A j \in SiteAt(at[t]) : i <= j
                   /\ idx' = [idx EXCEPT ![t] = i]
            /\ Goto(t, "await")

\* Mutant: the thread that finds the entry steps over the instruction
AwaitStep(t) ==
    /\ pc[t] = "await" /\ site[idx[t]].state # "patching"
    /\ Goto(t, "step")
    /\ UNCHANGED <<text, table, lock, local>>

\* await_ready
Await(t) ==
    /\ pc[t] = "await" /\ site[idx[t]].state # "patching"
    /\ Goto(t, "fetch")
    /\ UNCHANGED <<text, table, lock, local>>

-----------------------------------------------------------------------------
(* The program.                                                             *)

\* The thread comes to an AVX-512 instruction.
Execute(t) ==
    /\ pc[t] = "run" /\ runs[t] < MaxRuns
    /\ \E s \in Sites : at' = [at EXCEPT ![t] = s]
    /\ did' = [did EXCEPT ![t] = <<>>]
    /\ runs' = [runs EXCEPT ![t] = @ + 1]
    /\ Goto(t, "fetch")
    /\ UNCHANGED <<text, table, lock, idx, seen>>

\* The processor fetches it: SIGILL, SIGTRAP, or a jump to a stub.
Fetch(t) ==
    /\ pc[t] = "fetch"
    /\ \/ /\ head[at[t]] = "orig" /\ Goto(t, "ill") /\ UNCHANGED idx
       \/ /\ head[at[t]] = "trap" /\ Goto(t, "trap") /\ UNCHANGED idx
       \/ /\ head[at[t]] = "jump"
          /\ idx' = [idx EXCEPT ![t] = rest[at[t]]]
          /\ Goto(t, IF rest[at[t]] \in stubs THEN "stub" ELSE "crashed")
    /\ UNCHANGED <<text, table, lock, at, seen, did, runs>>

\* phi512_patched: the entry is found from the return address, and its cached
\* instruction is performed; an empty entry returns and performs nothing.
Stub(t) ==
    /\ pc[t] = "stub"
    /\ did' = IF site[idx[t]].state = "empty" THEN did
              ELSE [did EXCEPT ![t] = Append(@, site[idx[t]].rip)]
    /\ Goto(t, "run")
    /\ UNCHANGED <<text, table, lock, at, idx, seen, runs>>

-----------------------------------------------------------------------------
(* on_sigill.                                                               *)

\* A fault can outlive the instruction that caused it.
SigIll(t) ==
    /\ pc[t] = "ill"
    /\ \/ Found(t)
       \/ SiteAt(at[t]) = {} /\ Goto(t, "read") /\ UNCHANGED idx
    /\ UNCHANGED <<text, table, lock, at, seen, did, runs>>

\* The bytes are decoded where they lie: the first is read before the others.
ReadHead(t) ==
    /\ pc[t] = "read"
    /\ seen' = [seen EXCEPT ![t] = head[at[t]]]
    /\ Goto(t, "decode")
    /\ UNCHANGED <<text, table, lock, at, idx, did, runs>>

\* decode_at and is_avx512.  An instruction's own first byte followed by a
\* jump's displacement may or may not read as an AVX-512 instruction.
Decode(t) ==
    /\ pc[t] = "decode"
    /\ \/ /\ seen[t] = "orig" /\ rest[at[t]] = 0
          /\ at[t] \in Unsupported /\ Goto(t, "refused")
       \/ /\ seen[t] = "orig" /\ rest[at[t]] = 0
          /\ at[t] \notin Unsupported /\ Goto(t, "perform")
       \/ /\ seen[t] # "orig" \/ rest[at[t]] # 0
          /\ \E where \in {"recheck"} \cup
                (IF seen[t] = "orig" /\ "torn" \in Faults
                 THEN {"perform"} ELSE {}) : Goto(t, where)
    /\ seen' = IF pc'[t] = "perform" /\ rest[at[t]] # 0
               THEN [seen EXCEPT ![t] = Other] ELSE seen
    /\ UNCHANGED <<text, table, lock, at, idx, did, runs>>

\* Mutant: the second look at the table before giving up is left out
RecheckOnce(t) ==
    /\ pc[t] = "recheck"
    /\ Goto(t, "killed")
    /\ UNCHANGED <<text, table, lock, local>>

\* Not AVX-512: look again before giving up.
Recheck(t) ==
    /\ pc[t] = "recheck"
    /\ \/ Found(t)
       \/ SiteAt(at[t]) = {} /\ Goto(t, "killed") /\ UNCHANGED idx
    /\ UNCHANGED <<text, table, lock, at, seen, did, runs>>

\* emulate::step
Perform(t) ==
    /\ pc[t] = "perform"
    /\ did' = [did EXCEPT ![t] =
                  Append(@, IF seen[t] = Other THEN Other ELSE at[t])]
    /\ Goto(t, "try")
    /\ UNCHANGED <<text, table, lock, at, idx, seen, runs>>

\* Step over the instruction: rip becomes the next one's.
Step(t) ==
    /\ pc[t] = "step"
    /\ idx' = [idx EXCEPT ![t] = 0] /\ seen' = [seen EXCEPT ![t] = "orig"]
    /\ Goto(t, "run")
    /\ UNCHANGED <<text, table, lock, at, did, runs>>

\* on_sigtrap: a breakpoint of a rewrite in progress, or somebody else's.
SigTrap(t) ==
    /\ pc[t] = "trap"
    /\ \/ Found(t)
       \/ SiteAt(at[t]) = {} /\ Goto(t, "killed") /\ UNCHANGED idx
    /\ UNCHANGED <<text, table, lock, at, seen, did, runs>>

-----------------------------------------------------------------------------
(* try_patch and patch_locked.                                              *)

\* Too short, or another thread is rewriting: the site keeps faulting.
TryPatch(t) ==
    /\ pc[t] = "try"
    /\ \/ /\ at[t] \in Short \/ lock # None
          /\ Goto(t, "step") /\ UNCHANGED lock
       \/ /\ at[t] \notin Short /\ lock = None
          /\ lock' = t /\ Goto(t, "locked")
    /\ UNCHANGED <<text, table, local>>

\* ensure_arena: mapped once, and not asked for again once refused.
EnsureArena ==
    \/ arena # "none" /\ UNCHANGED arena
    \/ arena = "none" /\ arena' = "made"
    \/ arena = "none" /\ "mmap" \in Faults /\ arena' = "failed"

\* Mutant: the entry is not looked for again under the lock
PatchLockedBlind(t) ==
    /\ pc[t] = "locked"
    /\ EnsureArena
    /\ IF arena' = "failed" \/ count = MaxSites \/ at[t] \in Far
       THEN Goto(t, "unlock") /\ UNCHANGED <<site, idx>>
       ELSE /\ site' = [site EXCEPT ![count + 1] =
                           [rip |-> at[t], state |-> "patching"]]
            /\ idx' = [idx EXCEPT ![t] = count + 1]
            /\ Goto(t, "publish")
    /\ UNCHANGED <<text, count, stubs, lock, at, seen, did, runs>>

\* Re-check under the lock, then fill the next entry.
PatchLocked(t) ==
    /\ pc[t] = "locked"
    /\ \/ /\ SiteAt(at[t]) # {}
          /\ Goto(t, "unlock") /\ UNCHANGED <<arena, site, idx>>
       \/ /\ SiteAt(at[t]) = {} /\ EnsureArena
          /\ \/ arena' = "failed" \/ count = MaxSites \/ at[t] \in Far
          /\ Goto(t, "unlock") /\ UNCHANGED <<site, idx>>
       \/ /\ SiteAt(at[t]) = {} /\ EnsureArena
          /\ arena' = "made" /\ count < MaxSites /\ at[t] \notin Far
          /\ site' = [site EXCEPT ![count + 1] =
                         [rip |-> at[t], state |-> "patching"]]
          /\ idx' = [idx EXCEPT ![t] = count + 1]
          /\ Goto(t, "publish")
    /\ UNCHANGED <<text, count, stubs, lock, at, seen, did, runs>>

\* The entry is findable before the breakpoint goes in.
Publish(t) ==
    /\ pc[t] = "publish"
    /\ count' = idx[t]
    /\ Goto(t, "stubbing")
    /\ UNCHANGED <<text, site, stubs, arena, lock, local>>

\* build_stub and its copy into the arena
BuildStub(t) ==
    /\ pc[t] = "stubbing"
    /\ stubs' = stubs \cup {idx[t]}
    /\ Goto(t, "unprotect")
    /\ UNCHANGED <<text, site, count, arena, lock, local>>

\* Mutant: the entry stays "patching" when the text cannot be made writable
UnprotectLeft(t) ==
    /\ pc[t] = "unprotect"
    /\ \/ Goto(t, "w1")
       \/ "mprotect" \in Faults /\ Goto(t, "unlock")
    /\ UNCHANGED <<text, table, lock, local>>

\* The text becomes writable, or the entry is given up.
Unprotect(t) ==
    /\ pc[t] = "unprotect"
    /\ \/ Goto(t, "w1") /\ UNCHANGED site
       \/ /\ "mprotect" \in Faults
          /\ site' = [site EXCEPT ![idx[t]].state = "failed"]
          /\ Goto(t, "unlock")
    /\ UNCHANGED <<text, count, stubs, arena, lock, local>>

\* The first byte becomes a breakpoint,
WriteTrap(t) ==
    /\ pc[t] = "w1"
    /\ head' = [head EXCEPT ![at[t]] = "trap"]
    /\ Goto(t, "w2")
    /\ UNCHANGED <<rest, table, lock, local>>

\* then the displacement and the no-ops are written,
WriteRest(t) ==
    /\ pc[t] = "w2"
    /\ rest' = [rest EXCEPT ![at[t]] = idx[t]]
    /\ Goto(t, "w3")
    /\ UNCHANGED <<head, table, lock, local>>

\* then the first byte becomes the jump.
WriteJump(t) ==
    /\ pc[t] = "w3"
    /\ head' = [head EXCEPT ![at[t]] = "jump"]
    /\ Goto(t, "ready")
    /\ UNCHANGED <<rest, table, lock, local>>

\* reprotect, and those who wait go on.
Ready(t) ==
    /\ pc[t] = "ready"
    /\ site' = [site EXCEPT ![idx[t]].state = "ready"]
    /\ Goto(t, "unlock")
    /\ UNCHANGED <<text, count, stubs, arena, lock, local>>

Unlock(t) ==
    /\ pc[t] = "unlock"
    /\ lock' = None
    /\ Goto(t, "step")
    /\ UNCHANGED <<text, table, local>>

-----------------------------------------------------------------------------
Thread(t) ==
    \/ Execute(t) \/ Fetch(t) \/ Stub(t)
    \/ SigIll(t) \/ ReadHead(t) \/ Decode(t) \/ Recheck(t) \/ Perform(t)
    \/ Step(t) \/ SigTrap(t) \/ Await(t)
    \/ TryPatch(t) \/ PatchLocked(t) \/ Publish(t) \/ BuildStub(t)
    \/ Unprotect(t) \/ WriteTrap(t) \/ WriteRest(t) \/ WriteJump(t)
    \/ Ready(t) \/ Unlock(t)

Next == \E t \in Threads : Thread(t)

\* The kernel runs every thread that can run.
Fairness == \A t \in Threads : WF_vars(Thread(t))

Spec == Init /\ [][Next]_vars /\ Fairness

-----------------------------------------------------------------------------
(* Properties.                                                              *)

\* When a thread has left an instruction, that instruction, and no other, was
\* performed for it, once: in the handler, or through the stub, whichever of
\* the two it was sent to, and however often it was sent back.
Performed ==
    \A t \in Threads :
        pc[t] = "run" => did[t] = IF at[t] = None THEN <<>> ELSE <<at[t]>>

\* No thread dies of a rewrite: a fault whose bytes have changed is not taken
\* for somebody else's, nor is a breakpoint of this library, and a jump never
\* leads to a place without a stub.
Survives == \A t \in Threads : pc[t] \notin {"killed", "crashed"}

\* The table names each address at most once among its live entries, and a
\* site that jumps leads to a finished stub of its own live entry.
JumpsHome ==
    /\ \A i, j \in 1..count :
          /\ site[i].state \in {"patching", "ready"}
          /\ site[j].state \in {"patching", "ready"}
          /\ site[i].rip = site[j].rip
          => i = j
    /\ \A s \in Sites : head[s] = "jump" =>
          /\ rest[s] \in stubs /\ rest[s] \in SiteAt(s)

\* A thread that meets an AVX-512 instruction gets past it (or is refused an
\* instruction the emulator does not know): no wait on an entry is for ever.
GetsPast ==
    \A t \in Threads : pc[t] # "run" ~> pc[t] \in {"run", "refused"}

\* patch.rs: "Rewriting is rare, once per site for the life of the process".
\* Every entry of the table is another instruction's.
OncePerSite ==
    \A i, j \in 1..count : site[i].rip = site[j].rip => i = j
=============================================================================
