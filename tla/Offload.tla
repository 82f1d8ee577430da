------------------------------ MODULE Offload ------------------------------
(***************************************************************************)
(* A region of the program run on the card in phases: offload.rs in the    *)
(* program (run, dispatch, submit, wait_serving, apply_pages) against the  *)
(* card's engine (card/vpu/exec.S), through the control words, the mailbox *)
(* and the two pairs of slots of the window.                               *)
(*                                                                         *)
(* A page is one cache line holding two bytes: "r", which the region (and  *)
(* between regions the thread that runs it) uses, and "o", which another   *)
(* thread of the program writes while the region is away.  A phase is the  *)
(* list of accesses its code makes, the mode the planner chose for it and  *)
(* the ranges it declared (how those are found is module Plan's subject).  *)
(* `acc' stands for the register file.  One thread runs a phase here; the  *)
(* slices of a split loop are in Plan.                                     *)
(***************************************************************************)
EXTENDS Integers, Sequences, FiniteSets, Functions

CONSTANTS LastPage,     \* the program's pages are 0 .. LastPage
          Mapped,       \* those in a readable, writable mapping
          Stored,       \* those the program's own code stores to
          Shared,       \* those with bytes of another thread in the line
          ChunkPages,   \* pages in a chunk (EXEC_CHUNK)
          Regions,      \* the regions the program may reach
          WbMax,        \* pages a write-back slot carries (WB_MAX_PAGES)
          Shadows,      \* snapshots the card has room for (SHADOWS)
          MaxRuns,      \* bound: regions run
          MaxStores,    \* bound: stores between regions
          MaxOthers,    \* bound: stores of the other thread
          MaxProcs,     \* bound: processes, one after the other
          Faults        \* what may happen, see below

ASSUME OffloadAssumption ==
    /\ LastPage \in Nat /\ Mapped \subseteq 0 .. LastPage
    /\ Stored \subseteq Mapped /\ Shared \subseteq Mapped
    /\ {ChunkPages, WbMax, Shadows} \subseteq Nat \ {0}
    /\ {MaxRuns, MaxStores, MaxOthers, MaxProcs} \subseteq Nat
    /\ Faults \subseteq {"die", "pull", "push", "restart", "stuck"}

(* "die": the process is killed or gives up; "pull", "push": the card's    *)
(* copy from or to the window fails; "restart": the worker is started      *)
(* again while idle, "stuck": also while it waits for a dead process.      *)
Outcomes(fault) == IF fault \in Faults THEN BOOLEAN ELSE {TRUE}

VARIABLES
    prog,       \* the program's memory
    acc,        \* its registers
    hpc,        \* where offload.rs is
    region, k,  \* the region running and its phase
    mode,       \* the mode the phase is submitted in
    stash,      \* STASH: the pages sent, as sent
    ahead,      \* the piece copied before it was asked for
    mail,       \* the mail being served, as it was read
    proc,       \* the process (Card.session)
    win,        \* the window: ready, req, reply, mail, fetch and wb slots
    card,       \* the worker and its engine
    chunks,     \* g_chunks: the chunks mapped on the card
    ref, racc,  \* history: what the phases finished so far amount to
    count       \* history: runs, stores and stores of the other thread

host == <<prog, acc, hpc, region, k, mode, stash, ahead, mail, proc>>
vars == <<prog, acc, hpc, region, k, mode, stash, ahead, mail, proc, win,
          card, chunks, ref, racc, count>>

Values == 0 .. 3
Pages == 0 .. LastPage
Cells == [r : Values, o : Values]
Bump(v) == (v + 1) % 4
NoPages == [p \in {} |-> [r |-> 0, o |-> 0]]

NoMail ==
    [seq |-> 0, ack |-> 0, status |-> 0, kind |-> "fetch", pages |-> {},
     slot |-> 0]

ChunkOf(p) == p \div ChunkPages
PagesOf(c) == {p \in Pages : ChunkOf(p) = c}
CodeChunk == 0

\* A range of pages a phase declares, and an access its code makes.
DeclaredRange == [lo : Pages, hi : Pages, write : BOOLEAN, dense : BOOLEAN]
CodeAccess == [kind : {"load", "store", "update", "stray"}, page : Pages]

\* A region is a sequence of phases, not empty.
ASSUME RegionsAssumption ==
    \A r \in Regions :
        /\ r # <<>>
        /\ r \in Seq([role : {"region", "prologue", "loop", "epilogue"},
                      mode : {"ranges", "demand"},
                      ranges : Seq(DeclaredRange), ops : Seq(CodeAccess),
                      leaves : BOOLEAN])
        /\ \A i \in DOMAIN r : \A j \in DOMAIN r[i].ranges :
              r[i].ranges[j].lo <= r[i].ranges[j].hi

Lowest(S) == CHOOSE p \in S : \A q \in S : p <= q
Highest(S) == CHOOSE p \in S : \A q \in S : q <= p

\* What one access does to <<memory, registers>>.
Access(op, m, a) ==
    CASE op.kind = "load" -> <<m, m[op.page].r>>
      [] op.kind = "store" -> <<[m EXCEPT ![op.page].r = Bump(a)], a>>
      [] op.kind = "update" -> <<[m EXCEPT ![op.page].r = Bump(@)], a>>
      [] OTHER -> <<m, a>>

\* A phase's accesses, one after the other, on the program's own memory.
Sequential(ops, m, a) ==
    LET after[i \in 0 .. Len(ops)] ==
            IF i = 0 THEN <<m, a>>
            ELSE LET s == after[i - 1] IN Access(ops[i], s[1], s[2])
    IN  after[Len(ops)]

-----------------------------------------------------------------------------
(* The program: run, dispatch and submit.                                  *)

Phase == region[k]
Final == Phase.role \in {"region", "epilogue"} \/ k = Len(region)

\* A process as it starts: its own memory and a session nobody had before.
Fresh(s) == [p \in Pages |-> [r |-> (p + s) % 4, o |-> 0]]

\* The program's own code stores to its memory between two regions.
Store(p) ==
    /\ hpc = "idle" /\ count.stores < MaxStores
    /\ prog' = [prog EXCEPT ![p].r = Bump(@)]
    /\ ref' = [ref EXCEPT ![p].r = Bump(@)]
    /\ count' = [count EXCEPT !.stores = @ + 1]
    /\ UNCHANGED <<acc, hpc, region, k, mode, stash, ahead, mail, proc, win,
                   card, chunks, racc>>

\* Another thread of the program stores beside what the region uses.
OtherStore(p) ==
    /\ hpc \in {"submit", "wait", "prefetch", "apply"}
    /\ count.others < MaxOthers
    /\ prog' = [prog EXCEPT ![p].o = Bump(@)]
    /\ ref' = [ref EXCEPT ![p].o = Bump(@)]
    /\ count' = [count EXCEPT !.others = @ + 1]
    /\ UNCHANGED <<acc, hpc, region, k, mode, stash, ahead, mail, proc, win,
                   card, chunks, racc>>

\* run: the lock taken, the maps read, the stash emptied.
Run(r) ==
    /\ hpc = "idle" /\ count.runs < MaxRuns
    /\ region' = r /\ k' = 1 /\ mode' = r[1].mode
    /\ stash' = NoPages /\ hpc' = "submit"
    /\ count' = [count EXCEPT !.runs = @ + 1]
    /\ UNCHANGED <<prog, acc, ahead, mail, proc, win, card, chunks, ref,
                   racc>>

\* dispatch and submit: the descriptor, then the sequence number.
Submit ==
    /\ hpc = "submit"
    /\ win' = [win EXCEPT
         !.req = [seq |-> @.seq + 1, session |-> proc, first |-> k = 1,
                  final |-> Final, mode |-> mode, acc |-> acc,
                  ops |-> Phase.ops,
                  ranges |-> IF mode = "ranges" THEN Phase.ranges ELSE <<>>]]
    /\ hpc' = "wait" /\ ahead' = <<>>
    /\ UNCHANGED <<prog, acc, region, k, mode, stash, mail, proc, card,
                   chunks, ref, racc, count>>

Unanswered == win.reply.seq # win.req.seq
MailWaits == hpc = "wait" /\ Unanswered /\ win.mail.seq # win.mail.ack

\* copy_out_to: the mapped pages, zero elsewhere.
CopyOut(S) ==
    [p \in S |-> IF p \in Mapped THEN prog[p] ELSE [r |-> 0, o |-> 0]]

\* Not in the code: a page that cannot be read is left unanswered.
AckedRead(m, status) ==
    IF status = 0 THEN [m EXCEPT !.ack = m.seq] ELSE m

Acked(m, status) == [m EXCEPT !.ack = m.seq, !.status = status]

\* f, and g where f is not defined.
Over(f, g) ==
    [p \in DOMAIN f \cup DOMAIN g |-> IF p \in DOMAIN f THEN f[p] ELSE g[p]]

\* A fetch: the piece copied ahead or copied now, kept in the stash, then
\* acknowledged.
ServeFetch ==
    LET m == win.mail
        there == ahead = <<m.pages, m.slot>>
        data == IF there THEN win.fetch[m.slot] ELSE CopyOut(m.pages)
        ok == there \/ m.pages \cap Mapped # {}
    IN  /\ MailWaits /\ m.kind = "fetch"
        /\ win' = [win EXCEPT !.fetch[m.slot] = data,
                              !.mail = Acked(@, IF ok THEN 0 ELSE 1)]
        /\ stash' = IF ok THEN Over(data, stash) ELSE stash
        /\ ahead' = <<>> /\ mail' = m
        /\ hpc' = "prefetch"
        /\ UNCHANGED <<prog, acc, region, k, mode, proc, card, chunks,
                       ref, racc, count>>

\* The next piece of the same range, into the other slot.
NextPiece(r, m) ==
    LET at == Highest(m.pages) + 1
    IN  {p \in PagesOf(ChunkOf(at)) : p >= at /\ p <= r.hi}

PrefetchSlot(m) == 1 - m.slot

Prefetch ==
    LET m == mail
        of == {i \in DOMAIN win.req.ranges :
                 Lowest(m.pages) \in win.req.ranges[i].lo ..
                                     win.req.ranges[i].hi}
        r == win.req.ranges[Lowest(of)]
        piece == NextPiece(r, m)
    IN  /\ hpc = "prefetch"
        /\ hpc' = "wait" /\ mail' = NoMail
        /\ IF /\ of # {} /\ ~r.dense
              /\ 2 * Cardinality(m.pages) >= ChunkPages /\ piece # {}
           THEN /\ win' = [win EXCEPT !.fetch[PrefetchSlot(m)] =
                                         CopyOut(piece)]
                /\ ahead' = <<piece, PrefetchSlot(m)>>
           ELSE UNCHANGED <<win, ahead>>
        /\ UNCHANGED <<prog, acc, region, k, mode, stash, proc, card,
                       chunks, ref, racc, count>>

\* A write-back is acknowledged on receipt and applied after.
ServeWriteback ==
    /\ MailWaits /\ win.mail.kind = "writeback"
    /\ win' = [win EXCEPT !.mail = Acked(@, 0)]
    /\ hpc' = "apply" /\ mail' = win.mail
    /\ UNCHANGED <<prog, acc, region, k, mode, stash, ahead, proc, card,
                   chunks, ref, racc, count>>

\* Not in the code: lines go back whole.
MergedLines(p, new) == new

\* A page of a write-back: with the page as it was sent, the bytes the card
\* changed; without it, the whole line.
Merged(p, new) ==
    IF p \notin DOMAIN stash THEN new
    ELSE [b \in {"r", "o"} |->
            IF new[b] # stash[p][b] THEN new[b] ELSE prog[p][b]]

\* apply_pages: the slot named by the mail just acknowledged.
Apply ==
    LET slot == win.wb[mail.slot]
        back == {p \in DOMAIN slot : p \in Mapped}
    IN  /\ hpc = "apply"
        /\ prog' = [p \in Pages |-> IF p \in back THEN Merged(p, slot[p])
                                                  ELSE prog[p]]
        /\ stash' = [p \in DOMAIN stash |-> IF p \in back THEN slot[p]
                                                          ELSE stash[p]]
        /\ hpc' = "wait" /\ mail' = NoMail
        /\ UNCHANGED <<acc, region, k, mode, ahead, proc, win, card,
                       chunks, ref, racc, count>>

\* The reply of a phase that left: the next phase, or the end of the region.
AcceptLeft ==
    LET done == Sequential(Phase.ops, ref, racc)
    IN  /\ hpc = "wait" /\ ~Unanswered /\ win.reply.kind = "left"
        /\ acc' = win.reply.acc
        /\ ref' = done[1] /\ racc' = done[2]
        /\ IF Final \/ Phase.leaves
           THEN hpc' = "idle" /\ UNCHANGED <<k, mode>>
           ELSE hpc' = "submit" /\ k' = k + 1 /\ mode' = region[k + 1].mode
        /\ UNCHANGED <<prog, region, stash, ahead, mail, proc, win, card,
                       chunks, count>>

\* An access or an exit the planner did not foresee: the phase again, with
\* the card paging memory in.
Retry ==
    /\ hpc = "wait" /\ ~Unanswered
    /\ win.reply.kind \in {"fault", "split"} /\ mode = "ranges"
    /\ mode' = "demand" /\ hpc' = "submit"
    /\ UNCHANGED <<prog, acc, region, k, stash, ahead, mail, proc, win, card,
                   chunks, ref, racc, count>>

\* Any other failure ends the program with a message.
Refused ==
    /\ hpc = "wait" /\ ~Unanswered /\ win.reply.kind # "left"
    /\ ~(win.reply.kind \in {"fault", "split"} /\ mode = "ranges")
    /\ hpc' = "dead"
    /\ UNCHANGED <<prog, acc, region, k, mode, stash, ahead, mail, proc, win,
                   card, chunks, ref, racc, count>>

\* The process is killed, or gives up after 60 s, whatever the card does.
Die ==
    /\ "die" \in Faults /\ proc < MaxProcs
    /\ hpc \in {"idle", "submit", "wait", "prefetch", "apply"}
    /\ hpc' = "dead"
    /\ UNCHANGED <<prog, acc, region, k, mode, stash, ahead, mail, proc, win,
                   card, chunks, ref, racc, count>>

\* Not in the code: the readiness word is read as it was found.
LoadTrusting ==
    /\ hpc = "dead" /\ proc < MaxProcs
    /\ proc' = proc + 1
    /\ prog' = Fresh(proc + 1) /\ ref' = Fresh(proc + 1)
    /\ acc' = 0 /\ racc' = 0
    /\ stash' = NoPages /\ ahead' = <<>> /\ mail' = NoMail
    /\ hpc' = "init"
    /\ UNCHANGED <<win, region, k, mode, card, chunks, count>>

\* The next process loads: init opens the window and clears the readiness
\* word.
Load ==
    /\ hpc = "dead" /\ proc < MaxProcs
    /\ proc' = proc + 1
    /\ prog' = Fresh(proc + 1) /\ ref' = Fresh(proc + 1)
    /\ acc' = 0 /\ racc' = 0
    /\ stash' = NoPages /\ ahead' = <<>> /\ mail' = NoMail
    /\ hpc' = "init"
    /\ win' = [win EXCEPT !.ready = FALSE]
    /\ UNCHANGED <<region, k, mode, card, chunks, count>>

\* wait_ready: the word is back.
PassReady ==
    /\ hpc = "init" /\ win.ready
    /\ hpc' = "idle"
    /\ UNCHANGED <<prog, acc, region, k, mode, stash, ahead, mail, proc, win,
                   card, chunks, ref, racc, count>>

\* Two seconds pass without it: this process has no card.
GiveUp ==
    /\ hpc = "init" /\ ~win.ready
    /\ hpc' = "dead"
    /\ UNCHANGED <<prog, acc, region, k, mode, stash, ahead, mail, proc, win,
                   card, chunks, ref, racc, count>>

-----------------------------------------------------------------------------
(* The card's engine.  `card.pc' is "idle", "ranges" (fetching what was    *)
(* declared), "run", "back" (writing back), "done", or "fetch"/"flush"     *)
(* while a mail of that kind waits for its answer.                         *)

AfterFetch(m) == IF m = "ranges" THEN "ranges" ELSE "run"

cardUnchanged == UNCHANGED <<host, ref, racc, count>>

Mail(kind, pages, slot) ==
    [seq |-> card.mails + 1, ack |-> win.mail.ack, status |-> 0,
     kind |-> kind, pages |-> pages, slot |-> slot]

\* new_chunk: 4 KiB pages, closed until fetched, or a huge page.
NewChunk(c, fourk) ==
    [fourk |-> fourk, writable |-> ~fourk, filled |-> {},
     dirty |-> FALSE, shadow |-> NoPages,
     mem |-> [p \in PagesOf(c) |-> [r |-> 0, o |-> 0]]]

\* The chunk's own, when it is mapped already.
WithChunk(ch, c, fourk) ==
    [x \in DOMAIN ch \cup {c} |->
        IF x \in DOMAIN ch THEN ch[x] ELSE NewChunk(x, fourk)]

\* end_region: chunks filled by demand faults are unmapped, the others stay
\* with their pages closed.
EndRegion(ch) ==
    [c \in {x \in DOMAIN ch : ch[x].fourk} |->
        [ch[c] EXCEPT !.filled = {}, !.dirty = FALSE, !.shadow = NoPages]]

\* A phase in demand mode starts with the demand-filled chunks alone.
Purge(ch) == Restrict(ch, {c \in DOMAIN ch : ~ch[c].fourk})

\* main_loop polls and keeps the readiness word up.
Poll ==
    /\ card.pc = "idle" /\ win.req.seq = card.last /\ ~win.ready
    /\ win' = [win EXCEPT !.ready = TRUE]
    /\ UNCHANGED <<card, chunks>> /\ cardUnchanged

\* vpu_exec_run up to the ranges: another program's chunks go, so do an
\* earlier region's; then the code chunk, whole in demand mode.  The bundle's
\* instruction pages, which the card then lays over that chunk and over the
\* thunk area, are desc.ops here: their pages hold text only, and no access
\* of a phase is to one of them.
Take ==
    LET d == win.req
        mine == IF d.session = card.session THEN chunks ELSE <<>>
        kept == IF d.first THEN EndRegion(mine) ELSE mine
        left == IF d.mode = "demand" THEN Purge(kept) ELSE kept
        code == CodeChunk \in DOMAIN left
        fetch == d.mode = "demand" /\ ~code
    IN  /\ card.pc = "idle" /\ d.seq # card.last
        /\ chunks' = IF code
                     THEN [left EXCEPT ![CodeChunk].writable =
                             d.mode = "ranges" \/ left[CodeChunk].dirty]
                     ELSE WithChunk(left, CodeChunk, d.mode = "ranges")
        /\ card' = [card EXCEPT
             !.last = d.seq, !.session = d.session, !.desc = d,
             !.acc = d.acc, !.op = 1, !.range = 1, !.at = -1,
             !.kind = "left", !.out = <<>>,
             !.pc = IF fetch THEN "fetch" ELSE AfterFetch(d.mode),
             !.mails = IF fetch THEN @ + 1 ELSE @]
        /\ win' = IF fetch
                  THEN [win EXCEPT !.mail = Mail("fetch", PagesOf(CodeChunk),
                                                 card.fslot)]
                  ELSE win
        /\ cardUnchanged

\* fetch_pages: the first run of pages not fetched yet, of those wanted.
FirstRun(want, filled) ==
    LET lo == Lowest(want \ filled)
    IN  {p \in want \ filled : p >= lo /\ lo .. p \subseteq want \ filled}

\* One step of the walk over the declared ranges: the next piece (a range
\* within a chunk) is mapped, made writable, and what it needs is asked for.
FetchRanges ==
    LET r == card.desc.ranges[card.range]
        at == IF card.at = -1 THEN r.lo ELSE card.at
        c == ChunkOf(at)
        piece == {p \in PagesOf(c) : p >= at /\ p <= r.hi}
        ch == WithChunk(chunks, c, TRUE)
        open == [ch EXCEPT ![c].writable = TRUE]
        ends == {Lowest(piece), Highest(piece)}
        want == (IF r.dense THEN ends ELSE piece) \ ch[c].filled
        run == IF r.dense THEN {Lowest(want)} ELSE FirstRun(want, {})
    IN  /\ card.pc = "ranges" /\ card.range <= Len(card.desc.ranges)
        /\ IF want # {}
           THEN /\ win' = [win EXCEPT !.mail = Mail("fetch", run,
                                                    card.fslot)]
                /\ chunks' = open
                /\ card' = [card EXCEPT !.pc = "fetch", !.mails = @ + 1,
                                        !.at = at]
           ELSE /\ chunks' = [open EXCEPT ![c].filled = @ \cup piece]
                /\ card' = IF Highest(piece) = r.hi
                           THEN [card EXCEPT !.range = @ + 1, !.at = -1]
                           ELSE [card EXCEPT !.at = Highest(piece) + 1]
                /\ UNCHANGED win
        /\ cardUnchanged

Fetched ==
    /\ card.pc = "ranges" /\ card.range > Len(card.desc.ranges)
    /\ card' = [card EXCEPT !.pc = "run"]
    /\ UNCHANGED <<win, chunks>> /\ cardUnchanged

\* The answer to a fetch: the slot pulled into the chunk's pages.  A chunk
\* fetched on demand is whole and read-only.
NextFetchSlot == 1 - card.fslot

\* A slot holds bytes: a mail taken for answered before it was reads, at the
\* same places, what an earlier copy left.
FromSlot(slot, pages, p) ==
    LET q == Lowest(DOMAIN slot) + p - Lowest(pages)
    IN  IF q \in DOMAIN slot THEN slot[q] ELSE [r |-> 0, o |-> 0]

Pull(ok) ==
    LET m == win.mail
        c == ChunkOf(Lowest(m.pages))
        demand == card.desc.mode = "demand"
    IN  /\ card.pc = "fetch" /\ m.ack = card.mails
        /\ IF m.status = 0 /\ ok
           THEN /\ chunks' = [chunks EXCEPT
                     ![c].mem = [p \in DOMAIN @ |->
                                   IF p \in m.pages
                                   THEN FromSlot(win.fetch[m.slot],
                                                 m.pages, p)
                                   ELSE @[p]],
                     ![c].filled = @ \cup m.pages,
                     ![c].writable = ~demand]
                /\ card' = [card EXCEPT !.fslot = NextFetchSlot,
                                        !.pc = AfterFetch(card.desc.mode)]
           ELSE /\ card' = [card EXCEPT !.fslot = NextFetchSlot,
                                        !.kind = "fault", !.pc = "done"]
                /\ UNCHANGED chunks
        /\ UNCHANGED win /\ cardUnchanged

Op == card.desc.ops[card.op]
Running == card.pc = "run" /\ card.op <= Len(card.desc.ops)
Leave(kind) == card' = [card EXCEPT !.kind = kind, !.pc = "done"]

\* Whether the access goes through without a fault.
Goes ==
    LET c == ChunkOf(Op.page)
    IN  /\ Op.kind # "stray" /\ c \in DOMAIN chunks
        /\ IF chunks[c].fourk THEN Op.page \in chunks[c].filled
           ELSE Op.kind = "load" \/ chunks[c].writable

Execute ==
    LET c == ChunkOf(Op.page)
        s == Access(Op, chunks[c].mem, card.acc)
    IN  /\ Running /\ Goes
        /\ card' = [card EXCEPT !.op = @ + 1, !.acc = s[2]]
        /\ chunks' = [chunks EXCEPT ![c].mem = s[1]]
        /\ UNCHANGED win /\ cardUnchanged

\* Where a slice of a split loop would leave, one thread goes on.
GoesOn ==
    /\ Running /\ Op.kind = "stray" /\ card.desc.mode = "demand"
    /\ card' = [card EXCEPT !.op = @ + 1]
    /\ UNCHANGED <<win, chunks>> /\ cardUnchanged

\* on_segv in demand mode: an unmapped chunk is asked for whole.
FaultUnmapped ==
    LET c == ChunkOf(Op.page)
    IN  /\ Running /\ ~Goes /\ Op.kind # "stray"
        /\ card.desc.mode = "demand"
        /\ c \notin DOMAIN chunks
        /\ chunks' = WithChunk(chunks, c, FALSE)
        /\ win' = [win EXCEPT !.mail = Mail("fetch", PagesOf(c), card.fslot)]
        /\ card' = [card EXCEPT !.pc = "fetch", !.mails = @ + 1]
        /\ cardUnchanged

\* A first write keeps what the chunk held, while there is room for it.
FaultWrite ==
    LET c == ChunkOf(Op.page)
        used == Cardinality({x \in DOMAIN chunks : chunks[x].dirty})
    IN  /\ Running /\ ~Goes /\ Op.kind # "stray"
        /\ card.desc.mode = "demand"
        /\ c \in DOMAIN chunks
        /\ IF used < Shadows
           THEN /\ chunks' = [chunks EXCEPT ![c].shadow = chunks[c].mem,
                                            ![c].dirty = TRUE,
                                            ![c].writable = TRUE]
                /\ UNCHANGED card
           ELSE Leave("limit") /\ UNCHANGED chunks
        /\ UNCHANGED win /\ cardUnchanged

\* In ranges mode an access that was not declared, or a slice that left the
\* loop by another way, ends the phase.
FaultRanges ==
    /\ Running /\ ~Goes /\ card.desc.mode = "ranges"
    /\ Leave(IF Op.kind = "stray" THEN "split" ELSE "fault")
    /\ UNCHANGED <<win, chunks>> /\ cardUnchanged

\* The pages a phase sends back, in order: the declared written ranges, or
\* what differs from the snapshots.
Changed ==
    IF card.desc.mode = "ranges"
    THEN {p \in Pages : \E i \in DOMAIN card.desc.ranges :
            LET r == card.desc.ranges[i]
            IN  r.write /\ p \in r.lo .. r.hi}
    ELSE {p \in Pages : /\ ChunkOf(p) \in DOMAIN chunks
                        /\ LET c == chunks[ChunkOf(p)]
                           IN  c.dirty /\ c.mem[p] # c.shadow[p]}

Ascending(S) ==
    LET n[i \in 0 .. Cardinality(S)] ==
            IF i = 0 THEN S ELSE n[i - 1] \ {Lowest(n[i - 1])}
    IN  [i \in 1 .. Cardinality(S) |-> Lowest(n[i - 1])]

\* The phase's code left the region cleanly.
Left ==
    /\ card.pc = "run" /\ card.op > Len(card.desc.ops)
    /\ card' = [card EXCEPT !.pc = "back", !.out = Ascending(Changed)]
    /\ UNCHANGED <<win, chunks>> /\ cardUnchanged

Staged == [i \in {j \in DOMAIN card.out : j <= WbMax} |-> card.out[i]]
Batch == Range(Staged)

\* stage_flush: a slot written and the host told.  When the push fails the
\* phase counts as faulted, and the pages staged are tried once more.
Flush(ok) ==
    /\ card.pc = "back" /\ card.out # <<>>
    /\ IF ok
       THEN /\ win' = [win EXCEPT
                 !.wb[card.wslot] = [p \in Batch |->
                                       chunks[ChunkOf(p)].mem[p]],
                 !.mail = Mail("writeback", Batch, card.wslot)]
            /\ card' = [card EXCEPT !.pc = "flush", !.mails = @ + 1]
       ELSE /\ card' = [card EXCEPT
                 !.kind = "fault",
                 !.out = IF card.kind = "left" THEN Staged ELSE <<>>]
            /\ UNCHANGED win
    /\ UNCHANGED chunks /\ cardUnchanged

\* Not in the code: one slot.
SameWbSlot == card.wslot

NextWbSlot == 1 - card.wslot

Flushed ==
    /\ card.pc = "flush" /\ win.mail.ack = card.mails
    /\ card' = [card EXCEPT
         !.pc = "back", !.wslot = NextWbSlot,
         !.out = SubSeq(@, WbMax + 1, Len(@))]
    /\ UNCHANGED <<win, chunks>> /\ cardUnchanged

\* The snapshots are stale once sent: the chunks are read-only again.
Settled(ch) ==
    [c \in DOMAIN ch |->
       IF ch[c].dirty THEN [ch[c] EXCEPT !.dirty = FALSE, !.writable = FALSE,
                                         !.shadow = NoPages]
                      ELSE ch[c]]

\* The end of the phase: the region's chunks go with its last phase or with
\* a failure; the descriptor and the reply, the sequence number last.
Reply ==
    LET ch == IF card.kind = "left" /\ card.desc.mode = "demand"
              THEN Settled(chunks) ELSE chunks
    IN  /\ \/ card.pc = "back" /\ card.out = <<>>
           \/ card.pc = "done"
        /\ chunks' = IF card.desc.final \/ card.kind # "left"
                     THEN EndRegion(ch) ELSE ch
        /\ win' = [win EXCEPT !.reply = [seq |-> card.last,
                                         kind |-> card.kind,
                                         acc |-> card.acc]]
        /\ card' = [card EXCEPT !.pc = "idle"]
        /\ cardUnchanged

NoRequest == [seq |-> 0, session |-> 0, first |-> FALSE, final |-> FALSE,
              mode |-> "demand", acc |-> 0, ops |-> <<>>, ranges |-> <<>>]
NoReply == [seq |-> 0, kind |-> "left", acc |-> 0]
NewCard == [pc |-> "idle", last |-> 0, session |-> 0, desc |-> NoRequest,
            acc |-> 0, op |-> 1, range |-> 1, at |-> -1, kind |-> "left",
            out |-> <<>>, fslot |-> 0, wslot |-> 0, mails |-> 0]

\* The worker is started again, between two processes: it resets the two
\* sequence numbers of requests and says it is ready.  The mailbox keeps its
\* numbers, the card's count of mails starts again.
Restart ==
    /\ hpc = "dead"
    /\ \/ "restart" \in Faults /\ card.pc = "idle" /\ card.last # 0
       \/ "stuck" \in Faults /\ card.pc \in {"fetch", "flush"}
    /\ card' = NewCard /\ chunks' = <<>>
    /\ win' = [win EXCEPT !.req.seq = 0, !.reply.seq = 0, !.ready = TRUE]
    /\ cardUnchanged

-----------------------------------------------------------------------------
Init ==
    /\ prog = Fresh(1) /\ ref = Fresh(1) /\ acc = 0 /\ racc = 0
    /\ hpc = "init" /\ region = <<>> /\ k = 0 /\ mode = "demand"
    /\ stash = NoPages /\ ahead = <<>> /\ mail = NoMail /\ proc = 1
    /\ win = [ready |-> FALSE, req |-> NoRequest, reply |-> NoReply,
              mail |-> NoMail,
              fetch |-> [s \in {0, 1} |-> NoPages],
              wb |-> [s \in {0, 1} |-> NoPages]]
    /\ card = NewCard /\ chunks = <<>>
    /\ count = [runs |-> 0, stores |-> 0, others |-> 0]

Serve == \/ Submit \/ ServeFetch \/ Prefetch \/ ServeWriteback \/ Apply
         \/ AcceptLeft \/ Retry \/ Refused \/ PassReady \/ GiveUp
CardStep == \/ Poll \/ Take \/ FetchRanges \/ Fetched
            \/ \E ok \in Outcomes("pull") : Pull(ok)
            \/ \E ok \in Outcomes("push") : Flush(ok)
            \/ Execute \/ GoesOn \/ FaultUnmapped \/ FaultWrite
            \/ FaultRanges \/ Left \/ Flushed \/ Reply
Next == \/ \E p \in Stored : Store(p)
        \/ \E p \in Shared : OtherStore(p)
        \/ \E r \in Regions : Run(r)
        \/ Serve \/ CardStep
        \/ Die \/ Load \/ Restart

\* The process waits in a loop that serves, and the worker polls in one: both
\* go on while they can.
Spec == Init /\ [][Next]_vars /\ WF_vars(Serve) /\ WF_vars(CardStep)

-----------------------------------------------------------------------------
TypeOK ==
    /\ {prog, ref} \subseteq [Pages -> Cells]
    /\ {acc, racc} \subseteq Values
    /\ hpc \in {"init", "idle", "submit", "wait", "prefetch", "apply",
                "dead"}
    /\ region \in Regions \cup {<<>>} /\ k \in 0 .. Len(region)
    /\ mode \in {"ranges", "demand"}
    /\ DOMAIN stash \subseteq Pages /\ Range(stash) \subseteq Cells
    /\ proc \in 1 .. MaxProcs
    /\ card.pc \in {"idle", "ranges", "run", "fetch", "back", "flush", "done"}
    /\ card.kind \in {"left", "fault", "split", "limit"}
    /\ {card.fslot, card.wslot} \subseteq {0, 1}
    /\ \A c \in DOMAIN chunks :
         /\ chunks[c].filled \subseteq PagesOf(c)
         /\ chunks[c].mem \in [PagesOf(c) -> Cells]
    /\ Cardinality({c \in DOMAIN chunks : chunks[c].dirty}) <= Shadows
    /\ \A s \in {0, 1} : Cardinality(DOMAIN win.wb[s]) <= WbMax

\* Whenever the program goes on, or sends a phase (the first time or again),
\* its registers and the bytes its regions use are what the finished phases
\* amount to when run one access after the other on its own memory: nothing
\* stale was read, nothing written was lost, and a phase that failed left
\* nothing behind (offload.rs 17-24 and 1149-1152).
PhaseEffect ==
    hpc \in {"idle", "submit"} =>
        /\ acc = racc
        /\ \A p \in Pages : prog[p].r = ref[p].r

\* The other thread's bytes are always what that thread last wrote, beside
\* whatever the region writes in the same line (STASH, offload.rs 129-133;
\* offload.md 94-97).
OthersSurvive == \A p \in Pages : prog[p].o = ref[p].o

\* The module's own header says otherwise: "a write they make to a line the
\* region also writes is lost" (offload.rs 28-29), that is, a line that comes
\* back changed replaces the program's.
OthersLost ==
    [][hpc = "apply" /\ hpc' = "wait" =>
         \A p \in Mapped \cap DOMAIN win.wb[mail.slot] :
             LET line == win.wb[mail.slot][p]
             IN  p \in DOMAIN stash /\ line # stash[p] => prog'[p] = line]_vars

\* A mail the process is about to serve, or a write-back it is applying,
\* comes from the phase it submitted, never from one of a process before it
\* (session, offload.rs 112; wait_ready, window.rs 91-97).
OwnMail == MailWaits \/ hpc \in {"prefetch", "apply"}
               => card.desc.session = proc /\ card.last = win.req.seq

\* Every phase submitted is answered, and every mail with it: the program
\* gets past its region or ends, whatever fails on the way.
Answered == hpc = "submit" ~> hpc \in {"idle", "dead"}
=============================================================================
