-------------------------------- MODULE Slots --------------------------------
(***************************************************************************)
(* Protocol v3 between a host program and the card: the program's side     *)
(* (host/asm/phi512/card.S), the dispatcher that polls the SLOTSEQ line    *)
(* and hands jobs over (card/vpu/sched.S slots_poll, worker.S main_loop),  *)
(* the DMA channel (cdma.S) and the slot processes that serve the requests *)
(* (sched.S sched_main, sched_wait).                                       *)
(*                                                                         *)
(* A request is named <<session, sequence number>>.  The session is not in *)
(* the window: the program restarts its numbers at 1 in every session, and *)
(* the model keeps the session beside the number to say whose data a line  *)
(* holds.  What a request carries (registers, a chunk of memory) is        *)
(* abstracted to that name.                                                *)
(***************************************************************************)
EXTENDS Integers, Sequences

CONSTANTS NSlots,       \* slot processes (-S)
          SeqMod,       \* the sequence numbers the u16 tells apart (2048)
          NSeeds,       \* blobs loaded when a session starts (seeds.S nseeds)
          Work,         \* the kinds a session posts after its seeds
          InFlight,     \* copies the descriptor ring holds (CD_IN_FLIGHT)
          MaxSess,      \* bound: sessions per slot
          MaxSeq,       \* bound: requests per session
          MaxLegacy,    \* bound: requests on the legacy REQ line
          MaxRestarts,  \* bound: restarts of the card's worker
          Env           \* the environment's liberties, see EnvKinds

\* "early":     a program may leave while its first request is the last one
\*              the slot saw (killed, or the 5 s timeout of card_wait);
\* "close":     a copy may miss its 100 ms and close the DMA channel;
\* "unsettled": a new session may start before the card has looked at the
\*              last post of the session before it.
EnvKinds == {"early", "close", "unsettled"}

ASSUME SlotsAssumption ==
  /\ NSlots \in Nat \ {0}
  /\ SeqMod \in Nat /\ SeqMod > 1
  /\ NSeeds \in Nat \ {0}
  /\ InFlight \in Nat \ {0}
  /\ Work \subseteq {10, 12, 13, 16}
  /\ MaxSess \in Nat /\ MaxSeq \in Nat
  /\ MaxLegacy \in Nat /\ MaxRestarts \in Nat
  /\ Env \subseteq EnvKinds

Slots == 0 .. NSlots - 1

\* The request kinds of the slots (proto.inc).
K_LOAD == 10
K_RESIDENT == 12
K_FEXEC == 13
K_FLUSH == 15
K_PUSH == 16
Kinds == {K_LOAD, K_RESIDENT, K_FEXEC, K_FLUSH, K_PUSH}

\* The kinds whose data the dispatcher's engine moves.
Moving == {K_RESIDENT, K_FEXEC, K_PUSH}

NoId == <<0, 0>>                \* data of nobody
Ids == (0 .. MaxSess) \X (0 .. MaxSeq)

VARIABLES
  \* the host program that owns the slot
  host,      \* "out", "opened", "idle", "composed" or "waiting"
  sess,      \* the session's name
  seq,       \* CD_SEQ
  \* the window
  word,      \* the slot's u16 of SLOTSEQ
  block,     \* the request block
  data,      \* whose registers lie in SD_REGS_IN
  rep1,      \* the reply's first line, the one with the sequence number
  rep2,      \* the reply's second line
  \* the dispatcher
  dpc,       \* "poll", "scan", "job", "wake", "legacy" or "asleep"
  dcur,      \* the slot the scan is at
  line,      \* slotseq_now
  seen,      \* slotseq_seen
  nlegacy,   \* legacy requests served
  restarts,  \* restarts of the worker
  \* the shared page
  job,       \* SH_JOB_SEQ
  pull,      \* SH_PULL_SEQ: a copy's number, 0, or -1 (the slot's own work)
  parked,    \* SH_PARKED
  \* the DMA channel
  queue,     \* the copies submitted and not done
  csub,      \* cdma_seq
  status,    \* the status word
  chan,      \* cdma_ready
  landed,    \* whose registers lie in the slot's landing part
  moved,     \* for which request the engine last moved a chunk
  \* the slot process
  pc,        \* "look", "spun", "recheck", "wait", "asleep", "unpark",
             \* "read", "serve", "reply2" or "reply1"
  last,      \* sched_last
  req,       \* slreq, the request block as read
  out,       \* reply_buf
  blobs,     \* the sessions whose blobs are in fx_tab
  \* history
  posted,    \* the last request rung
  served,    \* the last request served
  used       \* whose data that request was served with

hostVars == <<host, sess, seq>>
windowVars == <<word, block, data, rep1, rep2>>
dispVars == <<dpc, dcur, line, seen, nlegacy, restarts>>
sharedVars == <<job, pull, parked>>
engineVars == <<queue, csub, status, chan, landed, moved>>
slotVars == <<pc, last, req, out, blobs>>
historyVars == <<posted, served, used>>
vars == <<hostVars, windowVars, dispVars, sharedVars, engineVars, slotVars,
          historyVars>>

Blocks == [sess : 0 .. MaxSess, seq : 0 .. MaxSeq, kind : Kinds \cup {0}]
Replies == [sess : 0 .. MaxSess, seq : 0 .. MaxSeq, ok : BOOLEAN]

\* A copy: its number, the slot it is for, and what it moves: SD_REGS_IN to
\* the slot's landing part ("regs"), a chunk between a staging slot and a
\* page for request id ("chunk"), or a legacy request's data ("legacy").
Copies == [seq : Nat, slot : Slots, what : {"regs", "chunk", "legacy"},
           id : Ids]

HostType ==
  /\ host \in [Slots -> {"out", "opened", "idle", "composed", "waiting"}]
  /\ sess \in [Slots -> 0 .. MaxSess]
  /\ seq \in [Slots -> 0 .. MaxSeq]

WindowType ==
  /\ word \in [Slots -> Nat]
  /\ block \in [Slots -> Blocks]
  /\ data \in [Slots -> Ids]
  /\ rep1 \in [Slots -> Replies]
  /\ rep2 \in [Slots -> Replies]

DispType ==
  /\ dpc \in {"poll", "scan", "job", "wake", "legacy", "asleep"}
  /\ dcur \in 0 .. NSlots
  /\ dpc \in {"job", "wake"} => dcur \in Slots
  /\ line \in [Slots -> Nat]
  /\ seen \in [Slots -> Nat]
  /\ nlegacy \in 0 .. MaxLegacy
  /\ restarts \in 0 .. MaxRestarts

SharedType ==
  /\ job \in [Slots -> Nat]
  /\ pull \in [Slots -> Nat \cup {-1}]
  /\ parked \in [Slots -> BOOLEAN]

EngineType ==
  /\ queue \in Seq(Copies)
  /\ csub \in Nat /\ status \in Nat
  /\ chan \in BOOLEAN
  /\ landed \in [Slots -> Ids]
  /\ moved \in [Slots -> Ids]

SlotType ==
  /\ pc \in [Slots -> {"look", "spun", "recheck", "wait", "asleep", "unpark",
                       "read", "serve", "reply2", "reply1"}]
  /\ last \in [Slots -> Nat]
  /\ req \in [Slots -> Blocks]
  /\ out \in [Slots -> Replies]
  /\ blobs \in [Slots -> SUBSET (0 .. MaxSess)]

HistoryType ==
  /\ posted \in [Slots -> Ids]
  /\ served \in [Slots -> Ids]
  /\ used \in [Slots -> Ids]

\* Every variable has its type.
TypeOK == /\ HostType /\ WindowType /\ DispType /\ SharedType
          /\ EngineType /\ SlotType /\ HistoryType

NoBlock == [sess |-> 0, seq |-> 0, kind |-> 0]
NoReply == [sess |-> 0, seq |-> 0, ok |-> FALSE]

Init ==
  /\ host = [s \in Slots |-> "out"]
  /\ sess = [s \in Slots |-> 0]
  /\ seq = [s \in Slots |-> 0]
  /\ word = [s \in Slots |-> 0]
  /\ block = [s \in Slots |-> NoBlock]
  /\ data = [s \in Slots |-> NoId]
  /\ rep1 = [s \in Slots |-> NoReply]
  /\ rep2 = [s \in Slots |-> NoReply]
  /\ dpc = "poll" /\ dcur = 0
  /\ line = [s \in Slots |-> 0]
  /\ seen = [s \in Slots |-> 0]
  /\ nlegacy = 0 /\ restarts = 0
  /\ job = [s \in Slots |-> 0]
  /\ pull = [s \in Slots |-> 0]
  /\ parked = [s \in Slots |-> FALSE]
  /\ queue = <<>> /\ csub = 0 /\ status = 0 /\ chan = TRUE
  /\ landed = [s \in Slots |-> NoId]
  /\ moved = [s \in Slots |-> NoId]
  /\ pc = [s \in Slots |-> "look"]
  /\ last = [s \in Slots |-> 0]
  /\ req = [s \in Slots |-> NoBlock]
  /\ out = [s \in Slots |-> NoReply]
  /\ blobs = [s \in Slots |-> {}]
  /\ posted = [s \in Slots |-> NoId]
  /\ served = [s \in Slots |-> NoId]
  /\ used = [s \in Slots |-> NoId]

-----------------------------------------------------------------------------
(* The host program.                                                       *)

\* The u16 card_post stores: the kind above, the number's low bits below.
SlotWord(kind, n) == kind * SeqMod + (n % SeqMod)

\* Mutant: no K_FLUSH opens the session.
KindsAtUnopened(n) ==
  IF n <= 1 + NSeeds THEN {K_LOAD}
  ELSE Work

\* The program's requests in order: K_FLUSH opens the session, the seeds'
\* K_LOADs follow, then whatever the program's regions need.
KindsAt(n) ==
  IF n = 1 THEN {K_FLUSH}
  ELSE IF n <= 1 + NSeeds THEN {K_LOAD}
  ELSE Work

\* The card has looked at the slot's last post: the dispatcher read its
\* u16 and is not handing it over, and the slot has read the block of the
\* job it was handed.  card_add's millisecond of sleep and the start of a
\* process are what the code has for it.
Settled(s) ==
  \/ "unsettled" \in Env
  \/ /\ seen[s] = word[s]
     /\ ~(dpc \in {"job", "wake"} /\ dcur = s)
     /\ dpc = "scan" /\ dcur <= s => line[s] = seen[s]
     /\ job[s] = last[s] /\ pc[s] # "read"

\* Mutant: the stale reply number is left in the window.
HostOpenKeepingReply(s) ==
  /\ host[s] = "out" /\ sess[s] < MaxSess
  /\ Settled(s)
  /\ sess' = [sess EXCEPT ![s] = @ + 1]
  /\ seq' = [seq EXCEPT ![s] = 0]
  /\ word' = [word EXCEPT ![s] = 0]
  /\ host' = [host EXCEPT ![s] = "opened"]
  /\ UNCHANGED <<block, data, rep1, rep2, dispVars, sharedVars, engineVars,
                 slotVars, historyVars>>

\* card_add: the slot opened, its u16 and the stale reply number zeroed.
HostOpen(s) ==
  /\ host[s] = "out" /\ sess[s] < MaxSess
  /\ Settled(s)
  /\ sess' = [sess EXCEPT ![s] = @ + 1]
  /\ seq' = [seq EXCEPT ![s] = 0]
  /\ word' = [word EXCEPT ![s] = 0]
  /\ rep1' = [rep1 EXCEPT ![s].seq = 0]
  /\ host' = [host EXCEPT ![s] = "opened"]
  /\ UNCHANGED <<block, data, rep2, dispVars, sharedVars, engineVars, slotVars,
                 historyVars>>

\* card_fexec_post, card_load_seed, card_resident_post, card_push_post up to
\* card_post's fence: the request's data, its block, its number.
HostCompose(s) ==
  /\ \/ host[s] = "idle"
     \/ host[s] = "opened" /\ Settled(s)
  /\ seq[s] < MaxSeq
  /\ \E k \in KindsAt(seq[s] + 1) :
       /\ block' = [block EXCEPT ![s] =
                      [sess |-> sess[s], seq |-> seq[s] + 1, kind |-> k]]
       /\ data' = IF k = K_FEXEC
                  THEN [data EXCEPT ![s] = <<sess[s], seq[s] + 1>>] ELSE data
  /\ seq' = [seq EXCEPT ![s] = @ + 1]
  /\ host' = [host EXCEPT ![s] = "composed"]
  /\ UNCHANGED <<sess, word, rep1, rep2, dispVars, sharedVars, engineVars,
                 slotVars, historyVars>>

\* card_post's last store: the u16.
HostRing(s) ==
  /\ host[s] = "composed"
  /\ word' = [word EXCEPT ![s] = SlotWord(block[s].kind, seq[s])]
  /\ host' = [host EXCEPT ![s] = "waiting"]
  /\ posted' = [posted EXCEPT ![s] = <<sess[s], seq[s]>>]
  /\ UNCHANGED <<sess, seq, block, data, rep1, rep2, dispVars, sharedVars,
                 engineVars, slotVars, served, used>>

\* card_wait finds its number in the reply; a status other than 0 ends the
\* program's use of the card (card_add skips it, the handlers die).
HostTake(s) ==
  /\ host[s] = "waiting" /\ rep1[s].seq = seq[s]
  /\ host' = [host EXCEPT ![s] = IF rep1[s].ok THEN "idle" ELSE "out"]
  /\ UNCHANGED <<sess, seq, windowVars, dispVars, sharedVars, engineVars,
                 slotVars, historyVars>>

\* K_FLUSH is the last request the slot was shown.
Early(s) == seq[s] = 1 \/ (seq[s] = 2 /\ host[s] = "composed")

\* The program leaves: killed between two of its instructions, done with
\* its work, or out of patience (card_wait after REQ_TIMEOUT_NS).
HostLeave(s) ==
  /\ host[s] # "out"
  /\ Early(s) => "early" \in Env
  /\ host' = [host EXCEPT ![s] = "out"]
  /\ UNCHANGED <<sess, seq, windowVars, dispVars, sharedVars, engineVars,
                 slotVars, historyVars>>

-----------------------------------------------------------------------------
(* The dispatcher.                                                         *)

\* slots_poll: the line in one 64-byte load.
DispPoll ==
  /\ dpc = "poll"
  /\ line' = word
  /\ dcur' = 0
  /\ dpc' = "scan"
  /\ UNCHANGED <<hostVars, windowVars, seen, nlegacy, restarts, sharedVars,
                 engineVars, slotVars, historyVars>>

\* Mutant: the scan steps over a slot.
DispPassSkipping ==
  /\ dpc = "scan" /\ dcur < NSlots
  /\ line[dcur] \in {seen[dcur], 0}
  /\ seen' = [seen EXCEPT ![dcur] = line[dcur]]
  /\ dcur' = dcur + 2
  /\ UNCHANGED <<hostVars, windowVars, dpc, line, nlegacy, restarts,
                 sharedVars, engineVars, slotVars, historyVars>>

\* A slot whose u16 did not move, or moved to 0: recorded, no job.
DispPass ==
  /\ dpc = "scan" /\ dcur < NSlots
  /\ line[dcur] \in {seen[dcur], 0}
  /\ seen' = [seen EXCEPT ![dcur] = line[dcur]]
  /\ dcur' = dcur + 1
  /\ UNCHANGED <<hostVars, windowVars, dpc, line, nlegacy, restarts,
                 sharedVars, engineVars, slotVars, historyVars>>

\* cdma_submit and its kin: refused with 0 when the channel is down, held
\* back while the ring is full.
Submit(s, what, id) ==
  IF chan
  THEN /\ Len(queue) < InFlight
       /\ queue' = Append(queue, [seq |-> csub + 1, slot |-> s,
                                  what |-> what, id |-> id])
       /\ csub' = csub + 1
       /\ pull' = [pull EXCEPT ![s] = csub + 1]
  ELSE /\ pull' = [pull EXCEPT ![s] = 0]
       /\ UNCHANGED <<queue, csub>>

\* No copy by the engine: the slot finishes the request itself (-1, or -2
\* of a class-1 K_RESIDENT and of a K_PUSH outside the pool), or the
\* request is refused (0, a K_RESIDENT that finds the pool full).
NoSubmit(s, code) ==
  /\ pull' = [pull EXCEPT ![s] = code]
  /\ UNCHANGED <<queue, csub>>

\* A slot whose u16 moved: by the kind in it, the copy the job needs.
DispPrepare ==
  /\ dpc = "scan" /\ dcur < NSlots
  /\ line[dcur] \notin {seen[dcur], 0}
  /\ LET s == dcur
         k == line[s] \div SeqMod
         b == <<block[s].sess, block[s].seq>>
     IN \/ k = K_FEXEC /\ Submit(s, "regs", NoId)
        \/ k = K_RESIDENT /\ Submit(s, "chunk", b)
        \/ k = K_PUSH /\ chan /\ Submit(s, "chunk", b)
        \/ k \in {K_RESIDENT, K_PUSH} /\ NoSubmit(s, -1)
        \/ k \notin {K_FEXEC, K_PUSH} /\ NoSubmit(s, 0)
  /\ seen' = [seen EXCEPT ![dcur] = line[dcur]]
  /\ dpc' = "job"
  /\ UNCHANGED <<hostVars, windowVars, dcur, line, nlegacy, restarts, job,
                 parked, status, chan, landed, moved, slotVars, historyVars>>

\* The job word, the u16 widened; then the fence.
DispJob ==
  /\ dpc = "job"
  /\ job' = [job EXCEPT ![dcur] = line[dcur]]
  /\ dpc' = "wake"
  /\ UNCHANGED <<hostVars, windowVars, dcur, line, seen, nlegacy, restarts,
                 pull, parked, engineVars, slotVars, historyVars>>

\* FUTEX_WAKE when the slot says it is parked.
DispWake ==
  /\ dpc = "wake"
  /\ pc' = IF parked[dcur] /\ pc[dcur] = "asleep"
           THEN [pc EXCEPT ![dcur] = "unpark"] ELSE pc
  /\ dcur' = dcur + 1
  /\ dpc' = "scan"
  /\ UNCHANGED <<hostVars, windowVars, line, seen, nlegacy, restarts,
                 sharedVars, engineVars, last, req, out, blobs, historyVars>>

\* Mutant: the next scan goes over the line as it was read before.
DispScannedStale ==
  /\ dpc = "scan" /\ dcur = NSlots
  /\ dcur' = 0
  /\ UNCHANGED <<hostVars, windowVars, dpc, line, seen, nlegacy, restarts,
                 sharedVars, engineVars, slotVars, historyVars>>

\* The scan's end: the next poll, or main_loop's nanosleep once the spin
\* window is over, whether or not there are slots.
DispScanned ==
  /\ dpc = "scan" /\ dcur = NSlots
  /\ dpc' \in {"poll", "asleep"}
  /\ UNCHANGED <<hostVars, windowVars, dcur, line, seen, nlegacy, restarts,
                 sharedVars, engineVars, slotVars, historyVars>>

DispAwake ==
  /\ dpc = "asleep"
  /\ dpc' = "poll"
  /\ UNCHANGED <<hostVars, windowVars, dcur, line, seen, nlegacy, restarts,
                 sharedVars, engineVars, slotVars, historyVars>>

\* A request on the REQ line (main_loop serves it before the slots): its
\* data pulled by the same channel to the landing area's start, where slot
\* 0's registers land (matmul.S dma_pull, exec.S exec_pull).  With the
\* channel down the cores pull it and the slots see nothing.
DispLegacy ==
  /\ dpc = "poll" /\ nlegacy < MaxLegacy
  /\ nlegacy' = nlegacy + 1
  /\ IF chan
     THEN /\ Len(queue) < InFlight
          /\ queue' = Append(queue, [seq |-> csub + 1, slot |-> 0,
                                     what |-> "legacy", id |-> NoId])
          /\ csub' = csub + 1
          /\ dpc' = "legacy"
     ELSE UNCHANGED <<queue, csub, dpc>>
  /\ UNCHANGED <<hostVars, windowVars, dcur, line, seen, restarts, sharedVars,
                 status, chan, landed, moved, slotVars, historyVars>>

\* cdma_wait: the copy landed, or it did not within the timeout and the
\* channel is closed.
DispLegacyDone ==
  /\ dpc = "legacy"
  /\ \/ status = csub /\ UNCHANGED chan
     \/ status < csub /\ "close" \in Env /\ chan' = FALSE
  /\ dpc' = "poll"
  /\ UNCHANGED <<hostVars, windowVars, dcur, line, seen, nlegacy, restarts,
                 sharedVars, queue, csub, status, landed, moved, slotVars,
                 historyVars>>

\* The engine: copies in the order submitted, then the status word.  A copy
\* in flight when the channel closes may still land.
EngineCopy ==
  /\ queue # <<>>
  /\ LET c == Head(queue) IN
       /\ landed' = IF c.what = "chunk" THEN landed
                    ELSE [landed EXCEPT ![c.slot] =
                            IF c.what = "regs" THEN data[c.slot] ELSE NoId]
       /\ moved' = IF c.what = "chunk" THEN [moved EXCEPT ![c.slot] = c.id]
                   ELSE moved
       /\ status' = c.seq
  /\ queue' = Tail(queue)
  /\ UNCHANGED <<hostVars, windowVars, dispVars, sharedVars, csub, chan,
                 slotVars, historyVars>>

-----------------------------------------------------------------------------
(* A slot process.                                                         *)

Goto(s, to) == pc' = [pc EXCEPT ![s] = to]

\* sched_wait: a look at the job word.
SlotLook(s) ==
  /\ pc[s] = "look"
  /\ IF job[s] # last[s]
     THEN last' = [last EXCEPT ![s] = job[s]] /\ Goto(s, "read")
     ELSE Goto(s, "spun") /\ UNCHANGED last
  /\ UNCHANGED <<hostVars, windowVars, dispVars, sharedVars, engineVars, req,
                 out, blobs, historyVars>>

\* Mutant: the slot goes to its futex with the flag down.
SlotSpinSilent(s) ==
  /\ pc[s] = "spun"
  /\ Goto(s, "look") \/ Goto(s, "recheck")
  /\ UNCHANGED <<hostVars, windowVars, dispVars, sharedVars, engineVars, last,
                 req, out, blobs, historyVars>>

\* Another look, or past spin_ns the parked flag and the fence.
SlotSpin(s) ==
  /\ pc[s] = "spun"
  /\ \/ Goto(s, "look") /\ UNCHANGED parked
     \/ Goto(s, "recheck") /\ parked' = [parked EXCEPT ![s] = TRUE]
  /\ UNCHANGED <<hostVars, windowVars, dispVars, job, pull, engineVars, last,
                 req, out, blobs, historyVars>>

\* The word looked at again, now that the flag is up.
SlotRecheck(s) ==
  /\ pc[s] = "recheck"
  /\ Goto(s, IF job[s] # last[s] THEN "unpark" ELSE "wait")
  /\ UNCHANGED <<hostVars, windowVars, dispVars, sharedVars, engineVars, last,
                 req, out, blobs, historyVars>>

\* FUTEX_WAIT: asleep only if the word still is the one last served.
SlotFutex(s) ==
  /\ pc[s] = "wait"
  /\ Goto(s, IF job[s] # last[s] THEN "unpark" ELSE "asleep")
  /\ UNCHANGED <<hostVars, windowVars, dispVars, sharedVars, engineVars, last,
                 req, out, blobs, historyVars>>

SlotUnpark(s) ==
  /\ pc[s] = "unpark"
  /\ parked' = [parked EXCEPT ![s] = FALSE]
  /\ Goto(s, "look")
  /\ UNCHANGED <<hostVars, windowVars, dispVars, job, pull, engineVars, last,
                 req, out, blobs, historyVars>>

\* sched_main: the request block read from the window.
SlotRead(s) ==
  /\ pc[s] = "read"
  /\ req' = [req EXCEPT ![s] = block[s]]
  /\ Goto(s, "serve")
  /\ UNCHANGED <<hostVars, windowVars, dispVars, sharedVars, engineVars, last,
                 out, blobs, historyVars>>

\* The reply built aside; the sequence number is the one in the block.
Finish(s, ok) ==
  /\ out' = [out EXCEPT ![s] =
               [sess |-> req[s].sess, seq |-> req[s].seq, ok |-> ok]]
  /\ served' = [served EXCEPT ![s] = <<req[s].sess, req[s].seq>>]
  /\ Goto(s, "reply2")

\* Mutant: K_FLUSH leaves the blobs of the session before.
SlotFlushNothing(s) ==
  /\ pc[s] = "serve" /\ req[s].kind = K_FLUSH
  /\ Finish(s, TRUE)
  /\ UNCHANGED <<hostVars, windowVars, dispVars, sharedVars, engineVars, last,
                 req, blobs, posted, used>>

\* fexec_flush and res_flush: the previous program's blobs are gone.
SlotFlush(s) ==
  /\ pc[s] = "serve" /\ req[s].kind = K_FLUSH
  /\ blobs' = [blobs EXCEPT ![s] = {}]
  /\ Finish(s, TRUE)
  /\ UNCHANGED <<hostVars, windowVars, dispVars, sharedVars, engineVars, last,
                 req, posted, used>>

\* fexec_load: the blob into the arena, or the arena or the table is full.
SlotLoad(s) ==
  /\ pc[s] = "serve" /\ req[s].kind = K_LOAD
  /\ \E ok \in BOOLEAN :
       /\ blobs' = IF ok THEN [blobs EXCEPT ![s] = @ \cup {req[s].sess}]
                   ELSE blobs
       /\ Finish(s, ok)
  /\ UNCHANGED <<hostVars, windowVars, dispVars, sharedVars, engineVars, last,
                 req, posted, used>>

\* Mutant: the slot does not wait for the copy.
LandedAlways(s) == pull[s] <= csub

\* land_wait: a number of 0 is taken for "no copy was needed".
Landed(s) == pull[s] <= status

\* fexec_run on the registers as landed; a request whose blob is not in the
\* table, or whose memory cannot be placed, is refused.
SlotRun(s) ==
  /\ pc[s] = "serve" /\ req[s].kind = K_FEXEC
  /\ Landed(s)
  /\ \E ok \in BOOLEAN : /\ ok => blobs[s] # {}
                         /\ Finish(s, ok)
  /\ used' = [used EXCEPT ![s] = landed[s]]
  /\ UNCHANGED <<hostVars, windowVars, dispVars, sharedVars, engineVars, last,
                 req, blobs, posted>>

\* K_RESIDENT and K_PUSH: refused (0), the slot's own copy from the block
\* read once more (-1), or the engine's copy waited for.
SlotMove(s) ==
  /\ pc[s] = "serve" /\ req[s].kind \in {K_RESIDENT, K_PUSH}
  /\ \/ pull[s] = 0 /\ Finish(s, FALSE) /\ UNCHANGED used
     \/ /\ pull[s] = -1
        /\ \E ok \in BOOLEAN : Finish(s, ok)
        /\ used' = [used EXCEPT ![s] = <<block[s].sess, block[s].seq>>]
     \/ /\ pull[s] > 0 /\ Landed(s)
        /\ Finish(s, TRUE)
        /\ used' = [used EXCEPT ![s] = moved[s]]
  /\ UNCHANGED <<hostVars, windowVars, dispVars, sharedVars, engineVars, last,
                 req, blobs, posted>>

\* land_wait and res_wait give the copy up: E_PULL.
SlotGiveUp(s) ==
  /\ pc[s] = "serve" /\ req[s].kind \in Moving
  /\ pull[s] > 0 /\ ~Landed(s)
  /\ Finish(s, FALSE)
  /\ UNCHANGED <<hostVars, windowVars, dispVars, sharedVars, engineVars, last,
                 req, blobs, posted, used>>

\* The second line first, a fence, then the line with the number.
SlotReply2(s) ==
  /\ pc[s] = "reply2"
  /\ rep2' = [rep2 EXCEPT ![s] = out[s]]
  /\ Goto(s, "reply1")
  /\ UNCHANGED <<hostVars, word, block, data, rep1, dispVars, sharedVars,
                 engineVars, last, req, out, blobs, historyVars>>

SlotReply1(s) ==
  /\ pc[s] = "reply1"
  /\ rep1' = [rep1 EXCEPT ![s] = out[s]]
  /\ Goto(s, "look")
  /\ UNCHANGED <<hostVars, word, block, data, rep2, dispVars, sharedVars,
                 engineVars, last, req, out, blobs, historyVars>>

-----------------------------------------------------------------------------

\* Mutant: the new worker starts from an empty SLOTSEQ line.
WorkerRestartFresh ==
  /\ restarts < MaxRestarts
  /\ restarts' = restarts + 1
  /\ dpc' = "poll" /\ dcur' = 0
  /\ seen' = [s \in Slots |-> 0]
  /\ job' = [s \in Slots |-> 0]
  /\ pull' = [s \in Slots |-> 0]
  /\ parked' = [s \in Slots |-> FALSE]
  /\ queue' = <<>> /\ csub' = 0 /\ status' = 0 /\ chan' = TRUE
  /\ landed' = [s \in Slots |-> NoId]
  /\ pc' = [s \in Slots |-> "look"]
  /\ last' = [s \in Slots |-> 0]
  /\ blobs' = [s \in Slots |-> {}]
  /\ UNCHANGED <<hostVars, windowVars, line, nlegacy, moved, req, out,
                 historyVars>>

\* The card's worker is restarted under a window that keeps its contents:
\* slots_start takes the SLOTSEQ line as it finds it, so that a post left by
\* the worker before it is not replayed; the channel is opened again.
WorkerRestart ==
  /\ restarts < MaxRestarts
  /\ restarts' = restarts + 1
  /\ dpc' = "poll" /\ dcur' = 0
  /\ seen' = word
  /\ job' = [s \in Slots |-> 0]
  /\ pull' = [s \in Slots |-> 0]
  /\ parked' = [s \in Slots |-> FALSE]
  /\ queue' = <<>> /\ csub' = 0 /\ status' = 0 /\ chan' = TRUE
  /\ landed' = [s \in Slots |-> NoId]
  /\ pc' = [s \in Slots |-> "look"]
  /\ last' = [s \in Slots |-> 0]
  /\ blobs' = [s \in Slots |-> {}]
  /\ UNCHANGED <<hostVars, windowVars, line, nlegacy, moved, req, out,
                 historyVars>>

Host(s) == HostOpen(s) \/ HostCompose(s) \/ HostRing(s) \/ HostTake(s)
             \/ HostLeave(s)

Dispatcher == DispPoll \/ DispPass \/ DispPrepare \/ DispJob \/ DispWake
                \/ DispScanned \/ DispAwake \/ DispLegacy \/ DispLegacyDone

Waiting(s) == SlotLook(s) \/ SlotSpin(s) \/ SlotRecheck(s) \/ SlotFutex(s)
                \/ SlotUnpark(s)

Serving(s) == SlotRead(s) \/ SlotFlush(s) \/ SlotLoad(s) \/ SlotRun(s)
                \/ SlotMove(s) \/ SlotGiveUp(s) \/ SlotReply2(s)
                \/ SlotReply1(s)

Next == \/ \E s \in Slots : Host(s) \/ Waiting(s) \/ Serving(s)
        \/ Dispatcher
        \/ EngineCopy
        \/ WorkerRestart

Spec == Init /\ [][Next]_vars

\* The dispatcher and each slot process have a hardware thread of their own
\* and loop for ever; the engine moves while the channel is up.  The program
\* rings what it composed and takes an answer that is there; nothing obliges
\* it to post, and nothing obliges it to leave.
Fairness ==
  /\ WF_vars(Dispatcher)
  /\ WF_vars(EngineCopy)
  /\ \A s \in Slots : /\ WF_vars(Waiting(s) \/ Serving(s))
                      /\ WF_vars(HostRing(s))
                      /\ WF_vars(HostTake(s))

FairSpec == Spec /\ Fairness

-----------------------------------------------------------------------------
(* What must hold.                                                         *)

\* An answer the program takes (card_wait's number found in line one) is the
\* answer to the request it waits on, in both lines of the reply, although
\* every session counts from 1 and a late reply of a program that is gone
\* may reach the window of the next one.
ReplyIsMine ==
  \A s \in Slots :
    host[s] = "waiting" /\ rep1[s].seq = seq[s] =>
      /\ rep1[s].sess = sess[s]
      /\ rep2[s].sess = sess[s] /\ rep2[s].seq = seq[s]

\* A slot process asleep in its futex with a job it has not taken is about
\* to be woken: the dispatcher stands between the store of the job word and
\* its look at the parked flag, and the flag has been up since before the
\* slot's own second look (sched.md: "so a wake is never lost").
NoLostWake ==
  \A s \in Slots :
    /\ pc[s] \in {"recheck", "wait", "asleep"} => parked[s]
    /\ pc[s] = "asleep" /\ job[s] # last[s] => dpc = "wake" /\ dcur = s

\* The slot is about to answer, with success, the request its program waits
\* on.
Answering(s) ==
  /\ pc[s] = "reply2" /\ out[s].ok
  /\ host[s] = "waiting" /\ <<req[s].sess, req[s].seq>> = <<sess[s], seq[s]>>

\* What the slot computed or moved for a request was that request's own
\* data: the registers it posted, the chunk its block names (fexec.md: "the
\* slot's register block ... into the slot's 64 KiB of the landing area").
OwnData ==
  \A s \in Slots :
    Answering(s) /\ req[s].kind \in Moving => used[s] = <<sess[s], seq[s]>>

\* A region never runs on the registers of an earlier request.
NoStaleRegisters ==
  \A s \in Slots :
    Answering(s) /\ req[s].kind = K_FEXEC =>
      used[s] \in {<<sess[s], seq[s]>>, NoId}

\* A region runs with the blobs of its own session and no other's: the
\* K_FLUSH that opened the session came between (sched.S: "the previous
\* session's blobs and in-card call table dropped").
OwnBlobs ==
  \A s \in Slots :
    pc[s] = "reply2" /\ out[s].ok /\ req[s].kind = K_FEXEC =>
      blobs[s] = {req[s].sess}

\* Two job words handed over one after the other differ, which is all the
\* slot has to tell a new job by (sched.S slots_poll: "consecutive posts
\* differ").
ConsecutivePostsDiffer ==
  [][\A s \in Slots : DispJob /\ dcur = s => job'[s] # job[s]]_vars

\* The slot serves what it was asked, once, in order, and the program takes
\* the answer to its own request: the card implements Exchange.
Abstract == INSTANCE Exchange WITH
              asked <- posted,
              program <- [s \in Slots |->
                            IF host[s] \in {"out", "waiting"} THEN host[s]
                            ELSE "ready"]
ImplementsExchange == Abstract!Spec

\* Every request rung is answered, or its program leaves.
EveryPostAnswered ==
  \A s \in Slots : (host[s] = "waiting") ~> (host[s] # "waiting")
=============================================================================
