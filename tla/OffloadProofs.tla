---------------------------- MODULE OffloadProofs ----------------------------
(***************************************************************************)
(* A process never serves a mail that is not its own, although the window  *)
(* outlives processes and workers and the mailbox carries no session: for  *)
(* any regions, any number of processes, restarts and failures, as long as *)
(* a worker that waits for an answer is not started again.                 *)
(***************************************************************************)
EXTENDS Offload, SequenceTheorems, FiniteSetTheorems, WellFoundedInduction,
        TLAPS

-----------------------------------------------------------------------------
(* The invariant.                                                          *)

\* The window and the card are records whose parts are written one by one.
Shape ==
    /\ win = [ready |-> win.ready, req |-> win.req, reply |-> win.reply,
              mail |-> win.mail, fetch |-> win.fetch, wb |-> win.wb]
    /\ win.req = [seq |-> win.req.seq, session |-> win.req.session,
                  first |-> win.req.first, final |-> win.req.final,
                  mode |-> win.req.mode, acc |-> win.req.acc,
                  ops |-> win.req.ops, ranges |-> win.req.ranges]
    /\ win.reply = [seq |-> win.reply.seq, kind |-> win.reply.kind,
                    acc |-> win.reply.acc]
    /\ win.mail = [seq |-> win.mail.seq, ack |-> win.mail.ack,
                   status |-> win.mail.status, kind |-> win.mail.kind,
                   pages |-> win.mail.pages, slot |-> win.mail.slot]
    /\ card = [pc |-> card.pc, last |-> card.last, session |-> card.session,
               desc |-> card.desc, acc |-> card.acc, op |-> card.op,
               range |-> card.range, at |-> card.at, kind |-> card.kind,
               out |-> card.out, fslot |-> card.fslot,
               wslot |-> card.wslot, mails |-> card.mails]

Waiting == card.pc \in {"fetch", "flush"}

\* The three sequence numbers of a request: the one written, the one the card
\* took last, the one it answered last.
Numbers ==
    /\ {win.req.seq, card.last, win.reply.seq} \subseteq Nat
    /\ win.reply.seq <= card.last /\ card.last <= win.req.seq
    /\ card.pc # "idle" => win.reply.seq < card.last

\* A mail is unanswered only while the card waits for its answer.
Mails ==
    /\ Waiting => win.mail.seq = card.mails
    /\ ~Waiting => win.mail.seq = win.mail.ack

\* The card is between requests, and there is none.
AtRest == card.pc = "idle" /\ card.last = win.req.seq

\* A process that goes on has found the card at rest; the request it waits on
\* is the last one written, and the card has taken it or is about to.
Turns ==
    /\ hpc \in {"idle", "submit"} => AtRest
    /\ hpc = "init" /\ win.ready => AtRest
    /\ hpc \in {"wait", "prefetch", "apply"} =>
         /\ win.req.session = proc
         /\ card.last # win.req.seq => card.pc = "idle"
         /\ card.last = win.req.seq => card.desc.session = proc
    /\ hpc \in {"prefetch", "apply"} => card.last = win.req.seq

MailInv == Shape /\ Numbers /\ Mails /\ Turns

-----------------------------------------------------------------------------
LEMMA InitMail == Init => MailInv
  BY DEF Init, MailInv, Shape, Numbers, Mails, Turns, Waiting, AtRest, NoMail,
         NoRequest, NoReply, NewCard

\* The program's steps that touch neither the window nor the card.
LEMMA HostKept ==
  ASSUME MailInv, UNCHANGED <<win, card>>,
         \/ hpc' = hpc /\ proc' = proc
         \/ hpc' = "dead"
         \/ hpc = "idle" /\ hpc' = "submit"
         \/ hpc = "init" /\ win.ready /\ hpc' = "idle"
         \/ hpc = "wait" /\ ~Unanswered /\ hpc' \in {"idle", "submit"}
         \/ hpc \in {"prefetch", "apply"} /\ hpc' = "wait" /\ proc' = proc
  PROVE  MailInv'
<1>1. win' = win /\ card' = card
  OBVIOUS
<1>2. Shape' /\ Numbers' /\ Mails'
  BY <1>1 DEF MailInv, Shape, Numbers, Mails, Waiting
<1>3. hpc = "wait" /\ ~Unanswered => AtRest
  BY DEF MailInv, Numbers, Unanswered, AtRest
<1>4. Turns'
  BY <1>1, <1>3 DEF MailInv, Turns, AtRest
<1> QED BY <1>2, <1>4 DEF MailInv

\* The parts of the window and of the card after a step that writes some.
LEMMA SubmitMail == ASSUME MailInv, Submit PROVE MailInv'
<1>1. /\ hpc = "submit" /\ hpc' = "wait" /\ proc' = proc /\ card' = card
      /\ win'.req.seq = win.req.seq + 1 /\ win'.req.session = proc
      /\ win'.reply = win.reply /\ win'.mail = win.mail
      /\ win'.ready = win.ready
  BY DEF Submit, MailInv, Shape
<1>2. Shape'
  BY <1>1 DEF Submit, MailInv, Shape
<1>3. Numbers' /\ Mails'
  BY <1>1 DEF MailInv, Numbers, Mails, Waiting
<1>4. Turns'
  <2>1. AtRest /\ card.last # win'.req.seq
    BY <1>1 DEF MailInv, Turns, AtRest, Numbers
  <2> QED BY <1>1, <2>1 DEF Turns, AtRest
<1> QED BY <1>2, <1>3, <1>4 DEF MailInv

\* A mail served is acknowledged: it is that of the request waited on.
LEMMA ServeMail ==
  ASSUME MailInv, ServeFetch \/ ServeWriteback
  PROVE  MailInv'
<1>1. /\ MailWaits /\ hpc' \in {"prefetch", "apply"} /\ proc' = proc
      /\ card' = card
  BY DEF ServeFetch, ServeWriteback
<1>2. /\ win'.req = win.req /\ win'.reply = win.reply
      /\ win'.mail.seq = win.mail.seq /\ win'.mail.ack = win.mail.seq
  <2>1. CASE ServeFetch
    <3>1. PICK f, s : win' = [win EXCEPT !.fetch = f, !.mail = Acked(@, s)]
      BY <2>1 DEF ServeFetch
    <3> QED BY <3>1 DEF MailInv, Shape, Acked
  <2>2. CASE ServeWriteback
    BY <2>2 DEF ServeWriteback, MailInv, Shape, Acked
  <2> QED BY <2>1, <2>2
<1>3. Shape'
  <2>1. \E s : win'.mail = Acked(win.mail, s)
    <3>1. CASE ServeFetch
      <4>1. PICK f, s : win' = [win EXCEPT !.fetch = f, !.mail = Acked(@, s)]
        BY <3>1 DEF ServeFetch
      <4> QED BY <4>1 DEF MailInv, Shape
    <3>2. CASE ServeWriteback
      BY <3>2 DEF ServeWriteback, MailInv, Shape
    <3> QED BY <3>1, <3>2
  <2>2. /\ win' = [ready |-> win'.ready, req |-> win'.req,
                   reply |-> win'.reply, mail |-> win'.mail,
                   fetch |-> win'.fetch, wb |-> win'.wb]
    BY DEF ServeFetch, ServeWriteback, MailInv, Shape
  <2> QED BY <1>1, <1>2, <2>1, <2>2 DEF MailInv, Shape, Acked
<1>4. Waiting /\ Waiting'
  BY <1>1 DEF MailWaits, MailInv, Mails, Waiting
<1>5. Numbers' /\ Mails'
  BY <1>1, <1>2, <1>4 DEF MailInv, Numbers, Mails
<1>6. Turns'
  BY <1>1, <1>2, <1>4 DEF MailInv, Turns, MailWaits, Waiting
<1> QED BY <1>3, <1>5, <1>6 DEF MailInv

\* The piece copied ahead goes into a fetch slot.
LEMMA PrefetchMail == ASSUME MailInv, Prefetch PROVE MailInv'
<1>1. /\ hpc = "prefetch" /\ hpc' = "wait" /\ proc' = proc /\ card' = card
      /\ \/ win' = win
         \/ \E s, f : win' = [win EXCEPT !.fetch[s] = f]
  BY DEF Prefetch
<1>2. /\ win'.req = win.req /\ win'.reply = win.reply
      /\ win'.mail = win.mail /\ win'.ready = win.ready
  BY <1>1 DEF MailInv, Shape
<1>3. Shape'
  BY <1>1, <1>2 DEF MailInv, Shape
<1>4. Numbers' /\ Mails' /\ Turns'
  BY <1>1, <1>2 DEF MailInv, Numbers, Mails, Turns, Waiting, AtRest
<1> QED BY <1>3, <1>4 DEF MailInv

\* A process that loads takes the readiness word down.
LEMMA LoadMail == ASSUME MailInv, Load PROVE MailInv'
<1>1. /\ hpc' = "init" /\ card' = card /\ win'.ready = FALSE
      /\ win'.req = win.req /\ win'.reply = win.reply
      /\ win'.mail = win.mail
  BY DEF Load, MailInv, Shape
<1>2. Shape'
  BY <1>1 DEF Load, MailInv, Shape
<1>3. Numbers' /\ Mails' /\ Turns'
  BY <1>1 DEF MailInv, Numbers, Mails, Turns, Waiting
<1> QED BY <1>2, <1>3 DEF MailInv

\* A worker that starts again, idle, finds no request.
LEMMA RestartMail ==
  ASSUME MailInv, Restart, "stuck" \notin Faults
  PROVE  MailInv'
<1>a. /\ hpc = "dead" /\ card' = NewCard
      /\ win' = [win EXCEPT !.req.seq = 0, !.reply.seq = 0, !.ready = TRUE]
      /\ UNCHANGED host
  BY DEF Restart, cardUnchanged
<1>b. card.pc = "idle"
  BY DEF Restart
<1>c. hpc' = hpc /\ proc' = proc
  BY <1>a DEF host
<1>1. /\ hpc = "dead" /\ card.pc = "idle" /\ card' = NewCard
      /\ hpc' = hpc /\ proc' = proc
      /\ win' = [win EXCEPT !.req.seq = 0, !.reply.seq = 0, !.ready = TRUE]
  BY <1>a, <1>b, <1>c
<1>2. /\ win'.req = [win.req EXCEPT !.seq = 0]
      /\ win'.reply = [win.reply EXCEPT !.seq = 0]
      /\ win'.mail = win.mail
  BY <1>1 DEF MailInv, Shape
<1>3. Shape'
  BY <1>1, <1>2 DEF MailInv, Shape, NewCard
<1>4. win'.req.seq = 0 /\ win'.reply.seq = 0
  BY <1>2 DEF MailInv, Shape
<1>5. Numbers' /\ Mails' /\ Turns'
  BY <1>1, <1>2, <1>4
     DEF MailInv, Numbers, Mails, Turns, Waiting, AtRest, NewCard
<1> QED BY <1>3, <1>5 DEF MailInv

-----------------------------------------------------------------------------
\* A step of the card within a request.
LEMMA CardKept ==
  ASSUME MailInv, Shape', Mails', UNCHANGED host,
         win'.req = win.req, win'.reply = win.reply, win'.ready = win.ready,
         card'.last = card.last, card'.desc = card.desc,
         card.pc # "idle", card'.pc # "idle"
  PROVE  MailInv'
<1>1. hpc' = hpc /\ proc' = proc
  BY DEF host
<1>2. Numbers' /\ Turns'
  BY <1>1 DEF MailInv, Numbers, Turns, AtRest
<1> QED BY <1>2 DEF MailInv

\* The card sends a mail and waits for its answer.
LEMMA Sends ==
  ASSUME MailInv, UNCHANGED host, card.pc # "idle",
         NEW kind, NEW pages, NEW slot, NEW wb, NEW pc \in {"fetch", "flush"},
         win' = [win EXCEPT !.wb = wb, !.mail = Mail(kind, pages, slot)],
         NEW at,
         card' = [card EXCEPT !.pc = pc, !.mails = @ + 1, !.at = at]
  PROVE  MailInv'
<1>1. /\ win'.req = win.req /\ win'.reply = win.reply
      /\ win'.ready = win.ready /\ win'.mail = Mail(kind, pages, slot)
  BY DEF MailInv, Shape
<1>2. /\ card'.pc = pc /\ card'.mails = card.mails + 1
      /\ card'.last = card.last /\ card'.desc = card.desc
  BY DEF MailInv, Shape
<1>3. Shape'
  BY <1>1, <1>2 DEF MailInv, Shape, Mail
<1>4. Mails'
  BY <1>1, <1>2 DEF Mails, Waiting, Mail
<1> QED BY <1>1, <1>2, <1>3, <1>4, CardKept

\* The card goes on without a mail: what it waited for, if it did, is here.
LEMMA GoesOnMail ==
  ASSUME MailInv, UNCHANGED host, win' = win, card.pc # "idle",
         Waiting => win.mail.ack = card.mails,
         card'.pc \notin {"idle", "fetch", "flush"},
         card'.last = card.last, card'.desc = card.desc,
         card' = [pc |-> card'.pc, last |-> card'.last,
                  session |-> card'.session, desc |-> card'.desc,
                  acc |-> card'.acc, op |-> card'.op, range |-> card'.range,
                  at |-> card'.at, kind |-> card'.kind, out |-> card'.out,
                  fslot |-> card'.fslot, wslot |-> card'.wslot,
                  mails |-> card'.mails]
  PROVE  MailInv'
<1>1. Shape'
  BY DEF MailInv, Shape
<1>2. Mails'
  BY DEF MailInv, Mails, Waiting
<1> QED BY <1>1, <1>2, CardKept

\* The card, idle, says that it is there.
LEMMA PollMail == ASSUME MailInv, Poll PROVE MailInv'
<1>1. /\ card.pc = "idle" /\ win.req.seq = card.last /\ card' = card
      /\ win' = [win EXCEPT !.ready = TRUE] /\ UNCHANGED host
  BY DEF Poll, cardUnchanged
<1>2. /\ win'.req = win.req /\ win'.reply = win.reply
      /\ win'.mail = win.mail /\ hpc' = hpc /\ proc' = proc
  BY <1>1 DEF MailInv, Shape, host
<1>3. Shape'
  BY <1>1, <1>2 DEF MailInv, Shape
<1>4. Numbers' /\ Mails' /\ Turns'
  BY <1>1, <1>2 DEF MailInv, Numbers, Mails, Turns, Waiting, AtRest
<1> QED BY <1>3, <1>4 DEF MailInv

\* The card takes the request: from here on it is the one it works on.
LEMMA TakeMail == ASSUME MailInv, Take PROVE MailInv'
<1>1. /\ card.pc = "idle" /\ win.req.seq # card.last /\ UNCHANGED host
  BY DEF Take, cardUnchanged
<1>2. hpc' = hpc /\ proc' = proc
  BY <1>1 DEF host
<1>3. PICK fetch \in BOOLEAN :
        /\ card' = [card EXCEPT
             !.last = win.req.seq, !.session = win.req.session,
             !.desc = win.req,
             !.acc = win.req.acc, !.op = 1, !.range = 1, !.at = -1,
             !.kind = "left", !.out = <<>>,
             !.pc = IF fetch THEN "fetch" ELSE AfterFetch(win.req.mode),
             !.mails = IF fetch THEN @ + 1 ELSE @]
        /\ win' = IF fetch
                  THEN [win EXCEPT !.mail = Mail("fetch", PagesOf(CodeChunk),
                                                 card.fslot)]
                  ELSE win
  BY DEF Take
<1>4. /\ card'.last = win.req.seq /\ card'.desc = win.req
      /\ card'.pc = IF fetch THEN "fetch" ELSE AfterFetch(win.req.mode)
      /\ card'.mails = IF fetch THEN card.mails + 1 ELSE card.mails
  BY <1>3 DEF MailInv, Shape
<1>5. /\ win'.req = win.req /\ win'.reply = win.reply
      /\ win'.ready = win.ready
      /\ win'.mail = IF fetch THEN Mail("fetch", PagesOf(CodeChunk),
                                        card.fslot)
                     ELSE win.mail
  BY <1>3 DEF MailInv, Shape
<1>6. win' = [ready |-> win'.ready, req |-> win'.req, reply |-> win'.reply,
              mail |-> win'.mail, fetch |-> win'.fetch, wb |-> win'.wb]
  BY <1>3 DEF MailInv, Shape
<1>7. card' = [pc |-> card'.pc, last |-> card'.last,
               session |-> card'.session, desc |-> card'.desc,
               acc |-> card'.acc, op |-> card'.op, range |-> card'.range,
               at |-> card'.at, kind |-> card'.kind, out |-> card'.out,
               fslot |-> card'.fslot, wslot |-> card'.wslot,
               mails |-> card'.mails]
  BY <1>3 DEF MailInv, Shape
<1>8. Shape'
  BY <1>5, <1>6, <1>7 DEF MailInv, Shape, Mail
<1>9. Mails'
  BY <1>1, <1>4, <1>5 DEF MailInv, Mails, Waiting, Mail, AfterFetch
<1>10. Numbers'
  BY <1>1, <1>4, <1>5 DEF MailInv, Numbers
<1>11. Turns'
  BY <1>1, <1>2, <1>4, <1>5 DEF MailInv, Turns, AtRest
<1> QED BY <1>8, <1>9, <1>10, <1>11 DEF MailInv

\* The three steps that send a mail.
LEMMA SendersMail ==
  ASSUME MailInv, FetchRanges \/ FaultUnmapped \/ Flush(TRUE)
  PROVE  MailInv'
<1>1. UNCHANGED host
  BY DEF FetchRanges, FaultUnmapped, Flush, cardUnchanged
<1>2. CASE FetchRanges
  <2>1. card.pc = "ranges"
    BY <1>2 DEF FetchRanges
  <2>2. CASE win' # win
    <3>1. PICK run, at :
            /\ win' = [win EXCEPT !.mail = Mail("fetch", run, card.fslot)]
            /\ card' = [card EXCEPT !.pc = "fetch", !.mails = @ + 1,
                                    !.at = at]
      BY <1>2, <2>2 DEF FetchRanges
    <3>2. win' = [win EXCEPT !.wb = win.wb,
                             !.mail = Mail("fetch", run, card.fslot)]
      BY <3>1 DEF MailInv, Shape
    <3>3. card' = [card EXCEPT !.pc = "fetch", !.mails = @ + 1, !.at = at]
      BY <3>1
    <3>4. card.pc # "idle"
      BY <2>1
    <3> QED BY <1>1, <3>2, <3>3, <3>4, Sends
  <2>3. CASE win' = win
    <3>1. \/ \E run, at :
               /\ win' = [win EXCEPT !.mail = Mail("fetch", run, card.fslot)]
               /\ card' = [card EXCEPT !.pc = "fetch", !.mails = @ + 1,
                                       !.at = at]
          \/ card' = [card EXCEPT !.range = @ + 1, !.at = -1]
          \/ \E at : card' = [card EXCEPT !.at = at]
      BY <1>2 DEF FetchRanges
    <3>2. CASE \E run, at :
               /\ win' = [win EXCEPT !.mail = Mail("fetch", run, card.fslot)]
               /\ card' = [card EXCEPT !.pc = "fetch", !.mails = @ + 1,
                                       !.at = at]
      <4>1. PICK run, at :
              /\ win' = [win EXCEPT !.mail = Mail("fetch", run, card.fslot)]
              /\ card' = [card EXCEPT !.pc = "fetch", !.mails = @ + 1,
                                      !.at = at]
        BY <3>2
      <4>2. win' = [win EXCEPT !.wb = win.wb,
                               !.mail = Mail("fetch", run, card.fslot)]
        BY <4>1 DEF MailInv, Shape
      <4>3. card' = [card EXCEPT !.pc = "fetch", !.mails = @ + 1, !.at = at]
        BY <4>1
      <4>4. card.pc # "idle"
        BY <2>1
      <4> QED BY <1>1, <4>2, <4>3, <4>4, Sends
    <3>3. CASE \/ card' = [card EXCEPT !.range = @ + 1, !.at = -1]
               \/ \E at : card' = [card EXCEPT !.at = at]
      <4>1. /\ card'.pc = card.pc /\ card'.last = card.last
            /\ card'.desc = card.desc
            /\ card' = [pc |-> card'.pc, last |-> card'.last,
                  session |-> card'.session, desc |-> card'.desc,
                  acc |-> card'.acc, op |-> card'.op, range |-> card'.range,
                  at |-> card'.at, kind |-> card'.kind, out |-> card'.out,
                  fslot |-> card'.fslot, wslot |-> card'.wslot,
                  mails |-> card'.mails]
        BY <3>3 DEF MailInv, Shape
      <4> QED BY <1>1, <2>1, <2>3, <4>1, GoesOnMail DEF Waiting
    <3> QED BY <3>1, <3>2, <3>3
  <2> QED BY <2>2, <2>3
<1>3. CASE FaultUnmapped
  <2>1. /\ card.pc = "run"
        /\ \E pages : win' = [win EXCEPT !.mail = Mail("fetch", pages,
                                                      card.fslot)]
        /\ card' = [card EXCEPT !.pc = "fetch", !.mails = @ + 1]
    BY <1>3 DEF FaultUnmapped, Running
  <2>2. PICK pages : win' = [win EXCEPT !.mail = Mail("fetch", pages,
                                                      card.fslot)]
    BY <2>1
  <2>3. /\ win' = [win EXCEPT !.wb = win.wb,
                              !.mail = Mail("fetch", pages, card.fslot)]
        /\ card' = [card EXCEPT !.pc = "fetch", !.mails = @ + 1,
                                !.at = card.at]
    BY <2>1, <2>2 DEF MailInv, Shape
  <2> QED BY <1>1, <2>1, <2>3, Sends
<1>4. CASE Flush(TRUE)
  <2>1. /\ card.pc = "back"
        /\ \E wb : win' = [win EXCEPT !.wb[card.wslot] = wb,
                             !.mail = Mail("writeback", Batch, card.wslot)]
        /\ card' = [card EXCEPT !.pc = "flush", !.mails = @ + 1]
    BY <1>4 DEF Flush
  <2>2. PICK wb : win' = [win EXCEPT !.wb[card.wslot] = wb,
                             !.mail = Mail("writeback", Batch, card.wslot)]
    BY <2>1
  <2>3. win' = [win EXCEPT !.wb = [win.wb EXCEPT ![card.wslot] = wb],
                           !.mail = Mail("writeback", Batch, card.wslot)]
    BY <2>2 DEF MailInv, Shape
  <2>4. card' = [card EXCEPT !.pc = "flush", !.mails = @ + 1, !.at = card.at]
    BY <2>1 DEF MailInv, Shape
  <2> QED BY <1>1, <2>1, <2>3, <2>4, Sends
<1> QED BY <1>2, <1>3, <1>4

\* The steps that answer no one and ask for nothing.
LEMMA QuietMail ==
  ASSUME MailInv,
         \/ Fetched \/ (\E ok \in BOOLEAN : Pull(ok)) \/ Execute \/ GoesOn
         \/ FaultWrite \/ FaultRanges \/ Left \/ Flush(FALSE) \/ Flushed
  PROVE  MailInv'
<1>1. UNCHANGED host /\ win' = win
  BY DEF Fetched, Pull, Execute, GoesOn, FaultWrite, FaultRanges, Left,
         Flush, Flushed, cardUnchanged
<1>2. /\ card.pc # "idle"
      /\ Waiting => win.mail.ack = card.mails
  BY DEF Fetched, Pull, Execute, GoesOn, FaultWrite, FaultRanges, Left,
         Flush, Flushed, Running, Waiting
<1>3. /\ card'.pc \notin {"idle", "fetch", "flush"}
      /\ card'.last = card.last /\ card'.desc = card.desc
      /\ card' = [pc |-> card'.pc, last |-> card'.last,
                  session |-> card'.session, desc |-> card'.desc,
                  acc |-> card'.acc, op |-> card'.op, range |-> card'.range,
                  at |-> card'.at, kind |-> card'.kind, out |-> card'.out,
                  fslot |-> card'.fslot, wslot |-> card'.wslot,
                  mails |-> card'.mails]
  <2>1. CASE Fetched
    BY <2>1 DEF Fetched, MailInv, Shape
  <2>2. CASE \E ok \in BOOLEAN : Pull(ok)
    <3>1. \/ card' = [card EXCEPT !.fslot = NextFetchSlot,
                                  !.pc = AfterFetch(card.desc.mode)]
          \/ card' = [card EXCEPT !.fslot = NextFetchSlot,
                                  !.kind = "fault", !.pc = "done"]
      BY <2>2 DEF Pull
    <3> QED BY <3>1 DEF MailInv, Shape, AfterFetch
  <2>3. CASE Execute \/ GoesOn
    <3>1. /\ card.pc = "run"
          /\ \E a : card' = [card EXCEPT !.op = @ + 1, !.acc = a]
      <4>1. CASE Execute
        BY <4>1 DEF Execute, Running
      <4>2. CASE GoesOn
        <5>1. card' = [card EXCEPT !.op = @ + 1, !.acc = card.acc]
          BY <4>2 DEF GoesOn, MailInv, Shape
        <5> QED BY <4>2, <5>1 DEF GoesOn, Running
      <4> QED BY <2>3, <4>1, <4>2
    <3> QED BY <3>1 DEF MailInv, Shape
  <2>4. CASE FaultWrite \/ FaultRanges
    <3>1. /\ card.pc = "run"
          /\ \/ card' = card
             \/ \E kind : card' = [card EXCEPT !.kind = kind, !.pc = "done"]
      BY <2>4 DEF FaultWrite, FaultRanges, Leave, Running
    <3> QED BY <3>1 DEF MailInv, Shape
  <2>5. CASE Left
    BY <2>5 DEF Left, MailInv, Shape
  <2>6. CASE Flush(FALSE)
    <3>1. /\ card.pc = "back"
          /\ \E out : card' = [card EXCEPT !.kind = "fault", !.out = out]
      BY <2>6 DEF Flush
    <3> QED BY <3>1 DEF MailInv, Shape
  <2>7. CASE Flushed
    BY <2>7 DEF Flushed, MailInv, Shape
  <2> QED BY <2>1, <2>2, <2>3, <2>4, <2>5, <2>6, <2>7
<1> QED BY <1>1, <1>2, <1>3, GoesOnMail

\* The request is answered: the card is at rest until the next.
LEMMA ReplyMail == ASSUME MailInv, Reply PROVE MailInv'
<1>1. /\ card.pc \in {"back", "done"} /\ UNCHANGED host
      /\ win' = [win EXCEPT !.reply = [seq |-> card.last,
                                       kind |-> card.kind, acc |-> card.acc]]
      /\ card' = [card EXCEPT !.pc = "idle"]
  BY DEF Reply, cardUnchanged
<1>2. hpc' = hpc /\ proc' = proc
  BY <1>1 DEF host
<1>3. /\ win'.req = win.req /\ win'.mail = win.mail
      /\ win'.ready = win.ready /\ win'.reply.seq = card.last
      /\ card'.pc = "idle" /\ card'.last = card.last
      /\ card'.desc = card.desc /\ card'.mails = card.mails
  BY <1>1 DEF MailInv, Shape
<1>4. Shape'
  BY <1>1, <1>3 DEF MailInv, Shape
<1>5. Numbers' /\ Mails' /\ Turns'
  BY <1>1, <1>2, <1>3 DEF MailInv, Numbers, Mails, Turns, Waiting, AtRest
<1> QED BY <1>4, <1>5 DEF MailInv

-----------------------------------------------------------------------------
\* Every step keeps the invariant.
LEMMA NextMail ==
  ASSUME MailInv, [Next]_vars, "stuck" \notin Faults
  PROVE  MailInv'
<1>1. CASE UNCHANGED vars
  BY <1>1, HostKept DEF vars
<1>2. CASE \/ \E p \in Stored : Store(p)
           \/ \E p \in Shared : OtherStore(p)
  <2>1. UNCHANGED <<win, card>> /\ hpc' = hpc /\ proc' = proc
    BY <1>2 DEF Store, OtherStore
  <2> QED BY <2>1, HostKept
<1>3. CASE \E r \in Regions : Run(r)
  <2>1. UNCHANGED <<win, card>> /\ hpc = "idle" /\ hpc' = "submit"
    BY <1>3 DEF Run
  <2> QED BY <2>1, HostKept
<1>4. CASE Die \/ Refused \/ GiveUp
  <2>1. UNCHANGED <<win, card>> /\ hpc' = "dead"
    BY <1>4 DEF Die, Refused, GiveUp
  <2> QED BY <2>1, HostKept
<1>5. CASE AcceptLeft \/ Retry
  <2>1. /\ UNCHANGED <<win, card>> /\ hpc = "wait" /\ ~Unanswered
        /\ hpc' \in {"idle", "submit"}
    BY <1>5 DEF AcceptLeft, Retry
  <2> QED BY <2>1, HostKept
<1>6. CASE Apply
  <2>1. /\ UNCHANGED <<win, card>> /\ hpc = "apply" /\ hpc' = "wait"
        /\ proc' = proc
    BY <1>6 DEF Apply
  <2> QED BY <2>1, HostKept
<1>7. CASE PassReady
  <2>1. UNCHANGED <<win, card>> /\ hpc = "init" /\ win.ready /\ hpc' = "idle"
    BY <1>7 DEF PassReady
  <2> QED BY <2>1, HostKept
<1>8. CASE \/ Submit \/ ServeFetch \/ Prefetch \/ ServeWriteback \/ Load
           \/ Restart
  BY <1>8, SubmitMail, ServeMail, PrefetchMail, LoadMail, RestartMail
<1>9. CASE CardStep
  <2>1. \/ Poll \/ Take \/ Reply
        \/ FetchRanges \/ FaultUnmapped \/ Flush(TRUE)
        \/ Fetched \/ (\E ok \in BOOLEAN : Pull(ok)) \/ Execute \/ GoesOn
        \/ FaultWrite \/ FaultRanges \/ Left \/ Flush(FALSE) \/ Flushed
    BY <1>9 DEF CardStep, Outcomes
  <2> QED BY <2>1, PollMail, TakeMail, ReplyMail, SendersMail, QuietMail
<1> QED BY <1>1, <1>2, <1>3, <1>4, <1>5, <1>6, <1>7, <1>8, <1>9
        DEF Next, Serve

\* A mail the process is about to serve, or a write-back it is applying,
\* comes from the phase it submitted (session, offload.rs 112; wait_ready,
\* window.rs 91-97), as long as no worker is started again while it waits
\* for the answer to a mail (with "stuck", TLC finds such a mail served).
THEOREM MailsAreOwn ==
  ASSUME "stuck" \notin Faults
  PROVE  Spec => []OwnMail
<1>1. MailInv /\ [Next]_vars => MailInv'
  BY NextMail
<1>2. MailInv => OwnMail
  <2> SUFFICES ASSUME MailInv, MailWaits \/ hpc \in {"prefetch", "apply"}
               PROVE  card.desc.session = proc /\ card.last = win.req.seq
    BY DEF OwnMail
  <2>1. MailWaits => card.pc # "idle"
    BY DEF MailInv, Mails, Waiting, MailWaits
  <2> QED BY <2>1 DEF MailInv, Turns, MailWaits
<1> QED BY InitMail, <1>1, <1>2, PTL DEF Spec

-----------------------------------------------------------------------------
(* The bytes of the program's other threads.  A worker that starts again    *)
(* takes an old answer for its first mail's, and a line inside a densely    *)
(* written range goes back as the region made it (exec.S fetches its ends   *)
(* alone): the hypotheses are that neither happens.                         *)

\* The lines inside a range written densely are the region's alone, which
\* fills them.
DenseAlone ==
    \A r \in Regions : \A i \in DOMAIN r : \A j \in DOMAIN r[i].ranges :
        LET d == r[i].ranges[j]
        IN  d.dense => \A p \in Shared : ~(d.lo < p /\ p < d.hi)

\* A request's parts.
IsDesc(d) ==
    /\ d.mode \in {"ranges", "demand"}
    /\ d.ranges \in Seq(DeclaredRange)
    /\ \A j \in DOMAIN d.ranges :
          /\ d.ranges[j].lo <= d.ranges[j].hi
          /\ d.ranges[j].dense =>
                \A p \in Shared : ~(d.ranges[j].lo < p /\ p < d.ranges[j].hi)
    /\ d.ops \in Seq(CodeAccess)

\* Copies of pages: in a line no other thread uses, its byte stays 0.
Cell(x) == x = [r |-> x.r, o |-> x.o]
Copies(f) ==
    /\ f = [p \in DOMAIN f |-> f[p]] /\ DOMAIN f \subseteq Pages
    /\ \A p \in DOMAIN f : Cell(f[p]) /\ (p \notin Shared => f[p].o = 0)

\* A chunk on the card.
IsChunk(c, x) ==
    /\ x = [fourk |-> x.fourk, writable |-> x.writable, filled |-> x.filled,
            dirty |-> x.dirty, shadow |-> x.shadow, mem |-> x.mem]
    /\ x.filled \subseteq PagesOf(c)
    /\ Copies(x.mem) /\ DOMAIN x.mem = PagesOf(c)
    /\ x.dirty => ~x.fourk

\* The program's memory, the stash and the slots.
DataInv ==
    /\ Copies(prog) /\ DOMAIN prog = Pages
    /\ Copies(ref) /\ DOMAIN ref = Pages
    /\ Copies(stash)
    /\ win.fetch = [s \in {0, 1} |-> win.fetch[s]]
    /\ win.wb = [s \in {0, 1} |-> win.wb[s]]
    /\ \A s \in {0, 1} : Copies(win.fetch[s]) /\ Copies(win.wb[s])

\* What the program is at.
HostInv ==
    /\ mode \in {"ranges", "demand"}
    /\ hpc \in {"submit", "wait", "prefetch", "apply"} =>
          region \in Regions /\ k \in DOMAIN region
    /\ IsDesc(win.req)
    /\ hpc \in {"prefetch", "apply"} => mail.slot \in {0, 1}
    /\ \/ ahead = <<>>
       \/ \E s \in {0, 1} : ahead = <<DOMAIN win.fetch[s], s>>

\* The page is on the card, and fetched when another thread uses its line.
Sendable(p) ==
    /\ ChunkOf(p) \in DOMAIN chunks
    /\ p \in Shared => p \in chunks[ChunkOf(p)].filled

\* The declared ranges, as far as the card has walked over them.
Walked(j, p) ==
    \/ card.pc \in {"run", "back", "flush"}
    \/ /\ card.pc \in {"ranges", "fetch"}
       /\ j < card.range \/ (j = card.range /\ p < card.at)
WalkInv ==
    /\ card.pc = "ranges" => card.desc.mode = "ranges"
    /\ card.desc.mode = "ranges" =>
         /\ \A j \in DOMAIN card.desc.ranges :
               \A p \in card.desc.ranges[j].lo .. card.desc.ranges[j].hi :
                  Walked(j, p) => Sendable(p)
         /\ card.pc \in {"ranges", "fetch"} =>
              /\ card.range \in Nat \ {0}
              /\ card.at # -1 =>
                   /\ card.range \in DOMAIN card.desc.ranges
                   /\ card.at \in card.desc.ranges[card.range].lo ..
                                  card.desc.ranges[card.range].hi

\* Chunks filled on demand are filled whole, and a phase in demand mode has
\* no others.
WholeInv ==
    /\ \A c \in DOMAIN chunks :
          ~chunks[c].fourk => \/ chunks[c].filled = PagesOf(c)
                              \/ card.pc = "done"
                              \/ card.pc = "fetch" /\ win.mail.pages = PagesOf(c)
    /\ card.pc \in {"run", "fetch", "back", "flush"}
          /\ card.desc.mode = "demand" =>
             \A c \in DOMAIN chunks : ~chunks[c].fourk
    /\ card.pc = "done" => card.kind # "left"

\* What the card asks for, and what it has to send.
AskInv ==
    /\ card.fslot \in {0, 1} /\ card.wslot \in {0, 1}
    /\ card.mails \in Nat /\ win.mail.seq = card.mails
    /\ card.op \in Nat \ {0}
    /\ card.pc = "fetch" =>
         /\ win.mail.kind = "fetch" /\ win.mail.slot \in {0, 1}
         /\ win.mail.pages # {}
         /\ \E c \in DOMAIN chunks :
              /\ win.mail.pages \subseteq PagesOf(c) \ chunks[c].filled
              /\ card.desc.mode = "demand" => win.mail.pages = PagesOf(c)
    /\ card.pc = "flush" =>
         win.mail.kind = "writeback" /\ win.mail.slot = card.wslot
    /\ card.pc \in {"back", "flush"} =>
         /\ card.out \in Seq(Pages)
         /\ \A i \in DOMAIN card.out : Sendable(card.out[i])

CardInv ==
    /\ IsDesc(card.desc)
    /\ chunks = [c \in DOMAIN chunks |-> chunks[c]]
    /\ \A c \in DOMAIN chunks : IsChunk(c, chunks[c])
    /\ WalkInv /\ WholeInv /\ AskInv

\* The other thread's bytes of these pages are as they were sent.
Known(f, T) ==
    \A p \in T \cap Shared : p \in DOMAIN stash /\ f[p].o = stash[p].o
CardKnows == \A c \in DOMAIN chunks : Known(chunks[c].mem, chunks[c].filled)

\* The card is at the phase the program waits for.
Going == hpc \in {"wait", "prefetch", "apply"} /\ card.last = win.req.seq

\* Between two phases of a region the card keeps what it holds.
Between ==
    \/ hpc = "submit" /\ k # 1
    \/ hpc = "wait" /\ card.last # win.req.seq /\ ~win.req.first

\* What the card holds is what this region sent; so is what is under way.
FlowInv ==
    /\ Going \/ Between => CardKnows
    /\ card.pc = "fetch" /\ win.mail.ack = win.mail.seq =>
         /\ DOMAIN win.fetch[win.mail.slot] = win.mail.pages
         /\ Going /\ win.mail.status = 0 =>
              Known(win.fetch[win.mail.slot], win.mail.pages)
         /\ hpc = "prefetch" => mail.slot = win.mail.slot
    /\ card.pc = "flush" /\ Going =>
         Known(win.wb[card.wslot], DOMAIN win.wb[card.wslot])
    /\ hpc = "apply" =>
         /\ Known(win.wb[mail.slot], DOMAIN win.wb[mail.slot])
         /\ mail.slot = card.wslot <=>
              card.pc = "flush" /\ win.mail.ack = win.mail.seq

SurvInv ==
    MailInv /\ DataInv /\ HostInv /\ CardInv /\ FlowInv /\ OthersSurvive

-----------------------------------------------------------------------------
(* Pages and pieces.                                                       *)

\* What is between two pages of a chunk is in the chunk.
LEMMA DivBetween ==
  ASSUME NEW n \in Nat \ {0}, NEW a \in Nat, NEW b \in Nat, NEW c \in Nat,
         a <= b, b <= c, a \div n = c \div n
  PROVE  b \div n = a \div n
OBVIOUS

LEMMA LowestIs ==
  ASSUME NEW T, T \subseteq Nat, T # {}
  PROVE  Lowest(T) \in T /\ \A q \in T : Lowest(T) <= q
<1> DEFINE R == OpToRel(<, Nat)
<1>1. IsWellFoundedOn(R, Nat)
  BY NatLessThanWellFounded
<1> HIDE DEF R
<1>2. PICK x \in T : \A y \in T : ~ (<<y, x>> \in R)
  BY <1>1, WFMin
<1>3. \A a, b \in Nat : <<b, a>> \in R <=> b < a
  BY DEF R, OpToRel
<1>4. ASSUME NEW y \in T PROVE x <= y
  <2>1. x \in Nat /\ y \in Nat
    OBVIOUS
  <2>2. ~ (y < x)
    BY <1>2, <1>3, <2>1
  <2> QED BY <2>1, <2>2
<1> QED BY <1>4 DEF Lowest

LEMMA HighestIs ==
  ASSUME NEW T, T \subseteq Pages, T # {}
  PROVE  Highest(T) \in T /\ \A q \in T : q <= Highest(T)
<1> DEFINE D == {LastPage - q : q \in T}
<1>1. LastPage \in Nat
  BY OffloadAssumption
<1>2. D \subseteq Nat /\ D # {}
  <2>1. ASSUME NEW q \in T PROVE LastPage - q \in Nat
    <3>1. q \in 0 .. LastPage
      BY DEF Pages
    <3> QED BY <1>1, <3>1
  <2> QED BY <2>1
<1>3. Lowest(D) \in D /\ \A d \in D : Lowest(D) <= d
  BY <1>2, LowestIs
<1>4. PICK x \in T : Lowest(D) = LastPage - x
  BY <1>3
<1>5. \A q \in T : q <= x
  <2>1. SUFFICES ASSUME NEW q \in T PROVE q <= x
    OBVIOUS
  <2>2. LastPage - x <= LastPage - q
    BY <1>3, <1>4
  <2>3. q \in Nat /\ x \in Nat
    BY DEF Pages
  <2> QED BY <1>1, <2>2, <2>3
<1> QED BY <1>5 DEF Highest

\* The piece of a range within a chunk.
LEMMA PieceIs ==
  ASSUME NEW at \in Pages, NEW hi \in Pages, at <= hi,
         NEW piece, piece = {p \in PagesOf(ChunkOf(at)) : p >= at /\ p <= hi}
  PROVE  /\ at \in piece /\ piece \subseteq Pages
         /\ Lowest(piece) = at
         /\ Highest(piece) \in piece
         /\ \A p \in at .. Highest(piece) : p \in piece
         /\ \A p \in piece : ChunkOf(p) = ChunkOf(at) /\ p <= Highest(piece)
<1>1. LastPage \in Nat /\ ChunkPages \in Nat \ {0}
  BY OffloadAssumption
<1>2. at \in piece /\ piece \subseteq Pages /\ piece \subseteq Nat
  BY <1>1 DEF PagesOf, Pages
<1>3. Lowest(piece) \in piece /\ Lowest(piece) <= at
  BY <1>2, LowestIs
<1>4. Lowest(piece) = at
  BY <1>2, <1>3
<1> DEFINE h == Highest(piece)
<1>5. h \in piece /\ \A p \in piece : p <= h
  BY <1>2, HighestIs
<1> HIDE DEF h
<1>6. ASSUME NEW p \in at .. h PROVE p \in piece
  <2>1. h \in Nat /\ h <= hi /\ h <= LastPage /\ at \in Nat
        /\ ChunkOf(h) = ChunkOf(at)
    BY <1>1, <1>2, <1>5 DEF PagesOf, Pages
  <2>2. p \in Nat /\ at <= p /\ p <= h
    BY <2>1
  <2>3. ChunkOf(p) = ChunkOf(at)
    BY <1>1, <2>1, <2>2, DivBetween DEF ChunkOf
  <2>4. p \in Pages /\ p <= hi
    BY <1>1, <2>1, <2>2 DEF Pages
  <2> QED BY <2>2, <2>3, <2>4 DEF PagesOf
<1>7. \A p \in piece : ChunkOf(p) = ChunkOf(at)
  BY DEF PagesOf
<1> QED BY <1>2, <1>4, <1>5, <1>6, <1>7 DEF h

LEMMA FirstRunIs ==
  ASSUME NEW want, want \subseteq Pages, want # {}
  PROVE  FirstRun(want, {}) \subseteq want /\ FirstRun(want, {}) # {}
<1> DEFINE lo == Lowest(want)
<1>1. want \subseteq Nat /\ want \ {} = want
  BY DEF Pages
<1>2. lo \in want /\ lo \in Nat
  BY <1>1, LowestIs
<1> HIDE DEF lo
<1>3. lo .. lo = {lo}
  BY <1>2
<1>4. FirstRun(want, {}) = {p \in want : p >= lo /\ lo .. p \subseteq want}
  BY <1>1 DEF FirstRun, lo
<1>5. lo \in FirstRun(want, {})
  BY <1>2, <1>3, <1>4
<1> QED BY <1>4, <1>5

\* The pages written back are those the phase changed.
LEMMA AscendingIs ==
  ASSUME NEW T, T \subseteq Pages
  PROVE  Ascending(T) \in Seq(T)
<1> DEFINE N == Cardinality(T)
           Step(g, i) == IF i = 0 THEN T ELSE g[i - 1] \ {Lowest(g[i - 1])}
           Good(g, m) == /\ g = [i \in 0 .. m |-> g[i]]
                         /\ \A i \in 0 .. m :
                              /\ g[i] = Step(g, i)
                              /\ g[i] \subseteq T /\ IsFiniteSet(g[i])
                              /\ Cardinality(g[i]) = N - i
<1>1. LastPage \in Nat
  BY OffloadAssumption
<1>2a. T \subseteq Nat
  BY <1>1 DEF Pages
<1>2. IsFiniteSet(T) /\ N \in Nat
  <2>1. IsFiniteSet(0 .. LastPage)
    BY <1>1, FS_Interval
  <2>2. IsFiniteSet(T)
    BY <2>1, FS_Subset DEF Pages
  <2> QED BY <2>2, FS_CardinalityType
<1> HIDE DEF N
<1>3. \A m \in Nat : m <= N => \E g : Good(g, m)
  <2> DEFINE Bad == {m \in Nat : m <= N /\ ~ \E g : Good(g, m)}
  <2>1. SUFFICES ASSUME Bad # {} PROVE FALSE
    OBVIOUS
  <2> DEFINE m == Lowest(Bad)
  <2>2. m \in Bad /\ \A q \in Bad : m <= q
    BY <2>1, LowestIs
  <2> HIDE DEF m
  <2>3. m # 0
    <3> DEFINE g == [i \in 0 .. 0 |-> T]
    <3>1. Good(g, 0)
      BY <1>2 DEF N
    <3>2. \E f : Good(f, 0)
      BY <3>1
    <3> QED BY <2>2, <3>2
  <2>4. m - 1 \in Nat /\ m - 1 <= N /\ m - 1 \notin Bad /\ m \in Nat /\ m <= N
    <3>1. m \in Nat /\ m <= N
      BY <2>2
    <3>2. m - 1 \in Nat /\ m - 1 <= N /\ ~(m <= m - 1)
      BY <1>2, <2>3, <3>1
    <3> QED BY <2>2, <3>1, <3>2
  <2>5a. \E g : Good(g, m - 1)
    <3> HIDE DEF Good
    <3> QED BY <2>4
  <2>5. PICK g : Good(g, m - 1)
    BY <2>5a
  <2> DEFINE L == g[m - 1]
             h == [i \in 0 .. m |-> IF i = m THEN L \ {Lowest(L)} ELSE g[i]]
  <2>6. L \subseteq T /\ IsFiniteSet(L) /\ Cardinality(L) = N - (m - 1)
    BY <2>4, <2>5
  <2>7. L # {}
    BY <1>2, <2>4, <2>6, FS_EmptySet
  <2>8. Lowest(L) \in L
    <3>1. L \subseteq Nat
      BY <1>2a, <2>6
    <3> HIDE DEF L
    <3> QED BY <2>7, <3>1, LowestIs
  <2>9. /\ IsFiniteSet(L \ {Lowest(L)})
        /\ Cardinality(L \ {Lowest(L)}) = N - m
    <3> HIDE DEF L
    <3>1. /\ IsFiniteSet(L \ {Lowest(L)})
          /\ Cardinality(L \ {Lowest(L)}) = Cardinality(L) - 1
      BY <2>6, <2>8, FS_RemoveElement
    <3>2. (N - (m - 1)) - 1 = N - m
      BY <1>2, <2>4
    <3> QED BY <2>6, <3>1, <3>2
  <2>10. \A i \in 0 .. (m - 1) : h[i] = g[i]
    BY <2>4
  <2>11. h[m] = L \ {Lowest(L)} /\ h[m - 1] = L
    BY <2>4
  <2> HIDE DEF L
  <2>12. ASSUME NEW i \in 0 .. m
         PROVE  /\ h[i] = Step(h, i) /\ h[i] \subseteq T /\ IsFiniteSet(h[i])
                /\ Cardinality(h[i]) = N - i
    <3>1. CASE i = m
      <4>1. h[i] = Step(h, i)
        BY <2>3, <2>11, <3>1
      <4> QED BY <2>6, <2>9, <2>11, <3>1, <4>1
    <3>2. CASE i # m
      <4>1. i \in 0 .. (m - 1) /\ (i # 0 => i - 1 \in 0 .. (m - 1))
        BY <2>4, <3>2
      <4>2. g[i] = Step(g, i)
        BY <2>5, <4>1
      <4>3. Step(h, i) = Step(g, i)
        BY <2>10, <4>1
      <4> QED BY <2>5, <2>10, <4>1, <4>2, <4>3
    <3> QED BY <3>1, <3>2
  <2>13. h = [i \in 0 .. m |-> h[i]]
    OBVIOUS
  <2> HIDE DEF h
  <2>14. Good(h, m)
    BY <2>12, <2>13
  <2> QED BY <2>2, <2>14
<1>4a. \E g : Good(g, N)
  <2> HIDE DEF Good
  <2>1. N <= N
    BY <1>2
  <2> QED BY <1>2, <1>3, <2>1
<1>4. PICK g : Good(g, N)
  BY <1>4a
<1> DEFINE n == CHOOSE f : f = [i \in 0 .. N |-> Step(f, i)]
<1>5. g = [i \in 0 .. N |-> Step(g, i)]
  BY <1>4
<1>6. n = [i \in 0 .. N |-> Step(n, i)]
  BY <1>5
<1> HIDE DEF n
<1>7. \A i \in 0 .. N : n[i] = g[i]
  <2> DEFINE Bad == {i \in 0 .. N : n[i] # g[i]}
  <2>1. SUFFICES ASSUME Bad # {} PROVE FALSE
    OBVIOUS
  <2> DEFINE m == Lowest(Bad)
  <2>2. m \in Bad /\ \A q \in Bad : m <= q
    BY <2>1, LowestIs
  <2> HIDE DEF m
  <2>3. m = 0 \/ (m - 1 \in 0 .. N /\ m - 1 \notin Bad)
    <3>1. m \in 0 .. N
      BY <2>2
    <3>2. m # 0 => m - 1 \in 0 .. N /\ ~(m <= m - 1)
      BY <1>2, <3>1
    <3> QED BY <2>2, <3>2
  <2>4. n[m] = Step(n, m) /\ g[m] = Step(g, m)
    BY <1>4, <1>6, <2>2
  <2> QED BY <2>2, <2>3, <2>4
<1>8. Ascending(T) = [i \in 1 .. N |-> Lowest(n[i - 1])]
  BY DEF Ascending, n, N
<1>9. ASSUME NEW i \in 1 .. N PROVE Lowest(n[i - 1]) \in T
  <2>1. i - 1 \in 0 .. N /\ N - (i - 1) # 0
    BY <1>2
  <2>2. /\ n[i - 1] \subseteq T /\ IsFiniteSet(n[i - 1])
        /\ Cardinality(n[i - 1]) = N - (i - 1)
    BY <1>4, <1>7, <2>1
  <2>3. n[i - 1] # {}
    BY <2>1, <2>2, FS_EmptySet
  <2>4. Lowest(n[i - 1]) \in n[i - 1]
    <3>1. n[i - 1] \subseteq Nat
      BY <1>2a, <2>2
    <3> QED BY <2>3, <3>1, LowestIs
  <2> QED BY <2>2, <2>4
<1>10. Ascending(T) \in [1 .. N -> T]
  BY <1>8, <1>9
<1> QED BY <1>2, <1>10, IsASeq

-----------------------------------------------------------------------------
(* What is written keeps to the lines.                                     *)

\* g has f's pages, and in them the other thread's bytes of f.
SameOther(f, g) ==
    /\ Copies(g) /\ DOMAIN g = DOMAIN f
    /\ \A q \in DOMAIN f : g[q].o = f[q].o

LEMMA CopiesOfR ==
  ASSUME NEW f, Copies(f), NEW p, NEW v, NEW g, g = [f EXCEPT ![p].r = v]
  PROVE  SameOther(f, g)
<1>1. /\ f = [q \in DOMAIN f |-> f[q]] /\ DOMAIN f \subseteq Pages
      /\ \A q \in DOMAIN f : Cell(f[q]) /\ (q \notin Shared => f[q].o = 0)
  BY DEF Copies
<1>2. /\ g = [q \in DOMAIN f |-> IF q = p THEN [f[p] EXCEPT !.r = v]
                                          ELSE f[q]]
  OBVIOUS
<1>3. ASSUME NEW q \in DOMAIN f
      PROVE  g[q].o = f[q].o /\ Cell(g[q])
  <2>1. CASE q = p
    <3>1. g[q] = [f[q] EXCEPT !.r = v] /\ f[q] = [r |-> f[q].r, o |-> f[q].o]
      BY <1>1, <1>2, <2>1 DEF Cell
    <3> QED BY <3>1 DEF Cell
  <2>2. CASE q # p
    BY <1>1, <1>2, <2>2
  <2> QED BY <2>1, <2>2
<1>4. DOMAIN g = DOMAIN f /\ g = [q \in DOMAIN g |-> g[q]]
  BY <1>2
<1> QED BY <1>1, <1>3, <1>4 DEF Copies, SameOther

NewOther(f, g, p, v) ==
    /\ Copies(g) /\ DOMAIN g = DOMAIN f
    /\ \A q \in DOMAIN f : g[q].o = IF q = p THEN v ELSE f[q].o

LEMMA CopiesOfO ==
  ASSUME NEW f, Copies(f), NEW p \in Shared, NEW v, NEW g,
         g = [f EXCEPT ![p].o = v]
  PROVE  NewOther(f, g, p, v)
<1>1. /\ f = [q \in DOMAIN f |-> f[q]] /\ DOMAIN f \subseteq Pages
      /\ \A q \in DOMAIN f : Cell(f[q]) /\ (q \notin Shared => f[q].o = 0)
  BY DEF Copies
<1>2. /\ g = [q \in DOMAIN f |-> IF q = p THEN [f[p] EXCEPT !.o = v]
                                          ELSE f[q]]
  OBVIOUS
<1>3. ASSUME NEW q \in DOMAIN f
      PROVE  g[q].o = (IF q = p THEN v ELSE f[q].o) /\ Cell(g[q])
  <2>1. CASE q = p
    <3>1. g[q] = [f[q] EXCEPT !.o = v] /\ f[q] = [r |-> f[q].r, o |-> f[q].o]
      BY <1>1, <1>2, <2>1 DEF Cell
    <3> QED BY <2>1, <3>1 DEF Cell
  <2>2. CASE q # p
    BY <1>1, <1>2, <2>2
  <2> QED BY <2>1, <2>2
<1>4. DOMAIN g = DOMAIN f /\ g = [q \in DOMAIN g |-> g[q]]
  BY <1>2
<1> QED BY <1>1, <1>3, <1>4 DEF Copies, NewOther

LEMMA NoPagesIs == Copies(NoPages) /\ DOMAIN NoPages = {}
BY DEF NoPages, Copies, Cell

LEMMA AccessIs ==
  ASSUME NEW op, NEW m, Copies(m), NEW a
  PROVE  SameOther(m, Access(op, m, a)[1])
<1> DEFINE n == Access(op, m, a)[1]
<1>1. n = m \/ \E v : n = [m EXCEPT ![op.page].r = v]
  <2>1. CASE op.kind = "store"
    BY <2>1 DEF Access
  <2>2. CASE op.kind = "update"
    BY <2>2 DEF Access
  <2>3. CASE op.kind \notin {"store", "update"}
    BY <2>3 DEF Access
  <2> QED BY <2>1, <2>2, <2>3
<1>2. CASE n = m
  BY <1>2 DEF SameOther
<1>3. CASE \E v : n = [m EXCEPT ![op.page].r = v]
  BY <1>3, CopiesOfR
<1> QED BY <1>1, <1>2, <1>3

\* A phase's accesses leave the other thread's bytes as they are.
LEMMA SequentialIs ==
  ASSUME NEW ops, Len(ops) \in Nat, NEW m, Copies(m), NEW a
  PROVE  SameOther(m, Sequential(ops, m, a)[1])
<1> DEFINE N == Len(ops)
           Kept(n) == SameOther(m, n)
           Step(g, i) == IF i = 0 THEN <<m, a>>
                         ELSE LET s == g[i - 1]
                              IN  Access(ops[i], s[1], s[2])
           Good(g, j) == /\ g = [i \in 0 .. j |-> g[i]]
                         /\ \A i \in 0 .. j :
                              g[i] = Step(g, i) /\ Kept(g[i][1])
<1>1. \A s, i : Kept(s[1]) => Kept(Access(ops[i], s[1], s[2])[1])
  <2> SUFFICES ASSUME NEW s, NEW i, Kept(s[1])
               PROVE  Kept(Access(ops[i], s[1], s[2])[1])
    OBVIOUS
  <2> DEFINE n == Access(ops[i], s[1], s[2])[1]
  <2>1. Copies(s[1])
    BY DEF SameOther
  <2>2. SameOther(s[1], n)
    BY <2>1, AccessIs
  <2> HIDE DEF n
  <2>3. Kept(n)
    BY <2>2 DEF SameOther
  <2> QED BY <2>3 DEF n
<1>2. Kept(<<m, a>>[1])
  BY DEF SameOther
<1> HIDE DEF Kept
<1>3. \A j \in Nat : j <= N => \E g : Good(g, j)
  <2> DEFINE Bad == {j \in Nat : j <= N /\ ~ \E g : Good(g, j)}
  <2>1. SUFFICES ASSUME Bad # {} PROVE FALSE
    OBVIOUS
  <2> DEFINE j == Lowest(Bad)
  <2>2. j \in Bad /\ \A q \in Bad : j <= q
    BY <2>1, LowestIs
  <2> HIDE DEF j
  <2>3. j # 0
    <3> DEFINE g == [i \in 0 .. 0 |-> <<m, a>>]
    <3>1. Good(g, 0)
      BY <1>2
    <3>2. \E f : Good(f, 0)
      BY <3>1
    <3> QED BY <2>2, <3>2
  <2>4. j - 1 \in Nat /\ j - 1 <= N /\ j - 1 \notin Bad /\ j \in Nat /\ j <= N
    <3>1. j \in Nat /\ j <= N
      BY <2>2
    <3>2. j - 1 \in Nat /\ j - 1 <= N /\ ~(j <= j - 1)
      BY <2>3, <3>1
    <3> QED BY <2>2, <3>1, <3>2
  <2>5. \E g : Good(g, j - 1)
    <3> HIDE DEF Good
    <3> QED BY <2>4
  <2>6. PICK g : Good(g, j - 1)
    BY <2>5
  <2> DEFINE L == g[j - 1]
             h == [i \in 0 .. j |-> IF i = j THEN Access(ops[j], L[1], L[2])
                                             ELSE g[i]]
  <2>7. Kept(L[1])
    <3>1. j - 1 \in 0 .. (j - 1)
      BY <2>4
    <3>2. Kept(g[j - 1][1])
      BY <2>6, <3>1
    <3> QED BY <3>2
  <2>8. \A i \in 0 .. (j - 1) : h[i] = g[i]
    BY <2>4
  <2>9. h[j] = Access(ops[j], L[1], L[2]) /\ h[j - 1] = L
    BY <2>4
  <2> HIDE DEF L
  <2>10. ASSUME NEW i \in 0 .. j
         PROVE  h[i] = Step(h, i) /\ Kept(h[i][1])
    <3> HIDE DEF h
    <3>1. CASE i = j
      <4>1. h[i] = Step(h, i)
        BY <2>3, <2>9, <3>1
      <4>2. Kept(h[i][1])
        BY <1>1, <2>7, <2>9, <3>1
      <4> QED BY <4>1, <4>2
    <3>2. CASE i # j
      <4>1. i \in 0 .. (j - 1) /\ (i # 0 => i - 1 \in 0 .. (j - 1))
        BY <2>4, <3>2
      <4>2. g[i] = Step(g, i) /\ Kept(g[i][1])
        BY <2>6, <4>1
      <4>3. Step(h, i) = Step(g, i)
        BY <2>8, <4>1
      <4> QED BY <2>8, <4>1, <4>2, <4>3
    <3> QED BY <3>1, <3>2
  <2>11. h = [i \in 0 .. j |-> h[i]]
    OBVIOUS
  <2> HIDE DEF h
  <2>12. Good(h, j)
    BY <2>10, <2>11
  <2> QED BY <2>2, <2>12
<1>4. \E g : Good(g, N)
  <2> HIDE DEF Good
  <2>1. N <= N
    OBVIOUS
  <2> QED BY <1>3, <2>1
<1>5. PICK g : Good(g, N)
  BY <1>4
<1> DEFINE f == CHOOSE f : f = [i \in 0 .. N |-> Step(f, i)]
<1>6. g = [i \in 0 .. N |-> Step(g, i)]
  BY <1>5
<1>7. f = [i \in 0 .. N |-> Step(f, i)]
  BY <1>6
<1> HIDE DEF f
<1>8. \A i \in 0 .. N : f[i] = g[i]
  <2> DEFINE Bad == {i \in 0 .. N : f[i] # g[i]}
  <2>1. SUFFICES ASSUME Bad # {} PROVE FALSE
    OBVIOUS
  <2> DEFINE j == Lowest(Bad)
  <2>2. j \in Bad /\ \A q \in Bad : j <= q
    <3>1. Bad \subseteq Nat
      OBVIOUS
    <3> HIDE DEF Bad
    <3> QED BY <2>1, <3>1, LowestIs
  <2> HIDE DEF j
  <2>3. j = 0 \/ (j - 1 \in 0 .. N /\ j - 1 \notin Bad)
    <3>1. j \in 0 .. N
      BY <2>2
    <3>2. j # 0 => j - 1 \in 0 .. N /\ ~(j <= j - 1)
      BY <3>1
    <3> QED BY <2>2, <3>2
  <2>4. f[j] = Step(f, j) /\ g[j] = Step(g, j)
    BY <1>5, <1>7, <2>2
  <2> QED BY <2>2, <2>3, <2>4
<1>9. N \in 0 .. N
  OBVIOUS
<1>10. Kept(f[N][1])
  BY <1>5, <1>8, <1>9
<1>11. Sequential(ops, m, a) = f[N]
  BY DEF Sequential, f
<1> QED BY <1>10, <1>11 DEF Kept

-----------------------------------------------------------------------------
(* The program's steps.                                                    *)

\* The card's side of the invariant is about the mail's number, kind, pages
\* and slot alone.
LEMMA CardSame ==
  ASSUME CardInv, card' = card, chunks' = chunks,
         win'.mail.seq = win.mail.seq, win'.mail.kind = win.mail.kind,
         win'.mail.pages = win.mail.pages, win'.mail.slot = win.mail.slot
  PROVE  CardInv'
<1>1. IsDesc(card'.desc) /\ chunks' = [c \in DOMAIN chunks' |-> chunks'[c]]
      /\ \A c \in DOMAIN chunks' : IsChunk(c, chunks'[c])
  BY DEF CardInv
<1>2. WalkInv'
  BY DEF CardInv, WalkInv, Walked, Sendable
<1>3. WholeInv'
  BY DEF CardInv, WholeInv
<1>4. AskInv'
  BY DEF CardInv, AskInv, Sendable
<1> QED BY <1>1, <1>2, <1>3, <1>4 DEF CardInv

\* Steps that leave the window, the card and the stash alone.
LEMMA HostFlow ==
  ASSUME FlowInv, UNCHANGED <<win, card, chunks, stash>>,
         \/ UNCHANGED <<hpc, k, mail>>
         \/ /\ hpc' \in {"idle", "submit", "dead"}
            /\ hpc' = "submit" => CardKnows
  PROVE  FlowInv'
<1>1. win' = win /\ card' = card /\ chunks' = chunks /\ stash' = stash
  OBVIOUS
<1>2. CardKnows' <=> CardKnows
  BY <1>1 DEF CardKnows, Known
<1>3. CASE UNCHANGED <<hpc, k, mail>>
  BY <1>1, <1>2, <1>3 DEF FlowInv, Going, Between, Known
<1>4. CASE /\ hpc' \in {"idle", "submit", "dead"}
           /\ hpc' = "submit" => CardKnows
  BY <1>1, <1>2, <1>4 DEF FlowInv, Going, Between, Known
<1> QED BY <1>3, <1>4

LEMMA StoreSurv ==
  ASSUME SurvInv, MailInv', NEW p, Store(p) PROVE SurvInv'
<1>1. /\ UNCHANGED <<hpc, region, k, mode, stash, ahead, mail, win, card,
                     chunks>>
      /\ prog' = [prog EXCEPT ![p].r = Bump(@)]
      /\ ref' = [ref EXCEPT ![p].r = Bump(@)]
  BY DEF Store
<1>2. CardInv'
  BY <1>1, CardSame DEF SurvInv
<1>3. FlowInv'
  BY <1>1, HostFlow DEF SurvInv
<1>4. /\ Copies(prog) /\ DOMAIN prog = Pages
      /\ Copies(ref) /\ DOMAIN ref = Pages
  BY DEF SurvInv, DataInv
<1>5. /\ Copies(prog') /\ DOMAIN prog' = Pages
      /\ \A q \in Pages : prog'[q].o = prog[q].o
  <2>1. SameOther(prog, prog')
    BY <1>1, <1>4, CopiesOfR
  <2> QED BY <1>4, <2>1 DEF SameOther
<1>6. /\ Copies(ref') /\ DOMAIN ref' = Pages
      /\ \A q \in Pages : ref'[q].o = ref[q].o
  <2>1. SameOther(ref, ref')
    BY <1>1, <1>4, CopiesOfR
  <2> QED BY <1>4, <2>1 DEF SameOther
<1>7. DataInv'
  BY <1>1, <1>5, <1>6 DEF SurvInv, DataInv
<1>8. HostInv'
  BY <1>1 DEF SurvInv, HostInv
<1>9. OthersSurvive'
  BY <1>5, <1>6 DEF SurvInv, OthersSurvive
<1> QED BY <1>2, <1>3, <1>7, <1>8, <1>9 DEF SurvInv

LEMMA OtherSurv ==
  ASSUME SurvInv, MailInv', NEW p \in Shared, OtherStore(p) PROVE SurvInv'
<1>1. /\ UNCHANGED <<hpc, region, k, mode, stash, ahead, mail, win, card,
                     chunks>>
      /\ prog' = [prog EXCEPT ![p].o = Bump(@)]
      /\ ref' = [ref EXCEPT ![p].o = Bump(@)]
  BY DEF OtherStore
<1>2. CardInv'
  BY <1>1, CardSame DEF SurvInv
<1>3. FlowInv'
  BY <1>1, HostFlow DEF SurvInv
<1>4. /\ Copies(prog) /\ DOMAIN prog = Pages
      /\ Copies(ref) /\ DOMAIN ref = Pages
  BY DEF SurvInv, DataInv
<1>5. /\ Copies(prog') /\ DOMAIN prog' = Pages
      /\ \A q \in Pages : prog'[q].o = IF q = p THEN Bump(prog[p].o)
                                                ELSE prog[q].o
  <2>1. NewOther(prog, prog', p, Bump(prog[p].o))
    BY <1>1, <1>4, CopiesOfO
  <2> QED BY <1>4, <2>1 DEF NewOther
<1>6. /\ Copies(ref') /\ DOMAIN ref' = Pages
      /\ \A q \in Pages : ref'[q].o = IF q = p THEN Bump(ref[p].o)
                                               ELSE ref[q].o
  <2>1. NewOther(ref, ref', p, Bump(ref[p].o))
    BY <1>1, <1>4, CopiesOfO
  <2> QED BY <1>4, <2>1 DEF NewOther
<1>7. DataInv'
  BY <1>1, <1>5, <1>6 DEF SurvInv, DataInv
<1>8. HostInv'
  BY <1>1 DEF SurvInv, HostInv
<1>9. OthersSurvive'
  <2>1. p \in Pages
    BY OffloadAssumption DEF Pages
  <2> QED BY <1>5, <1>6, <2>1 DEF SurvInv, OthersSurvive
<1> QED BY <1>2, <1>3, <1>7, <1>8, <1>9 DEF SurvInv

\* A region, its phases and what they declare.
LEMMA PhaseIs ==
  ASSUME NEW r \in Regions
  PROVE  /\ r # <<>> /\ 1 \in DOMAIN r
         /\ Len(r) \in Nat /\ DOMAIN r = 1 .. Len(r)
         /\ \A i \in DOMAIN r :
              /\ r[i].mode \in {"ranges", "demand"}
              /\ r[i].ops \in Seq(CodeAccess)
              /\ r[i].ranges \in Seq(DeclaredRange)
              /\ \A j \in DOMAIN r[i].ranges :
                   r[i].ranges[j].lo <= r[i].ranges[j].hi
<1>1. /\ r # <<>>
      /\ r \in Seq([role : {"region", "prologue", "loop", "epilogue"},
                    mode : {"ranges", "demand"},
                    ranges : Seq(DeclaredRange), ops : Seq(CodeAccess),
                    leaves : BOOLEAN])
      /\ \A i \in DOMAIN r : \A j \in DOMAIN r[i].ranges :
            r[i].ranges[j].lo <= r[i].ranges[j].hi
  BY RegionsAssumption
<1>2. Len(r) \in Nat /\ DOMAIN r = 1 .. Len(r) /\ 1 \in DOMAIN r
  BY <1>1
<1>3. ASSUME NEW i \in DOMAIN r
      PROVE  /\ r[i].mode \in {"ranges", "demand"}
             /\ r[i].ops \in Seq(CodeAccess)
             /\ r[i].ranges \in Seq(DeclaredRange)
  <2> DEFINE T == [role : {"region", "prologue", "loop", "epilogue"},
                   mode : {"ranges", "demand"},
                   ranges : Seq(DeclaredRange), ops : Seq(CodeAccess),
                   leaves : BOOLEAN]
  <2>1. r[i] \in T
    <3>1. r \in Seq(T)
      BY <1>1
    <3> HIDE DEF T
    <3> QED BY <3>1, <1>2
  <2> QED BY <2>1
<1> QED BY <1>1, <1>2, <1>3

\* The program goes on to a phase, to no region, or ends.
LEMMA TurnSurv ==
  ASSUME SurvInv, MailInv',
         UNCHANGED <<prog, region, stash, ahead, mail, win, card, chunks>>,
         SameOther(ref, ref'), mode' \in {"ranges", "demand"},
         hpc' \in {"idle", "submit", "dead"},
         hpc' = "submit" => /\ CardKnows /\ region \in Regions
                            /\ k' \in DOMAIN region
  PROVE  SurvInv'
<1>1. CardInv'
  BY CardSame DEF SurvInv
<1>2. FlowInv'
  BY HostFlow DEF SurvInv
<1>3. DataInv'
  BY DEF SurvInv, DataInv, SameOther
<1>4. HostInv'
  BY DEF SurvInv, HostInv
<1>5. OthersSurvive'
  BY DEF SurvInv, DataInv, OthersSurvive, SameOther
<1> QED BY <1>1, <1>2, <1>3, <1>4, <1>5 DEF SurvInv

\* A phase answered is one the card has been at.
LEMMA AnsweredKnows ==
  ASSUME SurvInv, hpc = "wait", ~Unanswered
  PROVE  CardKnows
<1>1. card.last = win.req.seq
  BY DEF SurvInv, MailInv, Numbers, Unanswered
<1> QED BY <1>1 DEF SurvInv, FlowInv, Going, Between

LEMMA EndSurv ==
  ASSUME SurvInv, MailInv',
         AcceptLeft \/ Retry \/ Refused \/ Die \/ PassReady \/ GiveUp
  PROVE  SurvInv'
<1>1. SameOther(ref, ref)
  BY DEF SurvInv, DataInv, SameOther
<1>2. mode \in {"ranges", "demand"}
  BY DEF SurvInv, HostInv
<1>3. CASE AcceptLeft
  <2>1. /\ hpc = "wait" /\ ~Unanswered
        /\ UNCHANGED <<prog, region, stash, ahead, mail, win, card, chunks>>
        /\ ref' = Sequential(Phase.ops, ref, racc)[1]
        /\ \/ hpc' = "idle" /\ mode' = mode
           \/ /\ hpc' = "submit" /\ k' = k + 1 /\ mode' = region[k + 1].mode
              /\ ~Final
    BY <1>3 DEF AcceptLeft
  <2>2. region \in Regions /\ k \in DOMAIN region
    BY <2>1 DEF SurvInv, HostInv
  <2>3. Len(Phase.ops) \in Nat
    BY <2>2, PhaseIs DEF Phase
  <2>4. SameOther(ref, ref')
    BY <2>1, <2>3, SequentialIs DEF SurvInv, DataInv
  <2>5. CardKnows
    BY <2>1, AnsweredKnows
  <2>6. hpc' = "submit" => k' \in DOMAIN region
    BY <2>1, <2>2, PhaseIs DEF Final
  <2>7. mode' \in {"ranges", "demand"}
    <3>1. CASE mode' = mode
      BY <1>2, <3>1
    <3>2. CASE hpc' = "submit"
      BY <2>1, <2>2, <2>6, <3>2, PhaseIs
    <3> QED BY <2>1, <3>1, <3>2
  <2>8. hpc' \in {"idle", "submit", "dead"}
    BY <2>1
  <2> QED BY <2>1, <2>2, <2>4, <2>5, <2>6, <2>7, <2>8, TurnSurv
<1>4. CASE Retry
  <2>1. /\ hpc = "wait" /\ ~Unanswered /\ hpc' = "submit"
        /\ mode' = "demand"
        /\ UNCHANGED <<prog, region, k, stash, ahead, mail, win, card,
                       chunks, ref>>
    BY <1>4 DEF Retry
  <2>2. CardKnows /\ region \in Regions /\ k \in DOMAIN region
    BY <2>1, AnsweredKnows DEF SurvInv, HostInv
  <2> QED BY <1>1, <2>1, <2>2, TurnSurv
<1>5. CASE Refused \/ Die \/ PassReady \/ GiveUp
  <2>1. /\ hpc' \in {"idle", "dead"}
        /\ UNCHANGED <<prog, region, mode, stash, ahead, mail, win, card,
                       chunks, ref>>
    BY <1>5 DEF Refused, Die, PassReady, GiveUp
  <2> QED BY <1>1, <1>2, <2>1, TurnSurv
<1> QED BY <1>3, <1>4, <1>5

LEMMA RunSurv ==
  ASSUME SurvInv, MailInv', NEW r \in Regions, Run(r) PROVE SurvInv'
<1>1. /\ hpc = "idle" /\ hpc' = "submit" /\ region' = r /\ k' = 1
      /\ mode' = r[1].mode /\ stash' = NoPages
      /\ UNCHANGED <<prog, ahead, mail, win, card, chunks, ref>>
  BY DEF Run
<1>2. CardInv'
  BY <1>1, CardSame DEF SurvInv
<1>3. FlowInv'
  BY <1>1 DEF SurvInv, FlowInv, Going, Between
<1>4. DataInv'
  BY <1>1, NoPagesIs DEF SurvInv, DataInv
<1>5. HostInv'
  BY <1>1, PhaseIs DEF SurvInv, HostInv
<1>6. OthersSurvive'
  BY <1>1 DEF SurvInv, OthersSurvive
<1> QED BY <1>2, <1>3, <1>4, <1>5, <1>6 DEF SurvInv

LEMMA LoadSurv == ASSUME SurvInv, MailInv', Load PROVE SurvInv'
<1>1. /\ hpc' = "init" /\ prog' = Fresh(proc + 1) /\ ref' = Fresh(proc + 1)
      /\ stash' = NoPages /\ ahead' = <<>>
      /\ UNCHANGED <<mode, card, chunks>>
      /\ win' = [win EXCEPT !.ready = FALSE]
  BY DEF Load
<1>2. /\ win'.req = win.req /\ win'.mail = win.mail
      /\ win'.fetch = win.fetch /\ win'.wb = win.wb
  BY <1>1 DEF SurvInv, MailInv, Shape
<1>3. CardInv'
  BY <1>1, <1>2, CardSame DEF SurvInv
<1>4. FlowInv'
  BY <1>1, <1>2 DEF SurvInv, FlowInv, Going, Between
<1>5. Copies(prog') /\ DOMAIN prog' = Pages
  BY <1>1 DEF Fresh, Copies, Cell
<1>6. prog' = ref'
  BY <1>1
<1>7. DataInv'
  BY <1>1, <1>2, <1>5, <1>6, NoPagesIs DEF SurvInv, DataInv
<1>8. HostInv'
  BY <1>1, <1>2 DEF SurvInv, HostInv
<1>9. OthersSurvive'
  BY <1>6 DEF OthersSurvive
<1> QED BY <1>3, <1>4, <1>7, <1>8, <1>9 DEF SurvInv

\* The request a phase is submitted with.
LEMMA SubmitSurv ==
  ASSUME SurvInv, MailInv', DenseAlone, Submit PROVE SurvInv'
<1> DEFINE q == [seq |-> win.req.seq + 1, session |-> proc, first |-> k = 1,
                 final |-> Final, mode |-> mode, acc |-> acc,
                 ops |-> Phase.ops,
                 ranges |-> IF mode = "ranges" THEN Phase.ranges ELSE <<>>]
<1>1. /\ hpc = "submit" /\ hpc' = "wait" /\ ahead' = <<>>
      /\ UNCHANGED <<prog, region, k, mode, stash, mail, card, chunks, ref>>
      /\ win' = [win EXCEPT !.req = q]
  BY DEF Submit
<1>2. /\ win'.req = q /\ win'.mail = win.mail
      /\ win'.fetch = win.fetch /\ win'.wb = win.wb
  BY <1>1 DEF SurvInv, MailInv, Shape
<1>3. CardInv'
  BY <1>1, <1>2, CardSame DEF SurvInv
<1>4. /\ win'.req.seq = win.req.seq + 1 /\ win'.req.first = (k = 1)
      /\ win'.req.mode = mode /\ win'.req.ops = Phase.ops
      /\ win'.req.ranges = IF mode = "ranges" THEN Phase.ranges ELSE <<>>
  BY <1>2
<1>5. card.pc = "idle" /\ card.last = win.req.seq /\ win.req.seq \in Nat
  BY <1>1 DEF SurvInv, MailInv, Turns, AtRest, Numbers
<1>6. CardKnows' <=> CardKnows
  BY <1>1 DEF CardKnows, Known
<1>7. FlowInv'
  <2>1. ~win'.req.first => k # 1
    <3>1. win'.req.first = (k = 1)
      BY <1>4
    <3> QED BY <3>1, Zenon
  <2>2. win'.req.seq = win.req.seq + 1
    BY <1>4
  <2> QED BY <1>1, <1>5, <1>6, <2>1, <2>2
          DEF SurvInv, FlowInv, Going, Between
<1>8. DataInv'
  BY <1>1, <1>2 DEF SurvInv, DataInv
<1>9. region \in Regions /\ k \in DOMAIN region /\ mode \in {"ranges", "demand"}
  BY <1>1 DEF SurvInv, HostInv
<1>10. IsDesc(win'.req)
  <2>1. /\ Phase.ops \in Seq(CodeAccess) /\ Phase.ranges \in Seq(DeclaredRange)
        /\ \A j \in DOMAIN Phase.ranges :
             /\ Phase.ranges[j].lo <= Phase.ranges[j].hi
             /\ Phase.ranges[j].dense =>
                  \A p \in Shared : ~(/\ Phase.ranges[j].lo < p
                                      /\ p < Phase.ranges[j].hi)
    BY <1>9, PhaseIs DEF Phase, DenseAlone
  <2>2. CASE mode = "ranges"
    BY <1>4, <2>1, <2>2 DEF IsDesc
  <2>3. CASE mode = "demand"
    BY <1>4, <2>1, <2>3 DEF IsDesc
  <2> QED BY <1>9, <2>2, <2>3
<1>11. HostInv'
  BY <1>1, <1>9, <1>10 DEF HostInv
<1>12. OthersSurvive'
  BY <1>1 DEF SurvInv, OthersSurvive
<1> QED BY <1>3, <1>7, <1>8, <1>11, <1>12 DEF SurvInv

\* A mail waiting is the one the card waits for, at the phase submitted.
LEMMA WaitingMail ==
  ASSUME SurvInv, MailWaits
  PROVE  /\ hpc = "wait" /\ card.last = win.req.seq /\ Going
         /\ win.mail.kind = "fetch" => card.pc = "fetch"
         /\ win.mail.kind = "writeback" => card.pc = "flush"
<1>1. hpc = "wait" /\ win.mail.seq # win.mail.ack
  BY DEF MailWaits
<1>2. card.pc \in {"fetch", "flush"}
  BY <1>1 DEF SurvInv, MailInv, Mails, Waiting
<1>3. card.last = win.req.seq
  BY <1>1, <1>2 DEF SurvInv, MailInv, Turns
<1>4. Going
  BY <1>1, <1>3 DEF Going
<1> QED BY <1>1, <1>2, <1>3, <1>4 DEF SurvInv, CardInv, AskInv

LEMMA CopyOutIs ==
  ASSUME SurvInv, NEW S, S \subseteq Pages
  PROVE  Copies(CopyOut(S)) /\ DOMAIN CopyOut(S) = S
<1>1. \A p \in S : CopyOut(S)[p] = IF p \in Mapped THEN prog[p]
                                   ELSE [r |-> 0, o |-> 0]
  BY DEF CopyOut
<1>2. DOMAIN CopyOut(S) = S /\ CopyOut(S) = [p \in S |-> CopyOut(S)[p]]
  BY DEF CopyOut
<1>3. \A p \in S : Cell(prog[p]) /\ (p \notin Shared => prog[p].o = 0)
  BY DEF SurvInv, DataInv, Copies
<1>4. ASSUME NEW p \in S
      PROVE  /\ Cell(CopyOut(S)[p])
             /\ p \notin Shared => CopyOut(S)[p].o = 0
  <2>1. CASE p \in Mapped
    BY <1>1, <1>3, <2>1
  <2>2. CASE p \notin Mapped
    BY <1>1, <2>2 DEF Cell
  <2> QED BY <2>1, <2>2
<1> QED BY <1>2, <1>4 DEF Copies

LEMMA OverIs ==
  ASSUME NEW f, NEW g, Copies(f), Copies(g)
  PROVE  /\ Copies(Over(f, g)) /\ DOMAIN Over(f, g) = DOMAIN f \cup DOMAIN g
         /\ \A p \in DOMAIN f : Over(f, g)[p] = f[p]
         /\ \A p \in DOMAIN g \ DOMAIN f : Over(f, g)[p] = g[p]
<1> DEFINE o == Over(f, g)
<1>1. /\ DOMAIN o = DOMAIN f \cup DOMAIN g
      /\ o = [p \in DOMAIN o |-> o[p]]
      /\ \A p \in DOMAIN f : o[p] = f[p]
      /\ \A p \in DOMAIN g \ DOMAIN f : o[p] = g[p]
  BY DEF Over
<1>2. DOMAIN o \subseteq Pages
  BY <1>1 DEF Copies
<1>3. \A p \in DOMAIN o : Cell(o[p]) /\ (p \notin Shared => o[p].o = 0)
  BY <1>1 DEF Copies
<1> QED BY <1>1, <1>2, <1>3 DEF Copies

\* What is known of copies made before stays so when pages they do not have
\* are sent, or bytes that are the region's.
LEMMA KnownStays ==
  ASSUME NEW f, NEW T, Known(f, T),
         \A p \in T \cap Shared : p \in DOMAIN stash =>
            p \in DOMAIN stash' /\ stash'[p].o = stash[p].o
  PROVE  \A p \in T \cap Shared : p \in DOMAIN stash' /\ f[p].o = stash'[p].o
BY DEF Known

\* A fetch served: pages the card does not have, kept as they are sent.
LEMMA ServeFetchSurv == ASSUME SurvInv, MailInv', ServeFetch PROVE SurvInv'
<1> DEFINE M == win.mail
           there == ahead = <<M.pages, M.slot>>
           data == IF there THEN win.fetch[M.slot] ELSE CopyOut(M.pages)
           ok == there \/ M.pages \cap Mapped # {}
<1>1. /\ MailWaits /\ M.kind = "fetch"
      /\ win' = [win EXCEPT !.fetch[M.slot] = data,
                            !.mail = Acked(@, IF ok THEN 0 ELSE 1)]
      /\ stash' = IF ok THEN Over(data, stash) ELSE stash
      /\ ahead' = <<>> /\ mail' = M /\ hpc' = "prefetch"
      /\ UNCHANGED <<prog, region, k, mode, card, chunks, ref>>
  BY DEF ServeFetch
<1>2. hpc = "wait" /\ card.last = win.req.seq /\ Going /\ card.pc = "fetch"
  BY <1>1, WaitingMail
<1>3. PICK c \in DOMAIN chunks :
        M.slot \in {0, 1} /\ M.pages \subseteq PagesOf(c) \ chunks[c].filled
  BY <1>2 DEF SurvInv, CardInv, AskInv
<1>4. M.pages \subseteq Pages
  BY <1>3 DEF PagesOf
<1>5. Copies(data) /\ DOMAIN data = M.pages
  <2>1. CASE there
    <3>1. PICK s \in {0, 1} : ahead = <<DOMAIN win.fetch[s], s>>
      BY <2>1 DEF SurvInv, HostInv
    <3>2. s = M.slot /\ DOMAIN win.fetch[s] = M.pages
      BY <2>1, <3>1
    <3> QED BY <1>3, <2>1, <3>2 DEF SurvInv, DataInv
  <2>2. CASE ~there
    BY <1>4, <2>2, CopyOutIs
  <2> QED BY <2>1, <2>2
<1> HIDE DEF data, ok
<1>6. /\ win'.req = win.req /\ win'.wb = win.wb
      /\ win'.fetch = [win.fetch EXCEPT ![M.slot] = data]
      /\ win'.mail = Acked(M, IF ok THEN 0 ELSE 1)
  BY <1>1 DEF SurvInv, MailInv, Shape
<1>7. /\ win'.mail.seq = M.seq /\ win'.mail.kind = M.kind
      /\ win'.mail.pages = M.pages /\ win'.mail.slot = M.slot
      /\ win'.mail.status = IF ok THEN 0 ELSE 1
  BY <1>6 DEF SurvInv, MailInv, Shape, Acked
<1>8. /\ win'.fetch = [s \in {0, 1} |-> win'.fetch[s]]
      /\ win'.fetch[M.slot] = data
      /\ \A s \in {0, 1} : s # M.slot => win'.fetch[s] = win.fetch[s]
  BY <1>3, <1>6 DEF SurvInv, DataInv
<1>9. CardInv'
  BY <1>1, <1>7, CardSame DEF SurvInv
<1> DEFINE over == Over(data, stash)
<1>o. /\ Copies(over) /\ DOMAIN over = DOMAIN data \cup DOMAIN stash
      /\ \A p \in DOMAIN data : over[p] = data[p]
      /\ \A p \in DOMAIN stash \ DOMAIN data : over[p] = stash[p]
  <2>1. Copies(stash)
    BY DEF SurvInv, DataInv
  <2>2. Copies(data)
    BY <1>5
  <2> QED BY <2>1, <2>2, OverIs
<1> HIDE DEF over
<1>10. Copies(stash')
  BY <1>1, <1>o DEF SurvInv, DataInv, over
<1>11. DataInv'
  BY <1>1, <1>3, <1>5, <1>6, <1>8, <1>10 DEF SurvInv, DataInv
<1>12. HostInv'
  BY <1>1, <1>2, <1>3, <1>6 DEF SurvInv, HostInv
<1>13. \A p \in DOMAIN stash \ M.pages :
          p \in DOMAIN stash' /\ stash'[p].o = stash[p].o
  <2>1. CASE stash' = stash
    BY <2>1
  <2>2. CASE stash' = over
    BY <1>5, <1>o, <2>2
  <2> QED BY <1>1, <2>1, <2>2 DEF over
<1>14. CardKnows'
  <2>1. SUFFICES ASSUME NEW x \in DOMAIN chunks,
                        NEW p \in chunks[x].filled \cap Shared
                 PROVE  p \in DOMAIN stash'
                        /\ chunks[x].mem[p].o = stash'[p].o
    BY <1>1 DEF CardKnows, Known
  <2>2. p \in DOMAIN stash /\ chunks[x].mem[p].o = stash[p].o
    BY <1>2 DEF SurvInv, FlowInv, CardKnows, Known
  <2>3. p \notin M.pages
    BY <1>3 DEF SurvInv, CardInv, IsChunk, PagesOf
  <2> QED BY <1>13, <2>2, <2>3
<1>15. ok => \A p \in M.pages :
                p \in DOMAIN stash' /\ win'.fetch[M.slot][p].o = stash'[p].o
  <2>1. ok => stash' = over
    BY <1>1 DEF over
  <2> QED BY <1>5, <1>8, <1>o, <2>1
<1>16. FlowInv'
  <2>1. DOMAIN win'.fetch[win'.mail.slot] = win'.mail.pages
    BY <1>5, <1>7, <1>8
  <2>2. win'.mail.status = 0 =>
          \A p \in win'.mail.pages \cap Shared :
             /\ p \in DOMAIN stash'
             /\ win'.fetch[win'.mail.slot][p].o = stash'[p].o
    BY <1>7, <1>15
  <2>3. mail'.slot = win'.mail.slot
    BY <1>1, <1>7
  <2>4. card'.pc = "fetch" /\ hpc' = "prefetch"
    BY <1>1, <1>2
  <2> QED BY <1>14, <2>1, <2>2, <2>3, <2>4 DEF FlowInv, Known
<1>17. OthersSurvive'
  BY <1>1 DEF SurvInv, OthersSurvive
<1> QED BY <1>9, <1>11, <1>12, <1>16, <1>17 DEF SurvInv

\* The piece copied ahead goes where no answer is.
LEMMA PrefetchSurv == ASSUME SurvInv, MailInv', Prefetch PROVE SurvInv'
<1>1. /\ hpc = "prefetch" /\ hpc' = "wait"
      /\ UNCHANGED <<prog, region, k, mode, stash, card, chunks, ref>>
  BY DEF Prefetch
<1>2. \/ UNCHANGED <<win, ahead>>
      \/ \E S : /\ S \subseteq Pages
                /\ win' = [win EXCEPT !.fetch[1 - mail.slot] = CopyOut(S)]
                /\ ahead' = <<S, 1 - mail.slot>>
  <2>1. \A r, m : NextPiece(r, m) \subseteq Pages
    BY DEF NextPiece, PagesOf
  <2> QED BY <2>1 DEF Prefetch, PrefetchSlot
<1>3. mail.slot \in {0, 1} /\ card.last = win.req.seq /\ Going
  BY <1>1 DEF SurvInv, MailInv, Turns, HostInv, Going
<1>4. /\ win'.req = win.req /\ win'.wb = win.wb /\ win'.mail = win.mail
      /\ win'.fetch = [s \in {0, 1} |-> win'.fetch[s]]
      /\ win'.fetch[mail.slot] = win.fetch[mail.slot]
      /\ \A s \in {0, 1} : Copies(win'.fetch[s])
      /\ \/ ahead' = <<>>
         \/ \E s \in {0, 1} : ahead' = <<DOMAIN win'.fetch[s], s>>
  <2>1. CASE UNCHANGED <<win, ahead>>
    BY <2>1 DEF SurvInv, DataInv, HostInv
  <2>2. CASE ~ UNCHANGED <<win, ahead>>
    <3>1. PICK S : /\ S \subseteq Pages
                   /\ win' = [win EXCEPT
                                !.fetch[1 - mail.slot] = CopyOut(S)]
                   /\ ahead' = <<S, 1 - mail.slot>>
      BY <1>2, <2>2
    <3>2. 1 - mail.slot \in {0, 1} /\ 1 - mail.slot # mail.slot
      BY <1>3
    <3>3. /\ win'.req = win.req /\ win'.wb = win.wb
          /\ win'.mail = win.mail
          /\ win'.fetch = [win.fetch EXCEPT ![1 - mail.slot] = CopyOut(S)]
      BY <3>1 DEF SurvInv, MailInv, Shape
    <3>4. win.fetch = [s \in {0, 1} |-> win.fetch[s]]
      BY DEF SurvInv, DataInv
    <3>5. /\ win'.fetch = [s \in {0, 1} |-> win'.fetch[s]]
          /\ win'.fetch[mail.slot] = win.fetch[mail.slot]
          /\ win'.fetch[1 - mail.slot] = CopyOut(S)
          /\ \A s \in {0, 1} : s = mail.slot \/ s = 1 - mail.slot
      BY <1>3, <3>2, <3>3, <3>4
    <3>6. Copies(CopyOut(S)) /\ DOMAIN CopyOut(S) = S
      BY <3>1, CopyOutIs
    <3>7. \A s \in {0, 1} : Copies(win'.fetch[s])
      BY <1>3, <3>5, <3>6 DEF SurvInv, DataInv
    <3> QED BY <3>1, <3>2, <3>3, <3>5, <3>6, <3>7
  <2> QED BY <2>1, <2>2
<1>5. CardInv'
  BY <1>1, <1>4, CardSame DEF SurvInv
<1>6. DataInv'
  BY <1>1, <1>4 DEF SurvInv, DataInv
<1>7. HostInv'
  BY <1>1, <1>4 DEF SurvInv, HostInv
<1>8. CardKnows'
  BY <1>1, <1>3 DEF SurvInv, FlowInv, CardKnows, Known
<1>9. FlowInv'
  BY <1>1, <1>3, <1>4, <1>8, SMTT(30) DEF SurvInv, FlowInv, Going, Known
<1>10. OthersSurvive'
  BY <1>1 DEF SurvInv, OthersSurvive
<1> QED BY <1>5, <1>6, <1>7, <1>9, <1>10 DEF SurvInv

LEMMA ServeWritebackSurv ==
  ASSUME SurvInv, MailInv', ServeWriteback PROVE SurvInv'
<1>1. /\ MailWaits /\ win.mail.kind = "writeback"
      /\ win' = [win EXCEPT !.mail = Acked(@, 0)]
      /\ hpc' = "apply" /\ mail' = win.mail
      /\ UNCHANGED <<prog, region, k, mode, stash, ahead, card, chunks, ref>>
  BY DEF ServeWriteback
<1>2. hpc = "wait" /\ card.last = win.req.seq /\ Going /\ card.pc = "flush"
  BY <1>1, WaitingMail
<1>3. win.mail.slot = card.wslot /\ card.wslot \in {0, 1}
  BY <1>2 DEF SurvInv, CardInv, AskInv
<1>4. /\ win'.req = win.req /\ win'.wb = win.wb /\ win'.fetch = win.fetch
      /\ win'.mail = Acked(win.mail, 0)
  BY <1>1 DEF SurvInv, MailInv, Shape
<1>5. /\ win'.mail.seq = win.mail.seq /\ win'.mail.kind = win.mail.kind
      /\ win'.mail.pages = win.mail.pages /\ win'.mail.slot = win.mail.slot
      /\ win'.mail.ack = win.mail.seq
  BY <1>4 DEF SurvInv, MailInv, Shape, Acked
<1>6. CardInv'
  BY <1>1, <1>5, CardSame DEF SurvInv
<1>7. DataInv'
  BY <1>1, <1>4 DEF SurvInv, DataInv
<1>8. HostInv'
  BY <1>1, <1>2, <1>3, <1>4 DEF SurvInv, HostInv
<1>9. CardKnows'
  BY <1>1, <1>2 DEF SurvInv, FlowInv, CardKnows, Known
<1>10. Known(win.wb[card.wslot], DOMAIN win.wb[card.wslot])
  BY <1>2 DEF SurvInv, FlowInv
<1>11. FlowInv'
  BY <1>1, <1>2, <1>3, <1>4, <1>5, <1>9, <1>10
     DEF FlowInv, Going, Known
<1>12. OthersSurvive'
  BY <1>1 DEF SurvInv, OthersSurvive
<1> QED BY <1>6, <1>7, <1>8, <1>11, <1>12 DEF SurvInv

\* A line merged has the other thread's byte as the program has it.
LEMMA MergedIs ==
  ASSUME SurvInv, NEW f, Copies(f), Known(f, DOMAIN f), NEW p \in DOMAIN f
  PROVE  Cell(Merged(p, f[p])) /\ Merged(p, f[p]).o = prog[p].o
<1>1. /\ Cell(f[p]) /\ p \in Pages /\ (p \notin Shared => f[p].o = 0)
      /\ (p \notin Shared => prog[p].o = 0)
      /\ p \in DOMAIN stash /\ p \notin Shared => stash[p].o = 0
  BY DEF Copies, SurvInv, DataInv
<1>2. CASE p \notin DOMAIN stash
  <2>1. p \notin Shared
    BY <1>2 DEF Known
  <2> QED BY <1>1, <1>2, <2>1 DEF Merged
<1>3. CASE p \in DOMAIN stash
  <2>1. f[p].o = stash[p].o
    BY <1>1, <1>3 DEF Known
  <2>2. /\ Merged(p, f[p]).o = prog[p].o
        /\ Merged(p, f[p]) = [r |-> Merged(p, f[p]).r,
                              o |-> Merged(p, f[p]).o]
    BY <1>3, <2>1 DEF Merged
  <2> QED BY <2>2 DEF Cell
<1> QED BY <1>2, <1>3

LEMMA ApplySurv == ASSUME SurvInv, MailInv', Apply PROVE SurvInv'
<1> DEFINE slot == win.wb[mail.slot]
           back == {p \in DOMAIN slot : p \in Mapped}
<1>1. /\ hpc = "apply" /\ hpc' = "wait"
      /\ prog' = [p \in Pages |-> IF p \in back THEN Merged(p, slot[p])
                                                ELSE prog[p]]
      /\ stash' = [p \in DOMAIN stash |-> IF p \in back THEN slot[p]
                                                        ELSE stash[p]]
      /\ UNCHANGED <<region, k, mode, ahead, win, card, chunks, ref>>
  BY DEF Apply
<1>2. card.last = win.req.seq /\ Going
  BY <1>1 DEF SurvInv, MailInv, Turns, Going
<1>3. Copies(slot) /\ Known(slot, DOMAIN slot)
  BY <1>1 DEF SurvInv, HostInv, DataInv, FlowInv
<1> HIDE DEF slot
<1>4. /\ Copies(prog) /\ DOMAIN prog = Pages /\ Copies(stash)
      /\ DOMAIN slot \subseteq Pages
  BY <1>3 DEF SurvInv, DataInv, Copies
<1>5. ASSUME NEW p \in Pages
      PROVE  Cell(prog'[p]) /\ prog'[p].o = prog[p].o
  <2>1. CASE p \in back
    <3>1. prog'[p] = Merged(p, slot[p])
      BY <1>1, <2>1
    <3> QED BY <1>3, <2>1, <3>1, MergedIs
  <2>2. CASE p \notin back
    BY <1>1, <1>4, <2>2 DEF Copies
  <2> QED BY <2>1, <2>2
<1>6. DOMAIN prog' = Pages /\ prog' = [p \in Pages |-> prog'[p]]
  BY <1>1
<1>7. Copies(prog')
  BY <1>4, <1>5, <1>6 DEF Copies
<1>8. /\ DOMAIN stash' = DOMAIN stash
      /\ stash' = [p \in DOMAIN stash |-> stash'[p]]
      /\ \A p \in DOMAIN stash :
           stash'[p] = IF p \in back THEN slot[p] ELSE stash[p]
  BY <1>1
<1>9. Copies(stash')
  <2>1. \A p \in DOMAIN stash :
          Cell(stash'[p]) /\ (p \notin Shared => stash'[p].o = 0)
    BY <1>3, <1>4, <1>8 DEF Copies
  <2> QED BY <1>4, <1>8, <2>1 DEF Copies
<1>10. \A p \in DOMAIN stash \cap Shared :
          p \in DOMAIN stash' /\ stash'[p].o = stash[p].o
  BY <1>3, <1>8 DEF Known
<1>11. CardInv'
  BY <1>1, CardSame DEF SurvInv
<1>12. DataInv'
  BY <1>1, <1>6, <1>7, <1>9 DEF SurvInv, DataInv
<1>13. HostInv'
  BY <1>1 DEF SurvInv, HostInv
<1>14. CardKnows'
  BY <1>1, <1>2, <1>10 DEF SurvInv, FlowInv, CardKnows, Known
<1>15. FlowInv'
  BY <1>1, <1>2, <1>10, <1>14 DEF SurvInv, FlowInv, Going, Known
<1>16. OthersSurvive'
  BY <1>1, <1>5 DEF SurvInv, OthersSurvive
<1> QED BY <1>11, <1>12, <1>13, <1>15, <1>16 DEF SurvInv

-----------------------------------------------------------------------------
(* The card's steps.                                                       *)

LEMMA CardIs ==
  ASSUME SurvInv
  PROVE  card = [pc |-> card.pc, last |-> card.last, session |-> card.session,
                 desc |-> card.desc, acc |-> card.acc, op |-> card.op,
                 range |-> card.range, at |-> card.at, kind |-> card.kind,
                 out |-> card.out, fslot |-> card.fslot,
                 wslot |-> card.wslot, mails |-> card.mails]
BY DEF SurvInv, MailInv, Shape

LEMMA CardQuiet ==
  ASSUME SurvInv, UNCHANGED host, ref' = ref, win'.req = win.req,
         win'.fetch = win.fetch, win'.wb = win.wb
  PROVE  DataInv' /\ HostInv' /\ OthersSurvive'
<1>1. /\ UNCHANGED <<prog, hpc, region, k, mode, stash, ahead, mail>>
  BY DEF host
<1>2. DataInv' /\ OthersSurvive'
  BY <1>1 DEF SurvInv, DataInv, OthersSurvive
<1>3. HostInv'
  BY <1>1 DEF SurvInv, HostInv
<1> QED BY <1>2, <1>3

\* A step that sends no write-back and waits for none.
LEMMA CardFlow ==
  ASSUME SurvInv, UNCHANGED host, win'.req = win.req,
         win'.fetch = win.fetch, win'.wb = win.wb,
         card'.last = card.last, card'.wslot = card.wslot,
         card.pc # "flush", card'.pc # "flush",
         card'.pc = "fetch" => win'.mail.ack # win'.mail.seq,
         (Going \/ Between) /\ CardKnows => CardKnows'
  PROVE  FlowInv'
<1>1. UNCHANGED <<hpc, k, stash, mail>>
  BY DEF host
<1>2. (Going' <=> Going) /\ (Between' <=> Between)
  BY <1>1 DEF Going, Between
<1>3. hpc = "apply" => mail.slot # card.wslot
  BY DEF SurvInv, FlowInv
<1>4. hpc = "apply" => Known(win.wb[mail.slot], DOMAIN win.wb[mail.slot])
  BY DEF SurvInv, FlowInv
<1>5. hpc' = "apply" =>
        Known(win.wb[mail.slot], DOMAIN win.wb[mail.slot])'
  BY <1>1, <1>4 DEF Known
<1> QED BY <1>1, <1>2, <1>3, <1>5 DEF SurvInv, FlowInv

LEMMA PollSurv == ASSUME SurvInv, MailInv', Poll PROVE SurvInv'
<1>1. /\ UNCHANGED host /\ ref' = ref /\ card' = card /\ chunks' = chunks
      /\ win' = [win EXCEPT !.ready = TRUE] /\ card.pc = "idle"
  BY DEF Poll, cardUnchanged
<1>2. /\ win'.req = win.req /\ win'.wb = win.wb /\ win'.fetch = win.fetch
      /\ win'.mail = win.mail
  BY <1>1 DEF SurvInv, MailInv, Shape
<1>3. CardInv'
  BY <1>1, <1>2, CardSame DEF SurvInv
<1>4. CardKnows => CardKnows'
  BY <1>1 DEF CardKnows, Known, host
<1>5. FlowInv'
  BY <1>1, <1>2, <1>4, CardFlow
<1> QED BY <1>1, <1>2, <1>3, <1>5, CardQuiet DEF SurvInv

\* Steps that only move the card on.
LEMMA MovesSurv ==
  ASSUME SurvInv, MailInv', Fetched \/ GoesOn \/ FaultRanges
  PROVE  SurvInv'
<1>1. /\ UNCHANGED host /\ ref' = ref /\ win' = win /\ chunks' = chunks
      /\ card.pc \in {"ranges", "run"} /\ card'.pc \in {"run", "done"}
      /\ card'.desc = card.desc /\ card'.last = card.last
      /\ card'.fslot = card.fslot /\ card'.wslot = card.wslot
      /\ card'.mails = card.mails
      /\ card'.op = card.op \/ card'.op = card.op + 1
  BY CardIs DEF Fetched, GoesOn, FaultRanges, Leave, Running, cardUnchanged
<1>2. card'.pc = "done" => card'.kind # "left"
  BY CardIs DEF Fetched, GoesOn, FaultRanges, Leave, Running, cardUnchanged
<1>3. \/ card.pc = "run"
      \/ /\ card.pc = "ranges" /\ card.range > Len(card.desc.ranges)
         /\ card'.pc = "run"
  BY CardIs DEF Fetched, GoesOn, FaultRanges, Running
<1>4. IsDesc(card'.desc) /\ chunks' = [c \in DOMAIN chunks' |-> chunks'[c]]
      /\ \A c \in DOMAIN chunks' : IsChunk(c, chunks'[c])
  BY <1>1 DEF SurvInv, CardInv
<1>5. WalkInv'
  <2>1. card.desc.mode = "ranges" =>
          \A j \in DOMAIN card.desc.ranges :
            \A p \in card.desc.ranges[j].lo .. card.desc.ranges[j].hi :
              Sendable(p)
    <3>1. SUFFICES ASSUME card.desc.mode = "ranges",
                          NEW j \in DOMAIN card.desc.ranges,
                          NEW p \in card.desc.ranges[j].lo ..
                                    card.desc.ranges[j].hi
                   PROVE  Walked(j, p)
      BY DEF SurvInv, CardInv, WalkInv
    <3>2. CASE card.pc = "run"
      BY <3>2 DEF Walked
    <3>3. CASE card.pc = "ranges" /\ card.range > Len(card.desc.ranges)
      <4>1. card.range \in Nat
        BY <3>1, <3>3 DEF SurvInv, CardInv, WalkInv
      <4>2. j \in 1 .. Len(card.desc.ranges) /\ Len(card.desc.ranges) \in Nat
        BY DEF SurvInv, CardInv, IsDesc
      <4> QED BY <3>3, <4>1, <4>2 DEF Walked
    <3> QED BY <1>3, <3>2, <3>3
  <2>2. ~ card'.pc \in {"ranges", "fetch"}
    BY <1>1
  <2> QED BY <1>1, <2>1, <2>2 DEF WalkInv, Sendable
<1>6. WholeInv'
  <2>1. \A c \in DOMAIN chunks :
           ~chunks[c].fourk => chunks[c].filled = PagesOf(c)
    BY <1>1 DEF SurvInv, CardInv, WholeInv
  <2>2. card.desc.mode = "demand" => card.pc = "run"
    BY <1>1 DEF SurvInv, CardInv, WalkInv
  <2>3. card.desc.mode = "demand" =>
          \A c \in DOMAIN chunks : ~chunks[c].fourk
    BY <2>2 DEF SurvInv, CardInv, WholeInv
  <2> QED BY <1>1, <1>2, <2>1, <2>3 DEF WholeInv
<1>7. AskInv'
  BY <1>1 DEF SurvInv, CardInv, AskInv
<1>8. CardInv'
  BY <1>4, <1>5, <1>6, <1>7 DEF CardInv
<1>9. CardKnows => CardKnows'
  BY <1>1 DEF CardKnows, Known, host
<1>10. FlowInv'
  BY <1>1, <1>9, CardFlow
<1> QED BY <1>1, <1>8, <1>10, CardQuiet DEF SurvInv

\* A chunk whose memory is written keeps the other thread's bytes.
LEMMA ExecuteSurv == ASSUME SurvInv, MailInv', Execute PROVE SurvInv'
<1> DEFINE c == ChunkOf(Op.page)
<1>1. /\ UNCHANGED host /\ ref' = ref /\ win' = win
      /\ card.pc = "run" /\ card'.pc = "run"
      /\ card'.desc = card.desc /\ card'.last = card.last
      /\ card'.fslot = card.fslot /\ card'.wslot = card.wslot
      /\ card'.mails = card.mails /\ card'.op = card.op + 1
      /\ c \in DOMAIN chunks
  BY CardIs DEF Execute, Goes, Running, cardUnchanged
<1>2. chunks' = [chunks EXCEPT ![c].mem =
                   Access(Op, chunks[c].mem, card.acc)[1]]
  BY DEF Execute
<1> HIDE DEF c
<1>3. IsChunk(c, chunks[c])
  BY <1>1 DEF SurvInv, CardInv
<1>4. PICK m : /\ m = Access(Op, chunks[c].mem, card.acc)[1]
               /\ SameOther(chunks[c].mem, m)
  BY <1>3, AccessIs DEF IsChunk
<1>5. /\ DOMAIN chunks' = DOMAIN chunks
      /\ chunks' = [x \in DOMAIN chunks' |-> chunks'[x]]
      /\ chunks'[c] = [chunks[c] EXCEPT !.mem = m]
      /\ \A x \in DOMAIN chunks : x # c => chunks'[x] = chunks[x]
  BY <1>1, <1>2, <1>4
<1>6. /\ chunks'[c].fourk = chunks[c].fourk
      /\ chunks'[c].filled = chunks[c].filled
      /\ chunks'[c].mem = m /\ IsChunk(c, chunks'[c])
  BY <1>3, <1>4, <1>5 DEF IsChunk, SameOther
<1>7. \A x \in DOMAIN chunks :
        /\ chunks'[x].fourk = chunks[x].fourk
        /\ chunks'[x].filled = chunks[x].filled
        /\ IsChunk(x, chunks'[x])
  BY <1>5, <1>6 DEF SurvInv, CardInv
<1>8. \A x \in DOMAIN chunks : \A p \in chunks[x].filled :
         chunks'[x].mem[p].o = chunks[x].mem[p].o
  BY <1>3, <1>4, <1>5, <1>6 DEF IsChunk, SameOther
<1>9. IsDesc(card'.desc)
  BY <1>1 DEF SurvInv, CardInv
<1>10. WalkInv'
  BY <1>1, <1>5, <1>7 DEF SurvInv, CardInv, WalkInv, Walked, Sendable
<1>11. WholeInv'
  BY <1>1, <1>5, <1>7 DEF SurvInv, CardInv, WholeInv
<1>12. AskInv'
  BY <1>1 DEF SurvInv, CardInv, AskInv
<1>13. CardInv'
  BY <1>5, <1>7, <1>9, <1>10, <1>11, <1>12 DEF CardInv
<1>14. CardKnows => CardKnows'
  BY <1>1, <1>5, <1>7, <1>8 DEF CardKnows, Known, host
<1>15. FlowInv'
  BY <1>1, <1>14, CardFlow
<1> QED BY <1>1, <1>13, <1>15, CardQuiet DEF SurvInv

\* A first write: the snapshot taken, or no room for it.
LEMMA FaultWriteSurv == ASSUME SurvInv, MailInv', FaultWrite PROVE SurvInv'
<1> DEFINE c == ChunkOf(Op.page)
<1>1. /\ UNCHANGED host /\ ref' = ref /\ win' = win
      /\ card.pc = "run" /\ card.desc.mode = "demand"
      /\ c \in DOMAIN chunks
      /\ card'.desc = card.desc /\ card'.last = card.last
      /\ card'.fslot = card.fslot /\ card'.wslot = card.wslot
      /\ card'.mails = card.mails /\ card'.op = card.op
      /\ \/ card'.pc = "run"
         \/ card'.pc = "done" /\ card'.kind # "left"
  BY CardIs DEF FaultWrite, Leave, Running, cardUnchanged
<1>2. \/ chunks' = chunks
      \/ chunks' = [chunks EXCEPT ![c].shadow = chunks[c].mem,
                                  ![c].dirty = TRUE, ![c].writable = TRUE]
  BY DEF FaultWrite
<1> HIDE DEF c
<1>3. IsChunk(c, chunks[c]) /\ ~chunks[c].fourk
  BY <1>1 DEF SurvInv, CardInv, WholeInv
<1>4. /\ DOMAIN chunks' = DOMAIN chunks
      /\ chunks' = [x \in DOMAIN chunks' |-> chunks'[x]]
      /\ \A x \in DOMAIN chunks : x # c => chunks'[x] = chunks[x]
      /\ \/ chunks'[c] = chunks[c]
         \/ chunks'[c] = [chunks[c] EXCEPT !.shadow = chunks[c].mem,
                                           !.dirty = TRUE, !.writable = TRUE]
  <2>1. chunks = [x \in DOMAIN chunks |-> chunks[x]]
    BY DEF SurvInv, CardInv
  <2>2. CASE chunks' = chunks
    BY <2>1, <2>2
  <2>3. CASE chunks' = [chunks EXCEPT ![c].shadow = chunks[c].mem,
                                  ![c].dirty = TRUE, ![c].writable = TRUE]
    <3>1. /\ DOMAIN chunks' = DOMAIN chunks
          /\ chunks' = [x \in DOMAIN chunks' |-> chunks'[x]]
      BY <2>3
    <3>2. \A x \in DOMAIN chunks : x # c => chunks'[x] = chunks[x]
      BY <2>3
    <3>3. chunks'[c] = [[[chunks[c] EXCEPT !.shadow = chunks[c].mem]
                           EXCEPT !.dirty = TRUE] EXCEPT !.writable = TRUE]
      BY <1>1, <2>3
    <3> QED BY <3>1, <3>2, <3>3
  <2> QED BY <1>2, <2>2, <2>3
<1>5. /\ chunks'[c].fourk = chunks[c].fourk
      /\ chunks'[c].filled = chunks[c].filled
      /\ chunks'[c].mem = chunks[c].mem /\ IsChunk(c, chunks'[c])
  BY <1>3, <1>4 DEF IsChunk
<1>6. \A x \in DOMAIN chunks :
        /\ chunks'[x].fourk = chunks[x].fourk
        /\ chunks'[x].filled = chunks[x].filled
        /\ chunks'[x].mem = chunks[x].mem
        /\ IsChunk(x, chunks'[x])
  BY <1>4, <1>5 DEF SurvInv, CardInv
<1>7. IsDesc(card'.desc)
  BY <1>1 DEF SurvInv, CardInv
<1>8. WalkInv'
  BY <1>1 DEF WalkInv
<1>9. WholeInv'
  BY <1>1, <1>4, <1>6 DEF SurvInv, CardInv, WholeInv
<1>10. AskInv'
  BY <1>1 DEF SurvInv, CardInv, AskInv
<1>11. CardInv'
  BY <1>4, <1>6, <1>7, <1>8, <1>9, <1>10 DEF CardInv
<1>12. CardKnows => CardKnows'
  BY <1>1, <1>4, <1>6 DEF CardKnows, Known, host
<1>13. FlowInv'
  BY <1>1, <1>12, CardFlow
<1> QED BY <1>1, <1>11, <1>13, CardQuiet DEF SurvInv

\* What a phase sends back is on the card.
LEMMA ChangedIs ==
  ASSUME SurvInv, card.pc = "run"
  PROVE  Changed \subseteq Pages /\ \A p \in Changed : Sendable(p)
<1>1. Changed \subseteq Pages
  BY DEF Changed
<1>2. ASSUME NEW p \in Changed PROVE Sendable(p)
  <2>1. CASE card.desc.mode = "ranges"
    <3>1. PICK j \in DOMAIN card.desc.ranges :
            p \in card.desc.ranges[j].lo .. card.desc.ranges[j].hi
      BY <2>1 DEF Changed
    <3>2. Walked(j, p)
      BY DEF Walked
    <3> QED BY <2>1, <3>1, <3>2 DEF SurvInv, CardInv, WalkInv
  <2>2. CASE card.desc.mode # "ranges"
    <3>1. card.desc.mode = "demand"
      BY <2>2 DEF SurvInv, CardInv, IsDesc
    <3>2. ChunkOf(p) \in DOMAIN chunks
      BY <2>2 DEF Changed
    <3>3. chunks[ChunkOf(p)].filled = PagesOf(ChunkOf(p))
      BY <3>1, <3>2 DEF SurvInv, CardInv, WholeInv
    <3> QED BY <1>1, <3>2, <3>3 DEF Sendable, PagesOf
  <2> QED BY <2>1, <2>2
<1> QED BY <1>1, <1>2

LEMMA LeftSurv == ASSUME SurvInv, MailInv', Left PROVE SurvInv'
<1>1. /\ UNCHANGED host /\ ref' = ref /\ win' = win /\ chunks' = chunks
      /\ card.pc = "run" /\ card'.pc = "back"
      /\ card'.desc = card.desc /\ card'.last = card.last
      /\ card'.fslot = card.fslot /\ card'.wslot = card.wslot
      /\ card'.mails = card.mails /\ card'.op = card.op
      /\ card'.out = Ascending(Changed)
  BY CardIs DEF Left, cardUnchanged
<1>2. card'.out \in Seq(Changed) /\ Changed \subseteq Pages
      /\ \A p \in Changed : Sendable(p)
  BY <1>1, ChangedIs, AscendingIs
<1>3. card'.out \in Seq(Pages) /\ \A i \in DOMAIN card'.out :
         Sendable(card'.out[i])
  <2>1. PICK T : T = Changed
    OBVIOUS
  <2>2. card'.out \in Seq(T) /\ T \subseteq Pages /\ \A p \in T : Sendable(p)
    BY <1>2, <2>1
  <2>3. \A i \in DOMAIN card'.out : card'.out[i] \in T
    BY <2>2
  <2>4. card'.out \in Seq(Pages)
    BY <2>2
  <2> QED BY <2>2, <2>3, <2>4
<1>4. IsDesc(card'.desc) /\ chunks' = [c \in DOMAIN chunks' |-> chunks'[c]]
      /\ \A c \in DOMAIN chunks' : IsChunk(c, chunks'[c])
  BY <1>1 DEF SurvInv, CardInv
<1>5. WalkInv'
  BY <1>1 DEF SurvInv, CardInv, WalkInv, Walked, Sendable
<1>6. WholeInv'
  BY <1>1 DEF SurvInv, CardInv, WholeInv
<1>7. AskInv'
  BY <1>1, <1>3 DEF SurvInv, CardInv, AskInv, Sendable
<1>8. CardInv'
  BY <1>4, <1>5, <1>6, <1>7 DEF CardInv
<1>9. CardKnows => CardKnows'
  BY <1>1 DEF CardKnows, Known, host
<1>10. FlowInv'
  BY <1>1, <1>9, CardFlow
<1> QED BY <1>1, <1>8, <1>10, CardQuiet DEF SurvInv

\* The pages of one write-back.
LEMMA StagedIs ==
  ASSUME SurvInv, card.pc = "back"
  PROVE  /\ Staged \in Seq(Pages) /\ Batch \subseteq Pages
         /\ \A i \in DOMAIN Staged : Sendable(Staged[i])
         /\ \A p \in Batch : Sendable(p)
<1>1. /\ card.out \in Seq(Pages)
      /\ \A i \in DOMAIN card.out : Sendable(card.out[i])
  BY DEF SurvInv, CardInv, AskInv
<1> DEFINE n == IF WbMax < Len(card.out) THEN WbMax ELSE Len(card.out)
<1>2. /\ Len(card.out) \in Nat /\ DOMAIN card.out = 1 .. Len(card.out)
      /\ WbMax \in Nat /\ n \in Nat
  BY <1>1, OffloadAssumption
<1>3. {j \in DOMAIN card.out : j <= WbMax} = 1 .. n
  BY <1>2
<1>4. Staged = [i \in 1 .. n |-> card.out[i]]
  BY <1>3 DEF Staged
<1>5. DOMAIN Staged = 1 .. n /\ \A i \in 1 .. n : Staged[i] = card.out[i]
                                                 /\ i \in DOMAIN card.out
  BY <1>2, <1>4
<1>6. Staged \in Seq(Pages)
  <2>1. Staged \in [1 .. n -> Pages]
    BY <1>1, <1>4, <1>5
  <2> HIDE DEF n
  <2> QED BY <1>2, <2>1, IsASeq
<1>7. \A i \in DOMAIN Staged : Sendable(Staged[i])
  BY <1>1, <1>5
<1>8. \A p \in Batch : \E i \in DOMAIN Staged : p = Staged[i]
  BY DEF Batch, Range
<1> QED BY <1>5, <1>6, <1>7, <1>8, <1>1

\* A write-back that is not sent: the pages staged once more, or none.
LEMMA FlushFailsSurv == ASSUME SurvInv, MailInv', Flush(FALSE) PROVE SurvInv'
<1>1. /\ UNCHANGED host /\ ref' = ref /\ win' = win /\ chunks' = chunks
      /\ card.pc = "back" /\ card'.pc = "back"
      /\ card'.desc = card.desc /\ card'.last = card.last
      /\ card'.fslot = card.fslot /\ card'.wslot = card.wslot
      /\ card'.mails = card.mails /\ card'.op = card.op
      /\ card'.out = Staged \/ card'.out = <<>>
  BY CardIs DEF Flush, cardUnchanged
<1>2. /\ card'.out \in Seq(Pages)
      /\ \A i \in DOMAIN card'.out : Sendable(card'.out[i])
  <2>1. CASE card'.out = Staged
    BY <1>1, <2>1, StagedIs
  <2>2. CASE card'.out = <<>>
    <3>1. DOMAIN card'.out = {} /\ card'.out \in Seq(Pages)
      BY <2>2
    <3> QED BY <3>1
  <2> QED BY <1>1, <2>1, <2>2
<1>3. IsDesc(card'.desc) /\ chunks' = [c \in DOMAIN chunks' |-> chunks'[c]]
      /\ \A c \in DOMAIN chunks' : IsChunk(c, chunks'[c])
  BY <1>1 DEF SurvInv, CardInv
<1>4. WalkInv'
  BY <1>1 DEF SurvInv, CardInv, WalkInv, Walked, Sendable
<1>5. WholeInv'
  BY <1>1 DEF SurvInv, CardInv, WholeInv
<1>6. AskInv'
  BY <1>1, <1>2 DEF SurvInv, CardInv, AskInv, Sendable
<1>7. CardInv'
  BY <1>3, <1>4, <1>5, <1>6 DEF CardInv
<1>8. CardKnows => CardKnows'
  BY <1>1 DEF CardKnows, Known, host
<1>9. FlowInv'
  BY <1>1, <1>8, CardFlow
<1> QED BY <1>1, <1>7, <1>9, CardQuiet DEF SurvInv

\* A write-back sent: each line with the other thread's bytes as they came.
LEMMA FlushSurv == ASSUME SurvInv, MailInv', Flush(TRUE) PROVE SurvInv'
<1> DEFINE w == card.wslot
           data == [p \in Batch |-> chunks[ChunkOf(p)].mem[p]]
<1>1. /\ UNCHANGED host /\ ref' = ref /\ chunks' = chunks
      /\ win' = [win EXCEPT !.wb[w] = data,
                            !.mail = Mail("writeback", Batch, w)]
      /\ card.pc = "back" /\ card'.pc = "flush"
      /\ card'.desc = card.desc /\ card'.last = card.last
      /\ card'.fslot = card.fslot /\ card'.wslot = w
      /\ card'.mails = card.mails + 1 /\ card'.op = card.op
      /\ card'.out = card.out
  BY CardIs DEF Flush, cardUnchanged
<1>2. /\ Batch \subseteq Pages /\ \A p \in Batch : Sendable(p)
  BY <1>1, StagedIs
<1>3. w \in {0, 1} /\ card.mails \in Nat /\ card.out \in Seq(Pages)
      /\ \A i \in DOMAIN card.out : Sendable(card.out[i])
  BY <1>1 DEF SurvInv, CardInv, AskInv
<1>4. DOMAIN data = Batch /\ data = [p \in DOMAIN data |-> data[p]]
      /\ \A p \in Batch : data[p] = chunks[ChunkOf(p)].mem[p]
  OBVIOUS
<1> HIDE DEF data
<1>5. ASSUME NEW p \in Batch
      PROVE  Cell(data[p]) /\ (p \notin Shared => data[p].o = 0)
  <2>1. IsChunk(ChunkOf(p), chunks[ChunkOf(p)])
    BY <1>2 DEF Sendable, SurvInv, CardInv
  <2>2. p \in PagesOf(ChunkOf(p))
    BY <1>2 DEF PagesOf
  <2> QED BY <1>4, <2>1, <2>2 DEF IsChunk, Copies
<1>6. Copies(data)
  BY <1>2, <1>4, <1>5 DEF Copies
<1>7. /\ win'.req = win.req /\ win'.fetch = win.fetch
      /\ win'.wb = [win.wb EXCEPT ![w] = data]
      /\ win'.mail = Mail("writeback", Batch, w)
  BY <1>1 DEF SurvInv, MailInv, Shape
<1>8. /\ win'.wb = [s \in {0, 1} |-> win'.wb[s]] /\ win'.wb[w] = data
      /\ \A s \in {0, 1} : s # w => win'.wb[s] = win.wb[s]
  BY <1>3, <1>7 DEF SurvInv, DataInv
<1>9. /\ win'.mail.kind = "writeback" /\ win'.mail.slot = w
      /\ win'.mail.seq = card.mails + 1
  BY <1>7 DEF Mail
<1>10. UNCHANGED <<prog, hpc, region, k, mode, stash, ahead, mail>>
  BY <1>1 DEF host
<1>11. DataInv'
  BY <1>1, <1>3, <1>6, <1>7, <1>8, <1>10 DEF SurvInv, DataInv
<1>12. HostInv'
  BY <1>7, <1>10 DEF SurvInv, HostInv
<1>13. IsDesc(card'.desc) /\ chunks' = [c \in DOMAIN chunks' |-> chunks'[c]]
      /\ \A c \in DOMAIN chunks' : IsChunk(c, chunks'[c])
  BY <1>1 DEF SurvInv, CardInv
<1>14. WalkInv'
  BY <1>1 DEF SurvInv, CardInv, WalkInv, Walked, Sendable
<1>15. WholeInv'
  BY <1>1 DEF SurvInv, CardInv, WholeInv
<1>16. AskInv'
  BY <1>1, <1>3, <1>9 DEF SurvInv, CardInv, AskInv, Sendable
<1>17. CardInv'
  BY <1>13, <1>14, <1>15, <1>16 DEF CardInv
<1>18. (Going' <=> Going) /\ (Between' <=> Between)
       /\ (CardKnows' <=> CardKnows)
  BY <1>1, <1>7, <1>10 DEF Going, Between, CardKnows, Known
<1>19. Going => \A p \in Batch \cap Shared :
                   p \in DOMAIN stash /\ data[p].o = stash[p].o
  BY <1>2, <1>4 DEF SurvInv, FlowInv, CardKnows, Known, Sendable
<1>20. hpc = "apply" => /\ mail.slot # w /\ mail.slot \in {0, 1}
                        /\ Known(win.wb[mail.slot], DOMAIN win.wb[mail.slot])
  BY <1>1 DEF SurvInv, FlowInv, HostInv
<1>21. hpc' = "apply" =>
         /\ \A p \in DOMAIN win'.wb[mail'.slot] \cap Shared :
              /\ p \in DOMAIN stash'
              /\ win'.wb[mail'.slot][p].o = stash'[p].o
         /\ mail'.slot # w
  BY <1>8, <1>10, <1>20 DEF Known
<1>22. win'.mail.ack # win'.mail.seq
  <2>1. win'.mail.ack = win.mail.ack
    BY <1>7 DEF Mail
  <2>2. win.mail.ack = card.mails
    BY <1>1 DEF SurvInv, MailInv, Mails, Waiting, CardInv, AskInv
  <2> QED BY <1>3, <1>9, <2>1, <2>2
<1>23. Going' => \A p \in DOMAIN win'.wb[w] \cap Shared :
                   p \in DOMAIN stash' /\ win'.wb[w][p].o = stash'[p].o
  BY <1>4, <1>8, <1>10, <1>18, <1>19
<1>24. FlowInv'
  BY <1>1, <1>18, <1>21, <1>22, <1>23 DEF SurvInv, FlowInv, Known
<1>25. OthersSurvive'
  BY <1>1, <1>10 DEF SurvInv, OthersSurvive
<1> QED BY <1>11, <1>12, <1>17, <1>24, <1>25 DEF SurvInv

\* A write-back received: the rest, in the other slot.
LEMMA FlushedSurv == ASSUME SurvInv, MailInv', Flushed PROVE SurvInv'
<1>1. /\ UNCHANGED host /\ ref' = ref /\ win' = win /\ chunks' = chunks
      /\ card.pc = "flush" /\ card'.pc = "back"
      /\ win.mail.ack = card.mails
      /\ card'.desc = card.desc /\ card'.last = card.last
      /\ card'.fslot = card.fslot /\ card'.wslot = 1 - card.wslot
      /\ card'.mails = card.mails /\ card'.op = card.op
      /\ card'.out = SubSeq(card.out, WbMax + 1, Len(card.out))
  BY CardIs DEF Flushed, NextWbSlot, cardUnchanged
<1>2. /\ card.out \in Seq(Pages) /\ card.wslot \in {0, 1}
      /\ \A i \in DOMAIN card.out : Sendable(card.out[i])
      /\ win.mail.seq = card.mails
  BY <1>1 DEF SurvInv, CardInv, AskInv
<1>3. /\ card'.out \in Seq(Pages)
      /\ \A i \in DOMAIN card'.out : Sendable(card'.out[i])
  <2>1. WbMax \in Nat /\ Len(card.out) \in Nat
        /\ DOMAIN card.out = 1 .. Len(card.out)
    BY <1>2, OffloadAssumption
  <2>2. card'.out \in Seq(Pages)
    BY <1>1, <1>2, <2>1
  <2>3. ASSUME NEW i \in DOMAIN card'.out
        PROVE  \E j \in DOMAIN card.out : card'.out[i] = card.out[j]
    <3>1. PICK s, n, m : /\ s = card.out /\ n = WbMax /\ m = Len(s)
      OBVIOUS
    <3>2. /\ s \in Seq(Pages) /\ n \in Nat /\ m \in Nat /\ m = Len(s)
          /\ i \in DOMAIN SubSeq(s, n + 1, m)
      BY <1>1, <1>2, <2>1, <3>1
    <3>3. /\ i \in Nat /\ n + i \in 1 .. m
          /\ SubSeq(s, n + 1, m)[i] = s[n + i]
      BY <3>2
    <3>4. n + i \in DOMAIN card.out
      BY <2>1, <3>1, <3>3
    <3> QED BY <1>1, <3>1, <3>3, <3>4
  <2> QED BY <1>2, <2>2, <2>3
<1>4. IsDesc(card'.desc) /\ chunks' = [c \in DOMAIN chunks' |-> chunks'[c]]
      /\ \A c \in DOMAIN chunks' : IsChunk(c, chunks'[c])
  BY <1>1 DEF SurvInv, CardInv
<1>5. WalkInv'
  BY <1>1 DEF SurvInv, CardInv, WalkInv, Walked, Sendable
<1>6. WholeInv'
  BY <1>1 DEF SurvInv, CardInv, WholeInv
<1>7. 1 - card.wslot \in {0, 1} /\ 1 - card.wslot # card.wslot
  BY <1>2
<1>8. AskInv'
  BY <1>1, <1>3, <1>7 DEF SurvInv, CardInv, AskInv, Sendable
<1>9. CardInv'
  BY <1>4, <1>5, <1>6, <1>8 DEF CardInv
<1>10. UNCHANGED <<hpc, k, stash, mail>>
  BY <1>1 DEF host
<1>11. (Going' <=> Going) /\ (Between' <=> Between)
       /\ (CardKnows' <=> CardKnows)
  BY <1>1, <1>10 DEF Going, Between, CardKnows, Known
<1>12. hpc = "apply" =>
         /\ Known(win.wb[mail.slot], DOMAIN win.wb[mail.slot])
         /\ mail.slot = card.wslot
  BY <1>1, <1>2 DEF SurvInv, FlowInv
<1>13. FlowInv'
  BY <1>1, <1>7, <1>10, <1>11, <1>12 DEF SurvInv, FlowInv, Known
<1> QED BY <1>1, <1>9, <1>13, CardQuiet DEF SurvInv

-----------------------------------------------------------------------------
(* Chunks come and go.                                                     *)

GoodChunks(ch) ==
    /\ ch = [c \in DOMAIN ch |-> ch[c]]
    /\ \A c \in DOMAIN ch : IsChunk(c, ch[c])

LEMMA EndRegionIs ==
  ASSUME NEW ch, GoodChunks(ch)
  PROVE  /\ GoodChunks(EndRegion(ch))
         /\ DOMAIN EndRegion(ch) \subseteq DOMAIN ch
         /\ \A c \in DOMAIN EndRegion(ch) :
              EndRegion(ch)[c].fourk /\ EndRegion(ch)[c].filled = {}
<1> DEFINE e == EndRegion(ch)
<1>1. /\ DOMAIN e = {x \in DOMAIN ch : ch[x].fourk}
      /\ e = [c \in DOMAIN e |-> e[c]]
      /\ \A c \in DOMAIN e : e[c] = [ch[c] EXCEPT !.filled = {},
                                       !.dirty = FALSE, !.shadow = NoPages]
  BY DEF EndRegion
<1> HIDE DEF e
<1>2. ASSUME NEW c \in DOMAIN e
      PROVE  IsChunk(c, e[c]) /\ e[c].fourk /\ e[c].filled = {}
  <2>1. IsChunk(c, ch[c]) /\ ch[c].fourk
    BY <1>1 DEF GoodChunks
  <2>2. e[c] = [ch[c] EXCEPT !.filled = {}, !.dirty = FALSE,
                             !.shadow = NoPages]
    BY <1>1
  <2>3. /\ e[c].fourk = ch[c].fourk /\ e[c].filled = {}
        /\ e[c].dirty = FALSE /\ e[c].mem = ch[c].mem
        /\ e[c] = [fourk |-> e[c].fourk, writable |-> e[c].writable,
                   filled |-> e[c].filled, dirty |-> e[c].dirty,
                   shadow |-> e[c].shadow, mem |-> e[c].mem]
    BY <2>1, <2>2 DEF IsChunk
  <2> QED BY <2>1, <2>3 DEF IsChunk
<1>3. GoodChunks(e)
  BY <1>1, <1>2 DEF GoodChunks
<1> QED BY <1>1, <1>2, <1>3 DEF e

LEMMA PurgeIs ==
  ASSUME NEW ch, GoodChunks(ch)
  PROVE  /\ GoodChunks(Purge(ch))
         /\ DOMAIN Purge(ch) \subseteq DOMAIN ch
         /\ \A c \in DOMAIN Purge(ch) : Purge(ch)[c] = ch[c] /\ ~ch[c].fourk
<1> DEFINE e == Purge(ch)
<1>1. /\ DOMAIN e = {x \in DOMAIN ch : ~ch[x].fourk}
      /\ e = [c \in DOMAIN e |-> e[c]]
      /\ \A c \in DOMAIN e : e[c] = ch[c]
  BY DEF Purge, Restrict
<1> HIDE DEF e
<1>2. GoodChunks(e)
  BY <1>1 DEF GoodChunks
<1> QED BY <1>1, <1>2 DEF e

LEMMA SettledIs ==
  ASSUME NEW ch, GoodChunks(ch)
  PROVE  /\ GoodChunks(Settled(ch)) /\ DOMAIN Settled(ch) = DOMAIN ch
         /\ \A c \in DOMAIN ch : /\ Settled(ch)[c].fourk = ch[c].fourk
                                 /\ Settled(ch)[c].filled = ch[c].filled
                                 /\ Settled(ch)[c].mem = ch[c].mem
<1> DEFINE e == Settled(ch)
<1>1. /\ DOMAIN e = DOMAIN ch
      /\ e = [c \in DOMAIN e |-> e[c]]
      /\ \A c \in DOMAIN e :
           \/ e[c] = ch[c]
           \/ e[c] = [ch[c] EXCEPT !.dirty = FALSE, !.writable = FALSE,
                                   !.shadow = NoPages]
  BY DEF Settled
<1> HIDE DEF e
<1>2. ASSUME NEW c \in DOMAIN e
      PROVE  /\ IsChunk(c, e[c]) /\ e[c].fourk = ch[c].fourk
             /\ e[c].filled = ch[c].filled /\ e[c].mem = ch[c].mem
  <2>1. IsChunk(c, ch[c])
    BY <1>1 DEF GoodChunks
  <2>2. CASE e[c] = ch[c]
    BY <2>1, <2>2
  <2>3. CASE e[c] = [ch[c] EXCEPT !.dirty = FALSE, !.writable = FALSE,
                                  !.shadow = NoPages]
    <3>1. /\ e[c].fourk = ch[c].fourk /\ e[c].filled = ch[c].filled
          /\ e[c].dirty = FALSE /\ e[c].mem = ch[c].mem
          /\ e[c] = [fourk |-> e[c].fourk, writable |-> e[c].writable,
                     filled |-> e[c].filled, dirty |-> e[c].dirty,
                     shadow |-> e[c].shadow, mem |-> e[c].mem]
      BY <2>1, <2>3 DEF IsChunk
    <3> QED BY <2>1, <3>1 DEF IsChunk
  <2> QED BY <1>1, <2>2, <2>3
<1>3. GoodChunks(e)
  BY <1>1, <1>2 DEF GoodChunks
<1> QED BY <1>1, <1>2, <1>3 DEF e

\* w is ch with the chunk c, nothing fetched into it when it is new.
MoreChunks(w, ch, c, fourk) ==
    /\ GoodChunks(w) /\ DOMAIN w = DOMAIN ch \cup {c}
    /\ \A x \in DOMAIN ch : w[x] = ch[x]
    /\ c \notin DOMAIN ch => (w[c].fourk <=> fourk) /\ w[c].filled = {}

LEMMA WithChunkIs ==
  ASSUME NEW ch, GoodChunks(ch), NEW c, NEW fourk \in BOOLEAN
  PROVE  MoreChunks(WithChunk(ch, c, fourk), ch, c, fourk)
<1> DEFINE w == WithChunk(ch, c, fourk)
<1>1. /\ DOMAIN w = DOMAIN ch \cup {c}
      /\ w = [x \in DOMAIN w |-> w[x]]
      /\ \A x \in DOMAIN ch : w[x] = ch[x]
      /\ c \notin DOMAIN ch => w[c] = NewChunk(c, fourk)
  BY DEF WithChunk
<1>2. /\ IsChunk(c, NewChunk(c, fourk))
      /\ NewChunk(c, fourk).fourk = fourk
      /\ NewChunk(c, fourk).filled = {}
  <2> DEFINE m == [p \in PagesOf(c) |-> [r |-> 0, o |-> 0]]
  <2>1. Copies(m) /\ DOMAIN m = PagesOf(c)
    BY DEF Copies, Cell, PagesOf
  <2> HIDE DEF m
  <2>2. NewChunk(c, fourk) =
          [fourk |-> fourk, writable |-> ~fourk, filled |-> {},
           dirty |-> FALSE, shadow |-> NoPages, mem |-> m]
    BY DEF NewChunk, m
  <2> QED BY <2>1, <2>2 DEF IsChunk
<1> HIDE DEF w
<1>3. \A x \in DOMAIN w : IsChunk(x, w[x])
  BY <1>1, <1>2 DEF GoodChunks
<1>4. GoodChunks(w)
  BY <1>1, <1>3 DEF GoodChunks
<1> QED BY <1>1, <1>2, <1>4 DEF MoreChunks, w

LEMMA ReplySurv == ASSUME SurvInv, MailInv', Reply PROVE SurvInv'
<1>1. /\ UNCHANGED host /\ ref' = ref
      /\ card.pc \in {"back", "done"} /\ card'.pc = "idle"
      /\ card'.desc = card.desc /\ card'.last = card.last
      /\ card'.fslot = card.fslot /\ card'.wslot = card.wslot
      /\ card'.mails = card.mails /\ card'.op = card.op
      /\ win' = [win EXCEPT !.reply = [seq |-> card.last,
                                       kind |-> card.kind,
                                       acc |-> card.acc]]
  BY CardIs DEF Reply, cardUnchanged
<1>2. /\ win'.req = win.req /\ win'.fetch = win.fetch /\ win'.wb = win.wb
      /\ win'.mail = win.mail
  BY <1>1 DEF SurvInv, MailInv, Shape
<1>3. PICK ch : /\ ch = chunks \/ ch = Settled(chunks)
                /\ chunks' = IF card.desc.final \/ card.kind # "left"
                             THEN EndRegion(ch) ELSE ch
  BY DEF Reply
<1>4. GoodChunks(chunks)
  BY DEF SurvInv, CardInv, GoodChunks
<1>5. /\ GoodChunks(ch) /\ DOMAIN ch = DOMAIN chunks
      /\ \A c \in DOMAIN ch : /\ ch[c].fourk = chunks[c].fourk
                              /\ ch[c].filled = chunks[c].filled
                              /\ ch[c].mem = chunks[c].mem
  <2>1. CASE ch = chunks
    BY <1>4, <2>1
  <2>2. CASE ch = Settled(chunks)
    BY <1>4, <2>2, SettledIs
  <2> QED BY <1>3, <2>1, <2>2
<1>6. /\ GoodChunks(chunks') /\ DOMAIN chunks' \subseteq DOMAIN chunks
      /\ \A c \in DOMAIN chunks' :
           \/ chunks'[c].fourk /\ chunks'[c].filled = {}
           \/ /\ chunks'[c].filled = chunks[c].filled
              /\ chunks'[c].mem = chunks[c].mem
              /\ chunks'[c].fourk = chunks[c].fourk
              /\ card.kind = "left"
  <2>1. CASE chunks' = EndRegion(ch)
    BY <1>5, <2>1, EndRegionIs
  <2>2. CASE chunks' = ch /\ card.kind = "left"
    BY <1>5, <2>2
  <2> QED BY <1>3, <2>1, <2>2
<1>7. IsDesc(card'.desc)
  BY <1>1 DEF SurvInv, CardInv
<1>8. WalkInv'
  BY <1>1 DEF SurvInv, CardInv, WalkInv, Walked
<1>9. WholeInv'
  <2>1. ASSUME NEW c \in DOMAIN chunks', ~chunks'[c].fourk
        PROVE  chunks'[c].filled = PagesOf(c)
    <3>1. /\ c \in DOMAIN chunks /\ chunks'[c].filled = chunks[c].filled
          /\ ~chunks[c].fourk /\ card.kind = "left"
      BY <1>6, <2>1
    <3> QED BY <1>1, <3>1 DEF SurvInv, CardInv, WholeInv
  <2> QED BY <1>1, <2>1 DEF WholeInv
<1>10. AskInv'
  BY <1>1, <1>2 DEF SurvInv, CardInv, AskInv
<1>11. CardInv'
  BY <1>6, <1>7, <1>8, <1>9, <1>10 DEF CardInv, GoodChunks
<1>12. CardKnows => CardKnows'
  BY <1>1, <1>6 DEF CardKnows, Known, host
<1>13. FlowInv'
  BY <1>1, <1>2, <1>12, CardFlow
<1> QED BY <1>1, <1>2, <1>11, <1>13, CardQuiet DEF SurvInv

\* The pages of an answer.
LEMMA FromSlotIs ==
  ASSUME NEW slot, DOMAIN slot \subseteq Pages, NEW p \in DOMAIN slot
  PROVE  FromSlot(slot, DOMAIN slot, p) = slot[p]
<1>1. PICK lo : lo = Lowest(DOMAIN slot)
  OBVIOUS
<1>2. DOMAIN slot \subseteq Nat
  BY OffloadAssumption DEF Pages
<1>3. lo \in Nat /\ p \in Nat
  BY <1>1, <1>2, LowestIs
<1>4. lo + p - lo = p
  BY <1>3
<1> QED BY <1>1, <1>4 DEF FromSlot

\* The answer to a fetch: the pages as they were sent.
LEMMA PullSurv ==
  ASSUME SurvInv, MailInv', NEW ok, Pull(ok) PROVE SurvInv'
<1> DEFINE M == win.mail
           slot == win.fetch[M.slot]
<1>1. /\ UNCHANGED host /\ ref' = ref /\ win' = win
      /\ card.pc = "fetch" /\ M.ack = card.mails
      /\ card'.desc = card.desc /\ card'.last = card.last
      /\ card'.fslot = 1 - card.fslot /\ card'.wslot = card.wslot
      /\ card'.mails = card.mails /\ card'.op = card.op
      /\ card'.range = card.range /\ card'.at = card.at
  BY CardIs DEF Pull, NextFetchSlot, cardUnchanged
<1>2. PICK c \in DOMAIN chunks :
        /\ M.pages \subseteq PagesOf(c) \ chunks[c].filled
        /\ card.desc.mode = "demand" => M.pages = PagesOf(c)
  BY <1>1 DEF SurvInv, CardInv, AskInv
<1>3. M.pages # {} /\ M.pages \subseteq Pages
  BY <1>1, <1>2 DEF SurvInv, CardInv, AskInv, PagesOf
<1>4. c = ChunkOf(Lowest(M.pages))
  <2>1. M.pages \subseteq Nat
    BY <1>3, OffloadAssumption DEF Pages
  <2>2. Lowest(M.pages) \in M.pages
    BY <1>3, <2>1, LowestIs
  <2> QED BY <1>2, <2>2 DEF PagesOf
<1>5. DOMAIN slot = M.pages /\ M.slot \in {0, 1} /\ Copies(slot)
  BY <1>1 DEF SurvInv, FlowInv, CardInv, AskInv, DataInv
<1>6. \A p \in M.pages : FromSlot(slot, M.pages, p) = slot[p]
  <2>1. \A p \in DOMAIN slot : FromSlot(slot, DOMAIN slot, p) = slot[p]
    BY <1>3, <1>5, FromSlotIs
  <2> QED BY <1>5, <2>1
<1>7. IsChunk(c, chunks[c]) /\ GoodChunks(chunks)
  BY DEF SurvInv, CardInv, GoodChunks
<1> DEFINE mem == [p \in PagesOf(c) |-> IF p \in M.pages THEN slot[p]
                                        ELSE chunks[c].mem[p]]
<1>8. \/ /\ M.status = 0 /\ card'.pc = AfterFetch(card.desc.mode)
         /\ chunks' = [chunks EXCEPT
              ![c] = [chunks[c] EXCEPT
                        !.mem = mem, !.filled = chunks[c].filled \cup M.pages,
                        !.writable = ~(card.desc.mode = "demand")]]
      \/ chunks' = chunks /\ card'.pc = "done" /\ card'.kind # "left"
  <2>1. CASE M.status = 0 /\ ok
    <3> DEFINE d == ChunkOf(Lowest(M.pages))
    <3>4. /\ card'.pc = AfterFetch(card.desc.mode)
          /\ chunks' = [chunks EXCEPT
               ![d].mem = [p \in DOMAIN chunks[d].mem |->
                             IF p \in M.pages
                             THEN FromSlot(slot, M.pages, p)
                             ELSE chunks[d].mem[p]],
               ![d].filled = chunks[d].filled \cup M.pages,
               ![d].writable = ~(card.desc.mode = "demand")]
      BY <2>1, CardIs DEF Pull
    <3>5. d = c
      BY <1>4
    <3> HIDE DEF d
    <3>1. /\ card'.pc = AfterFetch(card.desc.mode)
          /\ chunks' = [chunks EXCEPT
               ![c].mem = [p \in DOMAIN chunks[c].mem |->
                             IF p \in M.pages
                             THEN FromSlot(slot, M.pages, p)
                             ELSE chunks[c].mem[p]],
               ![c].filled = chunks[c].filled \cup M.pages,
               ![c].writable = ~(card.desc.mode = "demand")]
      BY <3>4, <3>5
    <3>2. DOMAIN chunks[c].mem = PagesOf(c)
      BY <1>7 DEF IsChunk
    <3>3. [p \in DOMAIN chunks[c].mem |->
             IF p \in M.pages THEN FromSlot(slot, M.pages, p)
             ELSE chunks[c].mem[p]] = mem
      BY <1>6, <3>2
    <3> QED BY <2>1, <3>1, <3>3
  <2>2. CASE ~(M.status = 0 /\ ok)
    BY <2>2, CardIs DEF Pull
  <2> QED BY <2>1, <2>2
<1>9. /\ DOMAIN mem = PagesOf(c) /\ mem = [p \in DOMAIN mem |-> mem[p]]
      /\ \A p \in M.pages : mem[p] = slot[p]
      /\ \A p \in PagesOf(c) \ M.pages : mem[p] = chunks[c].mem[p]
  BY <1>2
<1> HIDE DEF mem, slot
<1>10. Copies(mem)
  BY <1>5, <1>7, <1>9 DEF Copies, IsChunk
<1>11. CASE chunks' = chunks /\ card'.pc = "done" /\ card'.kind # "left"
  <2>1. IsDesc(card'.desc) /\ GoodChunks(chunks')
    BY <1>1, <1>7, <1>11 DEF SurvInv, CardInv
  <2>2. WalkInv'
    BY <1>1, <1>11 DEF SurvInv, CardInv, WalkInv, Walked
  <2>3. WholeInv'
    BY <1>1, <1>11 DEF SurvInv, CardInv, WholeInv
  <2>4. AskInv'
    BY <1>1, <1>11 DEF SurvInv, CardInv, AskInv
  <2>5. CardInv'
    BY <2>1, <2>2, <2>3, <2>4 DEF CardInv, GoodChunks
  <2>6. CardKnows => CardKnows'
    BY <1>1, <1>11 DEF CardKnows, Known, host
  <2>7. FlowInv'
    BY <1>1, <1>11, <2>6, CardFlow
  <2> QED BY <1>1, <2>5, <2>7, CardQuiet DEF SurvInv
<1>12. CASE /\ M.status = 0 /\ card'.pc = AfterFetch(card.desc.mode)
            /\ chunks' = [chunks EXCEPT
                 ![c] = [chunks[c] EXCEPT
                           !.mem = mem,
                           !.filled = chunks[c].filled \cup M.pages,
                           !.writable = ~(card.desc.mode = "demand")]]
  <2>1. /\ DOMAIN chunks' = DOMAIN chunks
        /\ chunks' = [x \in DOMAIN chunks' |-> chunks'[x]]
        /\ \A x \in DOMAIN chunks : x # c => chunks'[x] = chunks[x]
        /\ chunks'[c] = [chunks[c] EXCEPT
                           !.mem = mem,
                           !.filled = chunks[c].filled \cup M.pages,
                           !.writable = ~(card.desc.mode = "demand")]
    BY <1>12
  <2>2. /\ chunks'[c].fourk = chunks[c].fourk /\ chunks'[c].mem = mem
        /\ chunks'[c].filled = chunks[c].filled \cup M.pages
        /\ chunks'[c].dirty = chunks[c].dirty
        /\ IsChunk(c, chunks'[c])
    <3>1. /\ chunks'[c].fourk = chunks[c].fourk /\ chunks'[c].mem = mem
          /\ chunks'[c].filled = chunks[c].filled \cup M.pages
          /\ chunks'[c].dirty = chunks[c].dirty
          /\ chunks'[c] = [fourk |-> chunks'[c].fourk,
                           writable |-> chunks'[c].writable,
                           filled |-> chunks'[c].filled,
                           dirty |-> chunks'[c].dirty,
                           shadow |-> chunks'[c].shadow,
                           mem |-> chunks'[c].mem]
      BY <1>7, <2>1 DEF IsChunk
    <3> QED BY <1>2, <1>7, <1>9, <1>10, <3>1 DEF IsChunk
  <2>3. GoodChunks(chunks')
    BY <1>7, <2>1, <2>2 DEF GoodChunks
  <2>4. IsDesc(card'.desc) /\ card.desc.mode \in {"ranges", "demand"}
    BY <1>1 DEF SurvInv, CardInv, IsDesc
  <2>5. \A x \in DOMAIN chunks : /\ chunks'[x].fourk = chunks[x].fourk
                                 /\ chunks[x].filled \subseteq
                                       chunks'[x].filled
    BY <2>1, <2>2
  <2>6. \/ card'.pc = "ranges" /\ card.desc.mode = "ranges"
        \/ card'.pc = "run" /\ card.desc.mode = "demand"
    BY <1>12, <2>4 DEF AfterFetch
  <2>7. WalkInv'
    BY <1>1, <2>1, <2>5, <2>6
       DEF SurvInv, CardInv, WalkInv, Walked, Sendable
  <2>8. WholeInv'
    <3>1. ASSUME NEW x \in DOMAIN chunks', ~chunks'[x].fourk
          PROVE  chunks'[x].filled = PagesOf(x)
      <4>1. x \in DOMAIN chunks /\ ~chunks[x].fourk
        BY <2>1, <2>5, <3>1
      <4>2. \/ chunks[x].filled = PagesOf(x)
            \/ M.pages = PagesOf(x)
        BY <1>1, <4>1 DEF SurvInv, CardInv, WholeInv
      <4>3. CASE x = c
        BY <1>2, <1>7, <2>2, <4>2, <4>3 DEF IsChunk
      <4>4. CASE x # c
        <5>1. M.pages # PagesOf(x)
          BY <1>2, <1>3, <4>4 DEF PagesOf
        <5> QED BY <2>1, <4>1, <4>2, <4>4, <5>1
      <4> QED BY <4>3, <4>4
    <3>2. card.desc.mode = "demand" =>
            \A x \in DOMAIN chunks' : ~chunks'[x].fourk
      BY <1>1, <2>1, <2>5 DEF SurvInv, CardInv, WholeInv
    <3> QED BY <1>1, <2>6, <3>1, <3>2 DEF WholeInv
  <2>9. AskInv'
    BY <1>1, <2>6 DEF SurvInv, CardInv, AskInv
  <2>10. CardInv'
    BY <2>3, <2>4, <2>7, <2>8, <2>9 DEF CardInv, GoodChunks
  <2>11. ASSUME CardKnows, Going PROVE CardKnows'
    <3>1. Known(slot, M.pages)
      BY <1>1, <1>12, <2>11 DEF SurvInv, FlowInv, CardInv, AskInv, slot
    <3>2. ASSUME NEW x \in DOMAIN chunks', NEW p \in chunks'[x].filled,
                 p \in Shared
          PROVE  p \in DOMAIN stash /\ chunks'[x].mem[p].o = stash[p].o
      <4>1. CASE x = c /\ p \in M.pages
        BY <1>9, <2>2, <3>1, <3>2, <4>1 DEF Known
      <4>2. CASE x = c /\ p \notin M.pages
        <5>1. p \in chunks[c].filled /\ p \in PagesOf(c)
          BY <1>7, <2>2, <3>2, <4>2 DEF IsChunk
        <5>2. p \in DOMAIN stash /\ chunks[c].mem[p].o = stash[p].o
          BY <2>11, <3>2, <5>1 DEF CardKnows, Known
        <5> QED BY <1>9, <2>2, <4>2, <5>1, <5>2
      <4>3. CASE x # c
        BY <2>1, <2>11, <3>2, <4>3 DEF CardKnows, Known
      <4> QED BY <4>1, <4>2, <4>3
    <3> QED BY <1>1, <3>2 DEF CardKnows, Known, host
  <2>12. ~Between
    BY <1>1 DEF Between, SurvInv, MailInv, Turns, AtRest
  <2>13. FlowInv'
    BY <1>1, <2>6, <2>11, <2>12, CardFlow
  <2> QED BY <1>1, <2>10, <2>13, CardQuiet DEF SurvInv
<1> QED BY <1>8, <1>11, <1>12

\* A page asked for: the mail is unanswered.
LEMMA AskedMail ==
  ASSUME SurvInv, ~Waiting, NEW S,
         win' = [win EXCEPT !.mail = Mail("fetch", S, card.fslot)]
  PROVE  /\ win'.req = win.req /\ win'.fetch = win.fetch /\ win'.wb = win.wb
         /\ win'.mail.kind = "fetch" /\ win'.mail.pages = S
         /\ win'.mail.slot = card.fslot /\ win'.mail.seq = card.mails + 1
         /\ win'.mail.ack # win'.mail.seq
<1>1. /\ win'.req = win.req /\ win'.fetch = win.fetch /\ win'.wb = win.wb
      /\ win'.mail = Mail("fetch", S, card.fslot)
  BY DEF SurvInv, MailInv, Shape
<1>2. /\ win'.mail.kind = "fetch" /\ win'.mail.pages = S
      /\ win'.mail.slot = card.fslot /\ win'.mail.seq = card.mails + 1
      /\ win'.mail.ack = win.mail.ack
  BY <1>1 DEF Mail
<1>3. win.mail.ack = card.mails /\ card.mails \in Nat
  BY DEF SurvInv, MailInv, Mails, CardInv, AskInv
<1> QED BY <1>1, <1>2, <1>3

\* A fault on a chunk that is not there: the chunk asked for, whole.
LEMMA FaultUnmappedSurv ==
  ASSUME SurvInv, MailInv', FaultUnmapped PROVE SurvInv'
<1>1. /\ UNCHANGED host /\ ref' = ref
      /\ card.pc = "run" /\ card'.pc = "fetch" /\ card.desc.mode = "demand"
      /\ card'.desc = card.desc /\ card'.last = card.last
      /\ card'.fslot = card.fslot /\ card'.wslot = card.wslot
      /\ card'.mails = card.mails + 1 /\ card'.op = card.op
      /\ card.op <= Len(card.desc.ops)
  BY CardIs DEF FaultUnmapped, Running, cardUnchanged
<1>2. PICK c : /\ c = ChunkOf(Op.page) /\ c \notin DOMAIN chunks
               /\ chunks' = WithChunk(chunks, c, FALSE)
               /\ win' = [win EXCEPT
                    !.mail = Mail("fetch", PagesOf(c), card.fslot)]
  BY DEF FaultUnmapped
<1>3. Op.page \in Pages
  <2>1. card.desc.ops \in Seq(CodeAccess) /\ card.op \in Nat \ {0}
    BY DEF SurvInv, CardInv, IsDesc, AskInv
  <2>2. card.desc.ops[card.op] \in CodeAccess
    BY <1>1, <2>1
  <2> QED BY <2>2 DEF Op, CodeAccess
<1>4. PagesOf(c) # {}
  BY <1>2, <1>3 DEF PagesOf
<1>5. /\ win'.req = win.req /\ win'.fetch = win.fetch /\ win'.wb = win.wb
      /\ win'.mail.kind = "fetch" /\ win'.mail.pages = PagesOf(c)
      /\ win'.mail.slot = card.fslot /\ win'.mail.seq = card.mails + 1
      /\ win'.mail.ack # win'.mail.seq
  BY <1>1, <1>2, AskedMail DEF Waiting
<1>6. GoodChunks(chunks)
  BY DEF SurvInv, CardInv, GoodChunks
<1>7. /\ GoodChunks(chunks') /\ DOMAIN chunks' = DOMAIN chunks \cup {c}
      /\ \A x \in DOMAIN chunks : chunks'[x] = chunks[x]
      /\ ~chunks'[c].fourk /\ chunks'[c].filled = {}
  <2>1. MoreChunks(chunks', chunks, c, FALSE)
    BY <1>2, <1>6, WithChunkIs
  <2> QED BY <1>2, <2>1 DEF MoreChunks
<1>8. IsDesc(card'.desc)
  BY <1>1 DEF SurvInv, CardInv
<1>9. WalkInv'
  BY <1>1 DEF WalkInv
<1>10. WholeInv'
  BY <1>1, <1>5, <1>7 DEF SurvInv, CardInv, WholeInv
<1>11. AskInv'
  <2>1. /\ card.fslot \in {0, 1} /\ card.wslot \in {0, 1}
        /\ card.mails \in Nat /\ card.op \in Nat \ {0}
    BY DEF SurvInv, CardInv, AskInv
  <2>2. PagesOf(c) \subseteq PagesOf(c) \ chunks'[c].filled
        /\ c \in DOMAIN chunks'
    BY <1>7
  <2> QED BY <1>1, <1>4, <1>5, <2>1, <2>2 DEF AskInv
<1>12. CardInv'
  BY <1>7, <1>8, <1>9, <1>10, <1>11 DEF CardInv, GoodChunks
<1>13. CardKnows => CardKnows'
  BY <1>1, <1>7 DEF CardKnows, Known, host
<1>14. FlowInv'
  BY <1>1, <1>5, <1>13, CardFlow
<1> QED BY <1>1, <1>5, <1>12, <1>14, CardQuiet DEF SurvInv

\* The walk over the declared ranges: a piece asked for, or there already.
LEMMA FetchRangesSurv ==
  ASSUME SurvInv, MailInv', FetchRanges PROVE SurvInv'
<1> DEFINE r == card.desc.ranges[card.range]
           at == IF card.at = -1 THEN r.lo ELSE card.at
           c == ChunkOf(at)
           piece == {p \in PagesOf(c) : p >= at /\ p <= r.hi}
           w == WithChunk(chunks, c, TRUE)
           open == [w EXCEPT ![c].writable = TRUE]
           ends == {Lowest(piece), Highest(piece)}
           want == (IF r.dense THEN ends ELSE piece) \ w[c].filled
           run == IF r.dense THEN {Lowest(want)} ELSE FirstRun(want, {})
           h == Highest(piece)
<1>0. /\ UNCHANGED host /\ ref' = ref
      /\ card.pc = "ranges" /\ card.range <= Len(card.desc.ranges)
      /\ \/ /\ want # {} /\ chunks' = open
            /\ win' = [win EXCEPT !.mail = Mail("fetch", run, card.fslot)]
            /\ card' = [card EXCEPT !.pc = "fetch", !.mails = @ + 1,
                                    !.at = at]
         \/ /\ want = {} /\ win' = win
            /\ chunks' = [open EXCEPT ![c].filled = @ \cup piece]
            /\ \/ h = r.hi /\ card' = [card EXCEPT !.range = @ + 1,
                                                  !.at = -1]
               \/ h # r.hi /\ card' = [card EXCEPT !.at = h + 1]
  BY DEF FetchRanges, cardUnchanged
<1> HIDE DEF r, at, c, piece, w, open, ends, want, run, h
<1>1. /\ UNCHANGED host /\ ref' = ref
      /\ card.pc = "ranges" /\ card.range <= Len(card.desc.ranges)
      /\ card'.desc = card.desc /\ card'.last = card.last
      /\ card'.fslot = card.fslot /\ card'.wslot = card.wslot
      /\ card'.op = card.op
  BY <1>0, CardIs
<1>2. \/ /\ want # {} /\ chunks' = open
         /\ win' = [win EXCEPT !.mail = Mail("fetch", run, card.fslot)]
         /\ card'.pc = "fetch" /\ card'.mails = card.mails + 1
         /\ card'.at = at /\ card'.range = card.range
      \/ /\ want = {} /\ win' = win
         /\ chunks' = [open EXCEPT ![c].filled = @ \cup piece]
         /\ card'.pc = "ranges" /\ card'.mails = card.mails
         /\ \/ h = r.hi /\ card'.range = card.range + 1 /\ card'.at = -1
            \/ h # r.hi /\ card'.range = card.range /\ card'.at = h + 1
  BY <1>0, CardIs
<1> USE DEF r, at, c, piece, w, open, ends, want, run, h
<1>3. /\ card.desc.mode = "ranges" /\ card.range \in Nat \ {0}
      /\ IsDesc(card.desc)
      /\ card.at # -1 =>
           card.at \in card.desc.ranges[card.range].lo ..
                       card.desc.ranges[card.range].hi
  BY <1>1 DEF SurvInv, CardInv, WalkInv
<1>4. /\ card.range \in DOMAIN card.desc.ranges /\ r \in DeclaredRange
      /\ r.lo <= r.hi
      /\ r.dense => \A p \in Shared : ~(r.lo < p /\ p < r.hi)
  BY <1>1, <1>3 DEF IsDesc
<1>5. /\ at \in Pages /\ r.hi \in Pages /\ r.lo \in Pages
      /\ r.lo <= at /\ at <= r.hi /\ LastPage \in Nat
  BY <1>3, <1>4, OffloadAssumption DEF DeclaredRange, Pages
<1> HIDE DEF r, at
<1>6. /\ at \in piece /\ piece \subseteq Pages /\ Lowest(piece) = at
      /\ h \in piece
      /\ \A p \in at .. h : p \in piece
      /\ \A p \in piece : ChunkOf(p) = c /\ p <= h
  BY <1>5, PieceIs
<1>7. piece \subseteq PagesOf(c) /\ \A p \in piece : p >= at /\ p <= r.hi
  OBVIOUS
<1> HIDE DEF piece, h, c
<1>8. MoreChunks(w, chunks, c, TRUE)
  <2>1. GoodChunks(chunks)
    BY DEF SurvInv, CardInv, GoodChunks
  <2> QED BY <2>1, WithChunkIs
<1> HIDE DEF w
<1>9. /\ DOMAIN open = DOMAIN chunks \cup {c}
      /\ open = [x \in DOMAIN open |-> open[x]]
      /\ open[c] = [w[c] EXCEPT !.writable = TRUE]
      /\ \A x \in DOMAIN w : x # c => open[x] = w[x]
  BY <1>8 DEF MoreChunks, GoodChunks
<1>10. /\ open[c].fourk = w[c].fourk /\ open[c].filled = w[c].filled
       /\ open[c].mem = w[c].mem /\ IsChunk(c, open[c])
  <2>1. IsChunk(c, w[c])
    BY <1>8 DEF MoreChunks, GoodChunks
  <2>2. /\ open[c].fourk = w[c].fourk /\ open[c].filled = w[c].filled
        /\ open[c].mem = w[c].mem /\ open[c].dirty = w[c].dirty
        /\ open[c] = [fourk |-> open[c].fourk, writable |-> open[c].writable,
                      filled |-> open[c].filled, dirty |-> open[c].dirty,
                      shadow |-> open[c].shadow, mem |-> open[c].mem]
    BY <1>9, <2>1 DEF IsChunk
  <2> QED BY <2>1, <2>2 DEF IsChunk
<1> HIDE DEF open
<1>11. GoodChunks(open)
  BY <1>8, <1>9, <1>10 DEF MoreChunks, GoodChunks
<1>12. /\ \A x \in DOMAIN chunks : /\ open[x].fourk = chunks[x].fourk
                                   /\ open[x].filled = chunks[x].filled
                                   /\ open[x].mem = chunks[x].mem
       /\ c \notin DOMAIN chunks => open[c].fourk /\ open[c].filled = {}
  BY <1>8, <1>9, <1>10 DEF MoreChunks
<1>13. \A x \in DOMAIN chunks :
          ~chunks[x].fourk => chunks[x].filled = PagesOf(x)
  BY <1>1 DEF SurvInv, CardInv, WholeInv
<1>14. /\ card.fslot \in {0, 1} /\ card.wslot \in {0, 1}
       /\ card.mails \in Nat /\ card.op \in Nat \ {0}
       /\ win.mail.seq = card.mails
  BY DEF SurvInv, CardInv, AskInv
\* What was walked over before.
<1>15. ASSUME NEW j \in DOMAIN card.desc.ranges,
              NEW p \in card.desc.ranges[j].lo .. card.desc.ranges[j].hi,
              j < card.range \/ (j = card.range /\ p < at)
       PROVE  Sendable(p)
  <2>1. CASE Walked(j, p)
    BY <1>3, <2>1 DEF SurvInv, CardInv, WalkInv
  <2>2. CASE ~Walked(j, p)
    <3>1. j = card.range /\ p < at /\ ~(p < card.at)
      BY <1>1, <1>15, <2>2 DEF Walked
    <3>2. card.at = -1 /\ at = r.lo
      BY <3>1 DEF at
    <3>3. p \in r.lo .. r.hi
      BY <1>15, <3>1 DEF r
    <3> QED BY <1>5, <3>1, <3>2, <3>3 DEF Pages
  <2> QED BY <2>1, <2>2
<1>16. CASE want # {} /\ chunks' = open
  <2>1. /\ win' = [win EXCEPT !.mail = Mail("fetch", run, card.fslot)]
        /\ card'.pc = "fetch" /\ card'.mails = card.mails + 1
        /\ card'.at = at /\ card'.range = card.range
    <3> HIDE DEF run
    <3> QED BY <1>2, <1>16
  <2>2. want \subseteq piece \ open[c].filled
    <3>1. {Lowest(piece), Highest(piece)} \subseteq piece
      BY <1>6 DEF h
    <3>2. open[c].filled = w[c].filled
      BY <1>10
    <3> QED BY <3>1, <3>2
  <2> HIDE DEF want
  <2>3. run \subseteq want /\ run # {}
    <3>1. want \subseteq Pages /\ want \subseteq Nat
      BY <1>6, <2>2, OffloadAssumption DEF Pages
    <3>2. CASE r.dense
      BY <1>16, <3>1, <3>2, LowestIs
    <3>3. CASE ~r.dense
      BY <1>16, <3>1, <3>3, FirstRunIs
    <3> QED BY <3>2, <3>3
  <2> HIDE DEF run
  <2>4. /\ win'.req = win.req /\ win'.fetch = win.fetch /\ win'.wb = win.wb
        /\ win'.mail.kind = "fetch" /\ win'.mail.pages = run
        /\ win'.mail.slot = card.fslot /\ win'.mail.seq = card.mails + 1
        /\ win'.mail.ack # win'.mail.seq
    BY <1>1, <2>1, AskedMail DEF Waiting
  <2>5. IsDesc(card'.desc)
    BY <1>1, <1>3
  <2>6. WalkInv'
    <3>1. ASSUME NEW j \in DOMAIN card.desc.ranges,
                 NEW p \in card.desc.ranges[j].lo .. card.desc.ranges[j].hi,
                 Walked(j, p)'
          PROVE  Sendable(p)'
      <4>1. j < card.range \/ (j = card.range /\ p < at)
        BY <2>1, <3>1 DEF Walked
      <4>2. Sendable(p)
        BY <1>15, <4>1
      <4> QED BY <1>9, <1>12, <1>16, <4>2 DEF Sendable
    <3>2. at \in card.desc.ranges[card.range].lo ..
                 card.desc.ranges[card.range].hi
      BY <1>5 DEF r, Pages
    <3> QED BY <1>1, <1>3, <1>4, <2>1, <3>1, <3>2 DEF WalkInv
  <2>7. WholeInv'
    <3>1. ASSUME NEW x \in DOMAIN chunks', ~chunks'[x].fourk
          PROVE  chunks'[x].filled = PagesOf(x)
      <4>1. x \in DOMAIN chunks
        BY <1>9, <1>12, <1>16, <3>1
      <4> QED BY <1>12, <1>13, <1>16, <3>1, <4>1
    <3>2. card'.pc = "fetch" /\ card'.desc.mode = "ranges"
      BY <1>1, <1>3, <2>1
    <3> QED BY <3>1, <3>2 DEF WholeInv
  <2>8. AskInv'
    <3>1. run \subseteq PagesOf(c) \ chunks'[c].filled /\ c \in DOMAIN chunks'
      BY <1>7, <1>9, <1>16, <2>2, <2>3
    <3>2. card'.desc.mode # "demand"
      BY <1>1, <1>3
    <3> QED BY <1>1, <1>14, <2>1, <2>3, <2>4, <3>1, <3>2 DEF AskInv
  <2>9. CardInv'
    BY <1>11, <1>16, <2>5, <2>6, <2>7, <2>8 DEF CardInv, GoodChunks
  <2>10. ASSUME CardKnows PROVE CardKnows'
    <3>1. ASSUME NEW x \in DOMAIN chunks', NEW p \in chunks'[x].filled,
                 p \in Shared
          PROVE  p \in DOMAIN stash /\ chunks'[x].mem[p].o = stash[p].o
      <4>1. x \in DOMAIN chunks /\ p \in chunks[x].filled
        BY <1>9, <1>12, <1>16, <3>1
      <4>2. chunks'[x].mem = chunks[x].mem
        BY <1>12, <1>16, <4>1
      <4> QED BY <2>10, <3>1, <4>1, <4>2 DEF CardKnows, Known
    <3> QED BY <1>1, <3>1 DEF CardKnows, Known, host
  <2>11. FlowInv'
    BY <1>1, <2>1, <2>4, <2>10, CardFlow
  <2> QED BY <1>1, <2>4, <2>9, <2>11, CardQuiet DEF SurvInv
<1>17. CASE /\ want = {} /\ win' = win
            /\ chunks' = [open EXCEPT ![c].filled = @ \cup piece]
  <2>1. /\ card'.pc = "ranges" /\ card'.mails = card.mails
        /\ \/ h = r.hi /\ card'.range = card.range + 1 /\ card'.at = -1
           \/ h # r.hi /\ card'.range = card.range /\ card'.at = h + 1
    BY <1>2, <1>17
  <2>2. /\ DOMAIN chunks' = DOMAIN chunks \cup {c}
        /\ chunks' = [x \in DOMAIN chunks' |-> chunks'[x]]
        /\ \A x \in DOMAIN open : x # c => chunks'[x] = open[x]
        /\ chunks'[c] = [open[c] EXCEPT !.filled = open[c].filled \cup piece]
    BY <1>9, <1>17
  <2>3. /\ chunks'[c].fourk = open[c].fourk /\ chunks'[c].mem = open[c].mem
        /\ chunks'[c].filled = open[c].filled \cup piece
        /\ IsChunk(c, chunks'[c])
    <3>1. /\ chunks'[c].fourk = open[c].fourk
          /\ chunks'[c].mem = open[c].mem
          /\ chunks'[c].filled = open[c].filled \cup piece
          /\ chunks'[c].dirty = open[c].dirty
          /\ chunks'[c] = [fourk |-> chunks'[c].fourk,
                           writable |-> chunks'[c].writable,
                           filled |-> chunks'[c].filled,
                           dirty |-> chunks'[c].dirty,
                           shadow |-> chunks'[c].shadow,
                           mem |-> chunks'[c].mem]
      BY <1>10, <2>2 DEF IsChunk
    <3> QED BY <1>7, <1>10, <3>1 DEF IsChunk
  <2>4. GoodChunks(chunks')
    BY <1>9, <1>11, <2>2, <2>3 DEF GoodChunks
  <2>5. \A p \in piece \cap Shared : p \in open[c].filled
    <3>1. SUFFICES ASSUME NEW p \in piece, p \in Shared, p \notin w[c].filled
                   PROVE  FALSE
      BY <1>10
    <3>2. r.dense /\ p # at /\ p # h
      BY <1>6, <1>17, <3>1 DEF h
    <3>3. h \in Nat /\ p \in Nat /\ at \in Nat /\ r.lo \in Nat /\ r.hi \in Nat
      BY <1>5, <1>6 DEF Pages
    <3>4. at <= p /\ p <= h /\ h <= r.hi
      BY <1>6, <1>7
    <3>5. r.lo < p /\ p < r.hi
      BY <1>5, <3>2, <3>3, <3>4
    <3> QED BY <1>4, <3>1, <3>2, <3>5
  <2> HIDE DEF want
  <2>6. IsDesc(card'.desc)
    BY <1>1, <1>3
  <2>7. ASSUME NEW x \in DOMAIN chunks
        PROVE  /\ chunks'[x].fourk = chunks[x].fourk
               /\ chunks[x].filled \subseteq chunks'[x].filled
               /\ chunks'[x].mem = chunks[x].mem
    <3>1. /\ open[x].fourk = chunks[x].fourk /\ x \in DOMAIN open
          /\ open[x].filled = chunks[x].filled
          /\ open[x].mem = chunks[x].mem
      BY <1>9, <1>12
    <3>2. CASE x = c
      BY <2>3, <3>1, <3>2
    <3>3. CASE x # c
      <4>1. chunks'[x] = open[x]
        BY <2>2, <3>1, <3>3
      <4> QED BY <3>1, <4>1
    <3> QED BY <3>2, <3>3
  <2>8. h \in Nat /\ at \in Nat /\ r.lo \in Nat /\ r.hi \in Nat
        /\ at <= h /\ h <= r.hi
    BY <1>5, <1>6, <1>7 DEF Pages
  <2>9. WalkInv'
    <3>1. ASSUME NEW j \in DOMAIN card.desc.ranges,
                 NEW p \in card.desc.ranges[j].lo .. card.desc.ranges[j].hi,
                 Walked(j, p)'
          PROVE  Sendable(p)'
      <4>1. j \in Nat /\ card.desc.ranges[j] \in DeclaredRange
        BY <1>3 DEF IsDesc
      <4>2. p \in Nat
        BY <4>1, OffloadAssumption DEF DeclaredRange, Pages
      <4>3. CASE j < card.range \/ (j = card.range /\ p < at)
        <5>1. Sendable(p)
          BY <1>15, <4>3
        <5> QED BY <2>2, <2>7, <5>1 DEF Sendable
      <4>4. CASE ~(j < card.range \/ (j = card.range /\ p < at))
        <5>1. j = card.range /\ p <= h
          BY <1>3, <2>1, <2>8, <3>1, <4>1, <4>2, <4>4 DEF Walked, r
        <5>2. p \in piece
          BY <1>6, <2>8, <4>2, <4>4, <5>1
        <5> QED BY <1>6, <2>2, <2>3, <5>2 DEF Sendable
      <4> QED BY <4>3, <4>4
    <3>2. card'.at # -1 => card'.range = card.range /\ card'.at \in r.lo .. r.hi
      BY <1>5, <2>1, <2>8
    <3>3. card'.range \in Nat \ {0}
      BY <1>3, <2>1
    <3> QED BY <1>1, <1>3, <1>4, <2>1, <3>1, <3>2, <3>3 DEF WalkInv, r
  <2>10. WholeInv'
    <3>1. ASSUME NEW x \in DOMAIN chunks', ~chunks'[x].fourk
          PROVE  chunks'[x].filled = PagesOf(x)
      <4>1. x \in DOMAIN chunks
        BY <1>12, <2>2, <2>3, <3>1
      <4>2. chunks[x].filled = PagesOf(x)
        BY <1>13, <2>7, <3>1, <4>1
      <4> QED BY <2>4, <2>7, <3>1, <4>1, <4>2 DEF GoodChunks, IsChunk
    <3> QED BY <1>1, <1>3, <2>1, <3>1 DEF WholeInv
  <2>11. AskInv'
    BY <1>1, <1>14, <1>17, <2>1 DEF AskInv
  <2>12. CardInv'
    BY <2>4, <2>6, <2>9, <2>10, <2>11 DEF CardInv, GoodChunks
  <2>13. ASSUME CardKnows PROVE CardKnows'
    <3>1. ASSUME NEW x \in DOMAIN chunks', NEW p \in chunks'[x].filled,
                 p \in Shared
          PROVE  p \in DOMAIN stash /\ chunks'[x].mem[p].o = stash[p].o
      <4>1. x \in DOMAIN chunks /\ p \in chunks[x].filled
        BY <1>9, <1>12, <2>2, <2>3, <2>5, <3>1
      <4>2. chunks'[x].mem = chunks[x].mem
        BY <2>7, <4>1
      <4> QED BY <2>13, <3>1, <4>1, <4>2 DEF CardKnows, Known
    <3> QED BY <1>1, <3>1 DEF CardKnows, Known, host
  <2>14. FlowInv'
    BY <1>1, <1>17, <2>1, <2>13, CardFlow
  <2> QED BY <1>1, <1>17, <2>12, <2>14, CardQuiet DEF SurvInv
<1> QED
  <2> HIDE DEF want, run
  <2> QED BY <1>2, <1>16, <1>17

\* The chunks a phase starts with: those of its region, as they were.
LEMMA KeptChunks ==
  ASSUME SurvInv, card.pc = "idle", win.req.seq # card.last
  PROVE  LET d == win.req
             mine == IF d.session = card.session THEN chunks ELSE <<>>
             kept == IF d.first THEN EndRegion(mine) ELSE mine
             left == IF d.mode = "demand" THEN Purge(kept) ELSE kept
         IN  /\ GoodChunks(left)
             /\ \A x \in DOMAIN left :
                  /\ ~left[x].fourk => left[x].filled = PagesOf(x)
                  /\ d.mode = "demand" => ~left[x].fourk
                  /\ hpc = "wait" => Known(left[x].mem, left[x].filled)
<1> DEFINE d == win.req
           mine == IF d.session = card.session THEN chunks ELSE <<>>
           kept == IF d.first THEN EndRegion(mine) ELSE mine
           left == IF d.mode = "demand" THEN Purge(kept) ELSE kept
           Alone(x, e) == /\ ~e.fourk => e.filled = PagesOf(x)
                          /\ hpc = "wait" => Known(e.mem, e.filled)
<1>1. GoodChunks(chunks) /\ GoodChunks(<<>>)
  BY DEF SurvInv, CardInv, GoodChunks
<1>2. GoodChunks(mine) /\ \A x \in DOMAIN mine :
                            x \in DOMAIN chunks /\ mine[x] = chunks[x]
  BY <1>1
<1> HIDE DEF mine
<1>3. \A x \in DOMAIN chunks :
        ~chunks[x].fourk => chunks[x].filled = PagesOf(x)
  BY DEF SurvInv, CardInv, WholeInv
<1>4. hpc = "wait" /\ ~d.first => CardKnows
  BY DEF SurvInv, FlowInv, Between
<1>5. GoodChunks(kept) /\ \A x \in DOMAIN kept : Alone(x, kept[x])
  <2>1. CASE d.first
    <3>1. kept = EndRegion(mine)
      BY <2>1
    <3>2. GoodChunks(kept) /\ \A x \in DOMAIN kept :
                                kept[x].fourk /\ kept[x].filled = {}
      BY <1>2, <3>1, EndRegionIs
    <3> QED BY <3>2 DEF Known
  <2>2. CASE ~d.first
    <3>1. kept = mine
      BY <2>2
    <3>2. \A x \in DOMAIN chunks : Alone(x, chunks[x])
      BY <1>3, <1>4, <2>2 DEF CardKnows
    <3> QED BY <1>2, <3>1, <3>2
  <2> QED BY <2>1, <2>2
<1> HIDE DEF kept, Alone
<1>6. /\ GoodChunks(left)
      /\ \A x \in DOMAIN left : /\ Alone(x, left[x])
                                /\ d.mode = "demand" => ~left[x].fourk
  <2>1. CASE d.mode = "demand"
    <3>1. left = Purge(kept)
      BY <2>1
    <3>2. /\ GoodChunks(left) /\ DOMAIN left \subseteq DOMAIN kept
          /\ \A x \in DOMAIN left : left[x] = kept[x] /\ ~kept[x].fourk
      BY <1>5, <3>1, PurgeIs
    <3> QED BY <1>5, <3>2
  <2>2. CASE d.mode # "demand"
    BY <1>5, <2>2
  <2> QED BY <2>1, <2>2
<1> QED BY <1>6 DEF Alone, kept, mine

LEMMA TakeSurv == ASSUME SurvInv, MailInv', Take PROVE SurvInv'
<1> DEFINE d == win.req
           mine == IF d.session = card.session THEN chunks ELSE <<>>
           kept == IF d.first THEN EndRegion(mine) ELSE mine
           left == IF d.mode = "demand" THEN Purge(kept) ELSE kept
           code == CodeChunk \in DOMAIN left
           fetch == d.mode = "demand" /\ ~code
<1>1. /\ UNCHANGED host /\ ref' = ref
      /\ card.pc = "idle" /\ d.seq # card.last
      /\ card'.desc = d /\ card'.last = d.seq
      /\ card'.fslot = card.fslot /\ card'.wslot = card.wslot
      /\ card'.op = 1 /\ card'.range = 1 /\ card'.at = -1
      /\ card'.mails = IF fetch THEN card.mails + 1 ELSE card.mails
      /\ card'.pc = IF fetch THEN "fetch" ELSE AfterFetch(d.mode)
  BY CardIs DEF Take, cardUnchanged
<1>2. win' = IF fetch
             THEN [win EXCEPT !.mail = Mail("fetch", PagesOf(CodeChunk),
                                            card.fslot)]
             ELSE win
  BY DEF Take
<1>3. chunks' = IF code
                THEN [left EXCEPT ![CodeChunk].writable =
                        d.mode = "ranges" \/ left[CodeChunk].dirty]
                ELSE WithChunk(left, CodeChunk, d.mode = "ranges")
  BY DEF Take
<1>4. /\ GoodChunks(left)
      /\ \A x \in DOMAIN left :
           /\ ~left[x].fourk => left[x].filled = PagesOf(x)
           /\ d.mode = "demand" => ~left[x].fourk
           /\ hpc = "wait" => Known(left[x].mem, left[x].filled)
  BY <1>1, KeptChunks
<1> HIDE DEF left
<1>5. GoodChunks(chunks') /\ \A x \in DOMAIN chunks' :
        \/ /\ x \in DOMAIN left /\ (chunks'[x].fourk <=> left[x].fourk)
           /\ chunks'[x].filled = left[x].filled
           /\ chunks'[x].mem = left[x].mem
        \/ /\ x = CodeChunk /\ ~code /\ chunks'[x].filled = {}
           /\ chunks'[x].fourk <=> d.mode = "ranges"
  <2>1. CASE code
    <3> DEFINE b == d.mode = "ranges" \/ left[CodeChunk].dirty
    <3>1. /\ DOMAIN chunks' = DOMAIN left
          /\ chunks' = [x \in DOMAIN chunks' |-> chunks'[x]]
          /\ chunks'[CodeChunk] = [left[CodeChunk] EXCEPT !.writable = b]
          /\ \A x \in DOMAIN left : x # CodeChunk => chunks'[x] = left[x]
      BY <1>3, <1>4, <2>1 DEF GoodChunks
    <3> HIDE DEF b
    <3>2. /\ chunks'[CodeChunk].fourk = left[CodeChunk].fourk
          /\ chunks'[CodeChunk].filled = left[CodeChunk].filled
          /\ chunks'[CodeChunk].mem = left[CodeChunk].mem
          /\ IsChunk(CodeChunk, chunks'[CodeChunk])
      <4>1. IsChunk(CodeChunk, left[CodeChunk])
        BY <1>4, <2>1 DEF GoodChunks
      <4>2. PICK x, y : x = left[CodeChunk] /\ y = chunks'[CodeChunk]
        OBVIOUS
      <4>3. y = [x EXCEPT !.writable = b] /\ IsChunk(CodeChunk, x)
        BY <3>1, <4>1, <4>2
      <4>4. /\ y.fourk = x.fourk /\ y.filled = x.filled /\ y.mem = x.mem
            /\ y.dirty = x.dirty
            /\ y = [fourk |-> y.fourk, writable |-> y.writable,
                    filled |-> y.filled, dirty |-> y.dirty,
                    shadow |-> y.shadow, mem |-> y.mem]
        BY <4>3 DEF IsChunk
      <4>5. IsChunk(CodeChunk, y)
        BY <4>3, <4>4 DEF IsChunk
      <4> QED BY <4>2, <4>4, <4>5
    <3>3. GoodChunks(chunks')
      BY <1>4, <3>1, <3>2 DEF GoodChunks
    <3> QED BY <3>1, <3>2, <3>3
  <2>2. CASE ~code
    <3>1. MoreChunks(chunks', left, CodeChunk, d.mode = "ranges")
      BY <1>3, <1>4, <2>2, WithChunkIs
    <3> QED BY <2>2, <3>1 DEF MoreChunks
  <2> QED BY <2>1, <2>2
<1>6. IsDesc(d) /\ d.mode \in {"ranges", "demand"}
  BY DEF SurvInv, HostInv, IsDesc
<1>7. /\ card.fslot \in {0, 1} /\ card.wslot \in {0, 1}
      /\ card.mails \in Nat /\ win.mail.seq = card.mails
  BY DEF SurvInv, CardInv, AskInv
<1>8. /\ win'.req = d /\ win'.fetch = win.fetch /\ win'.wb = win.wb
      /\ fetch => /\ win'.mail.kind = "fetch"
                  /\ win'.mail.pages = PagesOf(CodeChunk)
                  /\ win'.mail.slot = card.fslot
                  /\ win'.mail.seq = card.mails + 1
                  /\ win'.mail.ack # win'.mail.seq
      /\ ~fetch => win' = win
  <2> HIDE DEF fetch
  <2>1. CASE fetch
    BY <1>1, <1>2, <2>1, AskedMail DEF Waiting
  <2>2. CASE ~fetch
    BY <1>2, <2>2
  <2> QED BY <2>1, <2>2
<1>9. \/ fetch /\ card'.pc = "fetch" /\ d.mode = "demand"
      \/ ~fetch /\ card'.pc = "ranges" /\ d.mode = "ranges"
      \/ ~fetch /\ card'.pc = "run" /\ d.mode = "demand" /\ code
  BY <1>1, <1>6 DEF AfterFetch
<1> HIDE DEF d, code
<1>10. WalkInv'
  <2>1. ASSUME NEW j \in DOMAIN d.ranges,
               NEW p \in d.ranges[j].lo .. d.ranges[j].hi,
               Walked(j, p)', d.mode = "ranges"
        PROVE  FALSE
    <3>1. j \in Nat \ {0} /\ d.ranges[j] \in DeclaredRange
      BY <1>6 DEF IsDesc
    <3>2. p \in Nat
      BY <3>1, OffloadAssumption DEF DeclaredRange, Pages
    <3>3. card'.pc = "ranges"
      BY <1>9, <2>1
    <3> QED BY <1>1, <2>1, <3>1, <3>2, <3>3 DEF Walked
  <2> QED BY <1>1, <1>9, <2>1 DEF WalkInv
<1>11. WholeInv'
  <2>1. ASSUME NEW x \in DOMAIN chunks', ~chunks'[x].fourk
        PROVE  \/ chunks'[x].filled = PagesOf(x)
               \/ card'.pc = "fetch" /\ win'.mail.pages = PagesOf(x)
    BY <1>4, <1>5, <1>6, <1>8, <1>9, <2>1
  <2>2. d.mode = "demand" => \A x \in DOMAIN chunks' : ~chunks'[x].fourk
    BY <1>4, <1>5
  <2> QED BY <1>1, <1>9, <2>1, <2>2 DEF WholeInv
<1>12. AskInv'
  <2>1. CASE fetch
    <3>1. CodeChunk \in DOMAIN chunks' /\ chunks'[CodeChunk].filled = {}
      <4>1. ~code
        BY <2>1
      <4>2. MoreChunks(chunks', left, CodeChunk, d.mode = "ranges")
        BY <1>3, <1>4, <4>1, WithChunkIs DEF d
      <4> QED BY <4>1, <4>2 DEF MoreChunks, code
    <3>2. PagesOf(CodeChunk) # {}
      <4>1. 0 \in Pages /\ ChunkOf(0) = 0
        BY OffloadAssumption DEF Pages, ChunkOf
      <4> QED BY <4>1 DEF PagesOf, CodeChunk
    <3> HIDE DEF fetch
    <3> QED BY <1>1, <1>7, <1>8, <1>9, <2>1, <3>1, <3>2 DEF AskInv
  <2>2. CASE ~fetch
    <3> HIDE DEF fetch
    <3> QED BY <1>1, <1>7, <1>8, <1>9, <2>2 DEF AskInv
  <2> QED BY <2>1, <2>2
<1> HIDE DEF fetch
<1>13. CardInv'
  BY <1>1, <1>5, <1>6, <1>10, <1>11, <1>12 DEF CardInv, GoodChunks
<1>14. UNCHANGED <<hpc, k, stash, mail>>
  BY <1>1 DEF host
<1>15. hpc \in {"wait", "prefetch", "apply", "submit"} =>
          hpc = "wait" \/ (hpc = "submit" /\ card.last = d.seq)
  BY <1>1 DEF SurvInv, MailInv, Turns, AtRest, d
<1>16. hpc = "wait" => CardKnows'
  <2>1. ASSUME hpc = "wait", NEW x \in DOMAIN chunks'
        PROVE  \A p \in chunks'[x].filled \cap Shared :
                 p \in DOMAIN stash /\ chunks'[x].mem[p].o = stash[p].o
    BY <1>4, <1>5, <2>1 DEF Known
  <2> QED BY <1>14, <2>1 DEF CardKnows, Known
<1>17. hpc' \notin {"prefetch", "apply", "submit"}
  BY <1>1, <1>14, <1>15
<1>18. FlowInv'
  BY <1>8, <1>9, <1>14, <1>16, <1>17 DEF FlowInv, Going, Between
<1>19. DataInv' /\ HostInv' /\ OthersSurvive'
  BY <1>1, <1>8, CardQuiet DEF d
<1> QED BY <1>13, <1>18, <1>19 DEF SurvInv

-----------------------------------------------------------------------------
LEMMA InitSurv == Init => SurvInv
<1> SUFFICES ASSUME Init PROVE SurvInv
  OBVIOUS
<1>1. MailInv
  BY InitMail
<1>2. prog = Fresh(1) /\ ref = prog
  BY DEF Init
<1>3. Copies(Fresh(1)) /\ DOMAIN Fresh(1) = Pages
  BY DEF Fresh, Copies, Cell
<1>4. /\ hpc = "init" /\ mode = "demand" /\ stash = NoPages /\ ahead = <<>>
      /\ win.req = NoRequest /\ win.mail = NoMail
      /\ win.fetch = [s \in {0, 1} |-> NoPages]
      /\ win.wb = [s \in {0, 1} |-> NoPages]
      /\ card = NewCard /\ chunks = <<>>
  BY DEF Init
<1>5. DataInv
  BY <1>2, <1>3, <1>4, NoPagesIs DEF DataInv
<1>6. IsDesc(NoRequest)
  <2>1. NoRequest.ranges = <<>> /\ NoRequest.ops = <<>>
        /\ NoRequest.mode = "demand"
    BY DEF NoRequest
  <2> QED BY <2>1 DEF IsDesc
<1>7. HostInv
  BY <1>4, <1>6 DEF HostInv
<1>8. DOMAIN chunks = {} /\ chunks = [c \in DOMAIN chunks |-> chunks[c]]
  BY <1>4
<1>9. /\ card.pc = "idle" /\ card.desc = NoRequest /\ card.fslot = 0
      /\ card.wslot = 0 /\ card.mails = 0 /\ card.op = 1
      /\ NoRequest.mode = "demand" /\ NoMail.seq = 0
  BY <1>4 DEF NewCard, NoRequest, NoMail
<1>10. WalkInv /\ WholeInv /\ AskInv
  BY <1>4, <1>8, <1>9 DEF WalkInv, WholeInv, AskInv
<1>11. CardInv
  BY <1>6, <1>8, <1>9, <1>10 DEF CardInv
<1>12. FlowInv
  BY <1>4, <1>9 DEF FlowInv, Going, Between
<1>13. OthersSurvive
  BY <1>2 DEF OthersSurvive
<1> QED BY <1>1, <1>5, <1>7, <1>11, <1>12, <1>13 DEF SurvInv

LEMMA NextSurv ==
  ASSUME {"restart", "stuck"} \cap Faults = {}, DenseAlone,
         SurvInv, [Next]_vars
  PROVE  SurvInv'
<1>1. "stuck" \notin Faults /\ "restart" \notin Faults
  OBVIOUS
<1>2. MailInv'
  BY <1>1, NextMail DEF SurvInv
<1>3. CASE \/ \E p \in Stored : Store(p)
           \/ \E p \in Shared : OtherStore(p)
           \/ \E r \in Regions : Run(r)
  BY <1>2, <1>3, StoreSurv, OtherSurv, RunSurv
<1>4. CASE Serve
  BY <1>2, <1>4, SubmitSurv, ServeFetchSurv, PrefetchSurv,
     ServeWritebackSurv, ApplySurv, EndSurv DEF Serve
<1>5. CASE CardStep
  <2>1. \/ Poll \/ Take \/ FetchRanges \/ Fetched \/ (\E ok : Pull(ok))
        \/ Flush(TRUE) \/ Flush(FALSE) \/ Execute \/ GoesOn
        \/ FaultUnmapped \/ FaultWrite \/ FaultRanges \/ Left \/ Flushed
        \/ Reply
    BY <1>5 DEF CardStep, Outcomes
  <2> QED BY <1>2, <2>1, PollSurv, TakeSurv, FetchRangesSurv, MovesSurv,
             PullSurv, FlushSurv, FlushFailsSurv, ExecuteSurv,
             FaultUnmappedSurv, FaultWriteSurv, LeftSurv, FlushedSurv,
             ReplySurv
<1>6. CASE Die \/ Load
  BY <1>2, <1>6, EndSurv, LoadSurv
<1>7. CASE Restart
  BY <1>1, <1>7 DEF Restart
<1>8. CASE UNCHANGED vars
  <2>1. UNCHANGED <<prog, hpc, region, k, mode, stash, ahead, mail, win,
                    card, chunks, ref>>
    BY <1>8 DEF vars
  <2>2. CardInv'
    BY <2>1, CardSame DEF SurvInv
  <2>3. FlowInv'
    BY <2>1, HostFlow DEF SurvInv
  <2>4. DataInv' /\ HostInv' /\ OthersSurvive'
    BY <2>1 DEF SurvInv, DataInv, HostInv, OthersSurvive
  <2> QED BY <1>2, <2>2, <2>3, <2>4 DEF SurvInv
<1> QED BY <1>3, <1>4, <1>5, <1>6, <1>7, <1>8 DEF Next

\* Whatever a region writes in a line, wherever it faults, and whoever dies
\* on the way, the bytes another thread keeps in that line are the ones it
\* last wrote (STASH, offload.rs 121-126, and the merge of
\* apply_pages).  A worker started again is left out: it takes an old answer
\* for its first mail's, and the line of another process goes back to this
\* one (OffloadMailbox with the regions of Again); so is a range written
\* densely over another thread's line, whose inside the card never fetches
\* (Offload with page 4 shared).
THEOREM OthersBytesSurvive ==
  ASSUME {"restart", "stuck"} \cap Faults = {}, DenseAlone
  PROVE  Spec => []OthersSurvive
<1>1. SurvInv /\ [Next]_vars => SurvInv'
  BY NextSurv
<1>2. SurvInv => OthersSurvive
  BY DEF SurvInv
<1> QED BY InitSurv, <1>1, <1>2, PTL DEF Spec
=============================================================================
