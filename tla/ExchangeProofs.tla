--------------------------- MODULE ExchangeProofs ---------------------------
(***************************************************************************)
(* Proofs that the slots implement Exchange, that a program takes the      *)
(* answer to its own request, that a region runs with its own session's    *)
(* blobs and that consecutive job words differ: for any number of slots,   *)
(* seeds, sessions, requests and restarts and any modulus of the numbers,  *)
(* with legacy requests and closed channels, of programs that settle       *)
(* between sessions and do not leave on their first request.               *)
(*                                                                         *)
(* The invariant follows one post: it is Fresh in the SLOTSEQ line, being  *)
(* handed over, handed over, or being read by the slot, never two of these *)
(* at once, and until it is read the request block is its own.  A slot may *)
(* then still be serving a request of an earlier session, whose number is  *)
(* not 1 while the new session is still at its request 1.                  *)
(***************************************************************************)
EXTENDS SlotsProofs

Older(a, b) == a[1] < b[1] \/ (a[1] = b[1] /\ a[2] < b[2])
Id(r) == <<r.sess, r.seq>>
Mine(s) == <<sess[s], seq[s]>>

Fresh(s) == word[s] # 0 /\ word[s] # seen[s]
Handing(s) == dpc = "job" /\ dcur = s
Handed(s) == job[s] # last[s]
Unread(s) == Fresh(s) \/ Handing(s) \/ Handed(s) \/ pc[s] = "read"
\* The scan has slot s before it.
Ahead(s) == \/ dpc = "scan" /\ dcur <= s
            \/ dpc \in {"job", "wake"} /\ dcur < s
InService(s) == pc[s] \in {"serve", "reply2", "reply1"}

\* The dispatcher's copy of the line is not older than what it recorded, and
\* a post is in one place of its way to the slot.
WayInv(s) ==
  /\ Ahead(s) => line[s] \in {seen[s], word[s]}
  /\ Fresh(s) => ~Handing(s) /\ ~Handed(s) /\ pc[s] # "read"
  /\ Handing(s) => ~Handed(s) /\ pc[s] # "read"
  /\ Handed(s) => pc[s] # "read"

\* What the program's state says of the window and of its last post.
ProgramInv(s) ==
  /\ ~Older(Mine(s), posted[s])
  /\ host[s] = "opened" => seq[s] = 0 /\ posted[s][1] < sess[s]
  /\ host[s] \in {"opened", "idle", "composed"} => ~Unread(s)
  /\ host[s] \in {"idle", "composed"} =>
       /\ seen[s] = word[s]
       /\ Ahead(s) => line[s] = seen[s]
  /\ host[s] = "idle" =>
       /\ ~InService(s) /\ rep1[s].sess = sess[s]
       /\ posted[s] = Mine(s) /\ served[s] = Mine(s)
  /\ host[s] \in {"composed", "waiting"} =>
       Id(block[s]) = Mine(s) /\ seq[s] >= 1
  /\ host[s] = "composed" => Older(posted[s], Mine(s)) /\ block[s].kind # 0
  /\ host[s] = "waiting" => posted[s] = Mine(s) /\ word[s] # 0

\* A post not read yet is the present session's, and its block is in place.
PostInv(s) == Unread(s) =>
  /\ Id(block[s]) = posted[s] /\ posted[s][1] = sess[s]
  /\ host[s] \in {"waiting", "out"}
  /\ host[s] = "out" => posted[s][2] # 1

\* Requests are served in order, and the replies follow the service.
OrderInv(s) ==
  /\ ~Older(posted[s], served[s])
  /\ Unread(s) => Older(served[s], posted[s])
  /\ pc[s] = "serve" => /\ Older(served[s], Id(req[s]))
                        /\ ~Older(posted[s], Id(req[s]))
                        /\ Unread(s) => Older(Id(req[s]), posted[s])
  /\ pc[s] \in {"reply2", "reply1"} =>
       /\ Id(req[s]) = served[s] /\ Id(out[s]) = served[s]
       /\ Older(Id(rep1[s]), served[s])
  /\ pc[s] = "reply1" => Id(rep2[s]) = served[s]
  /\ ~Older(served[s], Id(rep1[s]))
  /\ Id(rep1[s]) = served[s] /\ rep1[s].seq # 0 => Id(rep2[s]) = served[s]

\* What is left of an earlier session: its request in service and its reply
\* do not have the number 1, and the present session is not past that.
LateInv(s) ==
  /\ InService(s) =>
       /\ req[s].sess <= sess[s]
       /\ req[s].sess = sess[s] =>
            \/ host[s] = "waiting" /\ req[s].seq = seq[s]
            \/ host[s] = "out" /\ req[s].seq # 1
       /\ req[s].sess # sess[s] =>
            req[s].seq # 1 /\ (host[s] = "out" \/ seq[s] <= 1)
  /\ host[s] # "out" /\ rep1[s].sess # sess[s] =>
       seq[s] <= 1 /\ rep1[s].seq # 1

\* The table holds blobs of the session last served and of no other.
BlobInv(s) ==
  /\ block[s].kind \in {0, K_FLUSH} \/ block[s].seq >= 2
  /\ req[s].kind \in {0, K_FLUSH} \/ req[s].seq >= 2
  /\ blobs[s] \subseteq {served[s][1]}
  /\ InService(s) /\ req[s].seq >= 2 => served[s][1] = req[s].sess
  /\ host[s] = "composed" /\ seq[s] >= 2 =>
       served[s][1] = sess[s] /\ ~InService(s)
  /\ Unread(s) /\ posted[s][2] >= 2 =>
       served[s][1] = posted[s][1] /\ ~InService(s)
  /\ pc[s] = "reply2" /\ out[s].ok /\ req[s].kind = K_FEXEC =>
       blobs[s] = {req[s].sess}

\* A word that may have been rung for request n, and one that is not the word
\* of a session's first request.
Stamp(w, n) == \E k \in Kinds : w = SlotWord(k, n) /\ (k = K_FLUSH <=> n = 1)
Spent(w) == w = 0 \/ \E n \in Nat : n # 1 /\ Stamp(w, n)

\* The job word against the post on its way: before a session's first request
\* it is not a K_FLUSH word, and before a later one it is the word of the
\* request just before, or 0 after a restart.
WordInv(s) ==
  /\ word[s] # 0 => Stamp(word[s], posted[s][2]) /\ posted[s][2] >= 1
  /\ Handing(s) => line[s] = word[s] /\ word[s] # 0
  /\ host[s] = "opened" \/ (host[s] = "composed" /\ seq[s] = 1) =>
       word[s] = 0 /\ Spent(job[s])
  /\ host[s] = "composed" => (block[s].kind = K_FLUSH <=> seq[s] = 1)
  /\ host[s] = "composed" /\ seq[s] >= 2 =>
       /\ posted[s] = <<sess[s], seq[s] - 1>> /\ word[s] # 0
       /\ job[s] = 0 \/ Stamp(job[s], seq[s] - 1)
  /\ Fresh(s) \/ Handing(s) =>
       IF posted[s][2] = 1 THEN Spent(job[s])
       ELSE job[s] = 0 \/ Stamp(job[s], posted[s][2] - 1)
  /\ host[s] \in {"idle", "waiting"} /\ ~Fresh(s) /\ ~Handing(s) =>
       word[s] # 0 /\ (job[s] = 0 \/ Stamp(job[s], posted[s][2]))
  /\ host[s] = "out" /\ ~Fresh(s) /\ ~Handing(s) => Spent(job[s])

\* K_FLUSH is never refused, and it is request 1 of its session.
FlushInv(s) ==
  /\ block[s].kind # 0 => (block[s].kind = K_FLUSH <=> block[s].seq = 1)
  /\ req[s].kind # 0 => (req[s].kind = K_FLUSH <=> req[s].seq = 1)
  /\ pc[s] \in {"reply2", "reply1"} /\ req[s].seq = 1 => out[s].ok
  /\ rep1[s].seq = 1 => rep1[s].ok

SlotInv(s) == /\ WayInv(s) /\ ProgramInv(s) /\ PostInv(s) /\ OrderInv(s)
              /\ LateInv(s) /\ BlobInv(s) /\ WordInv(s) /\ FlushInv(s)

Inv == TypeOK /\ \A s \in Slots : SlotInv(s)

\* The environment of the SlotsFaults run: closed channels, not the two
\* liberties of a program that meets its predecessor's request.
Orderly == "early" \notin Env /\ "unsettled" \notin Env

-----------------------------------------------------------------------------
(* What an action leaves of a slot.                                        *)

SameProgram(s) == host'[s] = host[s] /\ sess'[s] = sess[s] /\ seq'[s] = seq[s]
SameReply(s) == rep1'[s] = rep1[s] /\ rep2'[s] = rep2[s]
SameWindow(s) == word'[s] = word[s] /\ block'[s] = block[s] /\ SameReply(s)
SameScan(s) == /\ (Ahead(s)' <=> Ahead(s)) /\ (Handing(s)' <=> Handing(s))
               /\ line'[s] = line[s] /\ seen'[s] = seen[s]
SameWay(s) == SameScan(s) /\ job'[s] = job[s]
SameProcess(s) == /\ pc'[s] = pc[s] /\ last'[s] = last[s]
                  /\ req'[s] = req[s] /\ out'[s] = out[s]
                  /\ blobs'[s] = blobs[s]
SameHistory(s) == posted'[s] = posted[s] /\ served'[s] = served[s]
Same(s) == /\ SameProgram(s) /\ SameWindow(s) /\ SameWay(s)
           /\ SameProcess(s) /\ SameHistory(s)

\* The numbers of a slot.
Numbers(s) ==
  /\ sess[s] \in Nat /\ seq[s] \in Nat
  /\ block[s].sess \in Nat /\ block[s].seq \in Nat
  /\ req[s].sess \in Nat /\ req[s].seq \in Nat
  /\ out[s].sess \in Nat /\ out[s].seq \in Nat
  /\ rep1[s].sess \in Nat /\ rep1[s].seq \in Nat
  /\ rep2[s].sess \in Nat /\ rep2[s].seq \in Nat
  /\ posted[s][1] \in Nat /\ posted[s][2] \in Nat
  /\ posted[s] = <<posted[s][1], posted[s][2]>>
  /\ served[s][1] \in Nat /\ served[s][2] \in Nat
  /\ served[s] = <<served[s][1], served[s][2]>>

LEMMA NumbersType == ASSUME TypeOK, NEW s \in Slots PROVE Numbers(s)
<1> USE SlotsAssumption DEF SlotsAssumption
<1>1. sess[s] \in Nat /\ seq[s] \in Nat
  BY DEF TypeOK, HostType
<1>2. /\ block[s].sess \in Nat /\ block[s].seq \in Nat
      /\ req[s].sess \in Nat /\ req[s].seq \in Nat
  BY DEF TypeOK, WindowType, SlotType, Blocks
<1>3. /\ out[s].sess \in Nat /\ out[s].seq \in Nat
      /\ rep1[s].sess \in Nat /\ rep1[s].seq \in Nat
      /\ rep2[s].sess \in Nat /\ rep2[s].seq \in Nat
  BY DEF TypeOK, WindowType, SlotType, Replies
<1>4. posted[s] \in Ids /\ served[s] \in Ids
  BY DEF TypeOK, HistoryType
<1> QED BY <1>1, <1>2, <1>3, <1>4 DEF Numbers, Ids

\* SlotInv(s) is about slot s and the dispatcher's place relative to it.
LEMMA FrameStep == ASSUME NEW s, SlotInv(s), Same(s) PROVE SlotInv(s)'
<1> USE DEF Same, SameProgram, SameWindow, SameReply, SameWay, SameScan,
            SameProcess, SameHistory, Fresh, Handed, Unread, InService, Older,
            Id, Mine
<1>1. WayInv(s)'
  BY DEF SlotInv, WayInv
<1>2. ProgramInv(s)'
  BY DEF SlotInv, ProgramInv
<1>3. PostInv(s)'
  BY DEF SlotInv, PostInv
<1>4. OrderInv(s)'
  BY DEF SlotInv, OrderInv
<1>5. LateInv(s)'
  BY DEF SlotInv, LateInv
<1>6. BlobInv(s)'
  BY DEF SlotInv, BlobInv
<1>7. WordInv(s)'
  BY DEF SlotInv, WordInv
<1>8. FlushInv(s)'
  BY DEF SlotInv, FlushInv
<1> QED BY <1>1, <1>2, <1>3, <1>4, <1>5, <1>6, <1>7, <1>8 DEF SlotInv

-----------------------------------------------------------------------------
(* The host program.                                                       *)

\* A rung word is not 0: the kinds start at 10.
LEMMA RungWord ==
  ASSUME NEW k \in Kinds, NEW n \in Nat PROVE SlotWord(k, n) # 0
<1>1. k \in Nat /\ k >= 1 /\ SeqMod \in Nat /\ SeqMod > 1
  BY SlotsAssumption DEF SlotsAssumption, Kinds, K_LOAD, K_RESIDENT, K_FEXEC,
     K_FLUSH, K_PUSH
<1> DEFINE kind == k * SeqMod
           low == n % SeqMod
<1>2. kind \in Nat /\ kind >= 1
  BY <1>1
<1>3. low \in Nat
  BY <1>1
<1>4. SlotWord(k, n) = kind + low
  BY DEF SlotWord
<1> HIDE DEF kind, low
<1> QED BY <1>2, <1>3, <1>4

\* A product of M and a number less than M apart from another one is that one.
LEMMA Multiple ==
  ASSUME NEW M \in Nat, M > 1, NEW a \in Int, NEW b \in Int, NEW d \in Int,
         d > -M, d < M, M * a = M * b + d
  PROVE  a = b /\ d = 0
<1>1. M * (a - b) = d
  OBVIOUS
<1>2. CASE a > b
  <2>1. M * (a - b) >= M
    BY <1>2
  <2> QED BY <1>1, <2>1
<1>3. CASE a < b
  <2>1. M * (b - a) >= M
    BY <1>3
  <2>2. M * (b - a) = -d
    BY <1>1
  <2> QED BY <2>1, <2>2
<1> QED BY <1>2, <1>3

\* A word gives its kind and its number's low bits back.
LEMMA WordParts ==
  ASSUME NEW k \in Kinds, NEW j \in Kinds, NEW n \in Nat, NEW m \in Nat,
         SlotWord(k, n) = SlotWord(j, m)
  PROVE  k = j /\ n % SeqMod = m % SeqMod
<1> DEFINE low(i) == i % SeqMod
<1>1. /\ k \in Int /\ j \in Int /\ SeqMod \in Nat /\ SeqMod > 1
      /\ low(n) \in 0 .. SeqMod - 1 /\ low(m) \in 0 .. SeqMod - 1
  BY SlotsAssumption DEF SlotsAssumption, Kinds, K_LOAD, K_RESIDENT, K_FEXEC,
     K_FLUSH, K_PUSH
<1>2. SeqMod * k + low(n) = SeqMod * j + low(m)
  BY <1>1 DEF SlotWord
<1> HIDE DEF low
<1>3. SeqMod * k = SeqMod * j + (low(m) - low(n))
  BY <1>1, <1>2
<1>4. PICK d \in Int : d = low(m) - low(n) /\ d > -SeqMod /\ d < SeqMod
  BY <1>1
<1>5. k = j /\ d = 0
  <2>1. SeqMod * k = SeqMod * j + d
    BY <1>3, <1>4
  <2> QED BY <1>1, <1>4, <2>1, Multiple
<1>6. low(n) = low(m)
  BY <1>1, <1>4, <1>5
<1> QED BY <1>5, <1>6 DEF low

\* Two numbers in a row differ in their low bits.
LEMMA NextLow ==
  ASSUME NEW n \in Nat PROVE (n + 1) % SeqMod # n % SeqMod
<1> SUFFICES ASSUME (n + 1) % SeqMod = n % SeqMod PROVE FALSE
  OBVIOUS
<1> DEFINE q == n \div SeqMod
           r == (n + 1) \div SeqMod
           low == n % SeqMod
<1>1. SeqMod \in Nat /\ SeqMod > 1
  BY SlotsAssumption DEF SlotsAssumption
<1>2. q \in Int /\ low \in Int /\ n = SeqMod * q + low
  BY <1>1
<1>3. r \in Int /\ n + 1 = SeqMod * r + low
  BY <1>1
<1> HIDE DEF q, r, low
<1>4. SeqMod * r = SeqMod * q + 1
  BY <1>1, <1>2, <1>3
<1> QED BY SMTT(30), <1>1, <1>2, <1>3, <1>4, Multiple

\* The words of two requests in a row differ, and a session's first word from
\* every spent one.
LEMMA NextWord ==
  ASSUME NEW n \in Nat, NEW a, NEW b, Stamp(a, n + 1), b = 0 \/ Stamp(b, n)
  PROVE  a # b
  BY RungWord, WordParts, NextLow DEF Stamp

LEMMA FirstWord ==
  ASSUME NEW a, NEW b, Stamp(a, 1), Spent(b) PROVE a # b
  BY RungWord, WordParts DEF Stamp, Spent

\* The word of a request other than the first is spent.
LEMMA StampSpent ==
  \A w, n : n \in Nat /\ n # 1 /\ (w = 0 \/ Stamp(w, n)) => Spent(w)
  BY DEF Spent

LEMMA OpenStep ==
  ASSUME TypeOK, Orderly, NEW s \in Slots, SlotInv(s), HostOpen(s)
  PROVE  SlotInv(s)'
<1>1. /\ host[s] = "out" /\ host'[s] = "opened"
      /\ sess'[s] = sess[s] + 1 /\ seq'[s] = 0
      /\ word'[s] = 0 /\ rep1'[s].seq = 0 /\ rep1'[s].sess = rep1[s].sess
      /\ rep2'[s] = rep2[s] /\ block'[s] = block[s]
      /\ SameWay(s) /\ SameProcess(s) /\ SameHistory(s)
  BY DEF HostOpen, TypeOK, HostType, WindowType, Replies, SameWay, SameScan,
     SameProcess, SameHistory, dispVars, sharedVars, slotVars, historyVars,
     Ahead, Handing
<1>2. ~Unread(s) /\ (Ahead(s) => line[s] = seen[s])
  BY DEF HostOpen, Settled, Orderly, Unread, Fresh, Handing, Handed, Ahead,
         SlotInv, WayInv
<1>3. Numbers(s)
  BY NumbersType
<1> USE <1>1, <1>2, <1>3 DEF SameWay, SameScan, SameProcess, SameHistory,
        Fresh, Handed, Unread, InService, Older, Id, Mine, Numbers, SlotInv
<1>5. ~Unread(s)'
  OBVIOUS
<1>6. WayInv(s)'
  BY DEF WayInv
<1>7. ProgramInv(s)'
  BY <1>5 DEF ProgramInv, LateInv, PostInv
<1>8. PostInv(s)'
  BY <1>5 DEF PostInv
<1>9. OrderInv(s)'
  BY <1>5 DEF OrderInv
<1>10. LateInv(s)'
  BY <1>5 DEF LateInv
<1>11. BlobInv(s)'
  BY <1>5 DEF BlobInv
<1>12. WordInv(s)'
  BY DEF WordInv
<1>13. FlushInv(s)'
  BY DEF FlushInv
<1> QED BY <1>6, <1>7, <1>8, <1>9, <1>10, <1>11, <1>12, <1>13

\* An answer with the number the program waits on is the one to its own
\* request, both lines, and that request is the last one served: nothing of
\* it is on its way any more.
TookMine(s) ==
  /\ rep1[s].sess = sess[s] /\ Id(rep2[s]) = Mine(s)
  /\ posted[s] = Mine(s) /\ served[s] = Mine(s)
  /\ ~Unread(s) /\ ~InService(s)

LEMMA TakenIsMine ==
  ASSUME TypeOK, NEW s \in Slots, SlotInv(s),
         host[s] = "waiting", rep1[s].seq = seq[s]
  PROVE  TookMine(s)
<1> USE NumbersType DEF Numbers, SlotInv, Older, Id, Mine
<1>1. posted[s] = Mine(s) /\ seq[s] >= 1
  BY DEF ProgramInv
<1>2. rep1[s].sess = sess[s]
  BY <1>1 DEF LateInv
<1>3. served[s] = Mine(s) /\ Id(rep2[s]) = Mine(s)
  BY <1>1, <1>2 DEF OrderInv
<1>4. ~Unread(s)
  BY <1>1, <1>3 DEF OrderInv
<1>5. ~InService(s)
  BY <1>1, <1>2, <1>3 DEF OrderInv, InService, LateInv
<1> QED BY <1>1, <1>2, <1>3, <1>4, <1>5 DEF TookMine


LEMMA ComposeStep ==
  ASSUME TypeOK, Orderly, NEW s \in Slots, SlotInv(s), HostCompose(s)
  PROVE  SlotInv(s)'
<1>1. /\ host[s] \in {"opened", "idle"} /\ host'[s] = "composed"
      /\ sess'[s] = sess[s] /\ seq'[s] = seq[s] + 1
      /\ block'[s].sess = sess[s] /\ block'[s].seq = seq[s] + 1
      /\ (block'[s].kind = K_FLUSH <=> seq[s] = 0)
      /\ block'[s].kind # 0
      /\ word'[s] = word[s] /\ SameReply(s)
      /\ SameWay(s) /\ SameProcess(s) /\ SameHistory(s)
  <2>1. PICK k \in KindsAt(seq[s] + 1) :
          block' = [block EXCEPT ![s] =
                      [sess |-> sess[s], seq |-> seq[s] + 1, kind |-> k]]
    BY DEF HostCompose
  <2>2. (k = K_FLUSH <=> seq[s] = 0) /\ k # 0
    BY SlotsAssumption, NumbersType
    DEF SlotsAssumption, KindsAt, K_FLUSH, K_LOAD, Numbers
  <2> QED BY <2>1, <2>2 DEF HostCompose, TypeOK, HostType, WindowType, SameWay,
       SameScan, SameReply, SameProcess, SameHistory, dispVars, sharedVars,
       slotVars, historyVars, Ahead, Handing
<1>2. /\ ~Unread(s) /\ seen[s] = word[s]
      /\ Ahead(s) => line[s] = seen[s]
  BY DEF HostCompose, Settled, Orderly, Unread, Fresh, Handing, Handed, Ahead,
         SlotInv, WayInv, ProgramInv
<1>3. Numbers(s)
  BY NumbersType
<1> USE <1>1, <1>2, <1>3 DEF SameProgram, SameReply, SameWindow, SameWay,
        SameScan, SameProcess, SameHistory, Fresh, Handed, Unread, InService,
        Older, Id, Mine, Numbers, SlotInv
<1>4. WayInv(s)'
  BY DEF WayInv
<1>5. ProgramInv(s)'
  BY DEF ProgramInv, LateInv, PostInv
<1>6. PostInv(s)'
  BY DEF PostInv, ProgramInv
<1>7. OrderInv(s)'
  BY DEF OrderInv, ProgramInv
<1>8. LateInv(s)'
  BY DEF LateInv, ProgramInv
<1>9. BlobInv(s)'
  BY DEF BlobInv, ProgramInv
<1>10. WordInv(s)'
  BY DEF WordInv, ProgramInv
<1>11. FlushInv(s)'
  BY DEF FlushInv, ProgramInv
<1> QED BY <1>4, <1>5, <1>6, <1>7, <1>8, <1>9, <1>10, <1>11

LEMMA RingStep ==
  ASSUME TypeOK, Orderly, NEW s \in Slots, SlotInv(s), HostRing(s)
  PROVE  SlotInv(s)'
<1>1. /\ host[s] = "composed" /\ host'[s] = "waiting"
      /\ sess'[s] = sess[s] /\ seq'[s] = seq[s]
      /\ word'[s] = SlotWord(block[s].kind, seq[s])
      /\ word'[s] # 0 /\ block'[s] = block[s] /\ SameReply(s)
      /\ posted'[s] = Mine(s) /\ served'[s] = served[s]
      /\ SameWay(s) /\ SameProcess(s)
  <2>1. SlotWord(block[s].kind, seq[s]) # 0
    <3>1. block[s].kind \in Kinds /\ seq[s] \in Nat
      BY NumbersType
      DEF Numbers, HostRing, SlotInv, ProgramInv, TypeOK, WindowType, Blocks
    <3> QED BY <3>1, RungWord
  <2> QED BY <2>1 DEF HostRing, TypeOK, HostType, WindowType, HistoryType,
       SameWay, SameScan, SameReply, SameProcess, dispVars, sharedVars,
       slotVars, Ahead, Handing, Mine
<1>2. /\ ~Unread(s) /\ seen[s] = word[s]
      /\ Ahead(s) => line[s] = seen[s]
      /\ Older(posted[s], Mine(s)) /\ ~Older(posted[s], served[s])
  BY <1>1 DEF SlotInv, ProgramInv, OrderInv
<1>3. Numbers(s)
  BY NumbersType
<1>4. Stamp(word'[s], seq[s])
  <2>1. block[s].kind \in Kinds /\ (block[s].kind = K_FLUSH <=> seq[s] = 1)
    BY <1>1 DEF SlotInv, WordInv, ProgramInv, TypeOK, WindowType, Blocks
  <2> QED BY <1>1, <2>1 DEF Stamp
<1>5. Fresh(s)'
  <2>1. CASE seq[s] = 1
    BY <1>1, <1>2, <2>1 DEF SlotInv, WordInv, SameWay, SameScan, Fresh
  <2>2. CASE seq[s] # 1
    <3>1. seq[s] >= 2 /\ posted[s] = <<sess[s], seq[s] - 1>> /\ word[s] # 0
      BY <1>1, <1>3, <2>2 DEF SlotInv, WordInv, ProgramInv, Numbers
    <3>2. Stamp(word[s], seq[s] - 1)
      BY <3>1 DEF SlotInv, WordInv
    <3>3. seq[s] - 1 \in Nat /\ seq[s] = (seq[s] - 1) + 1
      BY <1>3, <3>1 DEF Numbers
    <3>4. word'[s] # word[s]
      BY <1>4, <3>2, <3>3, NextWord
    <3> QED BY <1>1, <1>2, <3>4 DEF SameWay, SameScan, Fresh
  <2> QED BY <2>1, <2>2
<1> USE <1>1, <1>2, <1>3 DEF SameProgram, SameReply, SameWindow, SameWay,
        SameScan, SameProcess, SameHistory, Fresh, Handed, Unread, InService,
        Older, Id, Mine, Numbers, SlotInv
<1>6. WayInv(s)'
  BY DEF WayInv
<1>7. ProgramInv(s)'
  BY DEF ProgramInv
<1>8. PostInv(s)'
  BY DEF PostInv, ProgramInv
<1>9. OrderInv(s)'
  BY DEF OrderInv, ProgramInv
<1>10. LateInv(s)'
  BY DEF LateInv, ProgramInv
<1>11. BlobInv(s)'
  BY DEF BlobInv, ProgramInv
<1>12. WordInv(s)'
  BY <1>4, <1>5 DEF WordInv, ProgramInv
<1>13. FlushInv(s)'
  BY DEF FlushInv, ProgramInv
<1> QED BY <1>6, <1>7, <1>8, <1>9, <1>10, <1>11, <1>12, <1>13

LEMMA TakeStep ==
  ASSUME TypeOK, NEW s \in Slots, SlotInv(s), HostTake(s)
  PROVE  SlotInv(s)'
<1>1. /\ host[s] = "waiting" /\ host'[s] \in {"idle", "out"}
      /\ host'[s] = "out" => ~rep1[s].ok
      /\ rep1[s].seq = seq[s]
      /\ sess'[s] = sess[s] /\ seq'[s] = seq[s]
      /\ SameWindow(s) /\ SameWay(s) /\ SameProcess(s) /\ SameHistory(s)
  BY DEF HostTake, TypeOK, HostType,
       SameWay, SameScan, SameWindow, SameReply, SameProcess, SameHistory,
       windowVars, dispVars, sharedVars, slotVars, historyVars, Ahead, Handing
<1>2. TookMine(s)
  BY TakenIsMine DEF HostTake
<1>3. Numbers(s)
  BY NumbersType
<1> USE <1>1, <1>2, <1>3 DEF SameProgram, SameReply, SameWindow, SameWay,
        SameScan, SameProcess, SameHistory, Fresh, Handed, Unread, InService,
        Older, Id, Mine, Numbers, SlotInv
<1>4. WayInv(s)'
  BY DEF WayInv, TookMine
<1>5. ProgramInv(s)'
  BY DEF ProgramInv, TookMine, WayInv
<1>6. PostInv(s)'
  BY DEF PostInv, TookMine
<1>7. OrderInv(s)'
  BY DEF OrderInv, TookMine
<1>8. LateInv(s)'
  BY DEF LateInv, TookMine
<1>9. BlobInv(s)'
  BY DEF BlobInv, TookMine
<1>10. WordInv(s)'
  BY StampSpent DEF WordInv, TookMine, FlushInv, ProgramInv
<1>11. FlushInv(s)'
  BY DEF FlushInv, TookMine, ProgramInv
<1> QED BY <1>4, <1>5, <1>6, <1>7, <1>8, <1>9, <1>10, <1>11

LEMMA LeaveStep ==
  ASSUME TypeOK, Orderly, NEW s \in Slots, SlotInv(s), HostLeave(s)
  PROVE  SlotInv(s)'
<1>1. /\ host[s] \in {"opened", "idle", "composed", "waiting"}
      /\ host'[s] = "out"
      /\ sess'[s] = sess[s] /\ seq'[s] = seq[s]
      /\ SameWindow(s) /\ SameWay(s) /\ SameProcess(s) /\ SameHistory(s)
  BY DEF HostLeave, TypeOK, HostType,
       SameWay, SameScan, SameWindow, SameReply, SameProcess, SameHistory,
       windowVars, dispVars, sharedVars, slotVars, historyVars, Ahead, Handing
<1>2. seq[s] # 1 /\ (host[s] = "composed" => seq[s] # 2)
  BY DEF HostLeave, Orderly, Early
<1>3. Numbers(s)
  BY NumbersType
<1>4. Spent(job[s]) \/ Fresh(s) \/ Handing(s)
  <2>1. CASE host[s] = "composed"
    <3>1. /\ seq[s] - 1 \in Nat /\ seq[s] - 1 # 1
          /\ job[s] = 0 \/ Stamp(job[s], seq[s] - 1)
      BY <1>2, <1>3, <2>1 DEF SlotInv, WordInv, ProgramInv, Numbers
    <3> QED BY <3>1, StampSpent
  <2>2. CASE host[s] = "opened"
    BY <2>2 DEF SlotInv, WordInv
  <2>3. CASE host[s] \in {"idle", "waiting"}
    BY SMTT(30), <1>2, <1>3, <2>3, StampSpent
    DEF SlotInv, WordInv, ProgramInv, Mine, Numbers
  <2> QED BY <1>1, <2>1, <2>2, <2>3
<1> USE <1>1, <1>2, <1>3 DEF SameProgram, SameReply, SameWindow, SameWay,
        SameScan, SameProcess, SameHistory, Fresh, Handed, Unread, InService,
        Older, Id, Mine, Numbers, SlotInv
<1>5. WayInv(s)'
  BY DEF WayInv
<1>6. ProgramInv(s)'
  BY DEF ProgramInv
<1>7. PostInv(s)'
  BY DEF PostInv, ProgramInv
<1>8. OrderInv(s)'
  BY DEF OrderInv
<1>9. LateInv(s)'
  BY DEF LateInv, ProgramInv
<1>10. BlobInv(s)'
  BY DEF BlobInv
<1>11. WordInv(s)'
  BY <1>4 DEF WordInv
<1>12. FlushInv(s)'
  BY DEF FlushInv
<1> QED BY <1>5, <1>6, <1>7, <1>8, <1>9, <1>10, <1>11, <1>12

-----------------------------------------------------------------------------
(* The slot process.                                                       *)

Parking == {"look", "spun", "recheck", "wait", "asleep", "unpark"}

\* The looks, the parking and the waking leave everything but pc.
LEMMA ParkingStep ==
  ASSUME NEW s, SlotInv(s), pc[s] \in Parking, pc'[s] \in Parking,
         SameProgram(s), SameWindow(s), SameWay(s), SameHistory(s),
         last'[s] = last[s], req'[s] = req[s], out'[s] = out[s],
         blobs'[s] = blobs[s]
  PROVE  SlotInv(s)'
<1>1. pc[s] # "read" /\ pc'[s] # "read"
  BY DEF Parking
<1>2. ~InService(s) /\ ~InService(s)'
  BY DEF Parking, InService
<1> USE <1>1, <1>2 DEF SameProgram, SameReply, SameWindow, SameWay,
        SameScan, SameProcess, SameHistory, Fresh, Handed, Unread, InService,
        Older, Id, Mine, Numbers, SlotInv
<1>3. WayInv(s)'
  BY DEF WayInv
<1>4. ProgramInv(s)'
  BY DEF ProgramInv
<1>5. PostInv(s)'
  BY DEF PostInv
<1>6. OrderInv(s)'
  BY DEF OrderInv
<1>7. LateInv(s)'
  BY DEF LateInv
<1>8. BlobInv(s)'
  BY DEF BlobInv
<1>9. WordInv(s)'
  BY DEF WordInv
<1>10. FlushInv(s)'
  BY DEF FlushInv
<1> QED BY <1>3, <1>4, <1>5, <1>6, <1>7, <1>8, <1>9, <1>10

LEMMA JobStep ==
  ASSUME TypeOK, NEW s \in Slots, SlotInv(s), SlotLook(s), job[s] # last[s]
  PROVE  SlotInv(s)'
<1>1. /\ pc[s] = "look" /\ pc'[s] = "read" /\ last'[s] = job[s]
      /\ Handed(s) /\ req'[s] = req[s] /\ out'[s] = out[s]
      /\ blobs'[s] = blobs[s]
      /\ SameProgram(s) /\ SameWindow(s) /\ SameWay(s) /\ SameHistory(s)
  BY DEF SlotLook, Goto, Handed, slotVars,
     SameProgram, SameWindow, SameReply, SameWay, SameScan, SameHistory,
     hostVars, windowVars, dispVars, sharedVars, historyVars, Ahead, Handing,
     TypeOK, SlotType
<1>2. Numbers(s)
  BY NumbersType
<1> USE <1>1, <1>2 DEF SameProgram, SameReply, SameWindow, SameWay,
        SameScan, SameProcess, SameHistory, Fresh, Handed, Unread, InService,
        Older, Id, Mine, Numbers, SlotInv
<1>3. WayInv(s)'
  BY DEF WayInv
<1>4. ProgramInv(s)'
  BY DEF ProgramInv
<1>5. PostInv(s)'
  BY DEF PostInv
<1>6. OrderInv(s)'
  BY DEF OrderInv
<1>7. LateInv(s)'
  BY DEF LateInv
<1>8. BlobInv(s)'
  BY DEF BlobInv
<1>9. WordInv(s)'
  BY DEF WordInv
<1>10. FlushInv(s)'
  BY DEF FlushInv
<1> QED BY <1>3, <1>4, <1>5, <1>6, <1>7, <1>8, <1>9, <1>10

LEMMA ReadStep ==
  ASSUME TypeOK, NEW s \in Slots, SlotInv(s), SlotRead(s)
  PROVE  SlotInv(s)'
<1>1. /\ pc[s] = "read" /\ pc'[s] = "serve" /\ last'[s] = last[s]
      /\ req'[s] = block[s] /\ out'[s] = out[s] /\ blobs'[s] = blobs[s]
      /\ SameProgram(s) /\ SameWindow(s) /\ SameWay(s) /\ SameHistory(s)
  BY DEF SlotRead, Goto,
     SameProgram, SameWindow, SameReply, SameWay, SameScan, SameHistory,
     hostVars, windowVars, dispVars, sharedVars, historyVars, Ahead, Handing,
     TypeOK, SlotType
<1>2. Numbers(s)
  BY NumbersType
<1> USE <1>1, <1>2 DEF SameProgram, SameReply, SameWindow, SameWay,
        SameScan, SameProcess, SameHistory, Fresh, Handed, Unread, InService,
        Older, Id, Mine, Numbers, SlotInv
<1>3. WayInv(s)'
  BY DEF WayInv
<1>4. ProgramInv(s)'
  BY DEF ProgramInv, WayInv, PostInv
<1>5. PostInv(s)'
  BY DEF PostInv, WayInv
<1>6. OrderInv(s)'
  BY DEF OrderInv, PostInv, WayInv, ProgramInv
<1>7. LateInv(s)'
  BY DEF LateInv, PostInv, ProgramInv
<1>8. BlobInv(s)'
  BY DEF BlobInv, PostInv, WayInv, ProgramInv
<1>9. WordInv(s)'
  BY DEF WordInv
<1>10. FlushInv(s)'
  BY DEF FlushInv
<1> QED BY <1>3, <1>4, <1>5, <1>6, <1>7, <1>8, <1>9, <1>10

\* The end of a request: the reply aside, the table as the request left it.
LEMMA FinishStep ==
  ASSUME TypeOK, NEW s \in Slots, SlotInv(s), NEW ok, Finish(s, ok),
         pc[s] = "serve", SameProgram(s), SameWindow(s), SameWay(s),
         last'[s] = last[s], req'[s] = req[s], posted'[s] = posted[s],
         blobs'[s] \subseteq {req[s].sess},
         req[s].kind # 0, req[s].kind = K_FLUSH => ok = TRUE,
         ok /\ req[s].kind = K_FEXEC => blobs'[s] = {req[s].sess}
  PROVE  SlotInv(s)'
<1>1. /\ pc'[s] = "reply2" /\ served'[s] = <<req[s].sess, req[s].seq>>
      /\ out'[s].sess = req[s].sess /\ out'[s].seq = req[s].seq
      /\ out'[s].ok = ok
  BY DEF Finish, Goto, TypeOK, SlotType, HistoryType
<1>2. Numbers(s)
  BY NumbersType
<1> USE <1>1, <1>2 DEF SameProgram, SameReply, SameWindow, SameWay,
        SameScan, SameProcess, SameHistory, Fresh, Handed, Unread, InService,
        Older, Id, Mine, Numbers, SlotInv
<1>3. WayInv(s)'
  BY DEF WayInv
<1>4. ProgramInv(s)'
  BY DEF ProgramInv, LateInv, PostInv
<1>5. PostInv(s)'
  BY DEF PostInv
<1>6. OrderInv(s)'
  BY DEF OrderInv, LateInv
<1>7. LateInv(s)'
  BY DEF LateInv
<1>8. BlobInv(s)'
  BY DEF BlobInv, OrderInv, LateInv, PostInv, ProgramInv
<1>9. WordInv(s)'
  BY DEF WordInv
<1>10. FlushInv(s)'
  BY DEF FlushInv
<1> QED BY <1>3, <1>4, <1>5, <1>6, <1>7, <1>8, <1>9, <1>10

LEMMA Reply2Step ==
  ASSUME TypeOK, NEW s \in Slots, SlotInv(s), SlotReply2(s)
  PROVE  SlotInv(s)'
<1>1. /\ pc[s] = "reply2" /\ pc'[s] = "reply1" /\ rep2'[s] = out[s]
      /\ rep1'[s] = rep1[s] /\ word'[s] = word[s] /\ block'[s] = block[s]
      /\ last'[s] = last[s] /\ req'[s] = req[s] /\ out'[s] = out[s]
      /\ blobs'[s] = blobs[s]
      /\ SameProgram(s) /\ SameWay(s) /\ SameHistory(s)
  BY DEF SlotReply2, Goto, WindowType,
     SameProgram, SameWindow, SameReply, SameWay, SameScan, SameHistory,
     hostVars, windowVars, dispVars, sharedVars, historyVars, Ahead, Handing,
     TypeOK, SlotType
<1>2. Numbers(s)
  BY NumbersType
<1> USE <1>1, <1>2 DEF SameProgram, SameReply, SameWindow, SameWay,
        SameScan, SameProcess, SameHistory, Fresh, Handed, Unread, InService,
        Older, Id, Mine, Numbers, SlotInv
<1>3. WayInv(s)'
  BY DEF WayInv
<1>4. ProgramInv(s)'
  BY DEF ProgramInv
<1>5. PostInv(s)'
  BY DEF PostInv
<1>6. OrderInv(s)'
  BY DEF OrderInv
<1>7. LateInv(s)'
  BY DEF LateInv
<1>8. BlobInv(s)'
  BY DEF BlobInv
<1>9. WordInv(s)'
  BY DEF WordInv
<1>10. FlushInv(s)'
  BY DEF FlushInv
<1> QED BY <1>3, <1>4, <1>5, <1>6, <1>7, <1>8, <1>9, <1>10

LEMMA Reply1Step ==
  ASSUME TypeOK, NEW s \in Slots, SlotInv(s), SlotReply1(s)
  PROVE  SlotInv(s)'
<1>1. /\ pc[s] = "reply1" /\ pc'[s] = "look" /\ rep1'[s] = out[s]
      /\ rep2'[s] = rep2[s] /\ word'[s] = word[s] /\ block'[s] = block[s]
      /\ last'[s] = last[s] /\ req'[s] = req[s] /\ out'[s] = out[s]
      /\ blobs'[s] = blobs[s]
      /\ SameProgram(s) /\ SameWay(s) /\ SameHistory(s)
  BY DEF SlotReply1, Goto, WindowType,
     SameProgram, SameWindow, SameReply, SameWay, SameScan, SameHistory,
     hostVars, windowVars, dispVars, sharedVars, historyVars, Ahead, Handing,
     TypeOK, SlotType
<1>2. Numbers(s)
  BY NumbersType
<1> USE <1>1, <1>2 DEF SameProgram, SameReply, SameWindow, SameWay,
        SameScan, SameProcess, SameHistory, Fresh, Handed, Unread, InService,
        Older, Id, Mine, Numbers, SlotInv
<1>3. WayInv(s)'
  BY DEF WayInv
<1>4. ProgramInv(s)'
  BY DEF ProgramInv
<1>5. PostInv(s)'
  BY DEF PostInv
<1>6. OrderInv(s)'
  BY DEF OrderInv
<1>7. LateInv(s)'
  BY DEF LateInv, OrderInv
<1>8. BlobInv(s)'
  BY DEF BlobInv
<1>9. WordInv(s)'
  BY DEF WordInv
<1>10. FlushInv(s)'
  BY DEF FlushInv, OrderInv
<1> QED BY <1>3, <1>4, <1>5, <1>6, <1>7, <1>8, <1>9, <1>10

-----------------------------------------------------------------------------
(* The dispatcher.                                                         *)

LEMMA PollStep ==
  ASSUME TypeOK, DispPoll, NEW s \in Slots, SlotInv(s) PROVE SlotInv(s)'
<1>1. /\ line'[s] = word[s] /\ seen'[s] = seen[s] /\ job'[s] = job[s]
      /\ ~Handing(s) /\ ~Handing(s)'
      /\ SameProgram(s) /\ SameWindow(s) /\ SameProcess(s)
      /\ SameHistory(s)
  BY DEF DispPoll, Handing, SameProgram, SameWindow, SameReply, SameProcess,
     SameHistory, hostVars,
     windowVars, sharedVars, slotVars, historyVars, TypeOK, DispType, Slots,
     SlotsAssumption
<1>2. Numbers(s)
  BY NumbersType
<1> USE <1>1, <1>2 DEF SameProgram, SameReply, SameWindow, SameWay,
        SameScan, SameProcess, SameHistory, Fresh, Handed, Unread, InService,
        Older, Id, Mine, Numbers, SlotInv
<1>3. WayInv(s)'
  BY DEF WayInv
<1>4. ProgramInv(s)'
  BY DEF ProgramInv
<1>5. PostInv(s)'
  BY DEF PostInv
<1>6. OrderInv(s)'
  BY DEF OrderInv
<1>7. LateInv(s)'
  BY DEF LateInv
<1>8. BlobInv(s)'
  BY DEF BlobInv
<1>9. WordInv(s)'
  BY DEF WordInv
<1>10. FlushInv(s)'
  BY DEF FlushInv
<1> QED BY <1>3, <1>4, <1>5, <1>6, <1>7, <1>8, <1>9, <1>10

\* The scan passes the slot it is at.
LEMMA PassStep ==
  ASSUME TypeOK, DispPass, NEW s \in Slots, SlotInv(s), s = dcur
  PROVE  SlotInv(s)'
<1>1. /\ line'[s] = line[s] /\ seen'[s] = line[s] /\ job'[s] = job[s]
      /\ line[s] \in {seen[s], 0}
      /\ ~Handing(s) /\ ~Handing(s)' /\ Ahead(s) /\ ~Ahead(s)'
      /\ SameProgram(s) /\ SameWindow(s) /\ SameProcess(s)
      /\ SameHistory(s)
  BY SlotsAssumption DEF DispPass, Ahead, Handing, SameProgram, SameWindow,
     SameReply, SameProcess, SameHistory, hostVars,
     windowVars, sharedVars, slotVars, historyVars, TypeOK, DispType, Slots,
     SlotsAssumption
<1>2. Numbers(s)
  BY NumbersType
<1> USE <1>1, <1>2 DEF SameProgram, SameReply, SameWindow, SameWay,
        SameScan, SameProcess, SameHistory, Fresh, Handed, Unread, InService,
        Older, Id, Mine, Numbers, SlotInv
<1>3. WayInv(s)'
  BY DEF WayInv
<1>4. ProgramInv(s)'
  BY DEF ProgramInv, WayInv
<1>5. PostInv(s)'
  BY DEF PostInv, WayInv
<1>6. OrderInv(s)'
  BY DEF OrderInv, WayInv
<1>7. LateInv(s)'
  BY DEF LateInv, WayInv
<1>8. BlobInv(s)'
  BY DEF BlobInv, WayInv
<1>9. WordInv(s)'
  BY DEF WordInv, WayInv
<1>10. FlushInv(s)'
  BY DEF FlushInv, WayInv
<1> QED BY <1>3, <1>4, <1>5, <1>6, <1>7, <1>8, <1>9, <1>10

\* The scan finds a post at the slot it is at: fresh until now, being handed
\* over from now on.
LEMMA PrepareStep ==
  ASSUME TypeOK, DispPrepare, NEW s \in Slots, SlotInv(s), s = dcur
  PROVE  SlotInv(s)'
<1>1. /\ line'[s] = line[s] /\ seen'[s] = line[s] /\ job'[s] = job[s]
      /\ line[s] \notin {seen[s], 0}
      /\ ~Handing(s) /\ Handing(s)' /\ Ahead(s) /\ ~Ahead(s)'
      /\ SameProgram(s) /\ SameWindow(s) /\ SameProcess(s)
      /\ SameHistory(s)
  BY SlotsAssumption DEF DispPrepare, Ahead, Handing, SameProgram, SameWindow,
     SameReply, SameProcess, SameHistory, hostVars,
     windowVars, sharedVars, slotVars, historyVars, TypeOK, DispType, Slots,
     SlotsAssumption
<1>2. Numbers(s) /\ Fresh(s)
  BY <1>1, NumbersType DEF SlotInv, WayInv, Fresh
<1> USE <1>1, <1>2 DEF SameProgram, SameReply, SameWindow, SameWay,
        SameScan, SameProcess, SameHistory, Fresh, Handed, Unread, InService,
        Older, Id, Mine, Numbers, SlotInv
<1>3. WayInv(s)'
  BY DEF WayInv
<1>4. ProgramInv(s)'
  BY DEF ProgramInv, WayInv
<1>5. PostInv(s)'
  BY DEF PostInv, WayInv
<1>6. OrderInv(s)'
  BY DEF OrderInv, WayInv
<1>7. LateInv(s)'
  BY DEF LateInv, WayInv
<1>8. BlobInv(s)'
  BY DEF BlobInv, WayInv
<1>9. WordInv(s)'
  BY DEF WordInv, WayInv, PostInv
<1>10. FlushInv(s)'
  BY DEF FlushInv, WayInv, PostInv
<1> QED BY <1>3, <1>4, <1>5, <1>6, <1>7, <1>8, <1>9, <1>10

LEMMA HandStep ==
  ASSUME TypeOK, DispJob, NEW s \in Slots, SlotInv(s), s = dcur
  PROVE  SlotInv(s)'
<1>1. /\ line'[s] = line[s] /\ seen'[s] = seen[s] /\ job'[s] = line[s]
      /\ Handing(s) /\ ~Handing(s)' /\ ~Ahead(s) /\ ~Ahead(s)'
      /\ SameProgram(s) /\ SameWindow(s) /\ SameProcess(s)
      /\ SameHistory(s)
  BY SlotsAssumption DEF DispJob, Ahead, Handing, SharedType, SameProgram,
     SameWindow, SameReply, SameProcess, SameHistory, hostVars,
     windowVars, sharedVars, slotVars, historyVars, TypeOK, DispType, Slots,
     SlotsAssumption
<1>2. Numbers(s)
  BY NumbersType
<1> USE <1>1, <1>2 DEF SameProgram, SameReply, SameWindow, SameWay,
        SameScan, SameProcess, SameHistory, Fresh, Handed, Unread, InService,
        Older, Id, Mine, Numbers, SlotInv
<1>3. WayInv(s)'
  BY DEF WayInv
<1>4. ProgramInv(s)'
  BY DEF ProgramInv
<1>5. PostInv(s)'
  BY DEF PostInv
<1>6. OrderInv(s)'
  BY DEF OrderInv
<1>7. LateInv(s)'
  BY DEF LateInv
<1>8. BlobInv(s)'
  BY DEF BlobInv
<1>9. WordInv(s)'
  BY StampSpent DEF WordInv, WayInv, PostInv, ProgramInv
<1>10. FlushInv(s)'
  BY DEF FlushInv
<1> QED BY <1>3, <1>4, <1>5, <1>6, <1>7, <1>8, <1>9, <1>10

\* A restarted worker takes the line as it finds it and begins with empty
\* tables: nothing is on its way to a slot.
LEMMA RestartStep ==
  ASSUME TypeOK, WorkerRestart, NEW s \in Slots, SlotInv(s) PROVE SlotInv(s)'
<1>1. /\ seen'[s] = word[s] /\ job'[s] = 0 /\ last'[s] = 0
      /\ pc'[s] = "look" /\ blobs'[s] = {}
      /\ req'[s] = req[s] /\ out'[s] = out[s]
      /\ ~Handing(s)' /\ ~Ahead(s)'
      /\ SameProgram(s) /\ SameWindow(s) /\ SameHistory(s)
  BY SlotsAssumption DEF WorkerRestart, Ahead, Handing, SameProgram,
     SameWindow, SameReply, SameProcess, SameHistory, hostVars,
     windowVars, sharedVars, slotVars, historyVars, TypeOK, DispType, Slots,
     SlotsAssumption
<1>2. Numbers(s)
  BY NumbersType
<1> USE <1>1, <1>2 DEF SameProgram, SameReply, SameWindow, SameWay,
        SameScan, SameProcess, SameHistory, Fresh, Handed, Unread, InService,
        Older, Id, Mine, Numbers, SlotInv
<1>3. WayInv(s)'
  BY DEF WayInv
<1>4. ProgramInv(s)'
  BY DEF ProgramInv
<1>5. PostInv(s)'
  BY DEF PostInv
<1>6. OrderInv(s)'
  BY DEF OrderInv
<1>7. LateInv(s)'
  BY DEF LateInv
<1>8. BlobInv(s)'
  BY DEF BlobInv
<1>9. WordInv(s)'
  BY DEF WordInv, ProgramInv, Spent
<1>10. FlushInv(s)'
  BY DEF FlushInv
<1> QED BY <1>3, <1>4, <1>5, <1>6, <1>7, <1>8, <1>9, <1>10

-----------------------------------------------------------------------------
(* Every step.                                                             *)

\* An action of one slot's program or process is about that slot.
LEMMA OthersSame ==
  ASSUME TypeOK, NEW s \in Slots, NEW t \in Slots, t # s,
         Host(s) \/ Waiting(s) \/ Serving(s)
  PROVE  Same(t)
<1> USE DEF Same, SameProgram, SameWindow, SameReply, SameWay,
     SameScan, SameProcess, SameHistory, hostVars, windowVars, dispVars,
     sharedVars, engineVars, slotVars, historyVars, Ahead, Handing, TypeOK,
     HostType, WindowType, SlotType, HistoryType, SharedType
<1>1. CASE Host(s)
  BY <1>1 DEF Host, HostOpen, HostCompose, HostRing, HostTake, HostLeave
<1>2. CASE Waiting(s)
  BY <1>2 DEF Waiting, SlotLook, SlotSpin, SlotRecheck, SlotFutex, SlotUnpark,
              Goto
<1>3. CASE SlotRead(s) \/ SlotReply2(s) \/ SlotReply1(s)
  BY <1>3 DEF SlotRead, SlotReply2, SlotReply1, Goto
<1>4. CASE SlotFlush(s) \/ SlotLoad(s)
  BY <1>4 DEF SlotFlush, SlotLoad, Finish, Goto
<1>5. CASE SlotRun(s) \/ SlotMove(s) \/ SlotGiveUp(s)
  BY <1>5 DEF SlotRun, SlotMove, SlotGiveUp, Finish, Goto
<1> QED BY <1>1, <1>2, <1>3, <1>4, <1>5 DEF Serving

LEMMA HostStep ==
  ASSUME TypeOK, Orderly, NEW s \in Slots, SlotInv(s), Host(s)
  PROVE  SlotInv(s)'
  BY OpenStep, ComposeStep, RingStep, TakeStep, LeaveStep DEF Host

LEMMA WaitingStep ==
  ASSUME TypeOK, NEW s \in Slots, SlotInv(s), Waiting(s)
  PROVE  SlotInv(s)'
<1>1. CASE SlotLook(s) /\ job[s] # last[s]
  BY <1>1, JobStep
<1>2. CASE ~(SlotLook(s) /\ job[s] # last[s])
  <2>1. /\ pc[s] \in Parking /\ pc'[s] \in Parking
        /\ last'[s] = last[s] /\ req'[s] = req[s] /\ out'[s] = out[s]
        /\ blobs'[s] = blobs[s]
    BY <1>2 DEF Waiting, SlotLook, SlotSpin, SlotRecheck, SlotFutex,
       SlotUnpark, Goto, Parking, TypeOK, SlotType
  <2>2. SameProgram(s) /\ SameWindow(s) /\ SameWay(s) /\ SameHistory(s)
    BY DEF Waiting, SlotLook, SlotSpin, SlotRecheck, SlotFutex, SlotUnpark,
     Same, SameProgram, SameWindow, SameReply, SameWay,
     SameScan, SameProcess, SameHistory, hostVars, windowVars, dispVars,
     sharedVars, engineVars, slotVars, historyVars, Ahead, Handing
  <2> QED BY <2>1, <2>2, ParkingStep
<1> QED BY <1>1, <1>2

\* What the requests do to the table: K_FLUSH empties it, K_LOAD adds the
\* blob of a session that was served before, the others leave it.
LEMMA ServingStep ==
  ASSUME TypeOK, NEW s \in Slots, SlotInv(s), Serving(s)
  PROVE  SlotInv(s)'
<1> DEFINE Request == \/ SlotFlush(s) \/ SlotLoad(s) \/ SlotRun(s)
                      \/ SlotMove(s) \/ SlotGiveUp(s)
<1>1. CASE SlotRead(s) \/ SlotReply2(s) \/ SlotReply1(s)
  BY <1>1, ReadStep, Reply2Step, Reply1Step
<1>2. CASE Request
  <2>1. /\ pc[s] = "serve" /\ SameProgram(s) /\ SameWindow(s)
        /\ SameWay(s) /\ last'[s] = last[s] /\ req'[s] = req[s]
        /\ posted'[s] = posted[s]
    BY <1>2 DEF SlotFlush, SlotLoad, SlotRun, SlotMove, SlotGiveUp,
     Same, SameProgram, SameWindow, SameReply, SameWay,
     SameScan, SameProcess, SameHistory, hostVars, windowVars, dispVars,
     sharedVars, engineVars, slotVars, historyVars, Ahead, Handing
  <2>2. req[s].kind # 0
    <3>1. req[s].kind \in Kinds
      BY <1>2 DEF SlotFlush, SlotLoad, SlotRun, SlotMove, SlotGiveUp, Moving,
         Kinds
    <3> QED BY <3>1 DEF Kinds, K_LOAD, K_RESIDENT, K_FEXEC, K_FLUSH, K_PUSH
  <2>3. req[s].kind # K_FLUSH => blobs[s] \subseteq {req[s].sess}
    <3>1. req[s].kind \notin {0, K_FLUSH} => blobs[s] \subseteq {req[s].sess}
      BY <2>1 DEF SlotInv, BlobInv, InService
    <3> QED BY <2>2, <3>1
  <2>4. \E ok \in BOOLEAN :
           /\ Finish(s, ok) /\ blobs'[s] \subseteq {req[s].sess}
           /\ req[s].kind # 0 /\ (req[s].kind = K_FLUSH => ok = TRUE)
           /\ ok /\ req[s].kind = K_FEXEC => blobs'[s] = {req[s].sess}
    <3>1. CASE SlotFlush(s)
      <4>1. Finish(s, TRUE) /\ blobs' = [blobs EXCEPT ![s] = {}]
        BY <3>1 DEF SlotFlush
      <4>2. blobs'[s] = {}
        BY <4>1 DEF TypeOK, SlotType
      <4>3. req[s].kind # K_FEXEC
        BY <3>1 DEF SlotFlush, K_FLUSH, K_FEXEC
      <4> QED BY <2>2, <4>1, <4>2, <4>3
    <3>2. CASE SlotLoad(s)
      <4>1. PICK ok \in BOOLEAN :
              /\ blobs' = IF ok THEN [blobs EXCEPT ![s] =
                                        @ \cup {req[s].sess}] ELSE blobs
              /\ Finish(s, ok)
        BY <3>2 DEF SlotLoad
      <4>2. req[s].kind = K_LOAD
        BY <3>2 DEF SlotLoad
      <4>3. blobs'[s] \subseteq {req[s].sess}
        BY <2>3, <4>1, <4>2 DEF TypeOK, SlotType, K_LOAD, K_FLUSH
      <4> QED BY <2>2, <4>1, <4>2, <4>3 DEF K_LOAD, K_FEXEC, K_FLUSH
    <3>3. CASE SlotRun(s)
      BY <2>2, <2>3, <3>3 DEF SlotRun, K_FEXEC, K_FLUSH
    <3>4. CASE SlotMove(s)
      <4>1. blobs' = blobs /\ \E ok \in BOOLEAN : Finish(s, ok)
        BY <3>4 DEF SlotMove
      <4>2. req[s].kind \notin {K_FEXEC, K_FLUSH}
        BY <3>4 DEF SlotMove, K_RESIDENT, K_PUSH, K_FEXEC, K_FLUSH
      <4> QED BY <2>2, <2>3, <4>1, <4>2
    <3>5. CASE SlotGiveUp(s)
      <4>1. blobs' = blobs /\ Finish(s, FALSE)
        BY <3>5 DEF SlotGiveUp
      <4>2. req[s].kind # K_FLUSH
        BY <3>5 DEF SlotGiveUp, Moving, K_RESIDENT, K_PUSH, K_FEXEC, K_FLUSH
      <4> QED BY <2>2, <2>3, <4>1, <4>2
    <3> QED BY <1>2, <3>1, <3>2, <3>3, <3>4, <3>5
  <2> QED BY <2>1, <2>4, FinishStep
<1> QED BY <1>1, <1>2 DEF Serving

LEMMA DispatcherStep ==
  ASSUME TypeOK, NEW s \in Slots, SlotInv(s), Dispatcher
  PROVE  SlotInv(s)'
<1> USE SlotsAssumption DEF SlotsAssumption, Slots
<1>1. CASE DispPoll
  BY <1>1, PollStep
<1>2. CASE DispPass \/ DispPrepare \/ DispJob
  <2>1. CASE s = dcur
    BY <1>2, <2>1, PassStep, PrepareStep, HandStep
  <2>2. CASE s # dcur
    <3>1. dcur \in Slots
      BY <1>2 DEF DispPass, DispPrepare, DispJob, TypeOK, DispType
    <3>2. (Ahead(s)' <=> Ahead(s)) /\ (Handing(s)' <=> Handing(s))
      BY <1>2, <2>2, <3>1 DEF DispPass, DispPrepare, DispJob, Ahead, Handing
    <3>3. line'[s] = line[s] /\ seen'[s] = seen[s] /\ job'[s] = job[s]
      <4>1. /\ line' = line
            /\ seen' = seen \/ seen' = [seen EXCEPT ![dcur] = line[dcur]]
            /\ job' = job \/ job' = [job EXCEPT ![dcur] = line[dcur]]
        BY <1>2 DEF DispPass, DispPrepare, DispJob, sharedVars
      <4>2. DOMAIN seen = Slots /\ DOMAIN job = Slots
        BY DEF TypeOK, DispType, SharedType
      <4> QED BY <2>2, <4>1, <4>2
    <3>4. Same(s)
      BY <1>2, <3>2, <3>3 DEF DispPass, DispPrepare, DispJob, Same,
         SameProgram, SameWindow, SameReply, SameWay, SameScan, SameProcess,
         SameHistory, hostVars, windowVars, slotVars, historyVars
    <3> QED BY <3>4, FrameStep
  <2> QED BY <2>1, <2>2
<1>3. CASE DispWake
  <2>1. /\ SameProgram(s) /\ SameWindow(s) /\ SameWay(s) /\ SameHistory(s)
        /\ last'[s] = last[s] /\ req'[s] = req[s] /\ out'[s] = out[s]
        /\ blobs'[s] = blobs[s]
    BY <1>3 DEF DispWake, TypeOK, DispType, Same, SameProgram, SameWindow,
       SameReply, SameWay,
     SameScan, SameProcess, SameHistory, hostVars, windowVars, dispVars,
     sharedVars, engineVars, slotVars, historyVars, Ahead, Handing
  <2>2. CASE pc'[s] = pc[s]
    BY <2>1, <2>2, FrameStep DEF Same, SameProcess
  <2>3. CASE pc'[s] # pc[s]
    <3>1. pc[s] \in Parking /\ pc'[s] \in Parking
      BY <1>3, <2>3 DEF DispWake, TypeOK, DispType, SlotType, Parking
    <3> QED BY <2>1, <3>1, ParkingStep
  <2> QED BY <2>2, <2>3
<1>4. CASE DispScanned \/ DispAwake \/ DispLegacy \/ DispLegacyDone
  <2>1. (Ahead(s)' <=> Ahead(s)) /\ (Handing(s)' <=> Handing(s))
    <3>1. CASE DispScanned
      BY <3>1 DEF DispScanned, Ahead, Handing
    <3>2. CASE DispAwake \/ DispLegacyDone
      BY <3>2 DEF DispAwake, DispLegacyDone, Ahead, Handing
    <3>3. CASE DispLegacy
      BY <3>3 DEF DispLegacy, Ahead, Handing
    <3> QED BY <1>4, <3>1, <3>2, <3>3
  <2>2. Same(s)
    BY <1>4, <2>1 DEF DispScanned, DispAwake, DispLegacy, DispLegacyDone,
       Same, SameProgram, SameWindow, SameReply, SameWay, SameScan,
       SameProcess, SameHistory, hostVars, windowVars, sharedVars, slotVars,
       historyVars
  <2> QED BY <2>2, FrameStep
<1> QED BY <1>1, <1>2, <1>3, <1>4 DEF Dispatcher

LEMMA InvStep == ASSUME Orderly PROVE Inv /\ [Next]_vars => Inv'
<1> SUFFICES ASSUME Inv, [Next]_vars PROVE Inv'
  OBVIOUS
<1>1. TypeOK /\ TypeOK'
  BY TypeStep DEF Inv
<1> SUFFICES ASSUME NEW s \in Slots PROVE SlotInv(s)'
  BY <1>1 DEF Inv
<1>2. SlotInv(s)
  BY DEF Inv
<1>3. ASSUME NEW t \in Slots, Host(t) \/ Waiting(t) \/ Serving(t)
      PROVE  SlotInv(s)'
  <2>1. CASE t = s
    BY <1>1, <1>2, <1>3, <2>1, HostStep, WaitingStep, ServingStep
  <2>2. CASE t # s
    BY <1>1, <1>2, <1>3, <2>2, OthersSame, FrameStep
  <2> QED BY <2>1, <2>2
<1>4. CASE Dispatcher
  BY <1>1, <1>2, <1>4, DispatcherStep
<1>5. CASE EngineCopy
  <2>1. Same(s)
    BY <1>5 DEF EngineCopy, Same, SameProgram, SameWindow, SameReply, SameWay,
     SameScan, SameProcess, SameHistory, hostVars, windowVars, dispVars,
     sharedVars, engineVars, slotVars, historyVars, Ahead, Handing
  <2> QED BY <1>2, <2>1, FrameStep
<1>6. CASE WorkerRestart
  BY <1>1, <1>2, <1>6, RestartStep
<1>7. CASE UNCHANGED vars
  <2>1. Same(s)
    BY <1>7 DEF vars, Same, SameProgram, SameWindow, SameReply, SameWay,
     SameScan, SameProcess, SameHistory, hostVars, windowVars, dispVars,
     sharedVars, engineVars, slotVars, historyVars, Ahead, Handing
  <2> QED BY <1>2, <2>1, FrameStep
<1> QED BY <1>3, <1>4, <1>5, <1>6, <1>7 DEF Next

LEMMA InvInit == Init => Inv
<1> SUFFICES ASSUME Init, NEW s \in Slots PROVE SlotInv(s)
  BY TypeInit DEF Inv
<1> USE DEF Init, NoBlock, NoReply, NoId, Fresh, Handing, Handed, Unread,
            Ahead, InService, Older, Id, Mine
<1>1. WayInv(s) /\ ProgramInv(s) /\ PostInv(s)
  BY DEF WayInv, ProgramInv, PostInv
<1>2. OrderInv(s) /\ LateInv(s) /\ BlobInv(s)
  BY DEF OrderInv, LateInv, BlobInv
<1>3. WordInv(s) /\ FlushInv(s)
  BY DEF WordInv, FlushInv, Spent
<1> QED BY <1>1, <1>2, <1>3 DEF SlotInv

LEMMA Inductive == ASSUME Orderly PROVE Spec => []Inv
  BY InvInit, InvStep, PTL DEF Spec

-----------------------------------------------------------------------------
(* The theorems.                                                           *)

\* The answer a program takes is the one to the request it waits on, in both
\* lines: card_wait compares nothing but the number, and every session
\* counts from 1.
THEOREM AnswersAreOwn == ASSUME Orderly PROVE Spec => []ReplyIsMine
<1>1. Inv => ReplyIsMine
  BY TakenIsMine DEF Inv, ReplyIsMine, TookMine, Id, Mine
<1> QED BY <1>1, Inductive, PTL

\* A region runs with the blobs of its own session and no other's, whatever
\* sessions, failed loads and restarts came before it.
THEOREM BlobsAreOwn == ASSUME Orderly PROVE Spec => []OwnBlobs
<1>1. Inv => OwnBlobs
  BY DEF Inv, OwnBlobs, SlotInv, BlobInv
<1> QED BY <1>1, Inductive, PTL

\* Two jobs handed to a slot one after the other have different words, which
\* is all the slot has to tell a new job by: within a session the numbers'
\* low bits differ, and a new session begins with the only K_FLUSH.
THEOREM JobWordsDiffer == ASSUME Orderly PROVE Spec => ConsecutivePostsDiffer
<1>1. ASSUME Inv, NEW s \in Slots, DispJob, dcur = s PROVE job'[s] # job[s]
  <2>1. /\ Handing(s) /\ SlotInv(s) /\ job'[s] = line[s]
    BY <1>1 DEF Inv, Handing, DispJob, TypeOK, SharedType
  <2>2. job'[s] = word[s] /\ Stamp(word[s], posted[s][2])
    BY <2>1 DEF SlotInv, WordInv
  <2>3. posted[s][2] \in Nat /\ posted[s][2] >= 1
    BY <1>1, <2>1, NumbersType DEF SlotInv, WordInv, Inv, Numbers
  <2>4. CASE posted[s][2] = 1
    BY <2>1, <2>2, <2>4, FirstWord DEF SlotInv, WordInv
  <2>5. CASE posted[s][2] # 1
    <3> DEFINE n == posted[s][2] - 1
    <3>1. n \in Nat /\ posted[s][2] = n + 1
      BY <2>3
    <3>2. job[s] = 0 \/ Stamp(job[s], n)
      BY <2>1, <2>5 DEF SlotInv, WordInv
    <3> HIDE DEF n
    <3> QED BY <2>2, <3>1, <3>2, NextWord
  <2> QED BY <2>4, <2>5
<1>2. Inv /\ [Next]_vars =>
        [\A s \in Slots : DispJob /\ dcur = s => job'[s] # job[s]]_vars
  BY <1>1
<1> QED BY <1>2, Inductive, PTL DEF Spec, ConsecutivePostsDiffer

-----------------------------------------------------------------------------
(* The refinement.                                                         *)

\* A slot's program as Exchange has it.
Program(s) == IF host[s] \in {"out", "waiting"} THEN host[s] ELSE "ready"
program == [s \in Slots |-> Program(s)]

\* The end of a request is the promised service: of a request that was asked
\* and after the last one served.
LEMMA FinishServes ==
  ASSUME TypeOK, NEW s \in Slots, SlotInv(s), pc[s] = "serve", NEW ok,
         Finish(s, ok), posted' = posted, host' = host
  PROVE  Abstract!Serve(s)
<1>1. <<req[s].sess, req[s].seq>> \in Ids
  BY DEF TypeOK, SlotType, Blocks, Ids
<1>2. /\ Abstract!Before(served[s], <<req[s].sess, req[s].seq>>)
      /\ ~Abstract!Before(posted[s], <<req[s].sess, req[s].seq>>)
  BY DEF SlotInv, OrderInv, Older, Id, Abstract!Before
<1>3. served' = [served EXCEPT ![s] = <<req[s].sess, req[s].seq>>]
  BY DEF Finish
<1> QED BY <1>1, <1>2, <1>3 DEF Abstract!Serve, Abstract!Ids, Ids

LEMMA RingAsks ==
  ASSUME TypeOK, NEW s \in Slots, SlotInv(s), HostRing(s)
  PROVE  Abstract!Ask(s)
<1>1. Mine(s) \in Ids /\ Abstract!Before(posted[s], Mine(s))
  BY DEF HostRing, TypeOK, HostType, Mine, Ids, SlotInv, ProgramInv, Older,
     Abstract!Before
<1>2. posted' = [posted EXCEPT ![s] = Mine(s)] /\ served' = served
  BY DEF HostRing, Mine
<1>3. program[s] = "ready" /\ program' = [program EXCEPT ![s] = "waiting"]
  BY DEF HostRing, program, Program, TypeOK, HostType
<1> QED BY <1>1, <1>2, <1>3 DEF Abstract!Ask, Abstract!Ids, Ids, program,
        Program

LEMMA TakeTakes ==
  ASSUME TypeOK, NEW s \in Slots, SlotInv(s), HostTake(s)
  PROVE  Abstract!Take(s) \/ Abstract!Leave(s)
<1>1. served[s] = posted[s]
  BY TakenIsMine DEF HostTake, TookMine
<1>2. /\ program[s] = "waiting"
      /\ \/ program' = [program EXCEPT ![s] = "ready"]
         \/ program' = [program EXCEPT ![s] = "out"]
  BY DEF HostTake, program, Program, TypeOK, HostType
<1> QED BY <1>1, <1>2
        DEF Abstract!Take, Abstract!Leave, program, Program, HostTake,
            historyVars

LEMMA OpenJoins ==
  ASSUME TypeOK, NEW s \in Slots, HostOpen(s)
  PROVE  Abstract!Join(s)
<1>1. program[s] = "out" /\ program' = [program EXCEPT ![s] = "ready"]
  BY DEF HostOpen, program, Program, TypeOK, HostType
<1> QED BY <1>1 DEF Abstract!Join, program, Program, HostOpen, historyVars

LEMMA LeaveLeaves ==
  ASSUME TypeOK, NEW s \in Slots, HostLeave(s)
  PROVE  Abstract!Leave(s)
<1>1. program[s] # "out" /\ program' = [program EXCEPT ![s] = "out"]
  BY DEF HostLeave, program, Program, TypeOK, HostType
<1> QED BY <1>1 DEF Abstract!Leave, program, Program, HostLeave, historyVars

\* Every step of the slots is a step of Exchange or leaves what it promises.
LEMMA StepSimulates ==
  Inv /\ [Next]_vars => [Abstract!Next]_(Abstract!vars)
<1> SUFFICES ASSUME Inv, [Next]_vars
             PROVE  Abstract!Next \/ UNCHANGED <<posted, served, program>>
  BY DEF Abstract!vars, program, Program
<1>1. TypeOK /\ \A s \in Slots : SlotInv(s)
  BY DEF Inv
<1>2. ASSUME NEW s \in Slots, Host(s)
      PROVE  Abstract!Next \/ UNCHANGED <<posted, served, program>>
  <2>1. CASE HostOpen(s)
    BY <1>1, <2>1, OpenJoins DEF Abstract!Next
  <2>5. CASE HostCompose(s)
    BY <1>1, <2>5 DEF HostCompose, program, Program, historyVars, TypeOK,
       HostType
  <2>2. CASE HostRing(s)
    BY <1>1, <2>2, RingAsks DEF Abstract!Next
  <2>3. CASE HostTake(s)
    BY <1>1, <2>3, TakeTakes DEF Abstract!Next
  <2>4. CASE HostLeave(s)
    BY <1>1, <2>4, LeaveLeaves DEF Abstract!Next
  <2> QED BY <1>2, <2>1, <2>2, <2>3, <2>4, <2>5 DEF Host
<1>3. ASSUME NEW s \in Slots, Serving(s)
      PROVE  Abstract!Next \/ UNCHANGED <<posted, served, program>>
  <2>1. CASE SlotRead(s) \/ SlotReply2(s) \/ SlotReply1(s)
    BY <2>1 DEF SlotRead, SlotReply2, SlotReply1, program, Program, hostVars,
       historyVars
  <2>2. CASE \/ SlotFlush(s) \/ SlotLoad(s) \/ SlotRun(s) \/ SlotMove(s)
             \/ SlotGiveUp(s)
    <3>1. /\ pc[s] = "serve" /\ posted' = posted /\ host' = host
          /\ \E ok \in BOOLEAN : Finish(s, ok)
      BY <2>2 DEF SlotFlush, SlotLoad, SlotRun, SlotMove, SlotGiveUp, hostVars
    <3> QED BY <1>1, <3>1, FinishServes DEF Abstract!Next
  <2> QED BY <1>3, <2>1, <2>2 DEF Serving
<1>4. ASSUME NEW s \in Slots, Waiting(s)
      PROVE  UNCHANGED <<posted, served, program>>
  BY <1>4 DEF Waiting, SlotLook, SlotSpin, SlotRecheck, SlotFutex, SlotUnpark,
     program, Program, hostVars, historyVars
<1>5. CASE Dispatcher
  BY <1>5 DEF Dispatcher, DispPoll, DispPass, DispPrepare, DispJob, DispWake,
     DispScanned, DispAwake, DispLegacy, DispLegacyDone, program, Program,
     hostVars, historyVars
<1>6. CASE EngineCopy \/ WorkerRestart \/ UNCHANGED vars
  BY <1>6 DEF EngineCopy, WorkerRestart, vars, program, Program, hostVars,
     historyVars
<1> QED BY <1>2, <1>3, <1>4, <1>5, <1>6 DEF Next

\* The program, the dispatcher, the futex, the engine and the slot process
\* together implement Exchange: a request is served once, in order, and only
\* when it was asked, and a program takes the answer to its own.
THEOREM SlotsImplementExchange ==
  ASSUME Orderly PROVE Spec => ImplementsExchange
<1>1. Init => Abstract!Init
  BY DEF Init, Abstract!Init, NoId
<1> QED BY <1>1, Inductive, StepSimulates, PTL
        DEF Spec, ImplementsExchange, Abstract!Spec

-----------------------------------------------------------------------------
(* The data of a request.                                                  *)

\* A world in which the engine serves the slots alone and never fails them:
\* no copy misses its time, no legacy request uses slot 0's landing part.
Quiet == Orderly /\ "close" \notin Env /\ MaxLegacy = 0

\* The program waits for a request the dispatcher has looked at and the slot
\* has not finished.
InHand(s) == /\ host[s] = "waiting"
             /\ \/ Handing(s) \/ Handed(s) \/ pc[s] = "read"
                \/ pc[s] = "serve" /\ Id(req[s]) = Mine(s)

\* The channel: open, its copies numbered in a row from the one after status.
ChannelInv ==
  /\ chan /\ dpc # "legacy"
  /\ csub = status + Len(queue)
  /\ \A i \in 1 .. Len(queue) : queue[i].seq = status + i

\* The copy for the request in hand is queued, or it was done with that
\* request's data; no later copy of the slot is queued behind it.
Queued(s, what) == queue[pull[s] - status].slot = s
                   /\ queue[pull[s] - status].what = what
RegsCopied(s) ==
  /\ pull[s] > status => Queued(s, "regs")
  /\ pull[s] <= status => landed[s] = Mine(s)
ChunkCopied(s) ==
  /\ pull[s] > status =>
       Queued(s, "chunk") /\ queue[pull[s] - status].id = Mine(s)
  /\ pull[s] <= status => moved[s] = Mine(s)
CopyInv(s) ==
  /\ pull[s] <= csub
  /\ \A i \in 1 .. Len(queue) :
       queue[i].slot = s => queue[i].seq <= pull[s] \/ pull[s] <= 0
  /\ block[s].kind = K_FEXEC => pull[s] > 0 /\ RegsCopied(s)
  /\ block[s].kind \in {K_RESIDENT, K_PUSH} /\ pull[s] > 0 => ChunkCopied(s)

\* What the program posted stays while it waits, and what was done for it was
\* done with that.
DataInv(s) ==
  /\ host[s] \in {"composed", "waiting"} /\ block[s].kind = K_FEXEC =>
       data[s] = Mine(s)
  /\ host[s] = "waiting" => /\ word[s] = SlotWord(block[s].kind, seq[s])
                            /\ block[s].kind \in Kinds
  /\ InHand(s) => CopyInv(s)
  /\ InHand(s) /\ pc[s] = "serve" /\ Id(req[s]) = Mine(s) => req[s] = block[s]
  /\ Answering(s) /\ req[s].kind \in Moving => used[s] = Mine(s)

LEMMA AppendCopy ==
  ASSUME NEW q \in Seq(Copies), NEW c \in Copies
  PROVE  /\ Len(Append(q, c)) = Len(q) + 1
         /\ \A i \in 1 .. Len(q) : Append(q, c)[i] = q[i]
         /\ Append(q, c)[Len(q) + 1] = c
  OBVIOUS

LEMMA TailCopy ==
  ASSUME NEW q \in Seq(Copies), q # <<>>
  PROVE  /\ Len(q) \in Nat /\ Len(q) > 0 /\ Head(q) = q[1]
         /\ Len(Tail(q)) = Len(q) - 1
         /\ \A i \in 1 .. Len(q) - 1 : Tail(q)[i] = q[i + 1]
  OBVIOUS

\* The kind in a word is the kind of the block it was rung with.
LEMMA WordKind ==
  ASSUME NEW k \in Kinds, NEW n \in Nat
  PROVE  SlotWord(k, n) \div SeqMod = k
<1> DEFINE low == n % SeqMod
           w == SlotWord(k, n)
           q == w \div SeqMod
           rest == w % SeqMod
<1>1. /\ k \in Nat /\ SeqMod \in Nat /\ SeqMod > 1
      /\ low \in 0 .. SeqMod - 1
  BY SlotsAssumption DEF SlotsAssumption, Kinds, K_LOAD, K_RESIDENT, K_FEXEC,
     K_FLUSH, K_PUSH
<1>2. w = SeqMod * k + low /\ w \in Nat
  BY <1>1 DEF SlotWord
<1> HIDE DEF low, w
<1>3. q \in Int /\ rest \in 0 .. SeqMod - 1 /\ w = SeqMod * q + rest
  BY <1>1, <1>2
<1> HIDE DEF q, rest
<1>4. PICK d \in Int : d = low - rest /\ d > -SeqMod /\ d < SeqMod
  BY <1>1, <1>3
<1>5. SeqMod * q = SeqMod * k + d
  BY <1>1, <1>2, <1>3, <1>4
<1>6. q = k
  BY <1>1, <1>3, <1>4, <1>5, Multiple
<1> QED BY <1>6 DEF q, w

\* The frame: nothing of the slot, its copies or its data moved.
LEMMA DataFrame ==
  ASSUME NEW s, DataInv(s), Same(s), data'[s] = data[s], used'[s] = used[s],
         pull'[s] = pull[s], UNCHANGED engineVars
  PROVE  DataInv(s)'
<1> USE DEF Same, SameProgram, SameReply, SameWindow, SameWay, SameScan,
   SameProcess,
         SameHistory,
            Handed, Id, Mine, engineVars
<1>1. (InHand(s)' <=> InHand(s)) /\ (Answering(s)' <=> Answering(s))
  BY DEF InHand, Answering
<1>2. CopyInv(s) => CopyInv(s)'
  BY DEF CopyInv, RegsCopied, ChunkCopied, Queued
<1> QED BY <1>1, <1>2 DEF DataInv

LEMMA HostData ==
  ASSUME TypeOK, Orderly, NEW s \in Slots, SlotInv(s), DataInv(s), Host(s)
  PROVE  DataInv(s)'
<1> USE NumbersType DEF Numbers
<1>1. CASE HostOpen(s) \/ HostCompose(s)
  <2>1. ~InHand(s)' /\ ~Answering(s)' /\ host'[s] # "waiting"
    BY <1>1 DEF HostOpen, HostCompose, InHand, Answering, TypeOK, HostType
  <2>2. host'[s] = "composed" /\ block'[s].kind = K_FEXEC =>
          data'[s] = Mine(s)'
    BY <1>1 DEF HostOpen, HostCompose, TypeOK, HostType, WindowType, Mine
  <2> QED BY <2>1, <2>2 DEF DataInv
<1>2. CASE HostRing(s)
  <2>1. ~InHand(s)' /\ ~Answering(s)'
    BY <1>2 DEF HostRing, InHand, Answering, TypeOK, HostType, SlotInv,
       ProgramInv, OrderInv, Unread, Older, Id, Mine, Handing, Handed,
       dispVars, sharedVars, slotVars
  <2>2. block[s].kind \in Kinds
    BY <1>2 DEF HostRing, SlotInv, ProgramInv, TypeOK, WindowType, Blocks
  <2> QED BY <1>2, <2>1, <2>2
      DEF DataInv, HostRing, TypeOK, HostType, WindowType, Mine
<1>3. CASE HostTake(s) \/ HostLeave(s)
  BY <1>3 DEF HostTake, HostLeave, DataInv, InHand, Answering, TypeOK, HostType
<1> QED BY <1>1, <1>2, <1>3 DEF Host

LEMMA WaitingData ==
  ASSUME TypeOK, NEW s \in Slots, SlotInv(s), DataInv(s), Waiting(s)
  PROVE  DataInv(s)'
<1>1. /\ SameProgram(s) /\ SameWindow(s) /\ SameWay(s) /\ SameHistory(s)
      /\ data'[s] = data[s] /\ used'[s] = used[s] /\ pull'[s] = pull[s]
      /\ UNCHANGED engineVars /\ req'[s] = req[s]
  BY DEF Waiting, SlotLook, SlotSpin, SlotRecheck, SlotFutex, SlotUnpark,
     SameProgram, SameReply, SameWindow, SameWay, SameScan, SameHistory,
     hostVars, windowVars, dispVars, sharedVars, historyVars, Ahead, Handing
<1>2. /\ pc'[s] \notin {"serve", "reply2"}
      /\ Handed(s)' \/ pc'[s] = "read" => Handed(s) \/ pc[s] = "read"
  BY DEF Waiting, SlotLook, SlotSpin, SlotRecheck, SlotFutex, SlotUnpark, Goto,
     TypeOK, SlotType, Handed, sharedVars
<1>3. ~Answering(s)' /\ (InHand(s)' => InHand(s))
  BY <1>1, <1>2 DEF Answering, InHand, SameProgram, SameWay, SameScan
<1>4. CopyInv(s) => CopyInv(s)'
  BY <1>1 DEF CopyInv, RegsCopied, ChunkCopied, Queued, engineVars, Mine,
     SameProgram, SameWindow
<1> QED BY <1>1, <1>2, <1>3, <1>4
    DEF DataInv, SameProgram, SameWindow, Mine

LEMMA ReadData ==
  ASSUME TypeOK, NEW s \in Slots, SlotInv(s), DataInv(s), SlotRead(s)
  PROVE  DataInv(s)'
<1>1. /\ SameProgram(s) /\ SameWindow(s) /\ SameWay(s) /\ SameHistory(s)
      /\ data'[s] = data[s] /\ used'[s] = used[s] /\ pull'[s] = pull[s]
      /\ UNCHANGED engineVars /\ req'[s] = block[s]
      /\ pc[s] = "read" /\ pc'[s] = "serve"
  BY DEF SlotRead, Goto, TypeOK, SlotType,
     SameProgram, SameReply, SameWindow, SameWay, SameScan, SameHistory,
     hostVars, windowVars, dispVars, sharedVars, historyVars, Ahead, Handing
<1>2. ~Answering(s)' /\ (InHand(s)' => InHand(s))
  BY <1>1 DEF Answering, InHand, SameProgram, SameWay, SameScan
<1>3. CopyInv(s) => CopyInv(s)'
  BY <1>1 DEF CopyInv, RegsCopied, ChunkCopied, Queued, engineVars, Mine,
     SameProgram, SameWindow
<1> QED BY <1>1, <1>2, <1>3 DEF DataInv, SameProgram, SameWindow, Mine

\* The end of the request in hand: what it was served with is its own, for
\* the engine's copy has landed and no other came after it.
LEMMA ServedOwn ==
  ASSUME TypeOK, NEW s \in Slots, DataInv(s), Serving(s), Answering(s)',
         pc[s] = "serve", host'[s] = host[s], SameProgram(s), req' = req,
         req[s].kind \in Moving
  PROVE  used'[s] = Mine(s)
<1>1. /\ InHand(s) /\ req[s] = block[s] /\ CopyInv(s)
  BY DEF DataInv, InHand, Answering, SameProgram, Id, Mine
<1>2. CASE SlotRun(s)
  <2>1. pull[s] > 0 /\ pull[s] <= status /\ RegsCopied(s)
    BY <1>1, <1>2 DEF CopyInv, SlotRun, Landed
  <2> QED BY <1>2, <2>1 DEF RegsCopied, SlotRun, TypeOK, HistoryType
<1>3. CASE SlotMove(s)
  <2>1. out'[s].ok
    BY DEF Answering
  <2>2. pull[s] # 0
    BY <1>3, <2>1 DEF SlotMove, Finish, TypeOK, SlotType
  <2>3. CASE pull[s] = -1
    BY <1>1, <1>3, <2>3
    DEF SlotMove, TypeOK, HistoryType, Answering, Id, Mine, SameProgram
  <2>4. CASE pull[s] > 0 /\ Landed(s)
    <3>0. pull[s] # 0 /\ pull[s] # -1
      BY <2>4 DEF TypeOK, SharedType
    <3>1. used' = [used EXCEPT ![s] = moved[s]]
      BY <1>3, <3>0 DEF SlotMove
    <3>2. moved[s] = Mine(s)
      BY <1>1, <1>3, <2>4 DEF SlotMove, CopyInv, Landed, ChunkCopied
    <3> QED BY <3>1, <3>2 DEF TypeOK, HistoryType
  <2> QED BY <1>3, <2>2, <2>3, <2>4 DEF SlotMove
<1>4. CASE SlotGiveUp(s)
  BY <1>4 DEF SlotGiveUp, Finish, Answering, TypeOK, SlotType
<1>5. CASE SlotFlush(s) \/ SlotLoad(s)
  <2>1. req[s].kind \in {K_FLUSH, K_LOAD}
    BY <1>5 DEF SlotFlush, SlotLoad
  <2> QED BY <2>1 DEF Moving, K_LOAD, K_FLUSH, K_RESIDENT, K_FEXEC, K_PUSH
<1> QED BY <1>2, <1>3, <1>4, <1>5
    DEF Serving, SlotRead, SlotReply2, SlotReply1

LEMMA ServingData ==
  ASSUME TypeOK, NEW s \in Slots, SlotInv(s), DataInv(s), Serving(s)
  PROVE  DataInv(s)'
<1>1. CASE SlotRead(s)
  BY <1>1, ReadData
<1>2. CASE ~SlotRead(s)
  <2>1. /\ SameProgram(s) /\ word'[s] = word[s] /\ block'[s] = block[s]
        /\ SameWay(s) /\ data'[s] = data[s] /\ pull'[s] = pull[s]
        /\ last'[s] = last[s] /\ req' = req /\ UNCHANGED engineVars
    BY <1>2 DEF Serving, SlotFlush, SlotLoad, SlotRun, SlotMove, SlotGiveUp,
       SlotReply2, SlotReply1, SameProgram, SameWay, SameScan, hostVars,
       windowVars, dispVars, sharedVars, Ahead, Handing
  <2>2. pc[s] # "read" /\ pc'[s] \notin {"read", "serve"}
    BY <1>2 DEF Serving, SlotFlush, SlotLoad, SlotRun, SlotMove, SlotGiveUp,
       SlotReply2, SlotReply1, Finish, Goto, TypeOK, SlotType
  <2>3. InHand(s)' => InHand(s)
    BY <2>1, <2>2 DEF InHand, SameProgram, SameWay, SameScan, Handed
  <2>4. CopyInv(s) => CopyInv(s)'
    BY <2>1 DEF CopyInv, RegsCopied, ChunkCopied, Queued, engineVars, Mine,
       SameProgram
  <2>5. Answering(s)' => pc[s] = "serve"
    BY <1>2 DEF Serving, SlotFlush, SlotLoad, SlotRun, SlotMove, SlotGiveUp,
       SlotReply2, SlotReply1, Goto, TypeOK, SlotType, Answering
  <2>6. Answering(s)' /\ req'[s].kind \in Moving => used'[s] = Mine(s)'
    BY <2>1, <2>5, ServedOwn DEF SameProgram, Mine
  <2> QED BY <2>1, <2>2, <2>3, <2>4, <2>6 DEF DataInv, SameProgram, Mine
<1> QED BY <1>1, <1>2

-----------------------------------------------------------------------------
(* The copies.                                                             *)

\* What a submission does to the ring.
Submitted(s, what, id) ==
  /\ queue' = Append(queue, [seq |-> csub + 1, slot |-> s, what |-> what,
                             id |-> id])
  /\ csub' = csub + 1
  /\ pull' = [pull EXCEPT ![s] = csub + 1]
NotSubmitted(s) == UNCHANGED <<queue, csub>>
                   /\ pull' \in {[pull EXCEPT ![s] = 0],
                                 [pull EXCEPT ![s] = -1]}

LEMMA RingAppend ==
  ASSUME TypeOK, ChannelInv, NEW s \in Slots, NEW id \in Ids,
         NEW what \in {"regs", "chunk", "legacy"}, Submitted(s, what, id)
  PROVE  /\ Len(queue) \in Nat /\ status \in Nat /\ csub \in Nat
         /\ Len(queue') = Len(queue) + 1
         /\ \A i \in 1 .. Len(queue) : queue'[i] = queue[i]
         /\ queue'[Len(queue) + 1].seq = csub + 1
         /\ queue'[Len(queue) + 1].slot = s
         /\ queue'[Len(queue) + 1].what = what
         /\ queue'[Len(queue) + 1].id = id
<1> DEFINE c == [seq |-> csub + 1, slot |-> s, what |-> what, id |-> id]
<1>1. c \in Copies
  BY DEF TypeOK, EngineType, Copies
<1>2. /\ c.seq = csub + 1 /\ c.slot = s /\ c.what = what /\ c.id = id
  OBVIOUS
<1>3. queue' = Append(queue, c) /\ queue \in Seq(Copies)
  BY DEF Submitted, TypeOK, EngineType
<1> HIDE DEF c
<1>4. Len(queue) \in Nat /\ status \in Nat /\ csub \in Nat
  BY DEF TypeOK, EngineType
<1> QED BY <1>1, <1>2, <1>3, <1>4, AppendCopy

LEMMA SubmitChannel ==
  ASSUME TypeOK, ChannelInv, NEW s \in Slots, NEW id \in Ids,
         NEW what \in {"regs", "chunk", "legacy"}, Submitted(s, what, id),
         status' = status, chan' = chan, dpc' # "legacy"
  PROVE  ChannelInv'
<1>0. /\ Len(queue) \in Nat /\ status \in Nat /\ csub \in Nat
      /\ Len(queue') = Len(queue) + 1
      /\ \A i \in 1 .. Len(queue) : queue'[i] = queue[i]
      /\ queue'[Len(queue) + 1].seq = csub + 1
      /\ queue'[Len(queue) + 1].slot = s
  BY RingAppend
<1>1. csub' = status' + Len(queue')
  BY <1>0 DEF ChannelInv, Submitted
<1>2. ASSUME NEW i \in 1 .. Len(queue') PROVE queue'[i].seq = status' + i
  <2>1. CASE i \in 1 .. Len(queue)
    BY <1>0, <2>1 DEF ChannelInv
  <2>2. CASE i = Len(queue) + 1
    BY <1>0, <2>2 DEF ChannelInv
  <2> QED BY <1>0, <2>1, <2>2
<1> QED BY <1>1, <1>2 DEF ChannelInv

\* A submission for another slot leaves the copy of the request in hand.
LEMMA SubmitOther ==
  ASSUME TypeOK, ChannelInv, NEW s \in Slots, NEW t \in Slots, t # s,
         NEW id \in Ids, NEW what \in {"regs", "chunk", "legacy"},
         Submitted(s, what, id), status' = status, landed' = landed,
         moved' = moved, SameProgram(t), SameWindow(t), CopyInv(t)
  PROVE  CopyInv(t)'
<1>0. /\ Len(queue) \in Nat /\ status \in Nat /\ csub \in Nat
      /\ Len(queue') = Len(queue) + 1
      /\ \A i \in 1 .. Len(queue) : queue'[i] = queue[i]
      /\ queue'[Len(queue) + 1].seq = csub + 1
      /\ queue'[Len(queue) + 1].slot = s
  BY RingAppend
<1>1. pull'[t] = pull[t] /\ csub' = csub + 1 /\ pull[t] \in Nat \cup {-1}
  BY DEF Submitted, TypeOK, SharedType
<1>2. pull'[t] <= csub'
  BY <1>0, <1>1 DEF CopyInv
<1>3. ASSUME NEW i \in 1 .. Len(queue'), queue'[i].slot = t
      PROVE  queue'[i].seq <= pull'[t] \/ pull'[t] <= 0
  BY <1>1, <1>0, <1>3 DEF CopyInv
<1>4. pull[t] > status => queue'[pull[t] - status] = queue[pull[t] - status]
  <2>1. pull[t] > status => pull[t] - status \in 1 .. Len(queue)
    BY <1>0, <1>1 DEF CopyInv, ChannelInv
  <2> QED BY <1>0, <2>1
<1> QED BY <1>1, <1>2, <1>3, <1>4
    DEF CopyInv, RegsCopied, ChunkCopied, Queued, SameProgram, SameWindow, Mine

\* The copy submitted for the request being handed over is its own.
LEMMA SubmitOwn ==
  ASSUME TypeOK, ChannelInv, NEW s \in Slots, NEW id \in Ids,
         NEW what \in {"regs", "chunk", "legacy"},
         Submitted(s, what, id), status' = status,
         SameProgram(s), SameWindow(s),
         block[s].kind = K_FEXEC => what = "regs",
         block[s].kind \in {K_RESIDENT, K_PUSH} =>
           what = "chunk" /\ id = Mine(s)
  PROVE  CopyInv(s)'
<1>1. pull'[s] = csub + 1 /\ csub' = csub + 1 /\ csub = status + Len(queue)
  BY DEF Submitted, TypeOK, SharedType, ChannelInv
<1>2. pull'[s] - status' = Len(queue) + 1 /\ pull'[s] > status'
  BY <1>1, RingAppend
<1>3. ASSUME NEW i \in 1 .. Len(queue')
      PROVE  queue'[i].seq <= pull'[s]
  BY SMTT(30), <1>1, <1>3, RingAppend DEF ChannelInv
<1>4. pull'[s] <= csub' /\ pull'[s] > 0 /\ ~(pull'[s] <= status')
  BY <1>1, <1>2, RingAppend
<1> QED BY <1>1, <1>2, <1>3, <1>4, RingAppend
    DEF CopyInv, RegsCopied, ChunkCopied, Queued, SameProgram, SameWindow, Mine

\* No submission: the slot copies for itself or refuses the request.
LEMMA NoSubmitOwn ==
  ASSUME TypeOK, NEW s \in Slots, NotSubmitted(s), SameWindow(s),
         block[s].kind # K_FEXEC
  PROVE  CopyInv(s)'
<1>1. pull'[s] \in {0, -1} /\ csub' \in Nat
  BY DEF NotSubmitted, TypeOK, SharedType, EngineType
<1>2. pull'[s] <= csub' /\ pull'[s] <= 0 /\ ~(pull'[s] > 0)
  BY <1>1
<1> QED BY <1>2 DEF CopyInv, SameWindow

LEMMA NoSubmitOther ==
  ASSUME TypeOK, NEW s \in Slots, NEW t \in Slots, t # s, NotSubmitted(s),
         status' = status, landed' = landed, moved' = moved,
         SameProgram(t), SameWindow(t), CopyInv(t)
  PROVE  CopyInv(t)'
<1>1. pull'[t] = pull[t]
  BY DEF NotSubmitted, TypeOK, SharedType
<1> QED BY <1>1 DEF NotSubmitted, CopyInv, RegsCopied, ChunkCopied, Queued,
        SameProgram, SameWindow, Mine

\* The copy is chosen by the kind in the word, and that is the block's.
LEMMA PrepareData ==
  ASSUME TypeOK, ChannelInv, DispPrepare,
         \A s \in Slots : SlotInv(s) /\ DataInv(s)
  PROVE  ChannelInv' /\ \A s \in Slots : DataInv(s)'
<1>0. PICK s \in Slots : s = dcur
  BY SlotsAssumption DEF DispPrepare, TypeOK, DispType, Slots, SlotsAssumption
<1> DEFINE b == <<block[s].sess, block[s].seq>>
           k == line[s] \div SeqMod
<1>1. /\ dcur = s /\ b \in Ids /\ NoId \in Ids
      /\ dpc' = "job" /\ UNCHANGED <<dcur, status, chan, landed, moved, job>>
      /\ data' = data /\ used' = used
  <2>1. b \in Ids
    BY DEF TypeOK, WindowType, Blocks, Ids
  <2> QED BY <1>0, <2>1, NoIdType, SlotsAssumption
      DEF DispPrepare, windowVars, historyVars
<1>2. \A t \in Slots : SameProgram(t) /\ SameWindow(t) /\ SameProcess(t)
  BY DEF DispPrepare, SameProgram, SameWindow, SameReply, SameHistory,
     SameProcess,
       hostVars, windowVars, slotVars, historyVars
<1>3. host[s] = "waiting" => k = block[s].kind /\ b = Mine(s)
  <2>0. Ahead(s)
    BY <1>1, SlotsAssumption DEF DispPrepare, Ahead, Slots, SlotsAssumption
  <2>1. host[s] = "waiting" => line[s] = SlotWord(block[s].kind, seq[s])
    BY <1>1, <2>0 DEF DispPrepare, SlotInv, WayInv, DataInv
  <2>2. host[s] = "waiting" => block[s].kind \in Kinds /\ b = Mine(s)
    BY <1>1 DEF SlotInv, ProgramInv, DataInv, Id
  <2> QED BY <1>1, <2>1, <2>2, WordKind, NumbersType DEF Numbers
<1>4. \/ k = K_FEXEC /\ Submitted(s, "regs", NoId)
      \/ k \in {K_RESIDENT, K_PUSH} /\ Submitted(s, "chunk", b)
      \/ k # K_FEXEC /\ NotSubmitted(s)
  BY <1>0 DEF DispPrepare, ChannelInv, Submit, NoSubmit, Submitted,
     NotSubmitted,
     K_FEXEC, K_RESIDENT, K_PUSH
<1> HIDE DEF b, k
<1>5. ChannelInv'
  <2>1. CASE NotSubmitted(s)
    BY <1>1, <2>1 DEF ChannelInv, NotSubmitted
  <2>2. CASE Submitted(s, "regs", NoId) \/ Submitted(s, "chunk", b)
    BY <1>1, <2>2, SubmitChannel
  <2> QED BY <1>4, <2>1, <2>2
<1>6. CopyInv(s)' \/ host[s] # "waiting"
  <2> SUFFICES ASSUME host[s] = "waiting" PROVE CopyInv(s)'
    OBVIOUS
  <2>0. /\ SameProgram(s) /\ SameWindow(s)
        /\ block[s].kind = k /\ b = Mine(s) /\ status' = status
    BY <1>1, <1>2, <1>3
  <2>1. CASE k # K_FEXEC /\ NotSubmitted(s)
    BY <2>0, <2>1, NoSubmitOwn
  <2>2. CASE k = K_FEXEC /\ Submitted(s, "regs", NoId)
    <3>1. k \notin {K_RESIDENT, K_PUSH}
      BY <2>2 DEF K_FEXEC, K_RESIDENT, K_PUSH
    <3> QED BY <1>1, <2>0, <2>2, <3>1, SubmitOwn
  <2>3. CASE k \in {K_RESIDENT, K_PUSH} /\ Submitted(s, "chunk", b)
    <3>1. k # K_FEXEC
      BY <2>3 DEF K_FEXEC, K_RESIDENT, K_PUSH
    <3> QED BY <1>1, <2>0, <2>3, <3>1, SubmitOwn
  <2> QED BY <1>4, <2>1, <2>2, <2>3
<1>7. ASSUME NEW t \in Slots, t # s, CopyInv(t) PROVE CopyInv(t)'
  <2>1. CASE NotSubmitted(s)
    BY <1>1, <1>2, <1>7, <2>1, NoSubmitOther
  <2>2. CASE Submitted(s, "regs", NoId) \/ Submitted(s, "chunk", b)
    BY <1>1, <1>2, <1>7, <2>2, SubmitOther
  <2> QED BY <1>4, <2>1, <2>2
<1>8. ASSUME NEW t \in Slots PROVE DataInv(t)'
  <2>1. /\ Answering(t)' <=> Answering(t)
    BY <1>1, <1>2 DEF Answering, SameProgram, SameProcess
  <2>2. t # s /\ InHand(t)' => InHand(t)
    BY <1>1, <1>2
    DEF InHand, Handing, Handed, SameProgram, SameProcess, Id, Mine
  <2>3. InHand(t)' => CopyInv(t)'
    <3>1. CASE t = s
      BY <1>2, <1>6, <3>1 DEF InHand, SameProgram
    <3>2. CASE t # s
      BY <1>7, <2>2, <3>2 DEF DataInv
    <3> QED BY <3>1, <3>2
  <2>4. InHand(t)' /\ pc'[t] = "serve" /\ Id(req'[t]) = Mine(t)' =>
          req'[t] = block'[t]
    BY <1>2 DEF DataInv, InHand, SameProgram, SameWindow, SameProcess, Id, Mine
  <2> QED BY <1>1, <1>2, <2>1, <2>3, <2>4
      DEF DataInv, SameProgram, SameWindow, SameProcess, Mine
<1> QED BY <1>5, <1>8

\* The engine does the oldest copy: of the request in hand when the number is
\* the one its slot waits for, and of an earlier one of that slot, which the
\* slot's own copy will overwrite, when it is not.
LEMMA CopyData ==
  ASSUME TypeOK, ChannelInv, EngineCopy, \A s \in Slots : DataInv(s)
  PROVE  ChannelInv' /\ \A s \in Slots : DataInv(s)'
<1> DEFINE c == Head(queue)
<1>1. /\ queue \in Seq(Copies) /\ queue # <<>> /\ queue' = Tail(queue)
      /\ status \in Nat /\ csub' = csub /\ status' = c.seq /\ chan' = chan
      /\ dpc' = dpc
  BY DEF EngineCopy, TypeOK, EngineType, dispVars
<1>2. /\ Len(queue) \in Nat /\ Len(queue) > 0 /\ c = queue[1]
      /\ Len(queue') = Len(queue) - 1
      /\ \A i \in 1 .. Len(queue) - 1 : queue'[i] = queue[i + 1]
  BY <1>1, TailCopy
<1>3. status' = status + 1 /\ csub = status + Len(queue)
  BY <1>1, <1>2 DEF ChannelInv
<1>4. ChannelInv'
  <2>1. ASSUME NEW i \in 1 .. Len(queue') PROVE queue'[i].seq = status' + i
    <3>1. i + 1 \in 1 .. Len(queue) /\ queue'[i] = queue[i + 1]
      BY <1>2
    <3>2. queue[i + 1].seq = status + (i + 1)
      BY <3>1 DEF ChannelInv
    <3> QED BY <1>1, <1>3, <3>1, <3>2
  <2> QED BY <1>1, <1>2, <1>3, <2>1 DEF ChannelInv
<1>5. ASSUME NEW s \in Slots PROVE DataInv(s)'
  <2>1. /\ Same(s) /\ data'[s] = data[s] /\ used'[s] = used[s]
        /\ pull'[s] = pull[s]
    BY DEF EngineCopy, Same, SameWay, SameScan, SameProgram, SameWindow,
       SameReply, SameHistory, SameProcess, hostVars, windowVars, dispVars,
       sharedVars, slotVars, historyVars, Ahead, Handing
  <2>2. (InHand(s)' <=> InHand(s)) /\ (Answering(s)' <=> Answering(s))
    BY <2>1 DEF InHand, Answering, Same, SameProgram, SameProcess, SameWay,
       SameScan, Handed, Id, Mine
  <2>3. ASSUME InHand(s) PROVE CopyInv(s)'
    <3>1. /\ CopyInv(s) /\ pull[s] \in Nat \cup {-1}
          /\ block[s].kind = K_FEXEC => data[s] = Mine(s)
      BY <2>3 DEF DataInv, InHand, TypeOK, SharedType
    <3>2. pull[s] <= csub
      BY <3>1 DEF CopyInv
    <3>3. ASSUME NEW i \in 1 .. Len(queue'), queue'[i].slot = s
          PROVE  queue'[i].seq <= pull[s] \/ pull[s] <= 0
      <4>1. i + 1 \in 1 .. Len(queue) /\ queue'[i] = queue[i + 1]
        BY <1>2
      <4> QED BY <3>1, <3>3, <4>1 DEF CopyInv
    <3>4. pull[s] > status' => queue'[pull[s] - status'] =
                                 queue[pull[s] - status]
      <4>1. pull[s] > status' => /\ pull[s] - status' \in 1 .. Len(queue) - 1
                                 /\ (pull[s] - status') + 1 = pull[s] - status
        <5>1. status \in Int /\ Len(queue) \in Int /\ pull[s] \in Int
          BY <1>1, <1>2, <3>1
        <5> HIDE DEF c
        <5> QED BY <1>3, <3>2, <5>1
      <4> QED BY <1>2, <4>1
    <3>5. pull[s] > status' => pull[s] > status
      BY <1>1, <1>3, <3>1
    <3>6. pull[s] <= status' => pull[s] <= status \/ pull[s] = status + 1
      BY <1>1, <1>3, <3>1
    <3>7. pull[s] > 0 /\ pull[s] <= status => c.slot # s
      <4>1. c.slot = s => c.seq <= pull[s] \/ pull[s] <= 0
        BY <1>2, <3>1 DEF CopyInv
      <4> QED BY <1>1, <1>3, <3>1, <4>1
    <3>8. pull[s] = status + 1 => pull[s] > status /\ pull[s] - status = 1
      BY <1>1
    <3>9. block[s].kind = K_FEXEC => pull[s] > 0 /\ RegsCopied(s)'
      <4>1. CASE pull[s] <= status
        BY <1>2, <2>1, <3>1, <3>5, <3>6, <3>7, <4>1
        DEF CopyInv, RegsCopied, EngineCopy, TypeOK, EngineType, Same,
            SameProgram, Mine
      <4>2. CASE pull[s] = status + 1
        <5>1. block[s].kind = K_FEXEC => c.slot = s /\ c.what = "regs"
          BY <1>2, <3>1, <3>8, <4>2 DEF CopyInv, RegsCopied, Queued
        <5>2. block[s].kind = K_FEXEC => landed'[s] = Mine(s)
          BY <3>1, <5>1 DEF EngineCopy, TypeOK, EngineType
        <5> QED BY <1>3, <2>1, <3>1, <3>5, <4>2, <5>2
            DEF CopyInv, RegsCopied, Same, SameProgram, Mine, Queued
      <4>3. CASE pull[s] > status'
        BY SMTT(30), <1>1, <1>3, <2>1, <3>1, <3>4, <3>5, <4>3
        DEF CopyInv, RegsCopied, Queued
      <4> QED BY <1>1, <1>3, <3>1, <3>6, <4>1, <4>2, <4>3
    <3>10. block[s].kind \in {K_RESIDENT, K_PUSH} /\ pull[s] > 0 =>
             ChunkCopied(s)'
      <4> DEFINE Chunk == block[s].kind \in {K_RESIDENT, K_PUSH} /\ pull[s] > 0
      <4>1. CASE pull[s] <= status
        BY <1>2, <2>1, <3>1, <3>5, <3>6, <3>7, <4>1
        DEF CopyInv, ChunkCopied, EngineCopy, TypeOK, EngineType, Same,
            SameProgram, Mine
      <4>2. CASE pull[s] = status + 1
        <5>1. Chunk => c.slot = s /\ c.what = "chunk" /\ c.id = Mine(s)
          BY <1>2, <3>1, <3>8, <4>2 DEF CopyInv, ChunkCopied, Queued
        <5>2. Chunk => moved'[s] = Mine(s)
          BY <3>1, <5>1 DEF EngineCopy, TypeOK, EngineType
        <5> QED BY <1>3, <2>1, <3>1, <3>5, <4>2, <5>2
            DEF CopyInv, ChunkCopied, Same, SameProgram, Mine, Queued
      <4>3. CASE pull[s] > status'
        <5>1. Chunk => /\ Queued(s, "chunk")
                       /\ queue[pull[s] - status].id = Mine(s)
          BY <3>1, <3>5, <4>3 DEF CopyInv, ChunkCopied
        <5>2. Chunk => /\ Queued(s, "chunk")'
                       /\ queue'[pull'[s] - status'].id = Mine(s)'
          BY <2>1, <3>4, <4>3, <5>1 DEF Queued, Same, SameProgram, Mine
        <5>3. ~(pull[s] <= status')
          BY <1>1, <1>3, <3>1, <4>3
        <5> QED BY <2>1, <5>2, <5>3 DEF ChunkCopied
      <4> QED BY <1>1, <1>3, <3>1, <3>6, <4>1, <4>2, <4>3
    <3> QED BY <1>1, <2>1, <3>2, <3>3, <3>9, <3>10
        DEF CopyInv, Same, SameWindow
  <2> QED BY <2>1, <2>2, <2>3
      DEF DataInv, Same, SameProgram, SameWindow, SameProcess, Mine
<1> QED BY <1>4, <1>5

EngineInv == ChannelInv /\ \A s \in Slots : DataInv(s)

\* The slots' and programs' own actions leave the channel alone, and each
\* other's data.
LEMMA OthersData ==
  ASSUME TypeOK, NEW s \in Slots, NEW t \in Slots, t # s, DataInv(t),
         Host(s) \/ Waiting(s) \/ Serving(s)
  PROVE  DataInv(t)'
<1>1. Same(t)
  BY OthersSame
<1>2. /\ data'[t] = data[t] /\ used'[t] = used[t] /\ pull'[t] = pull[t]
      /\ UNCHANGED engineVars
  <2> USE DEF hostVars, windowVars, dispVars, sharedVars, slotVars, historyVars
  <2>1. CASE Host(s)
    BY <2>1 DEF Host, HostOpen, HostCompose, HostRing, HostTake, HostLeave,
       TypeOK, WindowType
  <2>2. CASE Waiting(s)
    BY <2>2 DEF Waiting, SlotLook, SlotSpin, SlotRecheck, SlotFutex, SlotUnpark
  <2>3. CASE Serving(s)
    BY <2>3 DEF Serving, SlotRead, SlotFlush, SlotLoad, SlotRun, SlotMove,
       SlotGiveUp, SlotReply2, SlotReply1, TypeOK, HistoryType
  <2> QED BY <2>1, <2>2, <2>3
<1> QED BY <1>1, <1>2, DataFrame

\* The dispatcher's actions other than DispPrepare: a request in hand was in
\* hand before.
LEMMA DispatchData ==
  ASSUME TypeOK, NEW s \in Slots, DataInv(s),
         DispPoll \/ DispPass \/ DispJob \/ DispWake \/ DispScanned
           \/ DispAwake
  PROVE  DataInv(s)'
<1> USE DEF hostVars, windowVars, dispVars, sharedVars, slotVars, historyVars,
            engineVars
<1>1. /\ SameProgram(s) /\ SameWindow(s) /\ data' = data /\ used' = used
      /\ pull' = pull /\ UNCHANGED engineVars
      /\ last' = last /\ req' = req /\ out' = out
  BY DEF DispPoll, DispPass, DispJob, DispWake, DispScanned, DispAwake,
     SameProgram, SameWindow, SameReply
<1>2. InHand(s)' => InHand(s)
  <2>1. CASE DispJob
    BY <1>1, <2>1 DEF DispJob, InHand, Handing, Handed, SameProgram, Id, Mine,
       TypeOK, SharedType
  <2>2. CASE DispWake
    BY <1>1, <2>2 DEF DispWake, InHand, Handing, Handed, SameProgram, Id, Mine,
       TypeOK, SlotType
  <2>3. CASE DispPoll \/ DispPass \/ DispScanned \/ DispAwake
    BY <1>1, <2>3 DEF DispPoll, DispPass, DispScanned, DispAwake,
       InHand, Handing, Handed, SameProgram, Id, Mine
  <2> QED BY <2>1, <2>2, <2>3
<1>3. pc'[s] \in {"serve", "reply2"} => pc'[s] = pc[s]
  BY DEF DispPoll, DispPass, DispJob, DispWake, DispScanned, DispAwake,
     TypeOK, SlotType
<1>4. Answering(s)' => Answering(s)
  BY <1>1, <1>3 DEF Answering, SameProgram
<1>5. CopyInv(s) => CopyInv(s)'
  BY <1>1 DEF CopyInv, RegsCopied, ChunkCopied, Queued, Mine, SameProgram,
     SameWindow
<1> QED BY <1>1, <1>2, <1>3, <1>4, <1>5
    DEF DataInv, SameProgram, SameWindow, Mine, InHand, Id

LEMMA RestartData ==
  ASSUME TypeOK, NEW s \in Slots, DataInv(s), WorkerRestart
  PROVE  DataInv(s)'
<1>1. ~InHand(s)' /\ ~Answering(s)'
  BY DEF WorkerRestart, InHand, Handing, Handed, Answering
<1> QED BY <1>1 DEF DataInv, WorkerRestart, Mine, hostVars, windowVars

\* The channel stays open and its numbers in a row.
LEMMA ChannelStep ==
  ASSUME Quiet, Inv, EngineInv, [Next]_vars PROVE ChannelInv'
<1>1. TypeOK /\ ChannelInv /\ dpc # "legacy"
  BY DEF Inv, EngineInv, ChannelInv
<1>2. ASSUME UNCHANGED engineVars, dpc' # "legacy" PROVE ChannelInv'
  BY <1>1, <1>2 DEF ChannelInv, engineVars
<1>3. ASSUME NEW s \in Slots, Host(s) \/ Waiting(s) \/ Serving(s)
      PROVE  ChannelInv'
  <2>1. UNCHANGED engineVars /\ dpc' = dpc
    BY <1>3 DEF Host, HostOpen, HostCompose, HostRing, HostTake, HostLeave,
       Waiting, SlotLook, SlotSpin, SlotRecheck, SlotFutex, SlotUnpark,
       Serving, SlotRead, SlotFlush, SlotLoad, SlotRun, SlotMove, SlotGiveUp,
       SlotReply2, SlotReply1, dispVars
  <2> QED BY <1>1, <1>2, <2>1
<1>4. CASE DispPrepare
  BY <1>1, <1>4, PrepareData DEF Inv, EngineInv
<1>5. CASE \/ DispPoll \/ DispPass \/ DispJob \/ DispWake \/ DispScanned
           \/ DispAwake
  BY <1>1, <1>2, <1>5 DEF DispPoll, DispPass, DispJob, DispWake, DispScanned,
     DispAwake
<1>6. ~DispLegacy
  BY <1>1, SlotsAssumption
  DEF DispLegacy, Quiet, TypeOK, DispType, SlotsAssumption
<1>7. ~DispLegacyDone
  BY <1>1 DEF DispLegacyDone
<1>8. CASE EngineCopy
  BY <1>1, <1>8, CopyData DEF EngineInv
<1>9. CASE WorkerRestart
  BY <1>9 DEF WorkerRestart, ChannelInv
<1>10. CASE UNCHANGED vars
  BY <1>1, <1>2, <1>10 DEF vars, dispVars
<1> QED BY <1>3, <1>4, <1>5, <1>6, <1>7, <1>8, <1>9, <1>10
    DEF Next, Dispatcher

LEMMA DataStep ==
  ASSUME Quiet, Inv, EngineInv, [Next]_vars, NEW s \in Slots
  PROVE  DataInv(s)'
<1>1. /\ TypeOK /\ Orderly /\ SlotInv(s) /\ DataInv(s) /\ ChannelInv
      /\ dpc # "legacy"
  BY DEF Inv, EngineInv, ChannelInv, Quiet
<1>2. ASSUME NEW t \in Slots, Host(t) \/ Waiting(t) \/ Serving(t)
      PROVE  DataInv(s)'
  <2>1. CASE t = s
    BY <1>1, <1>2, <2>1, HostData, WaitingData, ServingData
  <2>2. CASE t # s
    BY <1>1, <1>2, <2>2, OthersData
  <2> QED BY <2>1, <2>2
<1>3. CASE DispPrepare
  BY <1>1, <1>3, PrepareData DEF Inv, EngineInv
<1>4. CASE \/ DispPoll \/ DispPass \/ DispJob \/ DispWake \/ DispScanned
           \/ DispAwake
  BY <1>1, <1>4, DispatchData
<1>5. ~DispLegacy
  BY <1>1, SlotsAssumption
  DEF DispLegacy, Quiet, TypeOK, DispType, SlotsAssumption
<1>6. ~DispLegacyDone
  BY <1>1 DEF DispLegacyDone
<1>7. CASE EngineCopy
  BY <1>1, <1>7, CopyData DEF EngineInv
<1>8. CASE WorkerRestart
  BY <1>1, <1>8, RestartData
<1>9. CASE UNCHANGED vars
  <2>1. /\ Same(s) /\ data'[s] = data[s] /\ used'[s] = used[s]
        /\ pull'[s] = pull[s] /\ UNCHANGED engineVars
    BY <1>9 DEF vars, Same, SameWay, SameScan, SameProgram, SameWindow,
       SameReply, SameHistory, SameProcess, hostVars, windowVars, dispVars,
       sharedVars, slotVars, historyVars, Ahead, Handing
  <2> QED BY <1>1, <2>1, DataFrame
<1> QED BY <1>2, <1>3, <1>4, <1>5, <1>6, <1>7, <1>8, <1>9
    DEF Next, Dispatcher

\* What a slot computed or moved for the request it answers is that request's
\* own data, whatever copies of other slots and of abandoned requests are in
\* the ring before its own, as long as the channel is up and no legacy
\* request lands in slot 0's part.
THEOREM DataAreOwn == ASSUME Quiet PROVE Spec => []OwnData
<1>1. Init => EngineInv
  <2>1. Init => ChannelInv
    BY DEF Init, ChannelInv
  <2>2. ASSUME Init, NEW s \in Slots PROVE DataInv(s)
    BY <2>2 DEF Init, DataInv, InHand, Answering
  <2> QED BY <2>1, <2>2 DEF EngineInv
<1>2. Inv /\ EngineInv /\ [Next]_vars => EngineInv'
  BY ChannelStep, DataStep DEF EngineInv
<1>3. EngineInv => OwnData
  BY DEF EngineInv, DataInv, OwnData, Mine
<1>4. Spec => []Inv
  BY Inductive DEF Quiet
<1> QED BY <1>1, <1>2, <1>3, <1>4, PTL DEF Spec
=============================================================================
