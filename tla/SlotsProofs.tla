---------------------------- MODULE SlotsProofs ----------------------------
(***************************************************************************)
(* Proofs about Slots for any number of slots, seeds, sessions, requests   *)
(* and restarts, any ring of the engine and any environment.               *)
(*                                                                         *)
(* Typing is proved action by action, each group of TypeOK's variables in  *)
(* a step of its own.  NoLostWake is inductive together with TypeOK: its   *)
(* first conjunct (the flag is up from before the second look to the       *)
(* sleep) is what makes DispWake's look at the flag find it up whenever    *)
(* the slot it handed a job to is asleep.                                  *)
(***************************************************************************)
EXTENDS Slots, TLAPS

\* What the reply built by a slot process, and the record of its service,
\* look like (sched.S, the end of sched_main's loop).
LEMMA FinishType ==
  ASSUME SlotsAssumption, SlotType, HistoryType, NEW s \in Slots,
         NEW ok \in BOOLEAN, Finish(s, ok)
  PROVE  /\ out' \in [Slots -> Replies]
         /\ served' \in [Slots -> Ids]
         /\ pc' \in [Slots -> {"look", "spun", "recheck", "wait", "asleep",
                               "unpark", "read", "serve", "reply2", "reply1"}]
  BY DEF SlotsAssumption, SlotType, HistoryType, Finish, Goto, Blocks, Replies,
         Ids

\* A copy submitted is a copy: cdma_submit writes a whole descriptor line.
LEMMA SubmitType ==
  ASSUME SlotsAssumption, SharedType, EngineType, NEW s \in Slots,
         NEW what \in {"regs", "chunk", "legacy"}, NEW id \in Ids,
         Submit(s, what, id)
  PROVE  /\ queue' \in Seq(Copies)
         /\ csub' \in Nat
         /\ pull' \in [Slots -> Nat \cup {-1}]
<1> DEFINE copy == [seq |-> csub + 1, slot |-> s, what |-> what, id |-> id]
<1>1. copy \in Copies
  BY DEF EngineType, Copies
<1>2. CASE chan
  <2>1. /\ queue' = Append(queue, copy)
        /\ csub' = csub + 1
        /\ pull' = [pull EXCEPT ![s] = csub + 1]
    BY <1>2 DEF Submit
  <2> HIDE DEF copy
  <2>2. Append(queue, copy) \in Seq(Copies)
    BY <1>1 DEF EngineType
  <2> QED BY <2>1, <2>2 DEF EngineType, SharedType
<1>3. CASE ~chan
  BY <1>3 DEF EngineType, SharedType, Submit
<1> QED BY <1>2, <1>3

\* The registers of nobody are a legal content of the landing area.
LEMMA NoIdType == SlotsAssumption => NoId \in Ids
  BY DEF SlotsAssumption, NoId, Ids

\* Every action of the program, the dispatcher, the engine and the slot
\* process keeps the types, the scan's place in the line included: a job is
\* handed over at a slot that exists.
LEMMA TypeStep == TypeOK /\ [Next]_vars => TypeOK'
<1> SUFFICES ASSUME TypeOK, [Next]_vars PROVE TypeOK'
  OBVIOUS
<1> USE SlotsAssumption
<1>1. ASSUME NEW s \in Slots, HostOpen(s) PROVE TypeOK'
  <2>1. HostType'
    BY <1>1 DEF TypeOK, HostType, WindowType, HostOpen
  <2>2. WindowType'
    <3>1. [rep1[s] EXCEPT !.seq = 0] \in Replies
      BY DEF TypeOK, WindowType, Replies
    <3>2. rep1' = [rep1 EXCEPT ![s] = [rep1[s] EXCEPT !.seq = 0]]
      BY <1>1 DEF HostOpen
    <3> QED BY <1>1, <3>1, <3>2 DEF TypeOK, WindowType, HostOpen
  <2>3. DispType' /\ SharedType' /\ EngineType' /\ SlotType' /\ HistoryType'
    BY <1>1 DEF TypeOK, DispType, SharedType, EngineType, SlotType,
        HistoryType, HostOpen,
              dispVars, sharedVars, engineVars, slotVars, historyVars
  <2> QED BY <2>1, <2>2, <2>3 DEF TypeOK
<1>2. ASSUME NEW s \in Slots, HostCompose(s) PROVE TypeOK'
  <2>1. HostType'
    BY <1>2 DEF TypeOK, HostType, WindowType, HostCompose
  <2>2. WindowType'
    BY <1>2 DEF TypeOK, HostType, WindowType, HostCompose, Blocks, Replies,
        Ids, KindsAt, Kinds, K_LOAD, K_FLUSH, K_RESIDENT, K_FEXEC, K_PUSH
  <2>3. DispType' /\ SharedType' /\ EngineType' /\ SlotType' /\ HistoryType'
    BY <1>2 DEF TypeOK, DispType, SharedType, EngineType, SlotType,
        HistoryType, HostCompose,
              dispVars, sharedVars, engineVars, slotVars, historyVars
  <2> QED BY <2>1, <2>2, <2>3 DEF TypeOK
<1>3. ASSUME NEW s \in Slots, HostRing(s) PROVE TypeOK'
  <2>1. HostType'
    BY <1>3 DEF TypeOK, HostType, WindowType, HostRing
  <2>2. WindowType'
    BY <1>3 DEF TypeOK, HostType, WindowType, HostRing, SlotWord, Blocks,
        Kinds, K_LOAD, K_RESIDENT, K_FEXEC, K_FLUSH, K_PUSH
  <2>3. HistoryType'
    BY <1>3 DEF TypeOK, HistoryType, HostType, WindowType, HostRing, Ids,
        Blocks
  <2>4. DispType' /\ SharedType' /\ EngineType' /\ SlotType'
    BY <1>3 DEF TypeOK, DispType, SharedType, EngineType, SlotType, HostRing,
              dispVars, sharedVars, engineVars, slotVars
  <2> QED BY <2>1, <2>2, <2>3, <2>4 DEF TypeOK
<1>4. ASSUME NEW s \in Slots, HostTake(s) PROVE TypeOK'
  <2>1. HostType'
    BY <1>4 DEF TypeOK, HostType, HostTake
  <2>2. WindowType' /\ DispType' /\ SharedType' /\ EngineType'
          /\ SlotType' /\ HistoryType'
    BY <1>4 DEF TypeOK, WindowType, DispType, SharedType, EngineType,
        SlotType, HistoryType, HostTake,
              windowVars, dispVars, sharedVars, engineVars, slotVars,
              historyVars
  <2> QED BY <2>1, <2>2 DEF TypeOK
<1>5. ASSUME NEW s \in Slots, HostLeave(s) PROVE TypeOK'
  <2>1. HostType'
    BY <1>5 DEF TypeOK, HostType, HostLeave
  <2>2. WindowType' /\ DispType' /\ SharedType' /\ EngineType'
          /\ SlotType' /\ HistoryType'
    BY <1>5 DEF TypeOK, WindowType, DispType, SharedType, EngineType,
        SlotType, HistoryType, HostLeave,
              windowVars, dispVars, sharedVars, engineVars, slotVars,
              historyVars
  <2> QED BY <2>1, <2>2 DEF TypeOK
<1>6. ASSUME NEW s \in Slots, SlotLook(s) PROVE TypeOK'
  <2>1. SlotType'
    <3>1. CASE job[s] # last[s]
      BY <1>6, <3>1 DEF TypeOK, SlotType, SharedType, SlotLook, Goto
    <3>2. CASE job[s] = last[s]
      BY <1>6, <3>2 DEF TypeOK, SlotType, SlotLook, Goto
    <3> QED BY <3>1, <3>2
  <2>2. HostType' /\ WindowType' /\ DispType' /\ SharedType'
          /\ EngineType' /\ HistoryType'
    BY <1>6 DEF TypeOK, HostType, WindowType, DispType, SharedType,
        EngineType, HistoryType, SlotLook, Goto,
              hostVars, windowVars, dispVars, sharedVars, engineVars,
              historyVars
  <2> QED BY <2>1, <2>2 DEF TypeOK
<1>7. ASSUME NEW s \in Slots, SlotSpin(s) PROVE TypeOK'
  <2>1. SlotType'
    BY <1>7 DEF TypeOK, SlotType, SlotSpin, Goto, Blocks, Replies
  <2>2. SharedType'
    BY <1>7 DEF TypeOK, SharedType, SlotSpin, Goto
  <2>3. HostType' /\ WindowType' /\ DispType' /\ EngineType' /\ HistoryType'
    BY <1>7 DEF TypeOK, HostType, WindowType, DispType, EngineType,
        HistoryType, SlotSpin, Goto,
              hostVars, windowVars, dispVars, engineVars, historyVars
  <2> QED BY <2>1, <2>2, <2>3 DEF TypeOK
<1>8. ASSUME NEW s \in Slots, SlotRecheck(s) PROVE TypeOK'
  <2>1. SlotType'
    BY <1>8 DEF TypeOK, SlotType, SlotRecheck, Goto, Blocks, Replies
  <2>2. HostType' /\ WindowType' /\ DispType' /\ SharedType'
          /\ EngineType' /\ HistoryType'
    BY <1>8 DEF TypeOK, HostType, WindowType, DispType, SharedType,
        EngineType, HistoryType, SlotRecheck, Goto,
              hostVars, windowVars, dispVars, sharedVars, engineVars,
              historyVars
  <2> QED BY <2>1, <2>2 DEF TypeOK
<1>9. ASSUME NEW s \in Slots, SlotFutex(s) PROVE TypeOK'
  <2>1. SlotType'
    BY <1>9 DEF TypeOK, SlotType, SlotFutex, Goto, Blocks, Replies
  <2>2. HostType' /\ WindowType' /\ DispType' /\ SharedType'
          /\ EngineType' /\ HistoryType'
    BY <1>9 DEF TypeOK, HostType, WindowType, DispType, SharedType,
        EngineType, HistoryType, SlotFutex, Goto,
              hostVars, windowVars, dispVars, sharedVars, engineVars,
              historyVars
  <2> QED BY <2>1, <2>2 DEF TypeOK
<1>10. ASSUME NEW s \in Slots, SlotUnpark(s) PROVE TypeOK'
  <2>1. SlotType'
    BY <1>10 DEF TypeOK, SlotType, SlotUnpark, Goto, Blocks, Replies
  <2>2. SharedType'
    BY <1>10 DEF TypeOK, SharedType, SlotUnpark, Goto
  <2>3. HostType' /\ WindowType' /\ DispType' /\ EngineType' /\ HistoryType'
    BY <1>10 DEF TypeOK, HostType, WindowType, DispType, EngineType,
        HistoryType, SlotUnpark, Goto,
              hostVars, windowVars, dispVars, engineVars, historyVars
  <2> QED BY <2>1, <2>2, <2>3 DEF TypeOK
<1>11. ASSUME NEW s \in Slots, SlotRead(s) PROVE TypeOK'
  <2>1. SlotType'
    BY <1>11 DEF TypeOK, SlotType, WindowType, SlotRead, Goto, Blocks, Replies
  <2>2. HostType' /\ WindowType' /\ DispType' /\ SharedType'
          /\ EngineType' /\ HistoryType'
    BY <1>11 DEF TypeOK, HostType, WindowType, DispType, SharedType,
        EngineType, HistoryType, SlotRead, Goto,
              hostVars, windowVars, dispVars, sharedVars, engineVars,
              historyVars
  <2> QED BY <2>1, <2>2 DEF TypeOK
<1>12. ASSUME NEW s \in Slots, SlotFlush(s) PROVE TypeOK'
  <2>1. SlotType'
    BY <1>12 DEF TypeOK, EngineType, SlotType, WindowType, SlotFlush, Goto,
        Finish, Blocks, Replies
  <2>2. HistoryType'
    BY <1>12 DEF TypeOK, EngineType, HistoryType, SlotType, WindowType,
        SlotFlush, Goto, Finish, Ids, Blocks
  <2>3. HostType' /\ WindowType' /\ DispType' /\ SharedType' /\ EngineType'
    BY <1>12 DEF TypeOK, HostType, WindowType, DispType, SharedType,
        EngineType, SlotFlush, Goto, Finish,
              hostVars, windowVars, dispVars, sharedVars, engineVars
  <2> QED BY <2>1, <2>2, <2>3 DEF TypeOK
<1>13. ASSUME NEW s \in Slots, SlotLoad(s) PROVE TypeOK'
  <2>1. SlotType'
    <3>1. PICK ok \in BOOLEAN :
            /\ blobs' = IF ok THEN [blobs EXCEPT ![s] = @ \cup {req[s].sess}]
                        ELSE blobs
            /\ Finish(s, ok)
      BY <1>13 DEF SlotLoad
    <3>2. out' \in [Slots -> Replies] /\ pc' \in [Slots -> {"look", "spun",
            "recheck", "wait", "asleep", "unpark", "read", "serve", "reply2",
            "reply1"}]
      BY <3>1, FinishType DEF TypeOK
    <3>3. blobs' \in [Slots -> SUBSET (0 .. MaxSess)]
      BY <3>1 DEF TypeOK, SlotType, Blocks
    <3> QED BY <1>13, <3>2, <3>3 DEF TypeOK, SlotType, SlotLoad
  <2>2. HistoryType'
    <3>1. PICK ok \in BOOLEAN : Finish(s, ok)
      BY <1>13 DEF SlotLoad
    <3>2. served' \in [Slots -> Ids]
      BY <3>1, FinishType DEF TypeOK
    <3> QED BY <1>13, <3>2 DEF TypeOK, HistoryType, SlotLoad
  <2>3. HostType' /\ WindowType' /\ DispType' /\ SharedType' /\ EngineType'
    BY <1>13 DEF TypeOK, HostType, WindowType, DispType, SharedType,
        EngineType, SlotLoad, Goto, Finish,
              hostVars, windowVars, dispVars, sharedVars, engineVars
  <2> QED BY <2>1, <2>2, <2>3 DEF TypeOK
<1>14. ASSUME NEW s \in Slots, SlotRun(s) PROVE TypeOK'
  <2>1. SlotType'
    BY SMTT(30), <1>14 DEF TypeOK, EngineType, SlotType, WindowType, SlotRun,
       Goto,
        Finish, Blocks, Replies
  <2>2. HistoryType'
    <3>1. PICK ok \in BOOLEAN : Finish(s, ok)
      BY <1>14 DEF SlotRun
    <3>2. served' \in [Slots -> Ids]
      BY <3>1, FinishType DEF TypeOK
    <3>3. used' \in [Slots -> Ids]
      BY <1>14 DEF TypeOK, HistoryType, EngineType, SlotRun
    <3> QED BY <1>14, <3>2, <3>3 DEF TypeOK, HistoryType, SlotRun
  <2>3. HostType' /\ WindowType' /\ DispType' /\ SharedType' /\ EngineType'
    BY <1>14 DEF TypeOK, HostType, WindowType, DispType, SharedType,
        EngineType, SlotRun, Goto, Finish,
              hostVars, windowVars, dispVars, sharedVars, engineVars
  <2> QED BY <2>1, <2>2, <2>3 DEF TypeOK
<1>15. ASSUME NEW s \in Slots, SlotMove(s) PROVE TypeOK'
  <2>1. SlotType'
    <3>1. PICK ok \in BOOLEAN : Finish(s, ok)
      BY <1>15 DEF SlotMove
    <3>2. out' \in [Slots -> Replies] /\ pc' \in [Slots -> {"look", "spun",
            "recheck", "wait", "asleep", "unpark", "read", "serve", "reply2",
            "reply1"}]
      BY <3>1, FinishType DEF TypeOK
    <3> QED BY <1>15, <3>2 DEF TypeOK, SlotType, SlotMove
  <2>2. HistoryType'
    <3>1. PICK ok \in BOOLEAN : Finish(s, ok)
      BY <1>15 DEF SlotMove
    <3>2. served' \in [Slots -> Ids]
      BY <3>1, FinishType DEF TypeOK
    <3>3. <<block[s].sess, block[s].seq>> \in Ids
      BY DEF TypeOK, WindowType, Blocks, Ids
    <3>4. used' \in [Slots -> Ids]
      <4>1. \/ used' = used
            \/ used' = [used EXCEPT ![s] = <<block[s].sess, block[s].seq>>]
            \/ used' = [used EXCEPT ![s] = moved[s]]
        BY <1>15 DEF SlotMove
      <4>2. used \in [Slots -> Ids] /\ moved[s] \in Ids
        BY DEF TypeOK, HistoryType, EngineType
      <4> QED BY <3>3, <4>1, <4>2
    <3> QED BY <1>15, <3>2, <3>4 DEF TypeOK, HistoryType, SlotMove
  <2>3. HostType' /\ WindowType' /\ DispType' /\ SharedType' /\ EngineType'
    BY <1>15 DEF TypeOK, HostType, WindowType, DispType, SharedType,
        EngineType, SlotMove, Goto, Finish,
              hostVars, windowVars, dispVars, sharedVars, engineVars
  <2> QED BY <2>1, <2>2, <2>3 DEF TypeOK
<1>16. ASSUME NEW s \in Slots, SlotGiveUp(s) PROVE TypeOK'
  <2>1. SlotType'
    BY <1>16 DEF TypeOK, EngineType, SlotType, WindowType, SlotGiveUp, Goto,
        Finish, Blocks, Replies
  <2>2. HistoryType'
    BY <1>16 DEF TypeOK, EngineType, HistoryType, SlotType, WindowType,
        SlotGiveUp, Goto, Finish, Ids, Blocks
  <2>3. HostType' /\ WindowType' /\ DispType' /\ SharedType' /\ EngineType'
    BY <1>16 DEF TypeOK, HostType, WindowType, DispType, SharedType,
        EngineType, SlotGiveUp, Goto, Finish,
              hostVars, windowVars, dispVars, sharedVars, engineVars
  <2> QED BY <2>1, <2>2, <2>3 DEF TypeOK
<1>17. ASSUME NEW s \in Slots, SlotReply2(s) PROVE TypeOK'
  <2>1. SlotType'
    BY <1>17 DEF TypeOK, SlotType, WindowType, SlotReply2, Goto, Blocks,
        Replies
  <2>2. WindowType'
    BY <1>17 DEF TypeOK, SlotType, WindowType, SlotReply2, Goto, Blocks,
        Replies, Ids
  <2>3. HostType' /\ DispType' /\ SharedType' /\ EngineType' /\ HistoryType'
    BY <1>17 DEF TypeOK, HostType, DispType, SharedType, EngineType,
        HistoryType, SlotReply2, Goto,
              hostVars, dispVars, sharedVars, engineVars, historyVars
  <2> QED BY <2>1, <2>2, <2>3 DEF TypeOK
<1>18. ASSUME NEW s \in Slots, SlotReply1(s) PROVE TypeOK'
  <2>1. SlotType'
    BY <1>18 DEF TypeOK, SlotType, WindowType, SlotReply1, Goto
  <2>2. WindowType'
    BY <1>18 DEF TypeOK, SlotType, WindowType, SlotReply1, Goto, Blocks,
        Replies, Ids
  <2>3. HostType' /\ DispType' /\ SharedType' /\ EngineType' /\ HistoryType'
    BY <1>18 DEF TypeOK, HostType, DispType, SharedType, EngineType,
        HistoryType, SlotReply1, Goto,
              hostVars, dispVars, sharedVars, engineVars, historyVars
  <2> QED BY <2>1, <2>2, <2>3 DEF TypeOK
<1>19. ASSUME DispPoll PROVE TypeOK'
  <2>1. DispType'
    BY <1>19 DEF TypeOK, DispType, WindowType, DispPoll, Slots
  <2>2. HostType' /\ WindowType' /\ SharedType' /\ EngineType'
          /\ SlotType' /\ HistoryType'
    BY <1>19 DEF TypeOK, HostType, WindowType, SharedType, EngineType,
        SlotType, HistoryType, DispPoll,
              hostVars, windowVars, sharedVars, engineVars, slotVars,
              historyVars
  <2> QED BY <2>1, <2>2 DEF TypeOK
<1>20. ASSUME DispPass PROVE TypeOK'
  <2>1. DispType'
    BY <1>20 DEF TypeOK, DispType, DispPass, Slots
  <2>2. HostType' /\ WindowType' /\ SharedType' /\ EngineType'
          /\ SlotType' /\ HistoryType'
    BY <1>20 DEF TypeOK, HostType, WindowType, SharedType, EngineType,
        SlotType, HistoryType, DispPass,
              hostVars, windowVars, sharedVars, engineVars, slotVars,
              historyVars
  <2> QED BY <2>1, <2>2 DEF TypeOK
<1>21. ASSUME DispPrepare PROVE TypeOK'
  <2>1. DispType'
    BY <1>21 DEF TypeOK, DispType, DispPrepare, Slots
  <2>2. SharedType'
    <3>1. dcur \in Slots
      BY <1>21 DEF TypeOK, DispType, DispPrepare, Slots
    <3>2. <<block[dcur].sess, block[dcur].seq>> \in Ids
      BY <3>1 DEF TypeOK, WindowType, Blocks, Ids
    <3>3. \/ \E what \in {"regs", "chunk", "legacy"}, id \in Ids :
               Submit(dcur, what, id)
          \/ \E code \in {-1, 0} : NoSubmit(dcur, code)
      BY <1>21, <3>2, NoIdType DEF DispPrepare
    <3>4. pull' \in [Slots -> Nat \cup {-1}]
      BY <3>1, <3>3, SubmitType DEF TypeOK, SharedType, NoSubmit
    <3> QED BY <1>21, <3>4 DEF TypeOK, SharedType, DispPrepare
  <2>3. EngineType'
    <3>1. dcur \in Slots
      BY <1>21 DEF TypeOK, DispType, DispPrepare, Slots
    <3>2. <<block[dcur].sess, block[dcur].seq>> \in Ids
      BY <3>1 DEF TypeOK, WindowType, Blocks, Ids
    <3>3. \/ \E what \in {"regs", "chunk", "legacy"}, id \in Ids :
               Submit(dcur, what, id)
          \/ \E code \in {-1, 0} : NoSubmit(dcur, code)
      BY <1>21, <3>2, NoIdType DEF DispPrepare
    <3>4. queue' \in Seq(Copies) /\ csub' \in Nat
      BY <3>1, <3>3, SubmitType DEF TypeOK, EngineType, NoSubmit
    <3> QED BY <1>21, <3>4 DEF TypeOK, EngineType, DispPrepare
  <2>4. HostType' /\ WindowType' /\ SlotType' /\ HistoryType'
    BY <1>21 DEF TypeOK, HostType, WindowType, SlotType, HistoryType,
        DispPrepare, Submit, NoSubmit,
              hostVars, windowVars, slotVars, historyVars
  <2> QED BY <2>1, <2>2, <2>3, <2>4 DEF TypeOK
<1>22. ASSUME DispJob PROVE TypeOK'
  <2>1. DispType'
    BY <1>22 DEF TypeOK, DispType, DispJob, Slots
  <2>2. SharedType'
    BY <1>22 DEF TypeOK, DispType, SharedType, DispJob
  <2>3. HostType' /\ WindowType' /\ EngineType' /\ SlotType' /\ HistoryType'
    BY <1>22 DEF TypeOK, HostType, WindowType, EngineType, SlotType,
        HistoryType, DispJob,
              hostVars, windowVars, engineVars, slotVars, historyVars
  <2> QED BY <2>1, <2>2, <2>3 DEF TypeOK
<1>23. ASSUME DispWake PROVE TypeOK'
  <2>1. DispType'
    BY <1>23 DEF TypeOK, DispType, DispWake, Slots
  <2>2. SlotType'
    BY <1>23 DEF TypeOK, DispType, SlotType, DispWake, Blocks, Replies
  <2>3. HostType' /\ WindowType' /\ SharedType' /\ EngineType' /\ HistoryType'
    BY <1>23 DEF TypeOK, HostType, WindowType, SharedType, EngineType,
        HistoryType, DispWake,
              hostVars, windowVars, sharedVars, engineVars, historyVars
  <2> QED BY <2>1, <2>2, <2>3 DEF TypeOK
<1>24. ASSUME DispScanned PROVE TypeOK'
  <2>1. DispType'
    BY <1>24 DEF TypeOK, DispType, DispScanned, Slots
  <2>2. HostType' /\ WindowType' /\ SharedType' /\ EngineType'
          /\ SlotType' /\ HistoryType'
    BY <1>24 DEF TypeOK, HostType, WindowType, SharedType, EngineType,
        SlotType, HistoryType, DispScanned,
              hostVars, windowVars, sharedVars, engineVars, slotVars,
              historyVars
  <2> QED BY <2>1, <2>2 DEF TypeOK
<1>25. ASSUME DispAwake PROVE TypeOK'
  <2>1. DispType'
    BY <1>25 DEF TypeOK, DispType, DispAwake, Slots
  <2>2. HostType' /\ WindowType' /\ SharedType' /\ EngineType'
          /\ SlotType' /\ HistoryType'
    BY <1>25 DEF TypeOK, HostType, WindowType, SharedType, EngineType,
        SlotType, HistoryType, DispAwake,
              hostVars, windowVars, sharedVars, engineVars, slotVars,
              historyVars
  <2> QED BY <2>1, <2>2 DEF TypeOK
<1>26. ASSUME DispLegacy PROVE TypeOK'
  <2>1. DispType'
    BY <1>26 DEF TypeOK, DispType, DispLegacy, Slots
  <2>2. EngineType'
    <3>1. [seq |-> csub + 1, slot |-> 0, what |-> "legacy", id |-> NoId]
            \in Copies
      BY NoIdType DEF TypeOK, EngineType, Copies, Slots, SlotsAssumption
    <3>2. CASE chan
      BY SMTT(30), <1>26, <3>1, <3>2 DEF TypeOK, EngineType, DispLegacy
    <3>3. CASE ~chan
      BY <1>26, <3>3 DEF TypeOK, EngineType, DispLegacy
    <3> QED BY <3>2, <3>3
  <2>3. HostType' /\ WindowType' /\ SharedType' /\ SlotType' /\ HistoryType'
    BY <1>26 DEF TypeOK, HostType, WindowType, SharedType, SlotType,
        HistoryType, DispLegacy,
              hostVars, windowVars, sharedVars, slotVars, historyVars
  <2> QED BY <2>1, <2>2, <2>3 DEF TypeOK
<1>27. ASSUME DispLegacyDone PROVE TypeOK'
  <2>1. DispType'
    BY <1>27 DEF TypeOK, DispType, DispLegacyDone, Slots
  <2>2. EngineType'
    BY <1>27 DEF TypeOK, DispType, EngineType, DispLegacyDone, Copies, Ids,
        NoId, Slots
  <2>3. HostType' /\ WindowType' /\ SharedType' /\ SlotType' /\ HistoryType'
    BY <1>27 DEF TypeOK, HostType, WindowType, SharedType, SlotType,
        HistoryType, DispLegacyDone,
              hostVars, windowVars, sharedVars, slotVars, historyVars
  <2> QED BY <2>1, <2>2, <2>3 DEF TypeOK
<1>28. ASSUME EngineCopy PROVE TypeOK'
  <2>1. EngineType'
    <3>1. Head(queue) \in Copies /\ Tail(queue) \in Seq(Copies)
      BY <1>28 DEF TypeOK, EngineType, EngineCopy
    <3>2. /\ Head(queue).seq \in Nat
          /\ Head(queue).slot \in Slots
          /\ Head(queue).id \in Ids
      BY <3>1 DEF Copies
    <3>3. landed' \in [Slots -> Ids]
      BY <1>28, <3>2, NoIdType DEF TypeOK, EngineType, WindowType, EngineCopy
    <3>4. moved' \in [Slots -> Ids]
      BY <1>28, <3>2 DEF TypeOK, EngineType, EngineCopy
    <3> QED BY <1>28, <3>1, <3>2, <3>3, <3>4 DEF TypeOK, EngineType, EngineCopy
  <2>2. HostType' /\ WindowType' /\ DispType' /\ SharedType' /\ SlotType'
          /\ HistoryType'
    BY <1>28 DEF TypeOK, HostType, WindowType, DispType, SharedType, SlotType,
        HistoryType, EngineCopy,
              hostVars, windowVars, dispVars, sharedVars, slotVars, historyVars
  <2> QED BY <2>1, <2>2 DEF TypeOK
<1>29. ASSUME WorkerRestart PROVE TypeOK'
  <2>1. DispType'
    BY <1>29 DEF TypeOK, DispType, WindowType, WorkerRestart, Slots
  <2>2. SharedType'
    BY <1>29 DEF TypeOK, SharedType, WindowType, WorkerRestart
  <2>3. EngineType'
    <3>1. landed' \in [Slots -> Ids]
      BY <1>29, NoIdType DEF WorkerRestart
    <3>2. queue' \in Seq(Copies)
      BY <1>29 DEF WorkerRestart
    <3> QED BY <1>29, <3>1, <3>2 DEF TypeOK, EngineType, WorkerRestart
  <2>4. SlotType'
    BY <1>29 DEF TypeOK, SlotType, WindowType, WorkerRestart, Blocks, Replies
  <2>5. HostType' /\ WindowType' /\ HistoryType'
    BY <1>29 DEF TypeOK, HostType, WindowType, HistoryType, WorkerRestart,
              hostVars, windowVars, historyVars
  <2> QED BY <2>1, <2>2, <2>3, <2>4, <2>5 DEF TypeOK
<1>30. CASE UNCHANGED vars
  BY <1>30 DEF TypeOK, HostType, WindowType, DispType, SharedType, EngineType,
      SlotType, HistoryType, vars,
            hostVars, windowVars, dispVars, sharedVars, engineVars, slotVars,
            historyVars
<1> QED
  BY <1>1, <1>2, <1>3, <1>4, <1>5, <1>6, <1>7, <1>8, <1>9, <1>10, <1>11,
      <1>12, <1>13, <1>14, <1>15, <1>16, <1>17, <1>18, <1>19, <1>20, <1>21,
      <1>22, <1>23, <1>24, <1>25, <1>26, <1>27, <1>28, <1>29, <1>30 DEF Next,
      Host, Waiting, Serving, Dispatcher

\* The initial state is well typed.
LEMMA TypeInit == Init => TypeOK
  BY SlotsAssumption, NoIdType
  DEF Init, TypeOK, HostType, WindowType, DispType, SharedType, EngineType,
      SlotType, HistoryType, NoBlock, NoReply, Blocks, Replies, Slots,
      SlotsAssumption

\* Type correctness of the protocol, for any number of slots, sessions and
\* requests and any environment.
THEOREM Typing == Spec => []TypeOK
<1>1. Init => TypeOK
  BY TypeInit
<1>2. TypeOK /\ [Next]_vars => TypeOK'
  BY TypeStep
<1> QED BY <1>1, <1>2, PTL DEF Spec

-----------------------------------------------------------------------------
(* No wake is lost.                                                        *)

\* Every step keeps the parking handshake of sched_wait and slots_poll: the
\* flag goes up before the slot's second look at the job word, and the
\* dispatcher looks at the flag after it stored the word.
LEMMA WakeStep == TypeOK /\ NoLostWake /\ [Next]_vars => NoLostWake'
<1> SUFFICES ASSUME TypeOK, NoLostWake, [Next]_vars PROVE NoLostWake'
  OBVIOUS
<1> USE SlotsAssumption
<1>1. ASSUME NEW s \in Slots, Host(s) PROVE NoLostWake'
  BY <1>1 DEF NoLostWake, Host, HostOpen, HostCompose, HostRing, HostTake,
     HostLeave, dispVars, sharedVars, slotVars
<1>2. ASSUME NEW s \in Slots, SlotLook(s) PROVE NoLostWake'
  BY <1>2 DEF TypeOK, SlotType, SharedType, NoLostWake, SlotLook, Goto,
      dispVars,
     sharedVars
<1>3. ASSUME NEW s \in Slots, SlotSpin(s) PROVE NoLostWake'
  BY <1>3 DEF TypeOK, SlotType, SharedType, NoLostWake, SlotSpin, Goto,
      dispVars,
     sharedVars
<1>4. ASSUME NEW s \in Slots, SlotRecheck(s) PROVE NoLostWake'
  BY <1>4 DEF TypeOK, SlotType, SharedType, NoLostWake, SlotRecheck, Goto,
      dispVars,
     sharedVars
<1>5. ASSUME NEW s \in Slots, SlotFutex(s) PROVE NoLostWake'
  BY <1>5 DEF TypeOK, SlotType, SharedType, NoLostWake, SlotFutex, Goto,
      dispVars,
     sharedVars
<1>6. ASSUME NEW s \in Slots, SlotUnpark(s) PROVE NoLostWake'
  BY <1>6 DEF TypeOK, SlotType, SharedType, NoLostWake, SlotUnpark, Goto,
      dispVars,
     sharedVars
<1>7. ASSUME NEW s \in Slots, SlotRead(s) PROVE NoLostWake'
  BY <1>7 DEF TypeOK, SlotType, SharedType, NoLostWake, SlotRead, Goto,
      dispVars,
     sharedVars
<1>8. ASSUME NEW s \in Slots, SlotFlush(s) PROVE NoLostWake'
  BY <1>8 DEF TypeOK, SlotType, SharedType, NoLostWake, SlotFlush, Finish,
      Goto, dispVars,
     sharedVars
<1>9. ASSUME NEW s \in Slots, SlotLoad(s) PROVE NoLostWake'
  BY <1>9 DEF TypeOK, SlotType, SharedType, NoLostWake, SlotLoad, Finish,
      Goto, dispVars,
     sharedVars
<1>10. ASSUME NEW s \in Slots, SlotRun(s) PROVE NoLostWake'
  BY <1>10 DEF TypeOK, SlotType, SharedType, NoLostWake, SlotRun, Finish,
      Goto, dispVars,
     sharedVars
<1>11. ASSUME NEW s \in Slots, SlotMove(s) PROVE NoLostWake'
  BY <1>11 DEF TypeOK, SlotType, SharedType, NoLostWake, SlotMove, Finish,
      Goto, dispVars,
     sharedVars
<1>12. ASSUME NEW s \in Slots, SlotGiveUp(s) PROVE NoLostWake'
  BY <1>12 DEF TypeOK, SlotType, SharedType, NoLostWake, SlotGiveUp, Finish,
      Goto, dispVars,
     sharedVars
<1>13. ASSUME NEW s \in Slots, SlotReply2(s) PROVE NoLostWake'
  BY <1>13 DEF TypeOK, SlotType, SharedType, NoLostWake, SlotReply2, Goto,
      dispVars,
     sharedVars
<1>14. ASSUME NEW s \in Slots, SlotReply1(s) PROVE NoLostWake'
  BY <1>14 DEF TypeOK, SlotType, SharedType, NoLostWake, SlotReply1, Goto,
      dispVars,
     sharedVars
<1>15. ASSUME DispPoll PROVE NoLostWake'
  BY <1>15 DEF TypeOK, DispType, SharedType, SlotType, NoLostWake, DispPoll,
     sharedVars, slotVars
<1>16. ASSUME DispPass PROVE NoLostWake'
  BY <1>16 DEF TypeOK, DispType, SharedType, SlotType, NoLostWake, DispPass,
     sharedVars, slotVars
<1>17. ASSUME DispPrepare PROVE NoLostWake'
  BY <1>17 DEF TypeOK, DispType, SharedType, SlotType, NoLostWake, DispPrepare,
     sharedVars, slotVars
<1>18. ASSUME DispJob PROVE NoLostWake'
  BY <1>18 DEF TypeOK, DispType, SharedType, SlotType, NoLostWake, DispJob,
     sharedVars, slotVars
<1>19. ASSUME DispWake PROVE NoLostWake'
  BY <1>19 DEF TypeOK, DispType, SharedType, SlotType, NoLostWake, DispWake,
     sharedVars, slotVars
<1>20. ASSUME DispScanned PROVE NoLostWake'
  BY <1>20 DEF TypeOK, DispType, SharedType, SlotType, NoLostWake, DispScanned,
     sharedVars, slotVars
<1>21. ASSUME DispAwake PROVE NoLostWake'
  BY <1>21 DEF TypeOK, DispType, SharedType, SlotType, NoLostWake, DispAwake,
     sharedVars, slotVars
<1>22. ASSUME DispLegacy PROVE NoLostWake'
  BY <1>22 DEF TypeOK, DispType, SharedType, SlotType, NoLostWake, DispLegacy,
     sharedVars, slotVars
<1>23. ASSUME DispLegacyDone PROVE NoLostWake'
  BY <1>23 DEF TypeOK, DispType, SharedType, SlotType, NoLostWake,
      DispLegacyDone,
     sharedVars, slotVars
<1>24. ASSUME EngineCopy \/ WorkerRestart PROVE NoLostWake'
  BY <1>24 DEF NoLostWake, EngineCopy, WorkerRestart, dispVars, sharedVars,
     slotVars
<1>25. CASE UNCHANGED vars
  BY <1>25 DEF NoLostWake, vars, dispVars, sharedVars, slotVars
<1> QED
  BY <1>1, <1>2, <1>3, <1>4, <1>5, <1>6, <1>7, <1>8, <1>9, <1>10, <1>11,
      <1>12, <1>13, <1>14, <1>15, <1>16, <1>17, <1>18, <1>19, <1>20, <1>21,
      <1>22, <1>23, <1>24, <1>25
  DEF Next, Waiting, Serving, Dispatcher

\* A slot process never sleeps on a job it has not taken, whatever the
\* interleaving of its parking with the dispatcher's hand-off, for any number
\* of slots and with restarts and failing copies.
THEOREM WakeNeverLost == Spec => []NoLostWake
<1>1. Init => NoLostWake
  BY DEF Init, NoLostWake
<1>2. TypeOK /\ NoLostWake /\ [Next]_vars => NoLostWake'
  BY WakeStep
<1>3. Spec => []TypeOK
  BY Typing
<1> QED BY <1>1, <1>2, <1>3, PTL DEF Spec
=============================================================================
