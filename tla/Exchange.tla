------------------------------ MODULE Exchange ------------------------------
(***************************************************************************)
(* What a slot of the card promises its program, with the window, the      *)
(* dispatcher, the futex and the DMA engine left out: requests are named   *)
(* <<session, sequence number>>, a program has one request outstanding,    *)
(* the card serves a request it was asked, never one it served before and  *)
(* never out of order, and an answer the program takes is the answer to    *)
(* the request it is waiting on.  Slots.tla implements this module.        *)
(***************************************************************************)
EXTENDS Naturals

CONSTANTS Slots,     \* the slots of one card
          MaxSess,   \* bound: program sessions per slot
          MaxSeq     \* bound: requests per session

VARIABLES asked,     \* asked[s]: the last request posted on slot s
          served,    \* served[s]: the last request the card served
          program    \* program[s]: "out", "ready", or "waiting" for asked[s]

vars == <<asked, served, program>>

Ids == (0 .. MaxSess) \X (0 .. MaxSeq)

\* Requests are ordered by session, then by sequence number.
Before(a, b) == a[1] < b[1] \/ (a[1] = b[1] /\ a[2] < b[2])

Init ==
  /\ asked = [s \in Slots |-> <<0, 0>>]
  /\ served = [s \in Slots |-> <<0, 0>>]
  /\ program = [s \in Slots |-> "out"]

\* A program takes the slot.
Join(s) ==
  /\ program[s] = "out"
  /\ program' = [program EXCEPT ![s] = "ready"]
  /\ UNCHANGED <<asked, served>>

\* The program posts its next request; a new session starts again at 1.
Ask(s) ==
  /\ program[s] = "ready"
  /\ \E id \in Ids : Before(asked[s], id) /\ asked' = [asked EXCEPT ![s] = id]
  /\ program' = [program EXCEPT ![s] = "waiting"]
  /\ UNCHANGED served

\* The card serves a request that was asked.  It may be one whose program
\* is gone, while a later session already waits for its own.
Serve(s) ==
  /\ \E id \in Ids : /\ Before(served[s], id)
                     /\ ~Before(asked[s], id)
                     /\ served' = [served EXCEPT ![s] = id]
  /\ UNCHANGED <<asked, program>>

\* The program takes the answer to the request it waits on and goes on.
\* Nothing else takes a program that waits back to ready.
Take(s) ==
  /\ program[s] = "waiting" /\ served[s] = asked[s]
  /\ program' = [program EXCEPT ![s] = "ready"]
  /\ UNCHANGED <<asked, served>>

\* The program dies, is done, gives up after its timeout or leaves the card
\* for an answer that says its request failed.
Leave(s) ==
  /\ program[s] # "out"
  /\ program' = [program EXCEPT ![s] = "out"]
  /\ UNCHANGED <<asked, served>>

Next == \E s \in Slots : Join(s) \/ Ask(s) \/ Serve(s) \/ Take(s) \/ Leave(s)

Spec == Init /\ [][Next]_vars
=============================================================================
