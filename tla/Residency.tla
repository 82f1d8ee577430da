------------------------------ MODULE Residency ------------------------------
(***************************************************************************)
(* A program's memory on one card: the host's table of what the card holds *)
(* and its choice of victims (host/asm/phi512/card.S card_need,            *)
(* card_resident_post, c0_victim; sigill.S stripe_needs, resident_rounds;  *)
(* region.S ro_need, wu_ensure), and on the card the pool of huge pages    *)
(* that the dispatcher assigns and the slot process places at the          *)
(* program's addresses (card/vpu/resident.S).                              *)
(*                                                                         *)
(* The exchange of a request is Slots.tla's; here a K_RESIDENT is posted,  *)
(* assigned, filled and taken in one step each.  A chunk is a number (its  *)
(* address over 2 MiB) and has NUnits units; the bytes of a unit are       *)
(* abstracted to <<chunk, version>>, the version being the program's.      *)
(***************************************************************************)
EXTENDS Integers, SequencesExt

CONSTANTS NChunks,    \* chunks of the program's address space
          Immutable,  \* the chunks inside one readable, unwritable mapping
          Taken,      \* the addresses something of the worker's occupies
          Stack,      \* the chunk the program's stack is in
          NUnits,     \* units of a chunk (32)
          NPages,     \* the pool's pages (-R)
          Ring,       \* C0_RING (16)
          Ahead,      \* RO_AHEAD (8)
          MaxVer,     \* bound: versions of the program's memory
          Operands,   \* the units planned functions touch, numbered through
          MaxCalls,   \* bound: calls of planned functions
          MaxPlaces,  \* bound: places one planned call touches
          Env         \* see EnvKinds

\* "regions": functions without a plan run by the region path;
\* "planned": functions with a plan of their operands (seeds.S) that read;
\* "mixed":   one program has functions of both kinds;
\* "written": planned functions write operands too;
\* "remap":   the program maps something else over a read-only mapping that
\*            the card holds.
EnvKinds == {"regions", "planned", "mixed", "written", "remap"}

ASSUME ResidencyAssumption ==
  /\ NChunks \in Nat \ {0} /\ NUnits \in Nat \ {0} /\ NPages \in Nat \ {0}
  /\ Ring \in Nat \ {0} /\ {Ahead, MaxVer, MaxCalls, MaxPlaces} \subseteq Nat
  /\ Immutable \subseteq 0 .. NChunks - 1
  /\ Taken \subseteq 0 .. NChunks - 1
  /\ Stack \in (0 .. NChunks - 1) \ Immutable
  /\ Operands \subseteq Nat
  /\ Env \subseteq EnvKinds

Chunks == 0 .. NChunks - 1
Units == 0 .. NUnits - 1
Pages == 1 .. NPages
Places == Chunks \X Units
None == -1

VARIABLES
  \* the host program
  phase,   \* "native", "post", "posted", "filling", "replied", "running",
           \* "full" (the card refused: no page) or "died"
  path,    \* how the program's last function was run: "none" yet, by the
           \* region path, or with a plan of its operands
  want,    \* the places the call, or the region's next instruction, touches
  calls,   \* the planned calls so far
  again,   \* the region was posted again after a fault
  need,    \* need_q: the requests still to post
  pend,    \* the request posted
  held,    \* CD_TAB: "no", or by the entry's class "ro" (0) or "rw" (1)
  filled,  \* RE_FILLED
  npin,    \* c0_n
  ring,    \* c0_ring, oldest first
  roLast,  \* ro_last
  wu,      \* wu_tab: the writable units
  mem,     \* the version of each chunk's bytes in the program
  \* the card
  addr,    \* RT_ADDR: the chunk the page is for, or None
  state,   \* RT_STATE
  hold,    \* what lies in each unit of the page's frame
  at,      \* res_mapped and res_at: where the slot process placed the page
  view,    \* what the slot process has at a place: nothing (0), a page, or
           \* a unit of its own (-1)
  wmap     \* wmap_tab

callVars == <<path, calls>>
hostVars == <<phase, callVars, want, again, need, pend, held, filled, npin, ring,
              roLast, wu, mem>>
cardVars == <<addr, state, hold, at, view, wmap>>
vars == <<hostVars, cardVars>>

Requests == [chunk : Chunks, units : SUBSET Units, class : {0, 1}]
Posts == [chunk : Chunks, units : SUBSET Units, class : {0, 1},
          victim : Chunks \cup {None}]
NoPost == [chunk |-> 0, units |-> {}, class |-> 1, victim |-> None]
Nothing == <<None, 0>>

\* Every variable has its type; the ring never outgrows its array.
TypeOK ==
  /\ phase \in {"native", "post", "posted", "filling", "replied", "running",
                "full", "died"}
  /\ path \in {"none", "region", "planned"} /\ again \in BOOLEAN
  /\ calls \in 0 .. MaxCalls /\ want \subseteq Places
  /\ need \in Seq(Requests)
  /\ pend \in Posts
  /\ held \in [Chunks -> {"no", "ro", "rw"}]
  /\ filled \in [Chunks -> SUBSET Units]
  /\ npin \in Nat
  /\ ring \in Seq(Chunks) /\ Len(ring) <= Ring
  /\ roLast \in Chunks \cup {None - 1}
  /\ wu \subseteq Places
  /\ mem \in [Chunks -> 0 .. MaxVer]
  /\ addr \in [Pages -> Chunks \cup {None}]
  /\ state \in [Pages -> {"free", "filling", "resident"}]
  /\ hold \in [Pages -> [Units -> (Chunks \X (0 .. MaxVer)) \cup {Nothing}]]
  /\ at \in [Pages -> Chunks \cup {None}]
  /\ view \in [Chunks -> [Units -> Pages \cup {0, -1}]]
  /\ wmap \subseteq Places

Init ==
  /\ phase = "native" /\ path = "none" /\ calls = 0 /\ again = FALSE
  /\ want = {} /\ need = <<>> /\ pend = NoPost
  /\ held = [c \in Chunks |-> "no"]
  /\ filled = [c \in Chunks |-> {}]
  /\ npin = 0 /\ ring = <<>> /\ roLast = None - 1 /\ wu = {}
  /\ mem = [c \in Chunks |-> 0]
  /\ addr = [p \in Pages |-> None]
  /\ state = [p \in Pages |-> "free"]
  /\ hold = [p \in Pages |-> [u \in Units |-> Nothing]]
  /\ at = [p \in Pages |-> None]
  /\ view = [c \in Chunks |-> [u \in Units |-> 0]]
  /\ wmap = {}

-----------------------------------------------------------------------------
(* The program.                                                            *)

\* A new program opens the slot (card_add): its K_FLUSH takes the units and
\* the placed pages off their addresses and empties the table (res_flush);
\* the frames keep their bytes.  The host's own tables start empty.
Open ==
  /\ phase \in {"native", "full", "died"}
  /\ \E v \in 1 .. MaxVer : /\ \A c \in Chunks : mem[c] < v
                            /\ mem' = [c \in Chunks |-> v]
  /\ phase' = "native" /\ path' = "none" /\ again' = FALSE
  /\ want' = {} /\ need' = <<>> /\ pend' = NoPost
  /\ held' = [c \in Chunks |-> "no"]
  /\ filled' = [c \in Chunks |-> {}]
  /\ npin' = 0 /\ ring' = <<>> /\ roLast' = None - 1 /\ wu' = {}
  /\ addr' = [p \in Pages |-> None]
  /\ state' = [p \in Pages |-> "free"]
  /\ at' = [p \in Pages |-> None]
  /\ view' = [c \in Chunks |-> [u \in Units |-> 0]]
  /\ wmap' = {}
  /\ UNCHANGED <<calls, hold>>

\* munmap and mmap, or mprotect and a store: other bytes at the chunk.
Remap(c) ==
  /\ phase = "native" /\ c \in Immutable /\ mem[c] < MaxVer
  /\ held[c] = "ro" => "remap" \in Env
  /\ mem' = [mem EXCEPT ![c] = @ + 1]
  /\ UNCHANGED <<phase, callVars, want, again, need, pend, held, filled, npin,
                 ring, roLast, wu, cardVars>>

\* Without "mixed" a program's functions are all run one way.
MayRun(way) == "mixed" \in Env \/ path \in {"none", way}

\* region_run: the units at the stack's floor and about rsp, those not in
\* wu_tab queued (wu_ensure, need_add: one request), then the region with
\* what the card holds.
RegionEnter ==
  /\ "regions" \in Env
  /\ phase = "native" /\ MayRun("region")
  /\ \E a \in Places : want' = {a}
  /\ \E rsp \in SUBSET Units \ {{}} :
       LET new == {u \in rsp : <<Stack, u>> \notin wu}
       IN /\ need' = IF new = {} THEN <<>>
                     ELSE <<[chunk |-> Stack, units |-> new, class |-> 1]>>
          /\ wu' = wu \cup {<<Stack, u>> : u \in new}
  /\ path' = "region" /\ again' = FALSE /\ phase' = "post"
  /\ UNCHANGED <<calls, pend, held, filled, npin, ring, roLast, mem, cardVars>>

UnitsAt(places, c) == {u \in Units : <<c, u>> \in places}

\* card_need: units of the chunk that the call reads are not filled, or the
\* call touches the chunk and the card has no entry for it.
Lacks(c, rd, wr) ==
  \/ UnitsAt(rd, c) \ filled[c] # {}
  \/ held[c] = "no" /\ UnitsAt(rd \cup wr, c) # {}

\* need_add: a chunk's one request, of class 0 when the call reads there ("a
\* read wins"), of class 1 with no unit when it only writes there.
NeedOf(c, rd, wr) ==
  [chunk |-> c, units |-> UnitsAt(rd, c) \ filled[c],
   class |-> IF UnitsAt(rd, c) = {} THEN 1 ELSE 0]

OperandPlaces == {a \in Places : a[1] * NUnits + a[2] \in Operands}

\* phi512_sigill, a function with a plan: every need queued, in the order of
\* the operands, then the rounds, then the instances.
CallEnter ==
  /\ "planned" \in Env
  /\ phase = "native" /\ MayRun("planned")
  /\ calls < MaxCalls /\ calls' = calls + 1
  /\ \E rd \in SUBSET OperandPlaces,
        wr \in IF "written" \in Env THEN SUBSET OperandPlaces ELSE {{}} :
       /\ Cardinality(rd) + Cardinality(wr) \in 1 .. MaxPlaces
       /\ want' = rd \cup wr
       /\ \E s \in SetToSeqs({c \in Chunks : Lacks(c, rd, wr)}) :
            need' = [i \in DOMAIN s |-> NeedOf(s[i], rd, wr)]
  /\ path' = "planned" /\ again' = FALSE /\ phase' = "post"
  /\ UNCHANGED <<pend, held, filled, npin, ring, roLast, wu, mem, cardVars>>

-----------------------------------------------------------------------------
(* Requests: resident_rounds, the dispatcher, the slot process.            *)

\* Mutant: one chunk too many is pinned.
PinOneMore ==
  /\ npin <= NPages - Ring
  /\ npin' = npin + 1
  /\ UNCHANGED <<ring, held, filled>>

\* c0_victim for a chunk the table does not hold: pinned while fewer than
\* NPages - Ring are, then the ring, then the ring's oldest as the victim.
Pin ==
  /\ npin < NPages - Ring
  /\ npin' = npin + 1
  /\ UNCHANGED <<ring, held, filled>>

EnterRing(c) ==
  /\ npin >= NPages - Ring /\ Len(ring) < Ring
  /\ ring' = Append(ring, c)
  /\ UNCHANGED <<npin, held, filled>>

\* Mutant: the victim stays in the host's table.
EvictKeeping(c) ==
  /\ npin >= NPages - Ring /\ Len(ring) = Ring
  /\ ring' = Append(Tail(ring), c)
  /\ UNCHANGED <<npin, held, filled>>

Evict(c) ==
  /\ npin >= NPages - Ring /\ Len(ring) = Ring
  /\ ring' = Append(Tail(ring), c)
  /\ held' = [held EXCEPT ![Head(ring)] = "no"]
  /\ filled' = [filled EXCEPT ![Head(ring)] = {}]
  /\ UNCHANGED npin

\* card_resident_post: the units staged, the victim named, the request.
Post ==
  /\ phase = "post" /\ need # <<>>
  /\ LET n == Head(need)
         c == n.chunk
         full == npin >= NPages - Ring /\ Len(ring) = Ring
     IN /\ IF n.class = 0 /\ held[c] = "no"
           THEN Pin \/ EnterRing(c) \/ Evict(c)
           ELSE UNCHANGED <<npin, ring, held, filled>>
        /\ pend' = [chunk |-> c, units |-> n.units, class |-> n.class,
                    victim |-> IF n.class = 0 /\ held[c] = "no" /\ full
                               THEN Head(ring) ELSE None]
  /\ need' = Tail(need)
  /\ phase' = "posted"
  /\ UNCHANGED <<callVars, want, again, roLast, wu, mem, cardVars>>

\* res_drop: the victim's page is free, its frame kept.
Dropped(v) == [p \in Pages |-> IF v # None /\ addr[p] = v THEN None
                               ELSE addr[p]]

\* res_assign: the chunk's own page, or the first free one; none is 0.
PageFor(c, a) ==
  LET own == {p \in Pages : a[p] = c}
      free == {p \in Pages : a[p] = None}
      first(S) == CHOOSE p \in S : \A q \in S : p <= q
  IN IF own # {} THEN first(own) ELSE IF free # {} THEN first(free) ELSE 0

\* slots_poll, class 0: the victim dropped, a page assigned, its fill
\* submitted; with no page left the slot answers E_ALLOC.
Assign ==
  /\ phase = "posted" /\ pend.class = 0
  /\ LET a == Dropped(pend.victim)
         p == PageFor(pend.chunk, a)
         freed == {q \in Pages : addr[q] # None /\ a[q] = None}
     IN IF p = 0
        THEN /\ addr' = a
             /\ state' = [q \in Pages |-> IF q \in freed THEN "free"
                                          ELSE state[q]]
             /\ phase' = "full"
        ELSE /\ addr' = [a EXCEPT ![p] = pend.chunk]
             /\ state' = [q \in Pages |-> IF q = p THEN "filling"
                                          ELSE IF q \in freed THEN "free"
                                          ELSE state[q]]
             /\ phase' = "filling"
  /\ UNCHANGED <<callVars, want, again, need, pend, held, filled, npin, ring,
                 roLast, wu, mem, hold, at, view, wmap>>

\* The bytes staged: from the lowest unit asked to the highest.
Span(units) == {u \in Units : \E a, b \in units : a <= u /\ u <= b}

\* Mutant: the slot takes the page before the copy is in it.
FillUnawaited ==
  /\ phase = "filling"
  /\ state' = [state EXCEPT ![PageFor(pend.chunk, addr)] = "resident"]
  /\ phase' = "replied"
  /\ UNCHANGED <<callVars, want, again, need, pend, held, filled, npin, ring,
                 roLast, wu, mem, addr, hold, at, view, wmap>>

\* The engine's copy, and res_wait in the slot process; or it is not there
\* after 2 s, E_PULL, and the program ends.
Fill ==
  /\ phase = "filling"
  /\ LET p == PageFor(pend.chunk, addr) IN
       \/ /\ hold' = [hold EXCEPT ![p] =
                        [u \in Units |-> IF u \in Span(pend.units)
                                         THEN <<pend.chunk, mem[pend.chunk]>>
                                         ELSE hold[p][u]]]
          /\ state' = [state EXCEPT ![p] = "resident"]
          /\ phase' = "replied"
       \/ phase' = "died" /\ UNCHANGED <<hold, state>>
  /\ UNCHANGED <<callVars, want, again, need, pend, held, filled, npin, ring,
                 roLast, wu, mem, addr, at, view, wmap>>

\* res_map_units, class 1: each unit of the request mapped once, at its
\* address, and filled by the slot's own stores; refused when the table of
\* units is full or an address is not to be had.
MapUnits ==
  /\ phase = "posted" /\ pend.class = 1
  /\ LET c == pend.chunk
         new == {u \in pend.units : <<c, u>> \notin wmap}
     IN \/ /\ \A u \in new : view[c][u] = 0 /\ c \notin Taken
           /\ view' = [view EXCEPT ![c] =
                         [u \in Units |-> IF u \in new THEN -1 ELSE @[u]]]
           /\ wmap' = wmap \cup {<<c, u>> : u \in new}
           /\ phase' = "replied"
        \/ /\ new # {}
           /\ phase' = "died"
           /\ UNCHANGED <<view, wmap>>
  /\ UNCHANGED <<callVars, want, again, need, pend, held, filled, npin, ring,
                 roLast, wu, mem, addr, state, hold, at>>

\* card_resident_done: the chunk entered in the table.
Done ==
  /\ phase = "replied"
  /\ held' = [held EXCEPT ![pend.chunk] = IF pend.class = 0 THEN "ro"
                                          ELSE "rw"]
  /\ filled' = [filled EXCEPT ![pend.chunk] = @ \cup pend.units]
  /\ pend' = NoPost
  /\ phase' = "post"
  /\ UNCHANGED <<callVars, want, again, need, npin, ring, roLast, wu, mem,
                 cardVars>>

-----------------------------------------------------------------------------
(* Runs on the card.                                                       *)

\* res_unplace_stale: a page placed where its table entry no longer says.
Stale == {p \in Pages : at[p] # None
                        /\ ~(state[p] = "resident" /\ addr[p] = at[p])}

\* The pages res_map_all has still to place.
Fresh == {p \in Pages : state[p] = "resident"
                        /\ (at[p] = None \/ p \in Stale)}

\* res_map_all places pages in runs: pages side by side in the pool for
\* chunks side by side.  Only the address of a run's first page is tried
\* (resv_free); the move of the others goes over whatever is there.
Placeable ==
  {p \in Fresh : \E q \in 1 .. p :
     /\ q .. p \subseteq Fresh
     /\ \A i \in q .. p : addr[i] = addr[q] + (i - q)
     /\ addr[q] \notin Taken}

\* K_FEXEC: the stale pages off their addresses, the reservation restored
\* there, then every resident page on its own; refused with E_ALLOC when an
\* address is taken, the other pages placed all the same.
Run ==
  /\ phase = "post" /\ need = <<>>
  /\ LET good == Placeable
         left == {at[p] : p \in Stale}
         pageAt(c) == {p \in good : addr[p] = c}
     IN /\ at' = [p \in Pages |-> IF p \in good THEN addr[p]
                                  ELSE IF p \in Stale THEN None ELSE at[p]]
        /\ view' = [c \in Chunks |-> [u \in Units |->
                      IF pageAt(c) # {} THEN CHOOSE p \in pageAt(c) : TRUE
                      ELSE IF c \in left THEN 0 ELSE view[c][u]]]
        /\ phase' = IF good = Fresh THEN "running" ELSE "died"
  /\ UNCHANGED <<callVars, want, again, need, pend, held, filled, npin, ring,
                 roLast, wu, mem, addr, state, hold, wmap>>

Placed(a) == view[a[1]][a[2]] # 0

\* The region's access is made; it goes on to another one, or leaves the
\* card.  A planned call makes all of its accesses.
Access ==
  /\ phase = "running" /\ \A a \in want : Placed(a)
  /\ again' = FALSE
  /\ \/ phase' = "native" /\ want' = {}
     \/ path = "region" /\ phase' = phase /\ \E a \in Places : want' = {a}
  /\ UNCHANGED <<callVars, need, pend, held, filled, npin, ring, roLast, wu, mem,
                 cardVars>>

\* Mutant: read-ahead to the end of the mapping.
AheadOfAll(c) ==
  IF c # roLast + 1 THEN {}
  ELSE {d \in c + 1 .. NChunks : /\ c + 1 .. d \subseteq Immutable
                                 /\ held[d] = "no"}

\* ro_need's read-ahead behind a fault on the chunk after the last one: the
\* next immutable chunks, those the card does not hold.
AheadOf(c) ==
  IF c # roLast + 1 THEN {}
  ELSE {d \in c + 1 .. c + Ahead : /\ c + 1 .. d \subseteq Immutable
                                   /\ held[d] = "no"}

\* Whole chunks, as one request of class 0 each.
Whole(s) ==
  [i \in DOMAIN s |-> [chunk |-> s[i], units |-> Units, class |-> 0]]

\* X_FAULT in a region: an immutable chunk not held by units is queued
\* whole with its read-ahead (ro_need), any other place as its unit, once
\* (wu_ensure); then the region is posted again.
Fault ==
  /\ phase = "running" /\ path = "region"
  /\ \E a \in want :
       LET c == a[1]
           ahead == AheadOf(c)
       IN /\ ~Placed(a)
          /\ IF c \in Immutable /\ held[c] # "rw"
             THEN /\ \E s \in SetToSeqs({c} \cup ahead) :
                       /\ \A i, j \in DOMAIN s : i < j => s[i] < s[j]
                       /\ need' = Whole(s)
                  /\ roLast' = Max({c} \cup ahead)
                  /\ UNCHANGED wu
             ELSE /\ need' = IF a \in wu THEN <<>>
                             ELSE <<[chunk |-> c, units |-> {a[2]},
                                     class |-> 1]>>
                  /\ wu' = wu \cup {a}
                  /\ UNCHANGED roLast
  /\ again' = TRUE
  /\ phase' = "post"
  /\ UNCHANGED <<callVars, want, pend, held, filled, npin, ring, mem, cardVars>>

\* The ends of a program at a fault: no mapping at the address, FAULTS_MAX,
\* the unit table full; any fault of a planned call (.Lfailed).
FaultFatal ==
  /\ phase = "running" /\ \E a \in want : ~Placed(a)
  /\ phase' = "died"
  /\ UNCHANGED <<callVars, want, again, need, pend, held, filled, npin, ring,
                 roLast, wu, mem, cardVars>>

Next == \/ Open
        \/ \E c \in Chunks : Remap(c)
        \/ RegionEnter \/ CallEnter
        \/ Post \/ Assign \/ Fill \/ MapUnits \/ Done
        \/ Run \/ Access \/ Fault \/ FaultFatal

Spec == Init /\ [][Next]_vars

-----------------------------------------------------------------------------
(* What must hold.                                                         *)

\* The page the slot process has at the place, if there is one, holds the
\* program's bytes of that place.
OwnAt(a) ==
  view[a[1]][a[2]] > 0 => hold[view[a[1]][a[2]]][a[2]] = <<a[1], mem[a[1]]>>

\* What the card reads at a place is the program's bytes of that place: not
\* those of a chunk evicted from the page, nor of the program before
\* (resident.S res_unplace_stale: "so the program's old address faults again
\* instead of reading the page's new chunk").  For a region it is so at every
\* place; for a planned call at the units RE_FILLED says were sent, which are
\* not always all it reads (CallReadsOwn).
ReadsOwnBytes ==
  phase = "running" =>
    \A a \in want : path = "region" \/ a[2] \in filled[a[1]] => OwnAt(a)

\* A planned call reads the program's bytes at every operand that is in place
\* (sigill.md: "every chunk of every operand the stripe touches made resident
\* on its card").
CallReadsOwn ==
  phase = "running" /\ path = "planned" => \A a \in want : OwnAt(a)

\* A class-0 chunk always finds a page: when the pool is full the host has
\* named a victim (region.S ro_need: "when the card's pool is full the host
\* names a victim ... so a region runs on the card whatever part of the
\* model it reads").
PoolHasRoom == phase # "full"

\* Between two requests of a live program, the chunks of class 0 in the
\* host's table are the chunks in the card's pool, each resident in one page,
\* and c0_n and c0_rn count them.
HostKnowsPool ==
  phase \in {"native", "post", "running"} =>
    /\ \A c \in Chunks : held[c] = "ro" =>
         \E p \in Pages : addr[p] = c /\ state[p] = "resident"
    /\ \A p \in Pages : addr[p] # None => held[addr[p]] = "ro"
    /\ \A p, q \in Pages : addr[p] = addr[q] /\ addr[p] # None => p = q
    /\ Cardinality({p \in Pages : addr[p] # None}) = npin + Len(ring)

\* A region posted again after a fault has its place: the fault's own
\* rounds, read-ahead included, never evict what the fault brought in.
FaultServed ==
  phase = "running" /\ again => \A a \in want : Placed(a)

\* A planned call finds every operand in place (sigill.S stripe_needs: "every
\* chunk the stripe's operands touch, queued on the stripe's card", card.md:
\* "0 bytes for a chunk only written: the page").
OperandsPlaced ==
  phase = "running" /\ path = "planned" => \A a \in want : Placed(a)
=============================================================================
