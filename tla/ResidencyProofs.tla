--------------------------- MODULE ResidencyProofs ---------------------------
(***************************************************************************)
(* The host's count of a pool it does not see is right, for any pool at    *)
(* least as large as the ring: a chunk always finds a page, the host's     *)
(* table is the card's, a fault's own rounds leave it its chunk, and what  *)
(* a program reads on the card where the host has sent it is its own.      *)
(***************************************************************************)
EXTENDS Residency, SequenceTheorems, FiniteSetTheorems, WellFoundedInduction,
        TLAPS

\* Each program is run one way, planned calls only read, and the pool is at
\* least as large as the ring.
Uniform == Env \cap {"mixed", "written"} = {} /\ Ring <= NPages

-----------------------------------------------------------------------------
(* Numbers, sequences and sets.                                            *)

\* A set of naturals that is not empty has a least element.
LEMMA Least ==
  ASSUME NEW T, T \subseteq Nat, T # {}
  PROVE  \E x \in T : \A y \in T : x <= y
<1> DEFINE R == OpToRel(<, Nat)
<1>1. IsWellFoundedOn(R, Nat)
  BY NatLessThanWellFounded
<1> HIDE DEF R
<1>2. PICK x \in T : \A y \in T : ~ (<<y, x>> \in R)
  BY <1>1, WFMin
<1>3. \A a, b \in Nat : <<b, a>> \in R <=> b < a
  BY DEF R, OpToRel
<1>4. ASSUME NEW y \in T PROVE x <= y
  <2>1. x \in Nat /\ y \in Nat
    OBVIOUS
  <2>2. ~ (y < x)
    BY <1>2, <1>3, <2>1
  <2> QED BY <2>1, <2>2
<1> QED BY <1>4

\* A set of naturals up to n that is not empty has its maximum in it.
LEMMA MaxIn ==
  ASSUME NEW n \in Nat, NEW T, T \subseteq 0 .. n, T # {}
  PROVE  Max(T) \in T
<1> DEFINE U == {n - t : t \in T}
<1>1. \A t \in T : t \in 0 .. n /\ n - t \in Nat
  OBVIOUS
<1>2. U \subseteq Nat /\ U # {}
  BY <1>1
<1>3. PICK u \in U : \A v \in U : u <= v
  <2> HIDE DEF U
  <2> QED BY <1>2, Least
<1>4. PICK t \in T : u = n - t
  OBVIOUS
<1>5. ASSUME NEW y \in T PROVE t >= y
  <2>1. n - t <= n - y
    BY <1>3, <1>4
  <2> QED BY <1>1, <2>1
<1> QED BY <1>5 DEF Max

\* A function on the first m positions is a sequence.
LEMMA FunctionIsSequence ==
  ASSUME NEW S, NEW m \in Nat, NEW g \in [1 .. m -> S]
  PROVE  g \in Seq(S) /\ Len(g) = m
<1>1. g \in Seq(S)
  <2>1. \A i \in 1 .. m : g[i] \in S
    OBVIOUS
  <2>2. g = [i \in 1 .. m |-> g[i]]
    OBVIOUS
  <2> QED BY <2>1, <2>2, IsASeq
<1>2. DOMAIN g = 1 .. m
  OBVIOUS
<1> QED BY <1>1, <1>2, LenProperties

LEMMA ChunksAre ==
  /\ Chunks \subseteq Nat /\ NChunks - 1 \in Nat
  /\ Chunks = 0 .. NChunks - 1 /\ None \notin Chunks
  /\ None - 1 \notin Chunks /\ Immutable \subseteq Chunks
  BY ResidencyAssumption DEF Chunks, None

LEMMA PagesAre ==
  /\ IsFiniteSet(Pages) /\ Cardinality(Pages) = NPages
  /\ Pages \subseteq Nat /\ 0 \notin Pages /\ -1 \notin Pages
<1>1. NPages \in Nat /\ NPages >= 1
  BY ResidencyAssumption
<1>2. IsFiniteSet(1 .. NPages) /\ Cardinality(1 .. NPages) = NPages
  BY <1>1, FS_Interval
<1> QED BY <1>1, <1>2 DEF Pages

\* A set of chunks is finite, and its listings are sequences of its members.
LEMMA Listing ==
  ASSUME NEW S, S \subseteq Chunks, NEW s \in SetToSeqs(S)
  PROVE  /\ s \in Seq(S) /\ Len(s) = Cardinality(S) /\ Cardinality(S) \in Nat
         /\ DOMAIN s = 1 .. Len(s)
         /\ \A i \in 1 .. Len(s) : s[i] \in S
<1>1. IsFiniteSet(S)
  <2>1. IsFiniteSet(0 .. NChunks - 1)
    BY FS_Interval, ChunksAre, 0 \in Int, NChunks - 1 \in Int
  <2> QED BY <2>1, FS_Subset, ChunksAre
<1>2. Cardinality(S) \in Nat
  BY <1>1, FS_CardinalityType
<1>3. s \in [1 .. Cardinality(S) -> S]
  BY DEF SetToSeqs
<1>4. s \in Seq(S) /\ Len(s) = Cardinality(S)
  BY <1>2, <1>3, FunctionIsSequence
<1> QED BY <1>2, <1>3, <1>4

\* The rest of a queue.
LEMMA TailOf ==
  ASSUME NEW S, NEW q \in Seq(S), q # <<>>
  PROVE  /\ Len(q) \in Nat /\ Len(q) >= 1 /\ Head(q) = q[1] /\ q[1] \in S
         /\ Tail(q) \in Seq(S) /\ Len(Tail(q)) = Len(q) - 1
         /\ \A i \in 1 .. Len(q) - 1 : Tail(q)[i] = q[i + 1]
<1>1. /\ Head(q) \in S /\ Tail(q) \in Seq(S) /\ Len(Tail(q)) = Len(q) - 1
      /\ \A i \in 1 .. Len(Tail(q)) : Tail(q)[i] = q[i + 1]
  BY HeadTailProperties
<1>2. Len(q) \in Nat /\ Len(q) # 0
  BY EmptySeq, LenProperties
<1>3. Head(q) = q[1]
  OBVIOUS
<1> QED BY <1>1, <1>2, <1>3

-----------------------------------------------------------------------------
(* The invariant.                                                          *)

Live == phase \notin {"full", "died"}

\* A request of class 0, or one of class 1, is on its way.
Pending0 == phase \in {"posted", "filling", "replied"} /\ pend.class = 0
Pending1 == phase \in {"posted", "replied"} /\ pend.class = 1

\* The chunks of which the program may make a page, or units of its own.
Paged(c) == path = "planned" \/ (path = "region" /\ c \in Immutable)
United(c) == path = "region" /\ c \notin Immutable

OfClass(r) == IF r.class = 0 THEN Paged(r.chunk) ELSE United(r.chunk)

\* A chunk has one class for as long as the program runs.
ClassInv ==
  /\ \A c \in Chunks : /\ held[c] = "ro" => Paged(c)
                       /\ held[c] = "rw" => United(c)
  /\ \A i \in 1 .. Len(need) : OfClass(need[i])
  /\ Pending0 \/ Pending1 => OfClass(pend)
  /\ \A p \in Pages : at[p] # None => Paged(at[p])
  /\ \A a \in wmap : United(a[1])
  /\ phase \in {"native", "running"} => need = <<>>
  /\ phase \in {"posted", "filling", "replied"} => Pending0 \/ Pending1

\* The ring: each chunk once, held or about to be.
RingInv ==
  /\ npin <= NPages - Ring
  /\ \A i, j \in 1 .. Len(ring) : ring[i] = ring[j] => i = j
  /\ Live => \A i \in 1 .. Len(ring) :
       held[ring[i]] = "ro" \/ (Pending0 /\ ring[i] = pend.chunk)

Used == {p \in Pages : addr[p] # None}

Resident(c) == \E p \in Pages : addr[p] = c /\ state[p] = "resident"

\* The chunk whose page the card has yet to make resident, to drop.
Unsettled(c) == Pending0 /\ (c = pend.chunk \/ c = pend.victim)

\* The host's table and the card's pool.
PoolInv ==
  /\ \A p, q \in Pages : addr[p] = addr[q] /\ addr[p] # None => p = q
  /\ \A p \in Pages : addr[p] = None => state[p] = "free"
  /\ Live =>
       /\ \A c \in Chunks : held[c] = "ro" =>
            Resident(c) \/ (phase = "filling" /\ c = pend.chunk)
       /\ \A p \in Pages : addr[p] # None =>
            held[addr[p]] = "ro" \/ Unsettled(addr[p])

\* How many pages are used, at each point of a request of class 0.
CountInv ==
  Live =>
    LET c == pend.chunk
        v == pend.victim
    IN IF phase = "posted" /\ pend.class = 0
       THEN \/ /\ held[c] = "ro" /\ v = None
               /\ Cardinality(Used) = npin + Len(ring)
            \/ /\ held[c] = "no" /\ v = None
               /\ \A p \in Pages : addr[p] # c
               /\ Cardinality(Used) + 1 = npin + Len(ring)
            \/ /\ held[c] = "no" /\ v \in Chunks /\ v # c /\ held[v] = "no"
               /\ \A p \in Pages : addr[p] # c
               /\ \E p \in Pages : addr[p] = v
               /\ Cardinality(Used) = npin + Len(ring)
       ELSE /\ Cardinality(Used) = npin + Len(ring)
            /\ Pending0 => \E p \in Pages :
                 addr[p] = c /\ (phase = "replied" => state[p] = "resident")
            /\ Pending0 => \A p \in Pages :
                 addr[p] # None => held[addr[p]] = "ro" \/ addr[p] = c

\* Where the slot process has its pages and units.
ViewInv ==
  /\ \A p, q \in Pages : at[p] = at[q] /\ at[p] # None => p = q
  /\ \A p \in Pages : at[p] # None => \A u \in Units : view[at[p]][u] = p
  /\ \A c \in Chunks, u \in Units : view[c][u] \in Pages => at[view[c][u]] = c
  /\ \A a \in wmap : view[a[1]][a[2]] = -1
  /\ phase = "running" =>
       \A p \in Pages : /\ at[p] # None =>
                             addr[p] = at[p] /\ state[p] = "resident"
                        /\ state[p] = "resident" => at[p] = addr[p]

\* The region is posted again after a fault.
Serving ==
  /\ path = "region" /\ again
  /\ phase \in {"post", "posted", "filling", "replied", "running"}

\* The rounds still to come do not reach the chunk in the ring.
Far(c) ==
  \A i \in 1 .. Len(ring) :
    ring[i] = c => Len(ring) - i + Len(need) <= Ahead

\* The faulting chunk is asked for first, and stays; or the unit is.
Served(a) ==
  IF a[1] \in Immutable
  THEN \/ /\ phase = "post" /\ need # <<>> /\ Len(need) <= Ahead + 1
          /\ need[1].chunk = a[1] /\ held[a[1]] = "no"
       \/ /\ held[a[1]] = "ro" \/ (Pending0 /\ pend.chunk = a[1])
          /\ Len(need) <= Ahead /\ Far(a[1])
  ELSE \/ /\ phase = "post"
          /\ need = <<[chunk |-> a[1], units |-> {a[2]}, class |-> 1]>>
       \/ /\ phase = "posted" /\ need = <<>>
          /\ pend.class = 1 /\ pend.chunk = a[1] /\ pend.units = {a[2]}
       \/ need = <<>> /\ a \in wmap

\* A request of class 1 for the unit is queued, or posted.
Asks(q, a) == q.class = 1 /\ q.chunk = a[1] /\ a[2] \in q.units

Asked(a) == \/ \E i \in 1 .. Len(need) : Asks(need[i], a)
            \/ phase = "posted" /\ Asks(pend, a)

\* A region on the card touches one place; a fault's is served; a unit in
\* wu_tab is mapped, or on its way.
ServeInv ==
  /\ again => path = "region"
  /\ path = "region" /\ phase \notin {"native", "full", "died"} =>
       \E a \in Places : want = {a}
  /\ Serving => \A a \in want : Served(a)
  /\ Live => \A a \in wu : a \in wmap \/ Asked(a)

\* The host fills no unit of a chunk it does not hold, and every unit of one
\* that a region made resident.
FilledInv ==
  /\ \A c \in Chunks : held[c] = "no" => filled[c] = {}
  /\ path = "region" =>
       /\ \A c \in Chunks : held[c] = "ro" => filled[c] = Units
       /\ \A i \in 1 .. Len(need) : need[i].class = 0 => need[i].units = Units
       /\ Pending0 => pend.units = Units

\* What lies in the units of a page is the program's chunk, where the host has
\* entered them as filled or is about to.
BytesInv ==
  \A p \in Pages : addr[p] # None =>
    /\ \A u \in filled[addr[p]] : hold[p][u] = <<addr[p], mem[addr[p]]>>
    /\ phase = "replied" /\ Pending0 /\ addr[p] = pend.chunk =>
         \A u \in pend.units : hold[p][u] = <<addr[p], mem[addr[p]]>>

Inv == TypeOK /\ ClassInv /\ RingInv /\ PoolInv /\ CountInv

-----------------------------------------------------------------------------
(* Types.                                                                  *)

\* The tables of a new program, and the frames it may find.
LEMMA EmptyTables ==
  /\ NoPost \in Posts /\ <<>> \in Seq(Requests)
  /\ <<>> \in Seq(Chunks) /\ Len(<<>>) = 0
  /\ None - 1 \in Chunks \cup {None - 1}
  /\ [c \in Chunks |-> "no"] \in [Chunks -> {"no", "ro", "rw"}]
  /\ [c \in Chunks |-> {}] \in [Chunks -> SUBSET Units]
  /\ [p \in Pages |-> None] \in [Pages -> Chunks \cup {None}]
  /\ [p \in Pages |-> "free"] \in [Pages -> {"free", "filling", "resident"}]
  /\ [c \in Chunks |-> [u \in Units |-> 0]]
       \in [Chunks -> [Units -> Pages \cup {0, -1}]]
<1>1. NoPost \in Posts
  <2>1. 0 \in Chunks
    BY ChunksAre
  <2> QED BY <2>1 DEF NoPost, Posts
<1> QED BY <1>1

LEMMA InitType == Init => TypeOK
<1> SUFFICES ASSUME Init PROVE TypeOK
  OBVIOUS
<1>1. /\ mem \in [Chunks -> 0 .. MaxVer] /\ 0 \in 0 .. MaxCalls /\ 0 \in Nat
      /\ 0 <= Ring
  BY ResidencyAssumption DEF Init
<1>2. hold \in [Pages -> [Units -> (Chunks \X (0 .. MaxVer)) \cup {Nothing}]]
  BY DEF Init
<1> QED BY <1>1, <1>2, EmptyTables DEF Init, TypeOK

\* A page the pool has, for a chunk: its own, or a free one.
LEMMA PageForIs ==
  ASSUME NEW c, NEW a
  PROVE  /\ PageFor(c, a) \in Pages \cup {0}
         /\ PageFor(c, a) # 0 =>
              \/ a[PageFor(c, a)] = c
              \/ /\ a[PageFor(c, a)] = None
                 /\ \A q \in Pages : a[q] # c
         /\ (\E q \in Pages : a[q] \in {c, None}) => PageFor(c, a) # 0
<1> DEFINE own == {p \in Pages : a[p] = c}
           free == {p \in Pages : a[p] = None}
           first(S) == CHOOSE p \in S : \A q \in S : p <= q
<1>1. ASSUME NEW S \in SUBSET Pages, S # {} PROVE first(S) \in S
  <2>1. S \subseteq Nat
    BY PagesAre
  <2>2. \E p \in S : \A q \in S : p <= q
    BY <1>1, <2>1, Least
  <2> QED BY <2>2
<1>2. PageFor(c, a) = IF own # {} THEN first(own)
                      ELSE IF free # {} THEN first(free) ELSE 0
  BY DEF PageFor
<1> HIDE DEF first
<1>3. CASE own # {}
  <2>1. first(own) \in own
    BY <1>1, <1>3
  <2> QED BY <1>2, <1>3, <2>1, PagesAre
<1>4. CASE own = {} /\ free # {}
  <2>1. first(free) \in free
    BY <1>1, <1>4
  <2> QED BY <1>2, <1>4, <2>1, PagesAre
<1>5. CASE own = {} /\ free = {}
  BY <1>2, <1>5
<1> QED BY <1>3, <1>4, <1>5

\* The victim's page goes.
LEMMA DroppedIs ==
  ASSUME TypeOK, NEW v
  PROVE  /\ Dropped(v) \in [Pages -> Chunks \cup {None}]
         /\ \A p \in Pages : Dropped(v)[p] = IF v # None /\ addr[p] = v
                                             THEN None ELSE addr[p]
  BY DEF TypeOK, Dropped

\* What a step of class 0 posts.
LEMMA PostType == TypeOK /\ Post => TypeOK'
<1> SUFFICES ASSUME TypeOK, Post PROVE TypeOK'
  OBVIOUS
<1>1. /\ need \in Seq(Requests) /\ need # <<>> /\ ring \in Seq(Chunks)
      /\ Len(ring) <= Ring /\ Ring \in Nat /\ Ring >= 1 /\ npin \in Nat
  BY ResidencyAssumption DEF TypeOK, Post
<1>2. /\ Head(need) \in Requests /\ Tail(need) \in Seq(Requests)
  BY <1>1, TailOf
<1> DEFINE n == Head(need)
<1>3. /\ n.chunk \in Chunks /\ n.units \in SUBSET Units /\ n.class \in {0, 1}
  BY <1>2 DEF Requests
<1> HIDE DEF n
<1>4. Len(ring) = Ring =>
        /\ ring # <<>> /\ Head(ring) \in Chunks
        /\ \A c \in Chunks : /\ Append(Tail(ring), c) \in Seq(Chunks)
                             /\ Len(Append(Tail(ring), c)) = Ring
  <2> SUFFICES ASSUME Len(ring) = Ring
               PROVE  /\ ring # <<>> /\ Head(ring) \in Chunks
                      /\ \A c \in Chunks :
                           /\ Append(Tail(ring), c) \in Seq(Chunks)
                           /\ Len(Append(Tail(ring), c)) = Ring
    OBVIOUS
  <2>1. ring # <<>>
    BY <1>1
  <2>2. /\ Head(ring) \in Chunks /\ Tail(ring) \in Seq(Chunks)
        /\ Len(Tail(ring)) = Ring - 1
    BY <1>1, <2>1, TailOf
  <2> QED BY <1>1, <2>1, <2>2, AppendProperties
<1>5. /\ npin' \in Nat /\ ring' \in Seq(Chunks) /\ Len(ring') <= Ring
      /\ held' \in [Chunks -> {"no", "ro", "rw"}]
      /\ filled' \in [Chunks -> SUBSET Units]
  <2>1. held \in [Chunks -> {"no", "ro", "rw"}]
        /\ filled \in [Chunks -> SUBSET Units]
    BY DEF TypeOK
  <2>2. CASE Pin
    BY <1>1, <2>1, <2>2 DEF Pin
  <2>3. CASE EnterRing(n.chunk)
    <3>1. ring' = Append(ring, n.chunk) /\ Len(ring) < Ring
          /\ npin' = npin /\ held' = held /\ filled' = filled
      BY <2>3 DEF EnterRing
    <3>2. Append(ring, n.chunk) \in Seq(Chunks)
          /\ Len(Append(ring, n.chunk)) = Len(ring) + 1 /\ Len(ring) \in Nat
      BY <1>1, <1>3, AppendProperties, LenProperties
    <3> QED BY <1>1, <2>1, <3>1, <3>2
  <2>4. CASE Evict(n.chunk)
    BY <1>1, <1>3, <1>4, <2>1, <2>4 DEF Evict
  <2>5. CASE UNCHANGED <<npin, ring, held, filled>>
    BY <1>1, <2>1, <2>5
  <2> QED BY <2>2, <2>3, <2>4, <2>5 DEF Post, n
<1>6. pend' \in Posts
  <2>1. PICK v \in Chunks \cup {None} :
          pend' = [chunk |-> n.chunk, units |-> n.units, class |-> n.class,
                   victim |-> v]
    BY <1>4 DEF Post, n
  <2> QED BY <1>3, <2>1 DEF Posts
<1> QED BY <1>2, <1>5, <1>6 DEF TypeOK, Post, callVars, cardVars

LEMMA CallType == TypeOK /\ CallEnter => TypeOK'
<1> SUFFICES ASSUME TypeOK, CallEnter PROVE TypeOK'
  OBVIOUS
<1>1. PICK rd \in SUBSET OperandPlaces,
           wr \in IF "written" \in Env THEN SUBSET OperandPlaces
                  ELSE {{}} :
        /\ want' = rd \cup wr
        /\ \E s \in SetToSeqs({c \in Chunks : Lacks(c, rd, wr)}) :
             need' = [i \in DOMAIN s |-> NeedOf(s[i], rd, wr)]
  BY DEF CallEnter
<1>2. PICK s \in SetToSeqs({c \in Chunks : Lacks(c, rd, wr)}) :
        need' = [i \in DOMAIN s |-> NeedOf(s[i], rd, wr)]
  BY <1>1
<1>3. /\ DOMAIN s = 1 .. Len(s) /\ Len(s) \in Nat
      /\ \A i \in 1 .. Len(s) : s[i] \in Chunks
  BY Listing
<1>4. \A c \in Chunks : NeedOf(c, rd, wr) \in Requests
  BY DEF NeedOf, Requests, UnitsAt
<1>5. need' \in Seq(Requests)
  <2>1. need' \in [1 .. Len(s) -> Requests]
    BY <1>2, <1>3, <1>4
  <2> QED BY <1>3, <2>1, FunctionIsSequence
<1>6. want' \subseteq Places
  <2>1. rd \subseteq OperandPlaces /\ wr \subseteq OperandPlaces
    OBVIOUS
  <2>2. OperandPlaces \subseteq Places
    BY DEF OperandPlaces
  <2> QED BY <1>1, <2>1, <2>2
<1>7. calls' \in 0 .. MaxCalls
  BY ResidencyAssumption DEF TypeOK, CallEnter
<1> QED BY <1>5, <1>6, <1>7 DEF TypeOK, CallEnter, cardVars

LEMMA OpenType == TypeOK /\ Open => TypeOK'
<1> SUFFICES ASSUME TypeOK, Open PROVE TypeOK'
  OBVIOUS
<1>1. mem' \in [Chunks -> 0 .. MaxVer] /\ 0 <= Ring /\ 0 \in Nat
  BY ResidencyAssumption DEF Open
<1> QED BY <1>1, EmptyTables DEF TypeOK, Open

LEMMA AssignType == TypeOK /\ Assign => TypeOK'
<1> SUFFICES ASSUME TypeOK, Assign PROVE TypeOK'
  OBVIOUS
<1> DEFINE a == Dropped(pend.victim)
           p == PageFor(pend.chunk, a)
<1>1. a \in [Pages -> Chunks \cup {None}]
  BY DroppedIs
<1>2. p \in Pages \cup {0}
  BY PageForIs
<1>3. pend.chunk \in Chunks
  BY DEF TypeOK, Posts
<1> HIDE DEF a, p
<1>4. addr' \in [Pages -> Chunks \cup {None}]
  BY <1>1, <1>2, <1>3 DEF Assign, a, p
<1>5. state' \in [Pages -> {"free", "filling", "resident"}]
  BY DEF TypeOK, Assign
<1>6. phase' \in {"full", "filling"}
  BY DEF Assign
<1> QED BY <1>4, <1>5, <1>6 DEF TypeOK, Assign, callVars

LEMMA FillType == TypeOK /\ Fill => TypeOK'
<1> SUFFICES ASSUME TypeOK, Fill PROVE TypeOK'
  OBVIOUS
<1> DEFINE p == PageFor(pend.chunk, addr)
           copied == [u \in Units |-> IF u \in Span(pend.units)
                                      THEN <<pend.chunk, mem[pend.chunk]>>
                                      ELSE hold[p][u]]
<1>1. p \in Pages \cup {0}
  BY PageForIs
<1>2. pend.chunk \in Chunks /\ mem[pend.chunk] \in 0 .. MaxVer
  BY DEF TypeOK, Posts
<1>3. hold' \in [Pages -> [Units -> (Chunks \X (0 .. MaxVer)) \cup {Nothing}]]
  <2>1. hold' = hold \/ hold' = [hold EXCEPT ![p] = copied]
    BY DEF Fill
  <2>2. p \in Pages =>
          copied \in [Units -> (Chunks \X (0 .. MaxVer)) \cup {Nothing}]
    BY <1>2 DEF TypeOK
  <2> HIDE DEF p, copied
  <2>3. CASE p \in Pages
    BY <2>1, <2>2, <2>3 DEF TypeOK
  <2>4. CASE p = 0
    BY <2>1, <2>4, PagesAre DEF TypeOK
  <2> QED BY <1>1, <2>3, <2>4
<1>4. state' \in [Pages -> {"free", "filling", "resident"}]
  BY DEF TypeOK, Fill
<1>5. phase' \in {"replied", "died"}
  BY DEF Fill
<1> QED BY <1>3, <1>4, <1>5 DEF TypeOK, Fill, callVars

LEMMA MapType == TypeOK /\ MapUnits => TypeOK'
<1> SUFFICES ASSUME TypeOK, MapUnits PROVE TypeOK'
  OBVIOUS
<1>1. pend.chunk \in Chunks /\ pend.units \subseteq Units
  BY DEF TypeOK, Posts
<1>2. view' \in [Chunks -> [Units -> Pages \cup {0, -1}]]
      /\ wmap' \subseteq Places /\ phase' \in {"replied", "died"}
  <2> DEFINE c == pend.chunk
             new == {u \in pend.units : <<c, u>> \notin wmap}
  <2>1. \/ /\ view' = [view EXCEPT ![c] =
                         [u \in Units |-> IF u \in new THEN -1 ELSE @[u]]]
           /\ wmap' = wmap \cup {<<c, u>> : u \in new}
        \/ view' = view /\ wmap' = wmap
    BY DEF MapUnits
  <2>2. wmap' \subseteq Places
    <3>1. \A u \in new : <<c, u>> \in Places
      BY <1>1 DEF Places
    <3>2. wmap \subseteq Places
      BY DEF TypeOK
    <3> HIDE DEF new, c
    <3> QED BY <2>1, <3>1, <3>2
  <2>3. [u \in Units |-> IF u \in new THEN -1 ELSE view[c][u]]
          \in [Units -> Pages \cup {0, -1}]
    BY <1>1 DEF TypeOK
  <2>4. view' \in [Chunks -> [Units -> Pages \cup {0, -1}]]
    <3> HIDE DEF new, c
    <3> QED BY <2>1, <2>3 DEF TypeOK
  <2>5. phase' \in {"replied", "died"}
    BY DEF MapUnits
  <2> QED BY <2>2, <2>4, <2>5
<1> QED BY <1>2 DEF TypeOK, MapUnits, callVars

LEMMA RunType == TypeOK /\ Run => TypeOK'
<1> SUFFICES ASSUME TypeOK, Run PROVE TypeOK'
  OBVIOUS
<1> DEFINE good == Placeable
           pageAt(c) == {p \in good : addr[p] = c}
<1>1. good \subseteq Pages
  BY DEF Fresh, Placeable
<1>2. at' \in [Pages -> Chunks \cup {None}]
  BY <1>1 DEF TypeOK, Run
<1>3. \A c \in Chunks : pageAt(c) # {} =>
        (CHOOSE p \in pageAt(c) : TRUE) \in Pages
  BY <1>1
<1>4. view' \in [Chunks -> [Units -> Pages \cup {0, -1}]]
  BY <1>3 DEF TypeOK, Run
<1>5. phase' \in {"running", "died"}
  BY DEF Run
<1> QED BY <1>2, <1>4, <1>5 DEF TypeOK, Run, callVars

\* The read-ahead is of chunks the card does not hold.
LEMMA AheadIs ==
  ASSUME TypeOK, NEW c \in Chunks
  PROVE  /\ AheadOf(c) \subseteq Immutable /\ {c} \cup AheadOf(c) \subseteq Chunks
         /\ \A d \in AheadOf(c) : d > c /\ d <= c + Ahead /\ held[d] = "no"
<1>1. c \in Nat /\ Ahead \in Nat /\ Immutable \subseteq Chunks
  BY ChunksAre, ResidencyAssumption
<1>2. ASSUME NEW d \in AheadOf(c)
      PROVE  d \in Immutable /\ d > c /\ d <= c + Ahead /\ held[d] = "no"
  <2>1. /\ d \in c + 1 .. c + Ahead /\ c + 1 .. d \subseteq Immutable
        /\ held[d] = "no"
    BY DEF AheadOf
  <2>2. d \in c + 1 .. d
    BY <1>1, <2>1
  <2> QED BY <1>1, <2>1, <2>2
<1> QED BY <1>1, <1>2

LEMMA FaultType == TypeOK /\ Fault => TypeOK'
<1> SUFFICES ASSUME TypeOK, Fault PROVE TypeOK'
  OBVIOUS
<1>1. PICK a \in want :
        LET c == a[1]
            ahead == AheadOf(c)
        IN /\ ~Placed(a)
           /\ IF c \in Immutable /\ held[c] # "rw"
              THEN /\ \E s \in SetToSeqs({c} \cup ahead) :
                        /\ \A i, j \in DOMAIN s : i < j => s[i] < s[j]
                        /\ need' = Whole(s)
                   /\ roLast' = Max({c} \cup ahead)
                   /\ UNCHANGED wu
              ELSE /\ need' = IF a \in wu THEN <<>>
                              ELSE <<[chunk |-> c, units |-> {a[2]},
                                      class |-> 1]>>
                   /\ wu' = wu \cup {a}
                   /\ UNCHANGED roLast
  BY DEF Fault
<1> DEFINE c == a[1]
<1>2. a \in Places /\ c \in Chunks /\ a[2] \in Units
  BY DEF TypeOK, Places
<1>3. {c} \cup AheadOf(c) \subseteq Chunks
  BY <1>2, AheadIs
<1>4. /\ need' \in Seq(Requests) /\ roLast' \in Chunks \cup {None - 1}
      /\ wu' \subseteq Places
  <2>1. CASE c \in Immutable /\ held[c] # "rw"
    <3>1. PICK s \in SetToSeqs({c} \cup AheadOf(c)) : need' = Whole(s)
      BY <1>1, <2>1
    <3>2. roLast' = Max({c} \cup AheadOf(c)) /\ wu' = wu
      BY <1>1, <2>1
    <3> HIDE DEF c
    <3>3. /\ DOMAIN s = 1 .. Len(s) /\ Len(s) \in Nat
          /\ \A i \in 1 .. Len(s) : s[i] \in Chunks
      BY <1>3, Listing
    <3>4. need' \in [1 .. Len(s) -> Requests]
      BY <3>1, <3>3 DEF Whole, Requests
    <3>5. need' \in Seq(Requests)
      BY <3>3, <3>4, FunctionIsSequence
    <3>6. Max({c} \cup AheadOf(c)) \in {c} \cup AheadOf(c)
      <4>1. {c} \cup AheadOf(c) \subseteq 0 .. NChunks - 1
        BY <1>3, ChunksAre
      <4> QED BY <4>1, MaxIn, ChunksAre
    <3> QED BY <1>3, <3>2, <3>5, <3>6 DEF TypeOK
  <2>2. CASE ~(c \in Immutable /\ held[c] # "rw")
    <3>1. [chunk |-> c, units |-> {a[2]}, class |-> 1] \in Requests
      BY <1>2 DEF Requests
    <3>2. <<[chunk |-> c, units |-> {a[2]}, class |-> 1]>> \in Seq(Requests)
          /\ <<>> \in Seq(Requests)
      BY <3>1
    <3> QED BY <1>1, <1>2, <2>2, <3>2 DEF TypeOK
  <2> QED BY <2>1, <2>2
<1> QED BY <1>4 DEF TypeOK, Fault, callVars, cardVars

LEMMA TypeStep == TypeOK /\ [Next]_vars => TypeOK'
<1> SUFFICES ASSUME TypeOK, [Next]_vars PROVE TypeOK'
  OBVIOUS
<1>1. ASSUME NEW c \in Chunks, Remap(c) PROVE TypeOK'
  <2>1. mem' \in [Chunks -> 0 .. MaxVer]
    BY SMTT(30), <1>1, ResidencyAssumption DEF TypeOK, Remap
  <2> QED BY <1>1, <2>1 DEF TypeOK, Remap, callVars, cardVars
<1>2. CASE RegionEnter
  <2>1. PICK rsp \in SUBSET Units :
          LET new == {u \in rsp : <<Stack, u>> \notin wu}
          IN /\ need' = IF new = {} THEN <<>>
                        ELSE <<[chunk |-> Stack, units |-> new, class |-> 1]>>
             /\ wu' = wu \cup {<<Stack, u>> : u \in new}
    BY <1>2 DEF RegionEnter
  <2> DEFINE new == {u \in rsp : <<Stack, u>> \notin wu}
  <2>2. /\ new \subseteq Units /\ Stack \in Chunks
        /\ wu' = wu \cup {<<Stack, u>> : u \in new} /\ wu \subseteq Places
    BY <2>1, ResidencyAssumption DEF Chunks, TypeOK
  <2> HIDE DEF new
  <2>3. [chunk |-> Stack, units |-> new, class |-> 1] \in Requests
    BY <2>2 DEF Requests
  <2>4. need' \in Seq(Requests)
    BY <2>1, <2>3 DEF new
  <2>5. wu' \subseteq Places
    BY <2>2 DEF Places
  <2> QED BY <1>2, <2>4, <2>5 DEF TypeOK, RegionEnter, cardVars
<1>3. CASE Done
  <2>1. pend.chunk \in Chunks /\ pend.units \subseteq Units
    BY DEF TypeOK, Posts
  <2>2. /\ held' \in [Chunks -> {"no", "ro", "rw"}]
        /\ filled' \in [Chunks -> SUBSET Units]
    BY <1>3, <2>1 DEF TypeOK, Done
  <2> QED BY <1>3, <2>2, EmptyTables DEF TypeOK, Done, callVars, cardVars
<1>4. CASE Access
  BY <1>4 DEF TypeOK, Access, callVars, cardVars
<1>5. CASE FaultFatal
  BY <1>5 DEF TypeOK, FaultFatal, callVars, cardVars
<1>6. CASE UNCHANGED vars
  BY <1>6 DEF TypeOK, vars, hostVars, callVars, cardVars
<1> QED
  BY <1>1, <1>2, <1>3, <1>4, <1>5, <1>6, OpenType, CallType, PostType,
     AssignType, FillType, MapType, RunType, FaultType DEF Next

\* The host's tables (card.S, region.S) and the card's (resident.S) keep
\* their types, for any callers, pool, ring and number of units.
THEOREM Typing == Spec => []TypeOK
  BY InitType, TypeStep, PTL DEF Spec

-----------------------------------------------------------------------------
(* The pool.                                                               *)

LEMMA InitInv == ASSUME Uniform PROVE Init => Inv
<1> SUFFICES ASSUME Init PROVE Inv
  OBVIOUS
<1>1. TypeOK
  BY InitType
<1>2. ClassInv
  BY DEF Init, ClassInv, Pending0, Pending1
<1>3. RingInv
  BY ResidencyAssumption DEF Init, RingInv, Uniform
<1>4. PoolInv
  BY DEF Init, PoolInv
<1>5. CountInv
  <2>1. Used = {}
    BY DEF Init, Used
  <2>2. Cardinality(Used) = 0
    BY <2>1, FS_EmptySet
  <2> QED BY <2>2 DEF Init, CountInv, Pending0
<1> QED BY <1>1, <1>2, <1>3, <1>4, <1>5 DEF Inv

\* A step that leaves the tables alone, outside a request of class 0.
LEMMA AwayFromPool ==
  ASSUME RingInv, PoolInv, CountInv, Live,
         UNCHANGED <<addr, state, held, npin, ring>>,
         ~Pending0, ~Pending0', phase # "filling", phase' # "filling"
  PROVE  RingInv' /\ PoolInv' /\ CountInv'
<1>1. addr' = addr /\ state' = state /\ held' = held /\ npin' = npin
      /\ ring' = ring
  OBVIOUS
<1>2. ~(phase = "posted" /\ pend.class = 0)
      /\ ~(phase' = "posted" /\ pend'.class = 0)
  BY DEF Pending0
<1>3. RingInv'
  BY <1>1 DEF RingInv
<1>4. PoolInv'
  <2>1. \A c : Resident(c)' <=> Resident(c)
    BY <1>1 DEF Resident
  <2>2. \A p \in Pages : addr[p] # None => held[addr[p]] = "ro"
    BY DEF PoolInv, Unsettled
  <2>3. \A c \in Chunks : held[c] = "ro" => Resident(c)
    BY DEF PoolInv
  <2> QED BY <1>1, <2>2, <2>3 DEF PoolInv, Resident
<1>5. CountInv'
  BY <1>1, <1>2 DEF CountInv, Used
<1> QED BY <1>3, <1>4, <1>5

LEMMA OpenInv == ASSUME Uniform, Inv, Open PROVE Inv'
<1>1. TypeOK'
  BY OpenType DEF Inv
<1>2. ClassInv'
  BY DEF Open, ClassInv, Pending0, Pending1
<1>3. RingInv'
  BY ResidencyAssumption DEF Open, RingInv, Uniform
<1>4. PoolInv'
  BY DEF Open, PoolInv
<1>5. CountInv'
  <2>1. Used' = {}
    BY DEF Open, Used
  <2>2. Cardinality(Used') = 0
    BY <2>1, FS_EmptySet
  <2> QED BY <2>2 DEF Open, CountInv, Pending0
<1> QED BY <1>1, <1>2, <1>3, <1>4, <1>5 DEF Inv

LEMMA RemapInv == ASSUME Uniform, Inv, NEW c \in Chunks, Remap(c) PROVE Inv'
<1>1. TypeOK'
  BY TypeStep DEF Inv, Next
<1>2. /\ phase = "native" /\ phase' = phase /\ path' = path /\ need' = need
      /\ pend' = pend /\ held' = held /\ at' = at /\ wmap' = wmap
      /\ UNCHANGED <<addr, state, held, npin, ring>>
  BY DEF Remap, callVars, cardVars
<1>3. ClassInv'
  BY <1>2 DEF Inv, ClassInv, Pending0, Pending1, OfClass, Paged, United
<1>4. RingInv' /\ PoolInv' /\ CountInv'
  BY <1>2, AwayFromPool DEF Inv, Live, Pending0
<1> QED BY <1>1, <1>3, <1>4 DEF Inv

\* What a region asks for before it runs: units of the stack, those that are
\* new in wu_tab.
LEMMA RegionAsks ==
  ASSUME RegionEnter
  PROVE  /\ \A i \in 1 .. Len(need') :
              need'[i].class = 1 /\ need'[i].chunk = Stack
         /\ \A a \in wu' : \/ a \in wu
                           \/ \E i \in 1 .. Len(need') :
                                /\ need'[i].class = 1
                                /\ need'[i].chunk = a[1]
                                /\ a[2] \in need'[i].units
<1>1. PICK rsp \in SUBSET Units :
        LET new == {u \in rsp : <<Stack, u>> \notin wu}
        IN /\ need' = IF new = {} THEN <<>>
                      ELSE <<[chunk |-> Stack, units |-> new, class |-> 1]>>
           /\ wu' = wu \cup {<<Stack, u>> : u \in new}
  BY DEF RegionEnter
<1> DEFINE new == {u \in rsp : <<Stack, u>> \notin wu}
<1>2. /\ need' = IF new = {} THEN <<>>
                 ELSE <<[chunk |-> Stack, units |-> new, class |-> 1]>>
      /\ wu' = wu \cup {<<Stack, u>> : u \in new}
  BY <1>1
<1> HIDE DEF new
<1>3. CASE new = {}
  <2>1. need' = <<>> /\ Len(need') = 0
    BY <1>2, <1>3
  <2>2. wu' = wu
    BY <1>2, <1>3
  <2> QED BY <2>1, <2>2
<1>4. CASE new # {}
  <2>1. need' = <<[chunk |-> Stack, units |-> new, class |-> 1]>>
        /\ wu' = wu \cup {<<Stack, u>> : u \in new}
    BY <1>2, <1>4
  <2>2. /\ Len(need') = 1 /\ 1 \in 1 .. Len(need') /\ need'[1].units = new
        /\ need'[1].class = 1 /\ need'[1].chunk = Stack
    BY <2>1
  <2>3. ASSUME NEW a \in wu', a \notin wu
        PROVE  a[1] = Stack /\ a[2] \in new
    BY <2>1, <2>3
  <2> QED BY <2>2, <2>3
<1> QED BY <1>3, <1>4

LEMMA RegionInv == ASSUME Uniform, Inv, RegionEnter PROVE Inv'
<1>1. TypeOK'
  BY TypeStep DEF Inv, Next
<1>2. /\ phase = "native" /\ phase' = "post" /\ path' = "region"
      /\ path \in {"none", "region"}
      /\ pend' = pend /\ held' = held /\ at' = at /\ wmap' = wmap
      /\ UNCHANGED <<addr, state, held, npin, ring>>
  BY DEF RegionEnter, cardVars, MayRun, Uniform
<1>3. \A i \in 1 .. Len(need') : need'[i].class = 1 /\ need'[i].chunk = Stack
  BY RegionAsks
<1>4. Stack \notin Immutable
  BY ResidencyAssumption
<1>5. ClassInv'
  BY <1>2, <1>3, <1>4 DEF Inv, ClassInv, Pending0, Pending1, OfClass, Paged,
     United
<1>6. RingInv' /\ PoolInv' /\ CountInv'
  BY <1>2, AwayFromPool DEF Inv, Live, Pending0
<1> QED BY <1>1, <1>5, <1>6 DEF Inv

\* A planned call that writes nothing asks only for pages.
LEMMA CallInv == ASSUME Uniform, Inv, CallEnter PROVE Inv'
<1>1. TypeOK'
  BY CallType DEF Inv
<1>2. /\ phase = "native" /\ phase' = "post" /\ path' = "planned"
      /\ path \in {"none", "planned"}
      /\ pend' = pend /\ held' = held /\ at' = at /\ wmap' = wmap
      /\ UNCHANGED <<addr, state, held, npin, ring>>
  BY DEF CallEnter, cardVars, MayRun, Uniform, Inv, TypeOK
<1>3. \A i \in 1 .. Len(need') : need'[i].class = 0
  <2>1. PICK rd \in SUBSET OperandPlaces :
          \E s \in SetToSeqs({c \in Chunks : Lacks(c, rd, {})}) :
            need' = [i \in DOMAIN s |-> NeedOf(s[i], rd, {})]
    <3>1. "written" \notin Env
      BY DEF Uniform
    <3>2. PICK rd \in SUBSET OperandPlaces, wr \in {{}} :
            \E s \in SetToSeqs({c \in Chunks : Lacks(c, rd, wr)}) :
              need' = [i \in DOMAIN s |-> NeedOf(s[i], rd, wr)]
      BY <3>1 DEF CallEnter
    <3>3. wr = {}
      OBVIOUS
    <3> QED BY <3>2, <3>3
  <2>2. PICK s \in SetToSeqs({c \in Chunks : Lacks(c, rd, {})}) :
          need' = [i \in DOMAIN s |-> NeedOf(s[i], rd, {})]
    BY <2>1
  <2>3. /\ DOMAIN s = 1 .. Len(s) /\ Len(s) \in Nat
        /\ \A i \in 1 .. Len(s) : Lacks(s[i], rd, {})
    BY Listing
  <2>4. \A c : Lacks(c, rd, {}) => NeedOf(c, rd, {}).class = 0
    BY DEF Lacks, NeedOf, UnitsAt
  <2>5. Len(need') = Len(s)
    BY <2>2, <2>3
  <2> QED BY <2>2, <2>3, <2>4, <2>5
<1>4. ClassInv'
  BY <1>2, <1>3 DEF Inv, ClassInv, Pending0, Pending1, OfClass, Paged, United
<1>5. RingInv' /\ PoolInv' /\ CountInv'
  BY <1>2, AwayFromPool DEF Inv, Live, Pending0
<1> QED BY <1>1, <1>4, <1>5 DEF Inv

LEMMA MapInv == ASSUME Uniform, Inv, MapUnits PROVE Inv'
<1>1. TypeOK'
  BY MapType DEF Inv
<1>2. /\ phase = "posted" /\ pend.class = 1 /\ phase' \in {"replied", "died"}
      /\ path' = path /\ need' = need /\ pend' = pend /\ at' = at
      /\ UNCHANGED <<addr, state, held, npin, ring>>
  BY DEF MapUnits, callVars
<1>6. \A a \in wmap' : a \in wmap \/ a[1] = pend.chunk
  <2> DEFINE new == {u \in pend.units : <<pend.chunk, u>> \notin wmap}
  <2>1. wmap' = wmap \cup {<<pend.chunk, u>> : u \in new} \/ wmap' = wmap
    BY DEF MapUnits
  <2> HIDE DEF new
  <2> QED BY <2>1
<1>3. United(pend.chunk)
  BY <1>2 DEF Inv, ClassInv, Pending1, OfClass
<1>4. ClassInv'
  BY <1>2, <1>3, <1>6
  DEF Inv, ClassInv, Pending0, Pending1, OfClass, Paged, United
<1>5. RingInv' /\ PoolInv' /\ CountInv'
  BY <1>2, AwayFromPool DEF Inv, Live, Pending0
<1> QED BY <1>1, <1>4, <1>5 DEF Inv

LEMMA RunInv == ASSUME Uniform, Inv, Run PROVE Inv'
<1>1. TypeOK'
  BY RunType DEF Inv
<1>2. /\ phase = "post" /\ need = <<>> /\ phase' \in {"running", "died"}
      /\ path' = path /\ need' = need /\ pend' = pend /\ wmap' = wmap
      /\ UNCHANGED <<addr, state, held, npin, ring>>
      /\ \A p \in Pages : at'[p] \in {addr[p], None, at[p]}
  BY DEF Run, callVars
<1>3. \A p \in Pages : addr[p] # None => addr[p] \in Chunks /\ Paged(addr[p])
  BY <1>2 DEF Inv, PoolInv, ClassInv, TypeOK, Live, Unsettled, Pending0
<1>4. ClassInv'
  BY <1>2, <1>3
  DEF Inv, ClassInv, Pending0, Pending1, OfClass, Paged, United
<1>5. RingInv' /\ PoolInv' /\ CountInv'
  BY <1>2, AwayFromPool DEF Inv, Live, Pending0
<1> QED BY <1>1, <1>4, <1>5 DEF Inv

LEMMA AccessInv == ASSUME Uniform, Inv, Access PROVE Inv'
<1>1. TypeOK'
  BY TypeStep DEF Inv, Next
<1>2. /\ phase = "running" /\ phase' \in {"native", "running"}
      /\ path' = path /\ need' = need /\ pend' = pend /\ held' = held
      /\ at' = at /\ wmap' = wmap
      /\ UNCHANGED <<addr, state, held, npin, ring>>
  BY DEF Access, callVars, cardVars
<1>3. ClassInv'
  BY <1>2 DEF Inv, ClassInv, Pending0, Pending1, OfClass, Paged, United
<1>4. RingInv' /\ PoolInv' /\ CountInv'
  BY <1>2, AwayFromPool DEF Inv, Live, Pending0
<1> QED BY <1>1, <1>3, <1>4 DEF Inv

LEMMA FatalInv == ASSUME Uniform, Inv, FaultFatal PROVE Inv'
<1>1. TypeOK'
  BY TypeStep DEF Inv, Next
<1>2. /\ phase = "running" /\ phase' = "died"
      /\ path' = path /\ need' = need /\ pend' = pend /\ held' = held
      /\ at' = at /\ wmap' = wmap
      /\ UNCHANGED <<addr, state, held, npin, ring>>
  BY DEF FaultFatal, callVars, cardVars
<1>3. ClassInv'
  BY <1>2 DEF Inv, ClassInv, Pending0, Pending1, OfClass, Paged, United
<1>4. RingInv' /\ PoolInv' /\ CountInv'
  BY <1>2, AwayFromPool DEF Inv, Live, Pending0
<1> QED BY <1>1, <1>3, <1>4 DEF Inv

\* A chunk at the end of a queue.
LEMMA Joined ==
  ASSUME NEW S, NEW q \in Seq(S), NEW c \in S
  PROVE  /\ Append(q, c) \in Seq(S) /\ Len(Append(q, c)) = Len(q) + 1
         /\ Len(q) \in Nat /\ Append(q, c)[Len(q) + 1] = c
         /\ \A i \in 1 .. Len(q) : Append(q, c)[i] = q[i]
  BY AppendProperties, LenProperties

\* A queue without repetition, with one more or one for its oldest.
LEMMA StillOnce ==
  ASSUME NEW q \in Seq(Chunks), NEW c \in Chunks,
         \A i \in 1 .. Len(q) : q[i] # c,
         \A i, j \in 1 .. Len(q) : q[i] = q[j] => i = j
  PROVE  /\ \A i, j \in 1 .. Len(Append(q, c)) :
              Append(q, c)[i] = Append(q, c)[j] => i = j
         /\ \A i \in 1 .. Len(Append(q, c)) :
              Append(q, c)[i] = c \/ \E j \in 1 .. Len(q) : Append(q, c)[i] = q[j]
<1> DEFINE r == Append(q, c)
<1>1. /\ Len(r) = Len(q) + 1 /\ Len(q) \in Nat /\ r[Len(q) + 1] = c
      /\ \A i \in 1 .. Len(q) : r[i] = q[i]
  BY Joined
<1>2. \A i \in 1 .. Len(r) : i \in 1 .. Len(q) \/ i = Len(q) + 1
  BY <1>1
<1> HIDE DEF r
<1>3. \A i, j \in 1 .. Len(r) : r[i] = r[j] => i = j
  BY <1>1, <1>2
<1>4. \A i \in 1 .. Len(r) : r[i] = c \/ \E j \in 1 .. Len(q) : r[i] = q[j]
  BY <1>1, <1>2
<1> QED BY <1>3, <1>4 DEF r

\* The oldest of the ring leaves.
LEMMA Oldest ==
  ASSUME NEW q \in Seq(Chunks), q # <<>>,
         \A i, j \in 1 .. Len(q) : q[i] = q[j] => i = j
  PROVE  /\ Head(q) \in Chunks /\ Tail(q) \in Seq(Chunks) /\ 1 \in 1 .. Len(q)
         /\ Head(q) = q[1] /\ Len(Tail(q)) = Len(q) - 1 /\ Len(q) \in Nat
         /\ \A i, j \in 1 .. Len(Tail(q)) : Tail(q)[i] = Tail(q)[j] => i = j
         /\ \A i \in 1 .. Len(Tail(q)) :
              /\ Tail(q)[i] # Head(q)
              /\ \E j \in 1 .. Len(q) : Tail(q)[i] = q[j]
<1>1. /\ Len(q) \in Nat /\ Len(q) >= 1 /\ Head(q) = q[1] /\ q[1] \in Chunks
      /\ Tail(q) \in Seq(Chunks) /\ Len(Tail(q)) = Len(q) - 1
      /\ \A i \in 1 .. Len(q) - 1 : Tail(q)[i] = q[i + 1]
  BY TailOf
<1>2. \A i \in 1 .. Len(q) - 1 : i + 1 \in 1 .. Len(q) /\ i + 1 # 1
                                 /\ 1 \in 1 .. Len(q) /\ i \in Int
  BY <1>1
<1>3. \A i, j \in 1 .. Len(q) - 1 : Tail(q)[i] = Tail(q)[j] => i = j
  <2> SUFFICES ASSUME NEW i \in 1 .. Len(q) - 1, NEW j \in 1 .. Len(q) - 1,
                      Tail(q)[i] = Tail(q)[j]
               PROVE  i = j
    OBVIOUS
  <2>1. q[i + 1] = q[j + 1]
    BY <1>1
  <2>2. i + 1 = j + 1
    BY <1>2, <2>1
  <2> QED BY <1>2, <2>2
<1>4. \A i \in 1 .. Len(q) - 1 : Tail(q)[i] # Head(q)
  BY <1>1, <1>2
<1>5. \A i \in 1 .. Len(q) - 1 : \E j \in 1 .. Len(q) : Tail(q)[i] = q[j]
  BY <1>1, <1>2
<1> QED BY <1>1, <1>3, <1>4, <1>5

\* Between two requests the two tables agree.
LEMMA Settled ==
  ASSUME TypeOK, RingInv, PoolInv, CountInv, Live, ~Pending0,
         phase # "filling"
  PROVE  /\ \A c \in Chunks : held[c] = "ro" => Resident(c)
         /\ \A p \in Pages : addr[p] # None => held[addr[p]] = "ro"
         /\ \A i \in 1 .. Len(ring) : held[ring[i]] = "ro"
         /\ Cardinality(Used) = npin + Len(ring)
<1>1. ~(phase = "posted" /\ pend.class = 0)
  BY DEF Pending0
<1>2. Cardinality(Used) = npin + Len(ring)
  BY <1>1 DEF CountInv
<1> QED BY <1>2 DEF PoolInv, RingInv, Unsettled

\* A chunk with a page has none of its units mapped.
LEMMA OneClass ==
  ASSUME NEW c, Paged(c)
  PROVE  ~United(c)
  BY DEF Paged, United

\* A request is posted: of class 1 away from the pool, of class 0 for a chunk
\* the table holds, or with a pin, a place of the ring, or the oldest's.
LEMMA PostInv == ASSUME Uniform, Inv, Post PROVE Inv'
<1> DEFINE n == Head(need)
           c == n.chunk
           full == npin >= NPages - Ring /\ Len(ring) = Ring
<1>1. TypeOK'
  BY PostType DEF Inv
<1>2. /\ phase = "post" /\ need # <<>> /\ phase' = "posted" /\ path' = path
      /\ need' = Tail(need) /\ at' = at /\ wmap' = wmap /\ addr' = addr
      /\ state' = state
  BY DEF Post, callVars, cardVars
<1>3. /\ need \in Seq(Requests) /\ ring \in Seq(Chunks) /\ Len(ring) <= Ring
      /\ npin \in Nat /\ held \in [Chunks -> {"no", "ro", "rw"}]
      /\ addr \in [Pages -> Chunks \cup {None}]
  BY DEF Inv, TypeOK
<1>4. /\ NPages \in Nat /\ Ring \in Nat /\ Ring >= 1 /\ Ring <= NPages
      /\ npin <= NPages - Ring
  BY ResidencyAssumption DEF Uniform, Inv, RingInv
<1>5. /\ n \in Requests /\ n = need[1] /\ 1 \in 1 .. Len(need)
      /\ Len(Tail(need)) = Len(need) - 1 /\ Len(need) \in Nat
      /\ \A i \in 1 .. Len(need) - 1 : Tail(need)[i] = need[i + 1]
  BY <1>2, <1>3, TailOf
<1>6. /\ c \in Chunks /\ n.class \in {0, 1}
  BY <1>5 DEF Requests
<1>7. OfClass(n)
  BY <1>5 DEF Inv, ClassInv
<1>8. /\ pend' = [chunk |-> c, units |-> n.units, class |-> n.class,
                  victim |-> IF n.class = 0 /\ held[c] = "no" /\ full
                             THEN Head(ring) ELSE None]
      /\ IF n.class = 0 /\ held[c] = "no"
         THEN Pin \/ EnterRing(c) \/ Evict(c)
         ELSE UNCHANGED <<npin, ring, held, filled>>
  BY DEF Post
<1>9. pend'.chunk = c /\ pend'.class = n.class
  BY <1>8
<1>10. Live /\ ~Pending0 /\ phase # "filling" /\ Live'
  BY <1>2 DEF Live, Pending0
<1>11. /\ \A d \in Chunks : held[d] = "ro" => Resident(d)
       /\ \A p \in Pages : addr[p] # None => held[addr[p]] = "ro"
       /\ \A i \in 1 .. Len(ring) : held[ring[i]] = "ro"
       /\ Cardinality(Used) = npin + Len(ring)
  BY <1>10, Settled DEF Inv
<1>12. /\ \A p, q \in Pages : addr[p] = addr[q] /\ addr[p] # None => p = q
       /\ \A p \in Pages : addr[p] = None => state[p] = "free"
       /\ \A i, j \in 1 .. Len(ring) : ring[i] = ring[j] => i = j
  BY DEF Inv, PoolInv, RingInv
<1>13. Used' = Used /\ \A d : Resident(d)' <=> Resident(d)
  BY <1>2 DEF Used, Resident
<1>14. /\ \A d \in Chunks : /\ held[d] = "ro" => Paged(d)
                            /\ held[d] = "rw" => United(d)
       /\ \A i \in 1 .. Len(need') : OfClass(need'[i])
       /\ \A p \in Pages : at[p] # None => Paged(at[p])
       /\ \A a \in wmap : United(a[1])
  <2>1. \A i \in 1 .. Len(need) : OfClass(need[i])
    BY DEF Inv, ClassInv
  <2>2. \A i \in 1 .. Len(need) - 1 : i + 1 \in 1 .. Len(need)
    BY <1>5
  <2>3. \A i \in 1 .. Len(need') : OfClass(need'[i])
    BY <1>2, <1>5, <2>1, <2>2
  <2> QED BY <2>3 DEF Inv, ClassInv
<1>15. \A d : (Paged(d)' <=> Paged(d)) /\ (United(d)' <=> United(d))
  BY <1>2 DEF Paged, United
<1>16. \A r : OfClass(r)' <=> OfClass(r)
  BY <1>2 DEF OfClass, Paged, United
<1> HIDE DEF n, c, full
<1>20. (\A d \in Chunks : held'[d] = held[d] \/ held'[d] = "no") => ClassInv'
  <2> SUFFICES ASSUME \A d \in Chunks : held'[d] = held[d] \/ held'[d] = "no"
               PROVE  ClassInv'
    OBVIOUS
  <2>1. Pending0' \/ Pending1'
    BY <1>2, <1>6, <1>9 DEF Pending0, Pending1
  <2>2. OfClass(pend)'
    BY <1>2, <1>7, <1>9 DEF OfClass, Paged, United, c
  <2>3. (\A i \in 1 .. Len(need) : OfClass(need[i]))'
    BY <1>14, <1>2 DEF OfClass, Paged, United
  <2> QED BY <1>2, <1>14, <1>15, <2>1, <2>2, <2>3 DEF ClassInv
<1>21. CASE n.class = 1
  <2>1. UNCHANGED <<addr, state, held, npin, ring>>
    BY <1>2, <1>8, <1>21
  <2>2. ~Pending0'
    BY <1>9, <1>21 DEF Pending0
  <2>3. RingInv' /\ PoolInv' /\ CountInv'
    BY <1>2, <1>10, <2>1, <2>2, AwayFromPool DEF Inv
  <2>4. ClassInv'
    BY <1>20, <2>1
  <2> QED BY <1>1, <2>3, <2>4 DEF Inv
<1>22. CASE n.class = 0 /\ held[c] # "no"
  <2>1. held[c] = "ro"
    <3>1. Paged(c)
      BY <1>7, <1>22 DEF OfClass, c
    <3>2. held[c] # "rw"
      BY <1>6, <1>14, <3>1, OneClass
    <3> QED BY <1>3, <1>6, <1>22, <3>2
  <2>2. UNCHANGED <<addr, state, held, npin, ring>> /\ pend'.victim = None
    BY <1>2, <1>8, <1>22
  <2>3. ClassInv'
    BY <1>20, <2>2
  <2>4. RingInv'
    BY <1>4, <1>11, <1>12, <2>2 DEF RingInv
  <2>5. PoolInv'
    BY <1>11, <1>12, <1>13, <2>2 DEF PoolInv
  <2>6. CountInv'
    BY <1>2, <1>9, <1>11, <1>13, <1>22, <2>1, <2>2 DEF CountInv
  <2> QED BY <1>1, <2>3, <2>4, <2>5, <2>6 DEF Inv
<1>23. ASSUME n.class = 0, held[c] = "no"
       PROVE  /\ \A p \in Pages : addr[p] # c
              /\ \A i \in 1 .. Len(ring) : ring[i] # c
              /\ Pending0'
  <2>1. \A p \in Pages : addr[p] # c
    BY <1>6, <1>11, <1>23, ChunksAre
  <2>2. \A i \in 1 .. Len(ring) : ring[i] # c
    BY <1>11, <1>23
  <2> QED BY <1>2, <1>9, <1>23, <2>1, <2>2 DEF Pending0
<1>24. CASE n.class = 0 /\ held[c] = "no" /\ Pin
  <2>1. /\ npin' = npin + 1 /\ npin < NPages - Ring
        /\ ring' = ring /\ held' = held
    BY <1>24 DEF Pin
  <2>2. pend'.victim = None
    <3>1. ~full
      BY <1>3, <1>4, <2>1 DEF full
    <3> QED BY <1>8, <3>1
  <2>3. ClassInv'
    BY <1>20, <2>1
  <2>4. RingInv'
    <3>1. npin' <= NPages - Ring
      BY <1>3, <1>4, <2>1
    <3> QED BY <1>11, <1>12, <2>1, <3>1 DEF RingInv
  <2>5. PoolInv'
    BY <1>2, <1>11, <1>12, <1>13, <2>1 DEF PoolInv
  <2>6. CountInv'
    <3>1. Cardinality(Used') + 1 = npin' + Len(ring')
      <4>1. Len(ring) \in Nat
        BY <1>3, LenProperties
      <4> QED BY <1>3, <1>11, <1>13, <2>1, <4>1
    <3> QED BY <1>2, <1>9, <1>23, <1>24, <2>1, <2>2, <3>1 DEF CountInv
  <2> QED BY <1>1, <2>3, <2>4, <2>5, <2>6 DEF Inv
<1>25. CASE n.class = 0 /\ held[c] = "no" /\ EnterRing(c)
  <2>1. /\ npin' = npin /\ held' = held /\ ring' = Append(ring, c)
        /\ Len(ring) < Ring
    BY <1>25 DEF EnterRing
  <2>2. pend'.victim = None
    <3>1. ~full
      <4>1. Len(ring) \in Nat
        BY <1>3, LenProperties
      <4> QED BY <1>4, <2>1, <4>1 DEF full
    <3> QED BY <1>8, <3>1
  <2>3. ClassInv'
    BY <1>20, <2>1
  <2>4. /\ \A i, j \in 1 .. Len(ring') : ring'[i] = ring'[j] => i = j
        /\ \A i \in 1 .. Len(ring') :
             ring'[i] = c \/ \E j \in 1 .. Len(ring) : ring'[i] = ring[j]
    <3>1. \A i \in 1 .. Len(ring) : ring[i] # c
      BY <1>23, <1>25
    <3> QED BY <1>3, <1>6, <1>12, <2>1, <3>1, StillOnce
  <2>5. RingInv'
    BY <1>4, <1>9, <1>11, <1>23, <1>25, <2>1, <2>4 DEF RingInv
  <2>6. PoolInv'
    BY <1>2, <1>11, <1>12, <1>13, <2>1 DEF PoolInv
  <2>7. CountInv'
    <3>1. Cardinality(Used') + 1 = npin' + Len(ring')
      <4>1. Len(ring) \in Nat /\ Len(ring') = Len(ring) + 1
        BY <1>3, <1>6, <2>1, Joined
      <4> QED BY <1>3, <1>11, <1>13, <2>1, <4>1
    <3> QED BY <1>2, <1>9, <1>23, <1>25, <2>1, <2>2, <3>1 DEF CountInv
  <2> QED BY <1>1, <2>3, <2>5, <2>6, <2>7 DEF Inv
<1>26. CASE n.class = 0 /\ held[c] = "no" /\ Evict(c)
  <2> DEFINE v == Head(ring)
             t == Tail(ring)
  <2>1. /\ npin' = npin /\ held' = [held EXCEPT ![v] = "no"]
        /\ ring' = Append(t, c) /\ Len(ring) = Ring /\ full
    BY <1>26 DEF Evict, full
  <2>2. ring # <<>>
    BY <1>4, <2>1
  <2>3. /\ v \in Chunks /\ t \in Seq(Chunks) /\ 1 \in 1 .. Len(ring)
        /\ v = ring[1] /\ Len(t) = Len(ring) - 1 /\ Len(ring) \in Nat
        /\ \A i, j \in 1 .. Len(t) : t[i] = t[j] => i = j
        /\ \A i \in 1 .. Len(t) :
             t[i] # v /\ \E j \in 1 .. Len(ring) : t[i] = ring[j]
    BY <1>3, <1>12, <2>2, Oldest
  <2>4. pend'.victim = v
    BY <1>8, <1>26, <2>1
  <2> HIDE DEF v, t
  <2>5. held[v] = "ro" /\ v # c
    BY <1>11, <1>26, <2>3
  <2>6. /\ held'[v] = "no" /\ held'[c] = "no"
        /\ \A d \in Chunks : d # v => held'[d] = held[d]
        /\ \A d \in Chunks : held'[d] = held[d] \/ held'[d] = "no"
    BY <1>3, <1>6, <1>26, <2>1, <2>3
  <2>7. ClassInv'
    BY <1>20, <2>6
  <2>8. /\ \A i, j \in 1 .. Len(ring') : ring'[i] = ring'[j] => i = j
        /\ \A i \in 1 .. Len(ring') :
             ring'[i] = c \/ \E j \in 1 .. Len(t) : ring'[i] = t[j]
    <3>1. \A i \in 1 .. Len(t) : t[i] # c
      BY <1>23, <1>26, <2>3
    <3> QED BY <1>6, <2>1, <2>3, <3>1, StillOnce
  <2>9. RingInv'
    <3>1. \A i \in 1 .. Len(t) : held'[t[i]] = "ro"
      <4> TAKE i \in 1 .. Len(t)
      <4>1. t[i] # v /\ held[t[i]] = "ro"
        BY <1>11, <2>3
      <4>2. t[i] \in Chunks
        BY <2>3, ElementOfSeq
      <4> QED BY <2>6, <4>1, <4>2
    <3>2. \A i \in 1 .. Len(ring') : held'[ring'[i]] = "ro" \/ ring'[i] = c
      BY <2>8, <3>1
    <3> QED BY <1>4, <1>9, <1>23, <1>26, <2>1, <2>8, <3>2 DEF RingInv
  <2>10. PoolInv'
    <3>1. \A d \in Chunks : held'[d] = "ro" => Resident(d)
      BY <1>11, <2>6
    <3>2. \A p \in Pages : addr[p] # None =>
             held'[addr[p]] = "ro" \/ addr[p] = v
      BY <1>3, <1>11, <2>6
    <3>3. (\A p \in Pages : addr[p] # None =>
              held[addr[p]] = "ro" \/ Unsettled(addr[p]))'
      BY <1>2, <1>23, <1>26, <2>4, <3>2 DEF Unsettled
    <3> QED BY <1>2, <1>12, <1>13, <3>1, <3>3 DEF PoolInv
  <2>11. CountInv'
    <3>1. Cardinality(Used') = npin' + Len(ring')
      <4>1. Len(ring') = Len(t) + 1
        BY <1>6, <2>1, <2>3, Joined
      <4> QED BY <1>3, <1>11, <1>13, <2>1, <2>3, <4>1
    <3>2. \E p \in Pages : addr[p] = v
      BY <1>11, <2>3, <2>5 DEF Resident
    <3> QED BY <1>2, <1>9, <1>23, <1>26, <2>3, <2>4, <2>5, <2>6, <3>1, <3>2
            DEF CountInv
  <2> QED BY <1>1, <2>7, <2>9, <2>10, <2>11 DEF Inv
<1> QED BY <1>3, <1>6, <1>8, <1>21, <1>22, <1>24, <1>25, <1>26

\* The dispatcher finds a page: the chunk's own, the victim's, or a free one,
\* since the host has counted the pages in use.
LEMMA AssignInv ==
  ASSUME Uniform, Inv, Assign
  PROVE  Inv' /\ phase' = "filling"
<1> DEFINE c == pend.chunk
           v == pend.victim
           a == Dropped(v)
           p == PageFor(c, a)
           freed == {q \in Pages : addr[q] # None /\ a[q] = None}
<1>1. TypeOK'
  BY AssignType DEF Inv
<1>2. /\ phase = "posted" /\ pend.class = 0 /\ path' = path /\ need' = need
      /\ pend' = pend /\ at' = at /\ wmap' = wmap /\ held' = held
      /\ npin' = npin /\ ring' = ring
  BY DEF Assign, callVars
<1>3. /\ c \in Chunks /\ c # None /\ addr \in [Pages -> Chunks \cup {None}]
      /\ npin \in Nat /\ ring \in Seq(Chunks) /\ Len(ring) <= Ring
      /\ state \in [Pages -> {"free", "filling", "resident"}]
  BY ChunksAre DEF Inv, TypeOK, Posts
<1>4. /\ NPages \in Nat /\ Ring \in Nat /\ npin <= NPages - Ring
      /\ Len(ring) \in Nat
  BY <1>3, LenProperties, ResidencyAssumption DEF Inv, RingInv
<1>5. /\ a \in [Pages -> Chunks \cup {None}]
      /\ \A q \in Pages : a[q] = IF v # None /\ addr[q] = v THEN None
                                 ELSE addr[q]
  BY DroppedIs DEF Inv
<1>6. /\ p \in Pages \cup {0}
      /\ p # 0 => a[p] = c \/ (a[p] = None /\ \A q \in Pages : a[q] # c)
      /\ (\E q \in Pages : a[q] \in {c, None}) => p # 0
  BY PageForIs
<1>7. p # 0 => /\ addr' = [a EXCEPT ![p] = c]
               /\ state' = [q \in Pages |-> IF q = p THEN "filling"
                                            ELSE IF q \in freed THEN "free"
                                            ELSE state[q]]
               /\ phase' = "filling"
  BY DEF Assign
<1>8. /\ \A q, r \in Pages : addr[q] = addr[r] /\ addr[q] # None => q = r
      /\ \A q \in Pages : addr[q] = None => state[q] = "free"
      /\ \A d \in Chunks : held[d] = "ro" => Resident(d)
      /\ \A q \in Pages : addr[q] # None =>
           held[addr[q]] = "ro" \/ addr[q] = c \/ addr[q] = v
  BY <1>2 DEF Inv, PoolInv, Live, Unsettled
<1>9. \/ /\ held[c] = "ro" /\ v = None
         /\ Cardinality(Used) = npin + Len(ring)
      \/ /\ held[c] = "no" /\ v = None
         /\ \A q \in Pages : addr[q] # c
         /\ Cardinality(Used) + 1 = npin + Len(ring)
      \/ /\ held[c] = "no" /\ v \in Chunks /\ v # c /\ held[v] = "no"
         /\ \A q \in Pages : addr[q] # c
         /\ \E q \in Pages : addr[q] = v
         /\ Cardinality(Used) = npin + Len(ring)
  BY <1>2 DEF Inv, CountInv, Live
<1>10. IsFiniteSet(Used) /\ Used \subseteq Pages
       /\ Cardinality(Used) \in Nat
  BY PagesAre, FS_Subset, FS_CardinalityType DEF Used
<1> HIDE DEF c, v, a, p, freed
\* The page, and the count.
<1>11. p # 0 /\ (p # 0 /\ phase' = "filling" =>
                   Cardinality(Used') = npin + Len(ring))
  <2>0. p \in Pages => \A q \in Pages : addr'[q] = IF q = p THEN c ELSE a[q]
    BY <1>3, <1>5, <1>7, PagesAre
  <2>1. CASE held[c] = "ro" /\ v = None
    <3>1. Cardinality(Used) = npin + Len(ring)
      BY <1>9, <2>1
    <3>2. \A q \in Pages : a[q] = addr[q]
      BY <1>5, <2>1
    <3>3. PICK q \in Pages : addr[q] = c
      BY <1>3, <1>8, <2>1 DEF Resident
    <3>4. p # 0 /\ p \in Pages /\ addr[p] = c
      BY <1>6, <3>2, <3>3
    <3>5. Used' = Used
      BY <1>3, <2>0, <3>2, <3>4 DEF Used
    <3> QED BY <3>1, <3>4, <3>5
  <2>2. CASE /\ held[c] = "no" /\ v = None
             /\ \A q \in Pages : addr[q] # c
             /\ Cardinality(Used) + 1 = npin + Len(ring)
    <3>1. \A q \in Pages : a[q] = addr[q]
      BY <1>5, <2>2
    <3>2. Cardinality(Used) # NPages
      BY <1>3, <1>4, <1>10, <2>2
    <3>3. Used # Pages
      BY <3>2, PagesAre
    <3>4. PICK q \in Pages : addr[q] = None
      BY <3>3 DEF Used
    <3>5. p # 0 /\ p \in Pages /\ addr[p] = None
      BY <1>6, <2>2, <3>1, <3>4
    <3>6. Used' = Used \cup {p} /\ p \notin Used
      BY <1>3, <2>0, <3>1, <3>5 DEF Used
    <3>7. Cardinality(Used \cup {p}) = Cardinality(Used) + 1
      BY <1>10, <3>6, FS_AddElement
    <3> QED BY <2>2, <3>5, <3>6, <3>7
  <2>3. CASE /\ held[c] = "no" /\ v \in Chunks /\ v # c /\ held[v] = "no"
             /\ \A q \in Pages : addr[q] # c
             /\ \E q \in Pages : addr[q] = v
             /\ Cardinality(Used) = npin + Len(ring)
    <3>0. v # None
      BY <2>3, ChunksAre
    <3>1. PICK w \in Pages : addr[w] = v
      BY <2>3
    <3>2. /\ a[w] = None
          /\ \A q \in Pages : q # w => a[q] = addr[q]
          /\ \A q \in Pages : a[q] # c
      BY <1>3, <1>5, <1>8, <2>3, <3>0, <3>1
    <3>3. p # 0 /\ p \in Pages /\ a[p] = None
      BY <1>6, <3>2
    <3>4. w \in Used /\ p \notin Used \ {w}
      BY <3>0, <3>1, <3>2, <3>3 DEF Used
    <3>5. Used' = (Used \ {w}) \cup {p}
      BY <1>3, <2>0, <3>0, <3>1, <3>2, <3>3 DEF Used
    <3>6. IsFiniteSet(Used \ {w})
          /\ Cardinality(Used \ {w}) = Cardinality(Used) - 1
      BY <1>10, <3>4, FS_RemoveElement
    <3>7. Cardinality((Used \ {w}) \cup {p}) = Cardinality(Used \ {w}) + 1
      BY <3>4, <3>6, FS_AddElement
    <3> QED BY <1>10, <2>3, <3>3, <3>5, <3>6, <3>7
  <2> QED BY <1>9, <2>1, <2>2, <2>3
<1>12. /\ p \in Pages /\ phase' = "filling"
       /\ \A q \in Pages : addr'[q] = IF q = p THEN c ELSE a[q]
       /\ \A q \in Pages : state'[q] = IF q = p THEN "filling"
                                       ELSE IF q \in freed THEN "free"
                                       ELSE state[q]
  BY <1>3, <1>5, <1>6, <1>7, <1>11
<1>13. v # None => held[v] # "ro"
  BY <1>9
<1>14. Pending0' /\ Live' /\ ~Pending1' /\ pend'.chunk = c
  BY <1>2, <1>12 DEF Pending0, Pending1, Live, c
<1>15. ClassInv'
  <2>1. OfClass(pend)
    BY <1>2 DEF Inv, ClassInv, Pending0
  <2> QED BY <1>2, <1>12, <1>14, <2>1
          DEF Inv, ClassInv, OfClass, Paged, United, Pending0, Pending1
<1>16. RingInv'
  BY <1>2, <1>14 DEF Inv, RingInv, Live, Pending0
<1>17. PoolInv'
  <2>1. \A q, r \in Pages : addr'[q] = addr'[r] /\ addr'[q] # None => q = r
    <3> SUFFICES ASSUME NEW q \in Pages, NEW r \in Pages,
                        addr'[q] = addr'[r], addr'[q] # None
                 PROVE  q = r
      OBVIOUS
    <3>1. CASE q # p /\ r # p
      BY <1>5, <1>8, <1>12, <3>1
    <3>2. \A x \in Pages : x # p => a[x] # c
      <4> SUFFICES ASSUME NEW x \in Pages, a[x] = c PROVE x = p
        OBVIOUS
      <4>1. a[p] = c
        BY <1>6, <1>11
      <4> QED BY <1>3, <1>5, <1>8, <1>12, <4>1
    <3> QED BY <1>12, <3>1, <3>2
  <2>2. \A q \in Pages : addr'[q] = None => state'[q] = "free"
    BY <1>3, <1>5, <1>8, <1>12 DEF freed
  <2>3. ASSUME NEW d \in Chunks, held[d] = "ro", d # c
        PROVE  \E q \in Pages : addr'[q] = d /\ state'[q] = "resident"
    <3>1. PICK q \in Pages : addr[q] = d /\ state[q] = "resident"
      BY <1>8, <2>3 DEF Resident
    <3>2. d # None /\ a[q] = d
      BY <1>5, <1>13, <2>3, <3>1, ChunksAre
    <3>3. q # p
      BY <1>6, <1>11, <2>3, <3>2
    <3>4. q \notin freed
      BY <3>2 DEF freed
    <3> QED BY <1>12, <3>1, <3>2, <3>3, <3>4
  <2>4. \A q \in Pages : addr'[q] # None =>
          held[addr'[q]] = "ro" \/ addr'[q] = c
    BY <1>5, <1>8, <1>12
  <2>5. (\A d \in Chunks : held[d] = "ro" =>
           Resident(d) \/ (phase = "filling" /\ d = pend.chunk))'
    BY <1>2, <1>12, <1>14, <2>3 DEF Resident
  <2>6. (\A q \in Pages : addr[q] # None =>
            held[addr[q]] = "ro" \/ Unsettled(addr[q]))'
    BY <1>2, <1>14, <2>4 DEF Unsettled
  <2> QED BY <2>1, <2>2, <2>5, <2>6 DEF PoolInv
<1>18. CountInv'
  <2>1. Cardinality(Used') = npin' + Len(ring')
    BY <1>2, <1>11, <1>12
  <2>2. addr'[p] = c /\ \A q \in Pages : addr'[q] # None =>
                           held[addr'[q]] = "ro" \/ addr'[q] = c
    BY <1>5, <1>8, <1>12
  <2>3. CountInv' <=>
          /\ Cardinality(Used') = npin' + Len(ring')
          /\ \E q \in Pages : addr'[q] = c
          /\ \A q \in Pages : addr'[q] # None =>
               held[addr'[q]] = "ro" \/ addr'[q] = c
    BY <1>2, <1>12, <1>14 DEF CountInv
  <2> QED BY <1>12, <2>1, <2>2, <2>3
<1> QED BY <1>1, <1>12, <1>15, <1>16, <1>17, <1>18 DEF Inv

\* The copy is in the page that was assigned, or the program ends.
LEMMA FillInv == ASSUME Uniform, Inv, Fill PROVE Inv'
<1> DEFINE c == pend.chunk
           p == PageFor(c, addr)
<1>1. TypeOK'
  BY FillType DEF Inv
<1>2. /\ phase = "filling" /\ path' = path /\ need' = need
      /\ pend' = pend /\ at' = at /\ wmap' = wmap /\ held' = held
      /\ npin' = npin /\ ring' = ring /\ addr' = addr
      /\ \/ phase' = "replied" /\ state' = [state EXCEPT ![p] = "resident"]
         \/ phase' = "died" /\ state' = state
  BY DEF Fill, callVars
<1>3. /\ c \in Chunks /\ c # None /\ addr \in [Pages -> Chunks \cup {None}]
      /\ state \in [Pages -> {"free", "filling", "resident"}]
  BY ChunksAre DEF Inv, TypeOK, Posts
<1>4. Pending0 /\ ~Pending1 /\ Live /\ pend.class = 0
  BY <1>2 DEF Inv, ClassInv, Pending0, Pending1, Live
<1>5. /\ Cardinality(Used) = npin + Len(ring)
      /\ \E q \in Pages : addr[q] = c
      /\ \A q \in Pages : addr[q] # None => held[addr[q]] = "ro" \/ addr[q] = c
  BY <1>2, <1>4 DEF Inv, CountInv
<1>6. p \in Pages /\ addr[p] = c
  BY <1>5, PageForIs
<1>7. /\ \A q, r \in Pages : addr[q] = addr[r] /\ addr[q] # None => q = r
      /\ \A q \in Pages : addr[q] = None => state[q] = "free"
      /\ \A d \in Chunks : held[d] = "ro" => Resident(d) \/ d = c
  BY <1>4 DEF Inv, PoolInv
<1>8. ClassInv'
  BY <1>2, <1>4
  DEF Inv, ClassInv, OfClass, Paged, United, Pending0, Pending1
<1>9. RingInv'
  BY <1>2, <1>4 DEF Inv, RingInv, Live, Pending0
<1>10. Used' = Used
  BY <1>2 DEF Used
<1> HIDE DEF c, p
<1>11. CASE phase' = "died"
  <2>1. ~Live' /\ state' = state
    BY <1>2, <1>11 DEF Live
  <2>2. PoolInv' /\ CountInv'
    BY <1>2, <1>7, <2>1 DEF PoolInv, CountInv
  <2> QED BY <1>1, <1>8, <1>9, <2>2 DEF Inv
<1>12. CASE phase' = "replied"
  <2>1. /\ \A q \in Pages : state'[q] = IF q = p THEN "resident" ELSE state[q]
        /\ Pending0' /\ pend'.chunk = c
    BY <1>2, <1>3, <1>4, <1>12 DEF Pending0, c
  <2>2. \A d \in Chunks : held[d] = "ro" =>
          \E q \in Pages : addr[q] = d /\ state'[q] = "resident"
    BY <1>6, <1>7, <2>1 DEF Resident
  <2>3. PoolInv'
    <3>1. (\A d \in Chunks : held[d] = "ro" => Resident(d))'
      BY <1>2, <2>2 DEF Resident
    <3>2. (\A q \in Pages : addr[q] # None =>
            held[addr[q]] = "ro" \/ Unsettled(addr[q]))'
      BY <1>2, <1>5, <2>1 DEF Unsettled
    <3>3. \A q \in Pages : addr'[q] = None => state'[q] = "free"
      BY <1>2, <1>3, <1>6, <1>7, <2>1
    <3> QED BY <1>2, <1>7, <3>1, <3>2, <3>3 DEF PoolInv
  <2>4. CountInv'
    <3>1. CountInv' <=>
            /\ Cardinality(Used') = npin' + Len(ring')
            /\ \E q \in Pages : addr'[q] = c /\ state'[q] = "resident"
            /\ \A q \in Pages : addr'[q] # None =>
                 held'[addr'[q]] = "ro" \/ addr'[q] = c
      BY <1>12, <2>1 DEF CountInv, Live
    <3> QED BY <1>2, <1>5, <1>6, <1>10, <2>1, <3>1
  <2> QED BY <1>1, <1>8, <1>9, <2>3, <2>4 DEF Inv
<1> QED BY <1>2, <1>11, <1>12

\* The host enters in its table what the card has.
LEMMA DoneInv == ASSUME Uniform, Inv, Done PROVE Inv'
<1> DEFINE c == pend.chunk
<1>1. TypeOK'
  BY TypeStep DEF Inv, Next
<1>2. /\ phase = "replied" /\ phase' = "post" /\ path' = path /\ need' = need
      /\ at' = at /\ wmap' = wmap /\ npin' = npin /\ ring' = ring
      /\ addr' = addr /\ state' = state
      /\ held' = [held EXCEPT ![c] = IF pend.class = 0 THEN "ro" ELSE "rw"]
  BY DEF Done, callVars, cardVars
<1>3. /\ c \in Chunks /\ pend.class \in {0, 1}
      /\ held \in [Chunks -> {"no", "ro", "rw"}] /\ ring \in Seq(Chunks)
      /\ addr \in [Pages -> Chunks \cup {None}]
  BY DEF Inv, TypeOK, Posts
<1>4. ~Pending0' /\ ~Pending1' /\ Live' /\ Live
  BY <1>2 DEF Pending0, Pending1, Live
<1>5. /\ \A d \in Chunks : d # c => held'[d] = held[d]
      /\ held'[c] = IF pend.class = 0 THEN "ro" ELSE "rw"
  BY <1>2, <1>3
<1>6. OfClass(pend)
  BY <1>2 DEF Inv, ClassInv
<1>7. /\ Cardinality(Used) = npin + Len(ring) /\ Used' = Used
      /\ Pending0 => \E p \in Pages : addr[p] = c /\ state[p] = "resident"
      /\ Pending0 => \A p \in Pages :
           addr[p] # None => held[addr[p]] = "ro" \/ addr[p] = c
  BY <1>2, <1>4 DEF Inv, CountInv, Used
<1>8. /\ \A p, q \in Pages : addr[p] = addr[q] /\ addr[p] # None => p = q
      /\ \A p \in Pages : addr[p] = None => state[p] = "free"
      /\ \A d \in Chunks : held[d] = "ro" => Resident(d)
      /\ ~Pending0 => \A p \in Pages : addr[p] # None => held[addr[p]] = "ro"
  BY <1>2, <1>4 DEF Inv, PoolInv, Unsettled
<1>9. /\ npin <= NPages - Ring
      /\ \A i, j \in 1 .. Len(ring) : ring[i] = ring[j] => i = j
      /\ \A i \in 1 .. Len(ring) :
           held[ring[i]] = "ro" \/ (Pending0 /\ ring[i] = c)
      /\ \A i \in 1 .. Len(ring) : ring[i] \in Chunks
  BY <1>3, <1>4, ElementOfSeq DEF Inv, RingInv
<1>10. ClassInv'
  <2>1. /\ pend.class = 0 => Paged(c)
        /\ pend.class = 1 => United(c)
    BY <1>6 DEF OfClass
  <2> HIDE DEF c
  <2>2. \A d \in Chunks : /\ held'[d] = "ro" => Paged(d)
                          /\ held'[d] = "rw" => United(d)
    <3>1. \A d \in Chunks : /\ held[d] = "ro" => Paged(d)
                            /\ held[d] = "rw" => United(d)
      BY DEF Inv, ClassInv
    <3> QED BY <1>3, <1>5, <2>1, <3>1
  <2>3. \A d : (Paged(d)' <=> Paged(d)) /\ (United(d)' <=> United(d))
    BY <1>2 DEF Paged, United
  <2>4. (\A i \in 1 .. Len(need) : OfClass(need[i]))'
    BY <1>2 DEF Inv, ClassInv, OfClass, Paged, United
  <2>5. /\ \A p \in Pages : at[p] # None => Paged(at[p])
        /\ \A a \in wmap : United(a[1])
    BY DEF Inv, ClassInv
  <2> QED BY <1>2, <1>4, <2>2, <2>3, <2>4, <2>5 DEF ClassInv
<1>11. pend.class = 1 => held[c] # "ro" /\ ~Pending0
  BY <1>3, <1>6, OneClass DEF Inv, ClassInv, OfClass, Pending0
<1>12. pend.class = 0 => Pending0
  BY <1>2 DEF Pending0
<1> HIDE DEF c
<1>13. /\ \A i \in 1 .. Len(ring) : held'[ring[i]] = "ro"
       /\ \A d \in Chunks : held'[d] = "ro" => Resident(d)
       /\ \A p \in Pages : addr[p] # None => held'[addr[p]] = "ro"
  <2>1. CASE pend.class = 0
    <3>1. \A d \in Chunks : held'[d] = "ro" => Resident(d)
      BY <1>5, <1>7, <1>8, <1>12, <2>1 DEF Resident
    <3> QED BY <1>3, <1>5, <1>7, <1>9, <1>12, <2>1, <3>1
  <2>2. CASE pend.class = 1
    BY <1>3, <1>5, <1>8, <1>9, <1>11, <2>2
  <2> QED BY <1>3, <2>1, <2>2
<1>14. RingInv'
  BY <1>2, <1>9, <1>13 DEF RingInv
<1>15. PoolInv'
  <2>1. (\A d \in Chunks : held[d] = "ro" => Resident(d))'
    BY <1>2, <1>13 DEF Resident
  <2> QED BY <1>2, <1>8, <1>13, <2>1 DEF PoolInv
<1>16. CountInv'
  BY <1>2, <1>4, <1>7 DEF CountInv
<1> QED BY <1>1, <1>10, <1>14, <1>15, <1>16 DEF Inv

\* A fault asks for whole chunks of immutable memory, or for a unit.
LEMMA FaultInv == ASSUME Uniform, Inv, Fault PROVE Inv'
<1>1. TypeOK'
  BY FaultType DEF Inv
<1>2. /\ phase = "running" /\ phase' = "post" /\ path' = path
      /\ path = "region"
      /\ pend' = pend /\ held' = held /\ at' = at /\ wmap' = wmap
      /\ UNCHANGED <<addr, state, held, npin, ring>>
  BY DEF Fault, callVars, cardVars
<1>3. PICK a \in want :
        LET c == a[1]
            ahead == AheadOf(c)
        IN IF c \in Immutable /\ held[c] # "rw"
           THEN \E s \in SetToSeqs({c} \cup ahead) : need' = Whole(s)
           ELSE need' = IF a \in wu THEN <<>>
                        ELSE <<[chunk |-> c, units |-> {a[2]}, class |-> 1]>>
  BY DEF Fault
<1> DEFINE c == a[1]
<1>4. c \in Chunks
  BY DEF Inv, TypeOK, Places
<1>5. \A i \in 1 .. Len(need') :
        IF need'[i].class = 0 THEN need'[i].chunk \in Immutable
        ELSE need'[i].chunk \notin Immutable
  <2>1. CASE c \in Immutable /\ held[c] # "rw"
    <3>1. PICK s \in SetToSeqs({c} \cup AheadOf(c)) : need' = Whole(s)
      BY <1>3, <2>1
    <3>2. {c} \cup AheadOf(c) \subseteq Immutable
          /\ {c} \cup AheadOf(c) \subseteq Chunks
      BY <1>4, <2>1, AheadIs DEF Inv
    <3> HIDE DEF c
    <3>3. /\ DOMAIN s = 1 .. Len(s) /\ Len(s) \in Nat
          /\ \A i \in 1 .. Len(s) : s[i] \in Immutable
      BY <3>2, Listing
    <3>4. /\ need' = [i \in 1 .. Len(s) |->
                        [chunk |-> s[i], units |-> Units, class |-> 0]]
      BY <3>1, <3>3 DEF Whole
    <3>5. Len(need') = Len(s)
      BY <3>3, <3>4
    <3> QED BY <3>3, <3>4, <3>5
  <2>2. CASE ~(c \in Immutable /\ held[c] # "rw")
    <3>1. c \notin Immutable
      BY <1>2, <1>4, <2>2 DEF Inv, ClassInv, United
    <3>2. need' = <<>> \/ need' = <<[chunk |-> c, units |-> {a[2]},
                                     class |-> 1]>>
      BY <1>3, <2>2
    <3> QED BY <3>1, <3>2
  <2> QED BY <2>1, <2>2
<1>6. ClassInv'
  <2>1. (\A i \in 1 .. Len(need) : OfClass(need[i]))'
    BY <1>2, <1>5 DEF OfClass, Paged, United
  <2>2. ~Pending0' /\ ~Pending1'
    BY <1>2 DEF Pending0, Pending1
  <2> QED BY <1>2, <2>1, <2>2
          DEF Inv, ClassInv, Paged, United
<1>7. RingInv' /\ PoolInv' /\ CountInv'
  BY <1>2, AwayFromPool DEF Inv, Live, Pending0
<1> QED BY <1>1, <1>6, <1>7 DEF Inv

LEMMA NextInv == ASSUME Uniform PROVE Inv /\ [Next]_vars => Inv'
<1> SUFFICES ASSUME Inv, [Next]_vars PROVE Inv'
  OBVIOUS
<1>1. CASE UNCHANGED vars
  <2>1. TypeOK'
    BY TypeStep DEF Inv
  <2>2. /\ phase' = phase /\ path' = path /\ need' = need /\ pend' = pend
        /\ held' = held /\ npin' = npin /\ ring' = ring /\ addr' = addr
        /\ state' = state /\ at' = at /\ wmap' = wmap
    BY <1>1 DEF vars, hostVars, callVars, cardVars
  <2>3. ClassInv'
    BY <2>2 DEF Inv, ClassInv, OfClass, Paged, United, Pending0, Pending1
  <2>4. RingInv'
    BY <2>2 DEF Inv, RingInv, Live, Pending0
  <2>5. PoolInv'
    BY <2>2 DEF Inv, PoolInv, Live, Pending0, Unsettled, Resident
  <2>6. CountInv'
    BY <2>2 DEF Inv, CountInv, Live, Pending0, Used
  <2> QED BY <2>1, <2>3, <2>4, <2>5, <2>6 DEF Inv
<1> QED
  BY <1>1, OpenInv, RemapInv, RegionInv, CallInv, PostInv, AssignInv, FillInv,
     MapInv, DoneInv, RunInv, AccessInv, FaultInv, FatalInv DEF Next

\* The tables agree at every step, whatever the requests.
LEMMA Invariant == ASSUME Uniform PROVE Spec => []Inv
<1>1. Init => Inv
  BY InitInv
<1>2. Inv /\ [Next]_vars => Inv'
  BY NextInv
<1> QED BY <1>1, <1>2, PTL DEF Spec

\* A class-0 chunk always finds a page on the card: the host, which never
\* sees the card's table, has named a victim whenever the pool is full
\* (card.S c0_victim, resident.S res_assign), for every pool at least as
\* large as the ring.
THEOREM RoomAlways ==
  ASSUME Uniform
  PROVE  Spec => []PoolHasRoom
<1>1. Init => PoolHasRoom
  BY DEF Init, PoolHasRoom
<1>2. Inv /\ PoolHasRoom /\ [Next]_vars => PoolHasRoom'
  <2> SUFFICES ASSUME Inv, PoolHasRoom, [Next]_vars PROVE PoolHasRoom'
    OBVIOUS
  <2>1. CASE Assign
    BY <2>1, AssignInv DEF PoolHasRoom
  <2>2. CASE ~Assign
    BY <2>2 DEF PoolHasRoom, Next, Open, Remap, RegionEnter, CallEnter, Post,
         Fill, MapUnits, Done, Run, Access, Fault, FaultFatal, vars, hostVars
  <2> QED BY <2>1, <2>2
<1> QED BY <1>1, <1>2, Invariant, PTL DEF Spec

\* Between two requests the chunks of class 0 in the host's table are those
\* of the card's pool, each resident in one page, and c0_n and c0_rn count
\* them (card.S card_resident_done, c0_victim; resident.S res_drop).
THEOREM TablesAgree ==
  ASSUME Uniform
  PROVE  Spec => []HostKnowsPool
<1>1. Inv => HostKnowsPool
  <2> SUFFICES ASSUME Inv, phase \in {"native", "post", "running"}
               PROVE  HostKnowsPool
    BY DEF HostKnowsPool
  <2>1. Live /\ ~Pending0 /\ phase # "filling"
    BY DEF Live, Pending0
  <2>2. /\ \A c \in Chunks : held[c] = "ro" => Resident(c)
        /\ \A p \in Pages : addr[p] # None => held[addr[p]] = "ro"
        /\ Cardinality(Used) = npin + Len(ring)
    BY <2>1, Settled DEF Inv
  <2>3. \A p, q \in Pages : addr[p] = addr[q] /\ addr[p] # None => p = q
    BY DEF Inv, PoolInv
  <2> QED BY <2>2, <2>3 DEF HostKnowsPool, Resident, Used
<1> QED BY <1>1, Invariant, PTL

-----------------------------------------------------------------------------
(* What the slot process has at the program's addresses.                   *)

LEMMA InitView == Init => ViewInv
<1> SUFFICES ASSUME Init PROVE ViewInv
  OBVIOUS
<1>1. \A c \in Chunks, u \in Units : view[c][u] = 0
  BY DEF Init
<1> QED BY <1>1, PagesAre DEF Init, ViewInv

\* A step that places nothing and takes nothing away.
LEMMA ViewKept ==
  ASSUME ViewInv, UNCHANGED <<at, view, wmap>>,
         phase' = "running" => phase = "running" /\ UNCHANGED <<addr, state>>
  PROVE  ViewInv'
<1>1. at' = at /\ view' = view /\ wmap' = wmap
  OBVIOUS
<1>2. phase' = "running" => phase = "running" /\ addr' = addr /\ state' = state
  OBVIOUS
<1> QED BY <1>1, <1>2 DEF ViewInv

\* A unit of the program's own goes where nothing was.
LEMMA MapView == ASSUME Uniform, Inv, ViewInv, MapUnits PROVE ViewInv'
<1> DEFINE c == pend.chunk
           new == {u \in pend.units : <<c, u>> \notin wmap}
<1>1. /\ phase = "posted" /\ pend.class = 1 /\ phase' # "running" /\ at' = at
      /\ \/ /\ \A u \in new : view[c][u] = 0
            /\ view' = [view EXCEPT ![c] =
                          [u \in Units |-> IF u \in new THEN -1
                                           ELSE view[c][u]]]
            /\ wmap' = wmap \cup {<<c, u>> : u \in new}
         \/ UNCHANGED <<view, wmap>>
  BY DEF MapUnits
<1>2. CASE UNCHANGED <<view, wmap>>
  BY <1>1, <1>2, ViewKept
<1>3. CASE /\ view' = [view EXCEPT ![c] =
                         [u \in Units |-> IF u \in new THEN -1
                                          ELSE view[c][u]]]
           /\ wmap' = wmap \cup {<<c, u>> : u \in new}
  <2>1. /\ c \in Chunks /\ new \subseteq Units /\ wmap \subseteq Places
        /\ view \in [Chunks -> [Units -> Pages \cup {0, -1}]]
        /\ at \in [Pages -> Chunks \cup {None}]
    BY DEF Inv, TypeOK, Posts
  <2>2. United(c)
    BY <1>1 DEF Inv, ClassInv, OfClass, Pending1
  <2>3. \A p \in Pages : at[p] # c
    BY <2>1, <2>2, OneClass, ChunksAre DEF Inv, ClassInv
  <2>4. /\ \A p, q \in Pages : at[p] = at[q] /\ at[p] # None => p = q
        /\ \A p \in Pages : at[p] # None => \A u \in Units : view[at[p]][u] = p
        /\ \A d \in Chunks, u \in Units :
             view[d][u] \in Pages => at[view[d][u]] = d
        /\ \A a \in wmap : view[a[1]][a[2]] = -1
    BY DEF ViewInv
  <2>5. \A u \in new : <<c, u>> \notin wmap
    OBVIOUS
  <2> HIDE DEF c, new
  <2>6. \A d \in Chunks, u \in Units :
          view'[d][u] = IF d = c /\ u \in new THEN -1 ELSE view[d][u]
    BY <1>3, <2>1
  <2>7. \A d \in Chunks, u \in Units :
          view'[d][u] \in Pages => at[view'[d][u]] = d
    BY <2>4, <2>6, PagesAre
  <2>8. \A p \in Pages : at[p] # None => \A u \in Units : view'[at[p]][u] = p
    BY <2>1, <2>3, <2>4, <2>6
  <2>9. \A a \in wmap' : view'[a[1]][a[2]] = -1
    <3> SUFFICES ASSUME NEW a \in wmap' PROVE view'[a[1]][a[2]] = -1
      OBVIOUS
    <3>1. CASE a \in wmap
      <4>1. a[1] \in Chunks /\ a[2] \in Units /\ view[a[1]][a[2]] = -1
        BY <2>1, <2>4, <3>1 DEF Places
      <4> QED BY <2>6, <4>1
    <3>2. ASSUME NEW u \in new, a = <<c, u>> PROVE view'[a[1]][a[2]] = -1
      BY <2>1, <2>6, <3>2
    <3> QED BY <1>3, <3>1, <3>2
  <2> QED BY <1>1, <2>4, <2>7, <2>8, <2>9 DEF ViewInv
<1> QED BY <1>1, <1>2, <1>3

\* A run takes the stale pages off their addresses and places the others, one
\* page at an address.
LEMMA RunView == ASSUME Uniform, Inv, ViewInv, Run PROVE ViewInv'
<1> DEFINE good == Placeable
           left == {at[p] : p \in Stale}
           pageAt(c) == {p \in good : addr[p] = c}
<1>1. /\ phase = "post" /\ wmap' = wmap /\ addr' = addr /\ state' = state
      /\ at' = [p \in Pages |-> IF p \in good THEN addr[p]
                                ELSE IF p \in Stale THEN None ELSE at[p]]
      /\ view' = [c \in Chunks |-> [u \in Units |->
                    IF pageAt(c) # {} THEN CHOOSE p \in pageAt(c) : TRUE
                    ELSE IF c \in left THEN 0 ELSE view[c][u]]]
      /\ phase' = "running" => good = Fresh
  BY DEF Run
<1>2. /\ addr \in [Pages -> Chunks \cup {None}]
      /\ at \in [Pages -> Chunks \cup {None}] /\ wmap \subseteq Places
  BY DEF Inv, TypeOK
<1>3. /\ \A p, q \in Pages : addr[p] = addr[q] /\ addr[p] # None => p = q
      /\ \A p \in Pages : state[p] = "resident" => addr[p] # None
      /\ \A p \in Pages : addr[p] # None => Paged(addr[p])
  <2>1. Live /\ ~Pending0 /\ phase # "filling"
    BY <1>1 DEF Live, Pending0
  <2>2. \A p \in Pages : addr[p] # None => held[addr[p]] = "ro"
    BY <2>1, Settled DEF Inv
  <2>3. \A p \in Pages : addr[p] # None => Paged(addr[p])
    BY <1>2, <2>2 DEF Inv, ClassInv
  <2> QED BY <2>3 DEF Inv, PoolInv
<1>4. /\ \A p \in Pages : p \in Stale <=>
           at[p] # None /\ ~(state[p] = "resident" /\ addr[p] = at[p])
      /\ \A p \in Pages : p \in Fresh <=>
           state[p] = "resident" /\ (at[p] = None \/ p \in Stale)
      /\ good \subseteq Fresh /\ Fresh \subseteq Pages /\ Stale \subseteq Pages
  BY DEF Stale, Fresh, Placeable
<1>5. /\ \A p, q \in Pages : at[p] = at[q] /\ at[p] # None => p = q
      /\ \A p \in Pages : at[p] # None => \A u \in Units : view[at[p]][u] = p
      /\ \A d \in Chunks, u \in Units :
           view[d][u] \in Pages => at[view[d][u]] = d
      /\ \A a \in wmap : view[a[1]][a[2]] = -1
  BY DEF ViewInv
<1>6. /\ \A c : pageAt(c) \subseteq good
      /\ \A c, p : p \in pageAt(c) <=> p \in good /\ addr[p] = c
      /\ \A c : c \in left <=> \E p \in Stale : at[p] = c
  OBVIOUS
<1>7. \A c : pageAt(c) # {} => (CHOOSE p \in pageAt(c) : TRUE) \in pageAt(c)
  OBVIOUS
<1>8. \A p \in Pages : at'[p] = IF p \in good THEN addr[p]
                                ELSE IF p \in Stale THEN None ELSE at[p]
  BY <1>1
<1>9. \A c \in Chunks, u \in Units :
        /\ pageAt(c) # {} => view'[c][u] \in pageAt(c)
        /\ pageAt(c) = {} /\ c \in left => view'[c][u] = 0
        /\ pageAt(c) = {} /\ c \notin left => view'[c][u] = view[c][u]
  BY <1>1, <1>7
<1> HIDE DEF good, left, pageAt
<1>10. \A p \in Pages : at'[p] # None =>
         at'[p] = addr[p] /\ state[p] = "resident" /\ at'[p] \in Chunks
  BY <1>2, <1>4, <1>8
<1>11. \A p, q \in Pages : at'[p] = at'[q] /\ at'[p] # None => p = q
  BY <1>3, <1>10
<1>12. ASSUME NEW p \in Pages, at'[p] # None, NEW u \in Units
       PROVE  view'[at'[p]][u] = p
  <2>1. at'[p] = addr[p] /\ addr[p] \in Chunks /\ addr[p] # None
    BY <1>10, <1>12
  <2>2. CASE p \in good
    <3>1. p \in pageAt(addr[p])
      BY <1>6, <2>2
    <3>2. view'[addr[p]][u] \in pageAt(addr[p])
      BY <1>9, <2>1, <3>1
    <3> QED BY <1>3, <1>4, <1>6, <2>1, <3>2
  <2>3. CASE p \notin good
    <3>1. p \notin Stale /\ at'[p] = at[p]
      BY <1>8, <1>12, <2>3
    <3>2. pageAt(addr[p]) = {}
      BY <1>3, <1>4, <1>6, <2>1, <2>3
    <3>3. addr[p] \notin left
      BY <1>4, <1>5, <1>6, <2>1, <3>1
    <3> QED BY <1>5, <1>9, <2>1, <3>1, <3>2, <3>3
  <2> QED BY <2>2, <2>3
<1>13. ASSUME NEW c \in Chunks, NEW u \in Units, view'[c][u] \in Pages
       PROVE  at'[view'[c][u]] = c
  <2>1. CASE pageAt(c) # {}
    BY <1>6, <1>8, <1>9, <1>13, <2>1
  <2>2. CASE pageAt(c) = {}
    <3>1. c \notin left /\ view'[c][u] = view[c][u]
      BY <1>9, <1>13, <2>2, PagesAre
    <3>2. at[view[c][u]] = c /\ c # None
      BY <1>5, <1>13, <3>1, ChunksAre
    <3>3. view[c][u] \notin Stale
      BY <1>6, <3>1, <3>2
    <3>4. view[c][u] \notin good
      BY <1>4, <1>13, <3>1, <3>2, <3>3
    <3> QED BY <1>8, <1>13, <3>1, <3>2, <3>3, <3>4
  <2> QED BY <2>1, <2>2
<1>14. ASSUME NEW a \in wmap PROVE view'[a[1]][a[2]] = -1
  <2>1. a[1] \in Chunks /\ a[2] \in Units /\ a[1] # None
    BY <1>2, ChunksAre DEF Places
  <2>2. United(a[1])
    BY DEF Inv, ClassInv
  <2>3. pageAt(a[1]) = {}
    BY <1>3, <1>4, <1>6, <2>1, <2>2, OneClass
  <2>4. a[1] \notin left
    <3>1. \A p \in Pages : at[p] # None => Paged(at[p])
      BY DEF Inv, ClassInv
    <3> QED BY <1>4, <1>6, <2>1, <2>2, <3>1, OneClass
  <2> QED BY <1>5, <1>9, <2>1, <2>3, <2>4
<1>15. ASSUME phase' = "running", NEW p \in Pages, state[p] = "resident"
       PROVE  at'[p] = addr[p]
  BY <1>1, <1>4, <1>8, <1>15
<1> QED BY <1>1, <1>10, <1>11, <1>12, <1>13, <1>14, <1>15 DEF ViewInv

LEMMA NextView ==
  ASSUME Uniform
  PROVE  Inv /\ ViewInv /\ [Next]_vars => ViewInv'
<1> SUFFICES ASSUME Inv, ViewInv, [Next]_vars PROVE ViewInv'
  OBVIOUS
<1>1. CASE Open
  <2>1. /\ \A p \in Pages : at'[p] = None
        /\ \A c \in Chunks, u \in Units : view'[c][u] = 0
        /\ wmap' = {} /\ phase' = "native"
    BY <1>1 DEF Open
  <2> QED BY <2>1, PagesAre DEF ViewInv
<1>2. ASSUME \/ \E c \in Chunks : Remap(c)
             \/ RegionEnter \/ CallEnter \/ Post \/ Done \/ Access \/ Fault
             \/ FaultFatal \/ Assign \/ Fill \/ UNCHANGED vars
      PROVE  ViewInv'
  <2>1. UNCHANGED <<at, view, wmap>>
    BY <1>2 DEF Remap, RegionEnter, CallEnter, Post, Done, Access, Fault,
         FaultFatal, Assign, Fill, vars, cardVars
  <2>2. phase' = "running" => phase = "running" /\ UNCHANGED <<addr, state>>
    BY <1>2 DEF Remap, RegionEnter, CallEnter, Post, Done, Access, Fault,
         FaultFatal, Assign, Fill, vars, cardVars, hostVars
  <2> QED BY <2>1, <2>2, ViewKept
<1> QED BY <1>1, <1>2, MapView, RunView DEF Next

-----------------------------------------------------------------------------
(* The bytes the card reads.                                               *)

\* The program maps nothing over what the card holds.
Unmoved == Uniform /\ "remap" \notin Env

\* The bytes staged cover the units asked for.
LEMMA SpanCovers == ASSUME NEW S \in SUBSET Units PROVE S \subseteq Span(S)
<1>1. \A u \in Units : u <= u
  BY ResidencyAssumption DEF Units
<1> QED BY <1>1 DEF Span

\* A fault asks for whole chunks, or for its unit.
LEMMA FaultAsks ==
  ASSUME Inv, Fault
  PROVE  \A i \in 1 .. Len(need') :
           need'[i].class = 0 => need'[i].units = Units
<1>1. PICK a \in want :
        \/ \E s \in SetToSeqs({a[1]} \cup AheadOf(a[1])) : need' = Whole(s)
        \/ need' = <<>>
        \/ need' = <<[chunk |-> a[1], units |-> {a[2]}, class |-> 1]>>
  BY DEF Fault
<1>2. CASE \E s \in SetToSeqs({a[1]} \cup AheadOf(a[1])) : need' = Whole(s)
  <2>1. PICK s \in SetToSeqs({a[1]} \cup AheadOf(a[1])) : need' = Whole(s)
    BY <1>2
  <2>2. {a[1]} \cup AheadOf(a[1]) \subseteq Chunks
    <3>1. a[1] \in Chunks
      BY DEF Inv, TypeOK, Places
    <3> QED BY <3>1, AheadIs DEF Inv
  <2>3. DOMAIN s = 1 .. Len(s) /\ Len(s) \in Nat
    BY <2>2, Listing
  <2>4. need' = [i \in 1 .. Len(s) |->
                   [chunk |-> s[i], units |-> Units, class |-> 0]]
    BY <2>1, <2>3 DEF Whole
  <2>5. Len(need') = Len(s)
    BY <2>3, <2>4
  <2> QED BY <2>4, <2>5
<1>3. CASE need' = <<>>
  BY <1>3
<1>4. CASE need' = <<[chunk |-> a[1], units |-> {a[2]}, class |-> 1]>>
  BY <1>4
<1> QED BY <1>1, <1>2, <1>3, <1>4

\* An eviction forgets what was filled; a round enters what it filled; a
\* region asks for whole chunks.
LEMMA NextFilled ==
  ASSUME Uniform
  PROVE  Inv /\ FilledInv /\ [Next]_vars => FilledInv'
<1> SUFFICES ASSUME Inv, FilledInv, [Next]_vars PROVE FilledInv'
  OBVIOUS
<1>1. /\ \A c \in Chunks : held[c] = "no" => filled[c] = {}
      /\ path = "region" =>
           /\ \A c \in Chunks : held[c] = "ro" => filled[c] = Units
           /\ \A i \in 1 .. Len(need) :
                need[i].class = 0 => need[i].units = Units
           /\ Pending0 => pend.units = Units
  BY DEF FilledInv
<1>2. /\ need \in Seq(Requests) /\ pend \in Posts
      /\ held \in [Chunks -> {"no", "ro", "rw"}]
      /\ filled \in [Chunks -> SUBSET Units] /\ ring \in Seq(Chunks)
  BY DEF Inv, TypeOK
\* A step that leaves the host's table alone.
<1>3. ASSUME held' = held, filled' = filled, path' = path,
             path = "region" => \A i \in 1 .. Len(need') :
               need'[i].class = 0 => need'[i].units = Units,
             path = "region" /\ Pending0' => pend'.units = Units
      PROVE  FilledInv'
  BY <1>1, <1>3 DEF FilledInv
<1>4. CASE Open
  BY <1>4 DEF Open, FilledInv
<1>5. ASSUME \/ \E c \in Chunks : Remap(c)
             \/ MapUnits \/ Fill \/ Assign \/ Run \/ Access \/ FaultFatal
             \/ UNCHANGED vars
      PROVE  FilledInv'
  <2>1. /\ held' = held /\ filled' = filled /\ path' = path /\ need' = need
        /\ pend' = pend
    BY <1>5 DEF Remap, MapUnits, Fill, Assign, Run, Access, FaultFatal,
       callVars, cardVars, hostVars, vars
  <2>2. Pending0' => Pending0
    <3>1. CASE phase' = phase
      BY <2>1, <3>1 DEF Pending0
    <3>2. CASE MapUnits \/ Fill \/ Assign
      BY <2>1, <3>2 DEF Pending0, MapUnits, Fill, Assign
    <3>3. CASE Run \/ Access \/ FaultFatal
      BY <3>1, <3>3 DEF Pending0, Run, Access, FaultFatal
    <3>4. (\E c \in Chunks : Remap(c)) \/ UNCHANGED vars => phase' = phase
      BY DEF Remap, vars, hostVars
    <3> QED BY <1>5, <3>1, <3>2, <3>3, <3>4
  <2> QED BY <1>1, <1>3, <2>1, <2>2
<1>6. CASE RegionEnter
  <2>1. /\ held' = held /\ filled' = filled /\ path' = "region"
        /\ path \in {"none", "region"} /\ phase' = "post"
    BY <1>6 DEF RegionEnter, MayRun, Uniform
  <2>2. \A i \in 1 .. Len(need') : need'[i].class = 1
    BY <1>6, RegionAsks
  <2>3. path = "none" => \A c \in Chunks : held[c] # "ro"
    BY DEF Inv, ClassInv, Paged
  <2>4. \A c \in Chunks : held[c] = "ro" => filled[c] = Units
    BY <1>1, <2>1, <2>3
  <2> QED BY <1>1, <2>1, <2>2, <2>4 DEF FilledInv, Pending0
<1>7. CASE CallEnter
  BY <1>1, <1>7 DEF CallEnter, FilledInv
<1>8. CASE Post
  <2> DEFINE c == Head(need).chunk
  <2>1. /\ need' = Tail(need) /\ path' = path /\ need # <<>>
        /\ pend'.class = Head(need).class /\ pend'.units = Head(need).units
        /\ \/ held' = held /\ filled' = filled
           \/ Evict(c)
    BY <1>8 DEF Post, callVars, Pin, EnterRing
  <2>2. /\ Len(need) \in Nat /\ Len(need) >= 1 /\ Head(need) = need[1]
        /\ Len(Tail(need)) = Len(need) - 1
        /\ \A i \in 1 .. Len(need) - 1 : Tail(need)[i] = need[i + 1]
    BY <1>2, <2>1, TailOf
  <2>3. 1 \in 1 .. Len(need)
        /\ \A i \in 1 .. Len(need) - 1 : i + 1 \in 1 .. Len(need)
    BY <2>2
  <2>4. path = "region" => \A i \in 1 .. Len(need') :
          need'[i].class = 0 => need'[i].units = Units
    BY <1>1, <2>1, <2>2, <2>3
  <2>5. path = "region" /\ Pending0' => pend'.units = Units
    BY <1>1, <2>1, <2>2, <2>3 DEF Pending0
  <2>6. CASE held' = held /\ filled' = filled
    BY <1>3, <2>1, <2>4, <2>5, <2>6
  <2>7. CASE Evict(c)
    <3>1. /\ held' = [held EXCEPT ![Head(ring)] = "no"]
          /\ filled' = [filled EXCEPT ![Head(ring)] = {}]
      BY <2>7 DEF Evict
    <3>2. \A d \in Chunks :
            \/ held'[d] = "no" /\ filled'[d] = {}
            \/ held'[d] = held[d] /\ filled'[d] = filled[d]
      BY <1>2, <3>1
    <3> QED BY <1>1, <2>1, <2>4, <2>5, <3>2 DEF FilledInv
  <2> QED BY <2>1, <2>6, <2>7
<1>9. CASE Done
  <2> DEFINE c == pend.chunk
  <2>1. /\ phase = "replied" /\ phase' = "post" /\ need' = need /\ path' = path
        /\ held' = [held EXCEPT ![c] = IF pend.class = 0 THEN "ro" ELSE "rw"]
        /\ filled' = [filled EXCEPT ![c] = filled[c] \cup pend.units]
    BY <1>9 DEF Done, callVars
  <2>2. c \in Chunks /\ pend.units \subseteq Units /\ pend.class \in {0, 1}
    BY <1>2 DEF Posts
  <2>3. /\ \A d \in Chunks : d # c =>
             held'[d] = held[d] /\ filled'[d] = filled[d]
        /\ held'[c] = IF pend.class = 0 THEN "ro" ELSE "rw"
        /\ filled'[c] = filled[c] \cup pend.units /\ filled[c] \subseteq Units
    BY <1>2, <2>1, <2>2
  <2>4. path = "region" /\ pend.class = 0 => pend.units = Units
    BY <1>1, <2>1 DEF Pending0
  <2>5. ~Pending0'
    BY <2>1 DEF Pending0
  <2> HIDE DEF c
  <2>6. \A d \in Chunks : held'[d] = "no" => filled'[d] = {}
    BY <1>1, <2>2, <2>3
  <2>7. path = "region" =>
          \A d \in Chunks : held'[d] = "ro" => filled'[d] = Units
    BY <1>1, <2>2, <2>3, <2>4
  <2> QED BY <1>1, <2>1, <2>5, <2>6, <2>7 DEF FilledInv
<1>10. CASE Fault
  <2>1. held' = held /\ filled' = filled /\ path' = path /\ phase' = "post"
    BY <1>10 DEF Fault, callVars
  <2>2. \A i \in 1 .. Len(need') : need'[i].class = 0 => need'[i].units = Units
    BY <1>10, FaultAsks
  <2> QED BY <1>3, <2>1, <2>2 DEF Pending0
<1> QED BY <1>4, <1>5, <1>6, <1>7, <1>8, <1>9, <1>10 DEF Next

\* A page keeps its chunk and the bytes of it that were sent, or is given
\* another chunk of which nothing was.
LEMMA NextBytes ==
  ASSUME Unmoved
  PROVE  Inv /\ FilledInv /\ BytesInv /\ [Next]_vars => BytesInv'
<1> SUFFICES ASSUME Inv, FilledInv, BytesInv, [Next]_vars PROVE BytesInv'
  OBVIOUS
<1> DEFINE Own(p, u) == hold[p][u] = <<addr[p], mem[addr[p]]>>
<1>1. \A p \in Pages : addr[p] # None =>
        /\ \A u \in filled[addr[p]] : Own(p, u)
        /\ phase = "replied" /\ Pending0 /\ addr[p] = pend.chunk =>
             \A u \in pend.units : Own(p, u)
  BY DEF BytesInv
<1>2. /\ addr \in [Pages -> Chunks \cup {None}] /\ pend \in Posts
      /\ mem \in [Chunks -> 0 .. MaxVer] /\ ring \in Seq(Chunks)
      /\ filled \in [Chunks -> SUBSET Units] /\ pend.chunk \in Chunks
      /\ pend.units \subseteq Units
  BY DEF Inv, TypeOK, Posts
<1>3. \A p, q \in Pages : addr[p] = addr[q] /\ addr[p] # None => p = q
  BY DEF Inv, PoolInv
\* A step that leaves the pool, and the host's table of it, alone.
<1>4. ASSUME UNCHANGED <<addr, hold, mem>>,
             \A c \in Chunks : filled'[c] \subseteq filled[c],
             phase' # "replied"
      PROVE  BytesInv'
  <2>1. addr' = addr /\ hold' = hold /\ mem' = mem
    BY <1>4
  <2> QED BY <1>1, <1>2, <1>4, <2>1 DEF BytesInv
<1>5. CASE Open
  BY <1>5 DEF Open, BytesInv
<1>6. ASSUME NEW c \in Chunks, Remap(c) PROVE BytesInv'
  <2>1. /\ phase = "native" /\ held[c] # "ro"
        /\ mem' = [mem EXCEPT ![c] = mem[c] + 1]
        /\ addr' = addr /\ hold' = hold /\ filled' = filled /\ phase' = phase
    BY <1>6 DEF Remap, cardVars, Unmoved
  <2>2. Live /\ ~Pending0 /\ phase # "filling"
    BY <2>1 DEF Live, Pending0
  <2>3. \A p \in Pages : addr[p] # None => held[addr[p]] = "ro"
    BY <2>2, Settled DEF Inv
  <2>4. \A p \in Pages : addr[p] # None => mem'[addr[p]] = mem[addr[p]]
    BY <1>2, <2>1, <2>3
  <2> QED BY <1>1, <2>1, <2>4 DEF BytesInv
<1>7. ASSUME \/ RegionEnter \/ CallEnter \/ Run \/ Access \/ Fault
             \/ FaultFatal
      PROVE  BytesInv'
  <2>1. /\ UNCHANGED <<addr, hold, mem>> /\ filled' = filled
        /\ phase' # "replied"
    BY <1>7 DEF RegionEnter, CallEnter, Run, Access, Fault, FaultFatal,
       cardVars
  <2> QED BY <1>4, <2>1
<1>8. CASE Post
  <2>1. /\ UNCHANGED <<addr, hold, mem>> /\ phase' = "posted"
        /\ \/ filled' = filled
           \/ filled' = [filled EXCEPT ![Head(ring)] = {}]
    BY <1>8 DEF Post, cardVars, Pin, EnterRing, Evict
  <2>2. \A c \in Chunks : filled'[c] \subseteq filled[c]
    BY <1>2, <2>1
  <2> QED BY <1>4, <2>1, <2>2
<1>9. CASE Assign
  <2> DEFINE c == pend.chunk
             a == Dropped(pend.victim)
             p == PageFor(c, a)
  <2>1. /\ phase = "posted" /\ pend.class = 0 /\ phase' # "replied"
        /\ mem' = mem /\ hold' = hold /\ filled' = filled
        /\ \/ addr' = a
           \/ addr' = [a EXCEPT ![p] = c]
    BY <1>9 DEF Assign
  <2>2. /\ a \in [Pages -> Chunks \cup {None}]
        /\ \A q \in Pages : a[q] = IF pend.victim # None /\ addr[q] = pend.victim
                                   THEN None ELSE addr[q]
    BY DroppedIs DEF Inv
  <2>3. Live /\ phase # "filling"
    BY <2>1 DEF Live
  <2>4. \/ held[c] = "ro" /\ pend.victim = None
        \/ held[c] = "no"
    BY <2>1, <2>3 DEF Inv, CountInv
  <2>5. \/ filled[c] = {}
        \/ a[p] = c /\ addr[p] = c /\ p \in Pages
    <3>1. CASE held[c] = "no"
      BY <1>2, <3>1 DEF FilledInv
    <3>2. CASE held[c] = "ro" /\ pend.victim = None
      <4>1. PICK q \in Pages : addr[q] = c
        BY <1>2, <2>3, <3>2 DEF Inv, PoolInv, Resident
      <4>2. a[q] = c /\ \A r \in Pages : a[r] = addr[r]
        BY <2>2, <3>2, <4>1
      <4> HIDE DEF a, c
      <4>3. p \in Pages \cup {0} /\ p # 0 /\ a[p] = c
        BY <4>2, PageForIs
      <4> QED BY <4>2, <4>3
    <3> QED BY <2>4, <3>1, <3>2
  <2> HIDE DEF a, p, c
  <2>6. ASSUME NEW q \in Pages, addr'[q] # None
        PROVE  \A u \in filled[addr'[q]] :
                 hold[q][u] = <<addr'[q], mem[addr'[q]]>>
    <3>1. CASE addr'[q] = addr[q]
      BY <1>1, <2>6, <3>1
    <3>2. CASE addr'[q] # addr[q]
      <4>1. addr'[q] = c /\ q = p
        BY <2>1, <2>2, <2>6, <3>2
      <4>2. filled[c] = {}
        BY <2>5, <3>2, <4>1
      <4> QED BY <4>1, <4>2
    <3> QED BY <3>1, <3>2
  <2> QED BY <2>1, <2>6 DEF BytesInv
<1>10. CASE Fill
  <2> DEFINE c == pend.chunk
             p == PageFor(c, addr)
  <2>1. /\ phase = "filling" /\ pend' = pend /\ filled' = filled
        /\ mem' = mem /\ addr' = addr
        /\ \/ hold' = [hold EXCEPT ![p] =
                         [u \in Units |-> IF u \in Span(pend.units)
                                          THEN <<c, mem[c]>>
                                          ELSE hold[p][u]]]
           \/ hold' = hold /\ phase' = "died"
    BY <1>10 DEF Fill
  <2>2. Pending0 /\ Live /\ ~(phase = "posted")
    BY <2>1 DEF Inv, ClassInv, Pending0, Pending1, Live
  <2>3. \E q \in Pages : addr[q] = c
    BY <2>2 DEF Inv, CountInv
  <2>4. p \in Pages /\ addr[p] = c /\ c # None
    <3>1. c # None
      BY <1>2, ChunksAre
    <3> QED BY <2>3, <3>1, PageForIs
  <2>5. hold \in [Pages -> [Units -> (Chunks \X (0 .. MaxVer)) \cup {Nothing}]]
    BY DEF Inv, TypeOK
  <2>6. CASE hold' = hold /\ phase' = "died"
    BY <1>4, <2>1, <2>6
  <2>7. CASE hold' = [hold EXCEPT ![p] =
                        [u \in Units |-> IF u \in Span(pend.units)
                                         THEN <<c, mem[c]>>
                                         ELSE hold[p][u]]]
    <3>1. c \in Chunks
      BY <1>2
    <3>2. pend.units \subseteq Span(pend.units)
      BY <1>2, SpanCovers
    <3> HIDE DEF p, c
    <3>3. /\ \A u \in pend.units : hold'[p][u] = <<c, mem[c]>>
          /\ \A u \in Units : hold'[p][u] \in {hold[p][u], <<c, mem[c]>>}
          /\ \A q \in Pages : q # p => hold'[q] = hold[q]
      BY <1>2, <2>4, <2>5, <2>7, <3>2
    <3>4. \A q \in Pages : addr[q] # None =>
            \A u \in filled[addr[q]] : hold'[q][u] = <<addr[q], mem[addr[q]]>>
      <4> SUFFICES ASSUME NEW q \in Pages, addr[q] # None,
                          NEW u \in filled[addr[q]]
                   PROVE  hold'[q][u] = <<addr[q], mem[addr[q]]>>
        OBVIOUS
      <4>1. Own(q, u) /\ u \in Units
        BY <1>1, <1>2
      <4> QED BY <2>4, <3>3, <4>1
    <3>5. \A q \in Pages : addr[q] = c =>
            \A u \in pend.units : hold'[q][u] = <<addr[q], mem[addr[q]]>>
      BY <1>3, <2>4, <3>3
    <3> QED BY <2>1, <3>4, <3>5 DEF BytesInv, c
  <2> QED BY <2>1, <2>6, <2>7
<1>11. CASE MapUnits
  <2>1. /\ UNCHANGED <<addr, hold, mem>> /\ filled' = filled /\ pend' = pend
        /\ pend.class = 1
    BY <1>11 DEF MapUnits
  <2>2. ~Pending0'
    BY <2>1 DEF Pending0
  <2> QED BY <1>1, <2>1, <2>2 DEF BytesInv
<1>12. CASE Done
  <2> DEFINE c == pend.chunk
  <2>1. /\ phase = "replied" /\ phase' = "post" /\ addr' = addr
        /\ hold' = hold /\ mem' = mem
        /\ filled' = [filled EXCEPT ![c] = filled[c] \cup pend.units]
    BY <1>12 DEF Done, cardVars
  <2>2. ASSUME NEW p \in Pages, addr[p] # None, NEW u \in filled'[addr[p]]
        PROVE  Own(p, u)
    <3>1. CASE u \in filled[addr[p]]
      BY <1>1, <2>2, <3>1
    <3>2. CASE u \notin filled[addr[p]]
      <4>1. addr[p] = c /\ u \in pend.units
        BY <1>2, <2>1, <2>2, <3>2
      <4>2. Pending0
        <5> SUFFICES ASSUME ~Pending0 PROVE FALSE
          OBVIOUS
        <5>1. Live /\ phase # "filling" /\ Pending1
          BY <2>1 DEF Live, Inv, ClassInv
        <5>2. held[addr[p]] = "ro"
          BY <2>2, <5>1, Settled DEF Inv
        <5>3. Paged(c)
          BY <1>2, <4>1, <5>2 DEF Inv, ClassInv
        <5>4. United(c)
          BY <5>1 DEF Inv, ClassInv, OfClass, Pending1
        <5> QED BY <5>3, <5>4, OneClass
      <4> QED BY <1>1, <2>1, <2>2, <4>1, <4>2
    <3> QED BY <3>1, <3>2
  <2> QED BY <2>1, <2>2 DEF BytesInv
<1>13. CASE UNCHANGED vars
  <2>1. /\ addr' = addr /\ hold' = hold /\ mem' = mem /\ filled' = filled
        /\ phase' = phase /\ pend' = pend
    BY <1>13 DEF vars, hostVars, cardVars
  <2> QED BY <1>1, <2>1 DEF BytesInv, Pending0
<1> QED BY <1>5, <1>6, <1>7, <1>8, <1>9, <1>10, <1>11, <1>12, <1>13 DEF Next

\* What the card reads at a place is the program's bytes of that place, for a
\* region always and for a planned call wherever RE_FILLED has the unit: not
\* those of a chunk evicted from the page since, nor of the program before
\* (resident.S res_unplace_stale, res_map_all; card.S c0_victim,
\* card_resident_done; region.S ro_need).
THEOREM ReadsOwn ==
  ASSUME Unmoved
  PROVE  Spec => []ReadsOwnBytes
<1>1. Init => ViewInv /\ FilledInv /\ BytesInv
  <2>1. Init => FilledInv /\ BytesInv
    BY DEF Init, FilledInv, BytesInv
  <2> QED BY <2>1, InitView
<1>2. Inv /\ ViewInv /\ FilledInv /\ BytesInv /\ [Next]_vars
        => (ViewInv /\ FilledInv /\ BytesInv)'
  BY NextView, NextFilled, NextBytes DEF Unmoved
<1>3. Inv /\ ViewInv /\ FilledInv /\ BytesInv => ReadsOwnBytes
  <2> SUFFICES ASSUME Inv, ViewInv, FilledInv, BytesInv, phase = "running",
                      NEW a \in want,
                      path = "region" \/ a[2] \in filled[a[1]],
                      view[a[1]][a[2]] > 0
               PROVE  hold[view[a[1]][a[2]]][a[2]] = <<a[1], mem[a[1]]>>
    BY DEF ReadsOwnBytes, OwnAt
  <2> DEFINE p == view[a[1]][a[2]]
  <2>1. a[1] \in Chunks /\ a[2] \in Units /\ p \in Pages \cup {0, -1}
    BY DEF Inv, TypeOK, Places
  <2>2. p \in Pages
    BY <2>1
  <2>3. at[p] = a[1] /\ at[p] # None
    BY <2>1, <2>2, ChunksAre DEF ViewInv
  <2>4. addr[p] = a[1] /\ addr[p] # None
    BY <2>2, <2>3 DEF ViewInv
  <2>5. a[2] \in filled[a[1]]
    <3>1. Live /\ ~Pending0 /\ phase # "filling"
      BY DEF Live, Pending0
    <3>2. held[a[1]] = "ro"
      BY <2>2, <2>4, <3>1, Settled DEF Inv
    <3> QED BY <2>1, <3>2 DEF FilledInv
  <2> QED BY <2>2, <2>4, <2>5 DEF BytesInv
<1>4. Spec => []Inv
  BY Invariant DEF Unmoved
<1> QED BY <1>1, <1>2, <1>3, <1>4, PTL DEF Spec


-----------------------------------------------------------------------------
(* A fault is served.                                                      *)

\* In a ring that takes one more, or one for its oldest, the chunk behind
\* which there were few stays as far from the end as the queue is shorter.
LEMMA FarKept ==
  ASSUME Inv, need # <<>>, NEW c \in Chunks, NEW d \in Chunks, d # c, Far(c),
         need' = Tail(need),
         \/ ring' = ring
         \/ ring' = Append(ring, d)
         \/ ring # <<>> /\ ring' = Append(Tail(ring), d)
  PROVE  Far(c)'
<1>1. /\ need \in Seq(Requests) /\ ring \in Seq(Chunks) /\ Ahead \in Nat
  BY ResidencyAssumption DEF Inv, TypeOK
<1>2. /\ Len(need) \in Nat /\ Len(need) >= 1 /\ Len(need') = Len(need) - 1
      /\ Len(ring) \in Nat
  BY <1>1, TailOf, LenProperties
<1>3. \A i \in 1 .. Len(ring) :
        ring[i] = c => Len(ring) - i + Len(need) <= Ahead
  BY DEF Far
<1>4. CASE ring' = ring
  BY <1>1, <1>2, <1>3, <1>4 DEF Far
<1>5. CASE ring' = Append(ring, d)
  <2>1. /\ Len(ring') = Len(ring) + 1 /\ ring'[Len(ring) + 1] = d
        /\ \A i \in 1 .. Len(ring) : ring'[i] = ring[i]
    BY <1>1, <1>5, Joined
  <2>2. ASSUME NEW i \in 1 .. Len(ring'), ring'[i] = c
        PROVE  Len(ring') - i + Len(need') <= Ahead
    <3>1. i \in 1 .. Len(ring)
      BY <1>2, <2>1, <2>2
    <3> QED BY SMTT(30), <1>1, <1>2, <1>3, <2>1, <2>2, <3>1
  <2> QED BY <2>2 DEF Far
<1>6. CASE ring # <<>> /\ ring' = Append(Tail(ring), d)
  <2> DEFINE t == Tail(ring)
  <2>1. /\ t \in Seq(Chunks) /\ ring' = Append(t, d)
        /\ Len(t) = Len(ring) - 1
        /\ \A i \in 1 .. Len(ring) - 1 : t[i] = ring[i + 1]
    <3>1. ring # <<>> /\ ring' = Append(Tail(ring), d)
      BY <1>6
    <3>2. /\ Tail(ring) \in Seq(Chunks) /\ Len(Tail(ring)) = Len(ring) - 1
          /\ \A i \in 1 .. Len(ring) - 1 : Tail(ring)[i] = ring[i + 1]
      BY <1>1, <3>1, TailOf
    <3> QED BY <3>1, <3>2
  <2> HIDE DEF t
  <2>2. /\ Len(ring') = Len(t) + 1 /\ ring'[Len(t) + 1] = d
        /\ \A i \in 1 .. Len(t) : ring'[i] = t[i]
    BY <2>1, Joined
  <2>3. ASSUME NEW i \in 1 .. Len(ring'), ring'[i] = c
        PROVE  Len(ring') - i + Len(need') <= Ahead
    <3>0. Len(t) + 1 = Len(ring) /\ Len(ring') = Len(ring)
      BY <1>2, <2>1, <2>2
    <3>1. i \in 1 .. Len(ring) - 1 /\ i \in Int
      BY <1>2, <2>1, <2>2, <2>3, <3>0
    <3>2. i + 1 \in 1 .. Len(ring)
      BY <1>2, <3>1
    <3>3. ring[i + 1] = c
      BY <2>1, <2>2, <2>3, <3>1
    <3>4. Len(ring) - (i + 1) + Len(need) <= Ahead
      BY <1>3, <3>2, <3>3
    <3> QED BY <1>1, <1>2, <3>0, <3>1, <3>4
  <2> QED BY <2>3 DEF Far
<1> QED BY <1>4, <1>5, <1>6

\* The rounds of a fault: its own request is posted first, and those of the
\* read-ahead never reach it in the ring.
LEMMA PostServed ==
  ASSUME Uniform, Ahead < Ring, Inv, Post, path = "region",
         NEW a \in Places, Served(a)
  PROVE  Served(a)'
<1> DEFINE n == Head(need)
           c == n.chunk
           d == a[1]
<1>1. /\ phase = "post" /\ need # <<>> /\ phase' = "posted"
      /\ need' = Tail(need)
  BY DEF Post
<1>2. /\ need \in Seq(Requests) /\ ring \in Seq(Chunks)
      /\ held \in [Chunks -> {"no", "ro", "rw"}] /\ d \in Chunks
      /\ a[2] \in Units
  BY DEF Inv, TypeOK, Places
<1>3. /\ n \in Requests /\ n = need[1] /\ 1 \in 1 .. Len(need)
      /\ Len(need') = Len(need) - 1 /\ Len(need) \in Nat /\ Len(need) >= 1
  BY <1>1, <1>2, TailOf
<1>4. c \in Chunks /\ n.class \in {0, 1} /\ OfClass(n)
  BY <1>3 DEF Requests, Inv, ClassInv
<1>5. /\ pend'.chunk = c /\ pend'.class = n.class /\ pend'.units = n.units
      /\ IF n.class = 0 /\ held[c] = "no"
         THEN Pin \/ EnterRing(c) \/ Evict(c)
         ELSE UNCHANGED <<npin, ring, held, filled>>
  BY DEF Post
<1>6. \A i \in 1 .. Len(ring) : held[ring[i]] = "ro"
  <2>1. Live /\ ~Pending0 /\ phase # "filling"
    BY <1>1 DEF Live, Pending0
  <2> QED BY <2>1, Settled DEF Inv
<1>7. Ring \in Nat /\ Ahead \in Nat /\ Ring >= 1
  BY ResidencyAssumption
<1>8. CASE d \in Immutable /\ c = d /\ held[d] = "no" /\ Len(need) <= Ahead + 1
  <2>1. n.class = 0
    BY <1>4, <1>8 DEF OfClass, United
  <2>2. Pending0' /\ pend'.chunk = d
    BY <1>1, <1>5, <1>8, <2>1 DEF Pending0
  <2>3. Len(need') <= Ahead
    BY <1>3, <1>7, <1>8
  <2>4. Far(d)'
    <3>1. \A i \in 1 .. Len(ring) : ring[i] # d
      BY <1>6, <1>8
    <3>2. CASE Pin
      BY <3>1, <3>2 DEF Pin, Far
    <3>3. ASSUME NEW q \in Seq(Chunks), \A i \in 1 .. Len(q) : q[i] # d,
                 ring' = Append(q, d)
          PROVE  Far(d)'
      <4>1. /\ Len(ring') = Len(q) + 1 /\ Len(q) \in Nat
            /\ \A i \in 1 .. Len(q) : ring'[i] = q[i]
        BY <1>2, <3>3, Joined
      <4>2. ASSUME NEW i \in 1 .. Len(ring'), ring'[i] = d
            PROVE  Len(ring') - i + Len(need') <= Ahead
        <5>1. i = Len(ring')
          BY <3>3, <4>1, <4>2
        <5> QED BY <1>3, <2>3, <4>1, <5>1
      <4> QED BY <4>2 DEF Far
    <3>4. CASE EnterRing(d)
      BY <1>2, <3>1, <3>3, <3>4 DEF EnterRing
    <3>5. CASE Evict(d)
      <4>1. ring' = Append(Tail(ring), d) /\ ring # <<>>
        BY <1>7, <3>5 DEF Evict
      <4>2. /\ Tail(ring) \in Seq(Chunks) /\ Len(Tail(ring)) = Len(ring) - 1
            /\ Len(ring) \in Nat
            /\ \A i \in 1 .. Len(ring) - 1 : Tail(ring)[i] = ring[i + 1]
        BY <1>2, <4>1, TailOf
      <4>3. \A i \in 1 .. Len(Tail(ring)) : Tail(ring)[i] # d
        <5> TAKE i \in 1 .. Len(Tail(ring))
        <5>1. i + 1 \in 1 .. Len(ring) /\ i \in 1 .. Len(ring) - 1
          BY <4>2
        <5> QED BY <3>1, <4>2, <5>1
      <4> QED BY <3>3, <4>1, <4>2, <4>3
    <3> QED BY <1>5, <1>8, <2>1, <3>2, <3>4, <3>5
  <2> QED BY <1>8, <2>2, <2>3, <2>4 DEF Served
<1>9. CASE d \in Immutable /\ held[d] = "ro" /\ Len(need) <= Ahead /\ Far(d)
  <2>1. Len(need') <= Ahead
    BY <1>3, <1>7, <1>9
  <2>2. CASE UNCHANGED <<npin, ring, held, filled>> \/ Pin
    <3>1. held' = held /\ ring' = ring
      BY <2>2 DEF Pin
    <3>2. Far(d)'
      <4>1. \A i \in 1 .. Len(ring) :
              ring[i] = d => Len(ring) - i + Len(need) <= Ahead
        BY <1>9 DEF Far
      <4>2. Len(ring) \in Nat
        BY <1>2, LenProperties
      <4>3. \A i \in 1 .. Len(ring) :
              ring[i] = d => Len(ring) - i + Len(need') <= Ahead
        BY <1>3, <1>7, <4>1, <4>2
      <4> QED BY <3>1, <4>3 DEF Far
    <3> QED BY <1>9, <2>1, <3>1, <3>2 DEF Served
  <2>3. CASE held[c] = "no" /\ EnterRing(c)
    <3>1. held' = held /\ ring' = Append(ring, c) /\ c # d
      BY <1>9, <2>3 DEF EnterRing
    <3>2. Far(d)'
      BY <1>1, <1>2, <1>4, <1>9, <3>1, FarKept
    <3> QED BY <1>9, <2>1, <3>1, <3>2 DEF Served
  <2>4. CASE held[c] = "no" /\ Evict(c)
    <3>1. /\ held' = [held EXCEPT ![Head(ring)] = "no"] /\ Len(ring) = Ring
          /\ ring' = Append(Tail(ring), c) /\ c # d /\ ring # <<>>
      BY <1>7, <1>9, <2>4 DEF Evict
    <3>2. Far(d)'
      BY <1>1, <1>2, <1>4, <1>9, <3>1, FarKept
    <3>3. Head(ring) = ring[1] /\ 1 \in 1 .. Len(ring)
      BY <1>7, <3>1
    <3>4. Head(ring) # d
      <4> SUFFICES ASSUME ring[1] = d PROVE FALSE
        BY <3>3
      <4>1. Len(ring) - 1 + Len(need) <= Ahead
        BY <1>9, <3>3 DEF Far
      <4> QED BY <1>3, <1>7, <3>1, <4>1
    <3>5. held'[d] = "ro"
      BY <1>2, <1>9, <3>1, <3>4
    <3> QED BY <1>9, <2>1, <3>2, <3>5 DEF Served
  <2> QED BY <1>5, <2>2, <2>3, <2>4
<1>10. CASE d \notin Immutable
  <2>1. need = <<[chunk |-> d, units |-> {a[2]}, class |-> 1]>>
    BY <1>1, <1>10 DEF Served
  <2>2. n = [chunk |-> d, units |-> {a[2]}, class |-> 1] /\ need' = <<>>
    BY <1>1, <2>1
  <2>3. pend'.chunk = d /\ pend'.units = {a[2]} /\ pend'.class = 1
    BY <1>5, <2>2
  <2> QED BY <1>1, <1>10, <2>2, <2>3 DEF Served
<1>11. d \in Immutable => \/ c = d /\ held[d] = "no" /\ Len(need) <= Ahead + 1
                          \/ held[d] = "ro" /\ Len(need) <= Ahead /\ Far(d)
  BY <1>1, <1>3 DEF Served, Pending0
<1> QED BY <1>8, <1>9, <1>10, <1>11

\* A place served is placed when the region runs.
LEMMA ServedIsPlaced ==
  ASSUME Inv, ViewInv, phase = "running", NEW a \in Places, Served(a)
  PROVE  Placed(a) /\ (a[1] \notin Immutable => a \in wmap)
<1>1. a[1] \in Chunks /\ a[2] \in Units
  BY DEF Places
<1>2. CASE a[1] \in Immutable
  <2>1. held[a[1]] = "ro"
    BY <1>2 DEF Served, Pending0
  <2>2. PICK p \in Pages : addr[p] = a[1] /\ state[p] = "resident"
    <3>1. Live /\ ~Pending0 /\ phase # "filling"
      BY DEF Live, Pending0
    <3>2. Resident(a[1])
      BY <1>1, <2>1, <3>1, Settled DEF Inv
    <3> QED BY <3>2 DEF Resident
  <2>3. at[p] = a[1] /\ at[p] # None
    BY <1>1, <2>2, ChunksAre DEF ViewInv
  <2>4. view[a[1]][a[2]] = p
    BY <1>1, <2>3 DEF ViewInv
  <2> QED BY <1>2, <2>4, PagesAre DEF Placed
<1>3. CASE a[1] \notin Immutable
  <2>1. a \in wmap
    BY <1>3 DEF Served
  <2>2. view[a[1]][a[2]] = -1
    BY <2>1 DEF ViewInv
  <2> QED BY <2>1, <2>2 DEF Placed
<1> QED BY <1>2, <1>3

\* Ascending, the listing of a chunk and of chunks behind it starts with it.
LEMMA FirstOfAscending ==
  ASSUME NEW S, S \subseteq Chunks, NEW s \in SetToSeqs(S), NEW c \in S,
         \A d \in S : c <= d,
         \A i, j \in DOMAIN s : i < j => s[i] < s[j]
  PROVE  1 \in 1 .. Len(s) /\ s[1] = c
<1>1. /\ Len(s) \in Nat /\ DOMAIN s = 1 .. Len(s)
      /\ \A i \in 1 .. Len(s) : s[i] \in S
  BY Listing
<1>2. PICK k \in 1 .. Len(s) : s[k] = c
  <2>1. Len(s) = Cardinality(S)
    BY Listing
  <2> DEFINE D == 1 .. Cardinality(S)
  <2>2. \A x \in S : \E i \in D : s[i] = x
    <3>1. s \in [D -> S] /\ \A i, j \in D : i # j => s[i] # s[j]
      BY DEF SetToSeqs
    <3>2. IsFiniteSet(S)
      <4>1. IsFiniteSet(0 .. NChunks - 1)
        BY FS_Interval, ChunksAre, 0 \in Int, NChunks - 1 \in Int
      <4> QED BY <4>1, FS_Subset, ChunksAre
    <3>3. Cardinality(D) = Cardinality(S)
      <4>1. Cardinality(S) \in Nat
        BY <3>2, FS_CardinalityType
      <4>2. Cardinality(D) = IF 1 > Cardinality(S) THEN 0
                             ELSE Cardinality(S) - 1 + 1
        BY <4>1, FS_Interval, 1 \in Int, Cardinality(S) \in Int
      <4> QED BY <4>1, <4>2
    <3> HIDE DEF D
    <3>4. s \in Injection(D, S)
      BY <3>1 DEF Injection, IsInjective
    <3>5. s \in Surjection(D, S)
      BY <3>2, <3>3, <3>4, FS_Injection
    <3> QED BY <3>5 DEF Surjection
  <2> QED BY <2>1, <2>2
<1>3. 1 \in 1 .. Len(s)
  BY <1>1, <1>2
<1>4. CASE k = 1
  BY <1>2, <1>3, <1>4
<1>5. CASE k > 1
  <2>1. s[1] < c
    BY <1>1, <1>2, <1>3, <1>5
  <2>2. s[1] \in Nat /\ c \in Nat /\ c <= s[1]
    BY <1>1, <1>3, ChunksAre
  <2> QED BY <2>1, <2>2
<1> QED BY <1>1, <1>2, <1>4, <1>5

\* The read-ahead is of at most RO_AHEAD chunks.
LEMMA FewAhead ==
  ASSUME TypeOK, NEW c \in Chunks
  PROVE  Cardinality({c} \cup AheadOf(c)) <= Ahead + 1
<1>1. c \in Nat /\ Ahead \in Nat /\ {c} \cup AheadOf(c) \subseteq Chunks
      /\ \A d \in AheadOf(c) : d > c /\ d <= c + Ahead
  BY AheadIs, ChunksAre, ResidencyAssumption
<1>2. {c} \cup AheadOf(c) \subseteq c .. c + Ahead
  BY <1>1, ChunksAre
<1>3. IsFiniteSet(c .. c + Ahead) /\ Cardinality(c .. c + Ahead) = Ahead + 1
  <2> DEFINE e == c + Ahead
  <2>1. c \in Int /\ e \in Int /\ ~(c > e) /\ e - c + 1 = Ahead + 1
    BY <1>1
  <2> HIDE DEF e
  <2>2. IsFiniteSet(c .. e)
        /\ Cardinality(c .. e) = IF c > e THEN 0 ELSE e - c + 1
    BY <2>1, FS_Interval
  <2> QED BY <2>1, <2>2 DEF e
<1> QED BY <1>2, <1>3, FS_Subset

\* When a region runs, every unit the host has asked for is mapped.
LEMMA UnitsAreMapped ==
  ASSUME Inv, ServeInv, phase \in {"native", "running"}
  PROVE  wu \subseteq wmap
<1>1. Live /\ need = <<>>
  BY DEF Live, Inv, ClassInv
<1>2. \A a : ~Asked(a)
  BY <1>1 DEF Asked
<1> QED BY <1>1, <1>2 DEF ServeInv

\* A fault queues its own chunk first, or its unit.
LEMMA FaultServe ==
  ASSUME Uniform, Inv, ViewInv, ServeInv, Fault
  PROVE  ServeInv'
<1>1. /\ phase = "running" /\ phase' = "post" /\ path = "region"
      /\ path' = path /\ want' = want /\ again' = TRUE /\ held' = held
      /\ wmap' = wmap /\ ring' = ring
  BY DEF Fault, callVars, cardVars
<1>2. PICK a \in want :
        LET c == a[1]
            ahead == AheadOf(c)
        IN /\ ~Placed(a)
           /\ IF c \in Immutable /\ held[c] # "rw"
              THEN /\ \E s \in SetToSeqs({c} \cup ahead) :
                        /\ \A i, j \in DOMAIN s : i < j => s[i] < s[j]
                        /\ need' = Whole(s)
                   /\ UNCHANGED wu
              ELSE /\ need' = IF a \in wu THEN <<>>
                              ELSE <<[chunk |-> c, units |-> {a[2]},
                                      class |-> 1]>>
                   /\ wu' = wu \cup {a}
  BY DEF Fault
<1> DEFINE c == a[1]
<1>3. a \in Places /\ c \in Chunks /\ a[2] \in Units /\ want = {a}
  BY <1>1 DEF Inv, TypeOK, Places, ServeInv
<1>4. wu \subseteq wmap
  BY <1>1, UnitsAreMapped
<1>5. Serving' /\ Live'
  BY <1>1 DEF Serving, Live
<1>6. CASE c \in Immutable /\ held[c] # "rw"
  <2>1. PICK s \in SetToSeqs({c} \cup AheadOf(c)) :
          /\ \A i, j \in DOMAIN s : i < j => s[i] < s[j]
          /\ need' = Whole(s)
    BY <1>2, <1>6
  <2>2. wu' = wu
    BY <1>2, <1>6
  <2>3. held[c] # "ro"
    <3> SUFFICES ASSUME held[c] = "ro" PROVE Placed(a)
      BY <1>2
    <3>1. Live /\ ~Pending0 /\ phase # "filling"
      BY <1>1 DEF Live, Pending0
    <3>2. PICK p \in Pages : addr[p] = c /\ state[p] = "resident"
      BY <1>3, <3>1, Settled DEF Inv, Resident
    <3>3. at[p] = c /\ at[p] # None
      BY <1>1, <1>3, <3>2, ChunksAre DEF ViewInv
    <3> QED BY <1>3, <3>3, PagesAre DEF ViewInv, Placed
  <2>4. held[c] = "no"
    BY <1>3, <1>6, <2>3 DEF Inv, TypeOK
  <2> DEFINE S == {c} \cup AheadOf(c)
  <2>5. /\ S \subseteq Chunks /\ c \in S /\ \A d \in S : c <= d
        /\ Cardinality(S) <= Ahead + 1
    BY <1>3, AheadIs, FewAhead, ChunksAre DEF Inv
  <2> HIDE DEF S, c
  <2>6. 1 \in 1 .. Len(s) /\ s[1] = c
    BY <2>1, <2>5, FirstOfAscending DEF S
  <2>7. Len(s) = Cardinality(S) /\ DOMAIN s = 1 .. Len(s) /\ Len(s) \in Nat
    BY <2>1, <2>5, Listing DEF S
  <2>8. need' = [i \in 1 .. Len(s) |->
                   [chunk |-> s[i], units |-> Units, class |-> 0]]
    BY <2>1, <2>7 DEF Whole
  <2>9. Len(need') = Len(s) /\ need'[1].chunk = c
    BY <2>6, <2>7, <2>8
  <2>10. need' # <<>> /\ Len(need') <= Ahead + 1
    BY <2>5, <2>6, <2>7, <2>9
  <2>11. Served(a)'
    BY <1>1, <1>6, <2>4, <2>9, <2>10 DEF Served, c
  <2>12. \A b \in wu' : b \in wmap'
    BY <1>1, <1>4, <2>2
  <2>13. (\E b \in Places : want = {b})'
    BY <1>1, <1>3
  <2>14. (\A b \in want : Served(b))'
    BY <1>1, <1>3, <2>11
  <2> QED BY <1>1, <2>12, <2>13, <2>14 DEF ServeInv
<1>7. CASE ~(c \in Immutable /\ held[c] # "rw")
  <2>1. c \notin Immutable
    BY <1>1, <1>3, <1>7 DEF Inv, ClassInv, United
  <2>2. a \notin wu
    <3> SUFFICES ASSUME a \in wu PROVE Placed(a)
      BY <1>2
    <3>1. view[a[1]][a[2]] = -1
      BY <1>4 DEF ViewInv
    <3> QED BY <3>1 DEF Placed
  <2>3. /\ need' = <<[chunk |-> c, units |-> {a[2]}, class |-> 1]>>
        /\ wu' = wu \cup {a}
    BY <1>2, <1>7, <2>2
  <2>4. Served(a)'
    BY <1>1, <2>1, <2>3 DEF Served
  <2>5. \A b \in wu' : b \in wmap' \/ Asked(b)'
    <3>1. Asked(a)'
      <4>1. 1 \in 1 .. Len(need') /\ need'[1].class = 1
            /\ need'[1].chunk = c /\ need'[1].units = {a[2]}
        BY <2>3
      <4> QED BY <4>1 DEF Asked, Asks
    <3> QED BY <1>1, <1>3, <1>4, <2>3, <3>1
  <2>13. (\E b \in Places : want = {b})'
    BY <1>1, <1>3
  <2>14. (\A b \in want : Served(b))'
    BY <1>1, <1>3, <2>4
  <2> QED BY <1>1, <2>5, <2>13, <2>14 DEF ServeInv
<1> QED BY <1>6, <1>7

\* A step of a request leaves the region's place, and what serves it.
LEMMA RoundServe ==
  ASSUME ServeInv, Inv,
         UNCHANGED <<path, want, again, wu>>, wmap \subseteq wmap',
         phase \in {"post", "posted", "filling", "replied"},
         phase' \in {"posted", "filling", "replied", "post", "running", "died"},
         \A a \in Places :
           Served(a) /\ path = "region" /\ phase' # "died" => Served(a)',
         \A a \in wu :
           Asked(a) /\ phase' # "died" => Asked(a)' \/ a \in wmap'
  PROVE  ServeInv'
<1>1. /\ path' = path /\ want' = want /\ wu' = wu /\ (again' <=> again)
  OBVIOUS
<1>2. /\ again => path = "region"
      /\ path = "region" => \E a \in Places : want = {a}
      /\ Serving => \A a \in want : Served(a)
      /\ \A a \in wu : a \in wmap \/ Asked(a)
  BY DEF ServeInv, Live
<1>3. Serving /\ phase' # "died" => Serving'
  BY <1>1 DEF Serving
<1>4. Serving' => Serving /\ phase' # "died" /\ path = "region"
  BY <1>1 DEF Serving
<1>5. want \subseteq Places
  BY DEF Inv, TypeOK
<1>6. Serving' => (\A a \in want : Served(a))'
  BY <1>1, <1>2, <1>4, <1>5
<1>7. Live' => phase' # "died"
  BY DEF Live
<1> QED BY <1>1, <1>2, <1>3, <1>6, <1>7 DEF ServeInv

LEMMA NextServe ==
  ASSUME Uniform, Ahead < Ring
  PROVE  Inv /\ ViewInv /\ ServeInv /\ [Next]_vars => ServeInv'
<1> SUFFICES ASSUME Inv, ViewInv, ServeInv, [Next]_vars PROVE ServeInv'
  OBVIOUS
<1>1. CASE Open
  BY <1>1 DEF Open, ServeInv, Serving
<1>2. ASSUME NEW c \in Chunks, Remap(c) PROVE ServeInv'
  <2>1. /\ phase = "native" /\ phase' = "native" /\ path' = path
        /\ (again' <=> again) /\ wu' = wu /\ wmap' = wmap
    BY <1>2 DEF Remap, callVars, cardVars
  <2>2. wu \subseteq wmap
    BY <2>1, UnitsAreMapped
  <2> QED BY <2>1, <2>2 DEF ServeInv, Serving
<1>3. CASE RegionEnter
  <2>1. /\ phase = "native" /\ phase' = "post" /\ path' = "region"
        /\ again' = FALSE /\ wmap' = wmap
        /\ \E a \in Places : want' = {a}
    BY <1>3 DEF RegionEnter, cardVars
  <2>2. wu \subseteq wmap
    BY <2>1, UnitsAreMapped
  <2>3. \A a \in wu' : a \in wu \/ Asked(a)'
    BY <1>3, RegionAsks DEF Asked, Asks
  <2> QED BY <2>1, <2>2, <2>3 DEF ServeInv, Serving
<1>4. CASE CallEnter
  <2>1. /\ phase = "native" /\ phase' = "post" /\ path' = "planned"
        /\ again' = FALSE /\ wu' = wu /\ wmap' = wmap
    BY <1>4 DEF CallEnter, cardVars
  <2>2. wu \subseteq wmap
    BY <2>1, UnitsAreMapped
  <2> QED BY <2>1, <2>2 DEF ServeInv, Serving
<1>5. CASE Post
  <2>1. /\ UNCHANGED <<path, want, again, wu>> /\ wmap' = wmap
        /\ phase = "post" /\ phase' = "posted"
    BY <1>5 DEF Post, callVars, cardVars
  <2>2. \A a \in Places : Served(a) /\ path = "region" => Served(a)'
    BY <1>5, PostServed
  <2>3. ASSUME NEW a, Asked(a) PROVE Asked(a)'
    <3>1. /\ need # <<>> /\ need' = Tail(need) /\ need \in Seq(Requests)
          /\ pend'.class = Head(need).class /\ pend'.units = Head(need).units
          /\ pend'.chunk = Head(need).chunk
      BY <1>5 DEF Post, Inv, TypeOK
    <3>2. /\ Len(need) \in Nat /\ Len(need) >= 1 /\ Head(need) = need[1]
          /\ Len(need') = Len(need) - 1
          /\ \A i \in 1 .. Len(need) - 1 : need'[i] = need[i + 1]
      BY <3>1, TailOf
    <3>3. PICK i \in 1 .. Len(need) : Asks(need[i], a)
      BY <2>1, <2>3 DEF Asked
    <3>4. CASE i = 1
      BY <2>1, <3>1, <3>2, <3>3, <3>4 DEF Asked, Asks
    <3>5. CASE i > 1
      <4>1. i - 1 \in 1 .. Len(need') /\ need'[i - 1] = need[i]
        BY <3>2, <3>5
      <4> QED BY <3>3, <4>1 DEF Asked
    <3> QED BY <3>2, <3>4, <3>5
  <2> QED BY <2>1, <2>2, <2>3, RoundServe
<1>6. CASE Assign
  <2>1. /\ UNCHANGED <<path, want, again, wu>> /\ wmap' = wmap
        /\ phase = "posted" /\ phase' = "filling" /\ need' = need
        /\ held' = held /\ ring' = ring /\ pend' = pend /\ pend.class = 0
    BY <1>6, AssignInv DEF Assign, callVars, cardVars
  <2>2. \A a \in Places : Served(a) => Served(a)'
    BY <2>1 DEF Served, Far, Pending0
  <2>3. \A a : Asked(a) => Asked(a)'
    BY <2>1 DEF Asked, Asks
  <2> QED BY <2>1, <2>2, <2>3, RoundServe
<1>7. CASE Fill
  <2>1. /\ UNCHANGED <<path, want, again, wu>> /\ wmap' = wmap
        /\ phase = "filling" /\ phase' \in {"replied", "died"} /\ need' = need
        /\ held' = held /\ ring' = ring /\ pend' = pend
    BY <1>7 DEF Fill, callVars, cardVars
  <2>2. \A a \in Places : Served(a) /\ phase' # "died" => Served(a)'
    BY <2>1 DEF Served, Far, Pending0
  <2>3. \A a : Asked(a) => Asked(a)'
    BY <2>1 DEF Asked, Asks
  <2> QED BY <2>1, <2>2, <2>3, RoundServe
<1>8. CASE MapUnits
  <2> DEFINE new == {u \in pend.units : <<pend.chunk, u>> \notin wmap}
  <2>1. /\ UNCHANGED <<path, want, again, wu>>
        /\ phase = "posted" /\ phase' \in {"replied", "died"} /\ need' = need
        /\ held' = held /\ ring' = ring /\ pend' = pend /\ pend.class = 1
        /\ phase' = "replied" =>
             wmap' = wmap \cup {<<pend.chunk, u>> : u \in new}
        /\ wmap \subseteq wmap'
    BY <1>8 DEF MapUnits, callVars, cardVars
  <2>2. \A u \in pend.units : u \in new \/ <<pend.chunk, u>> \in wmap
    OBVIOUS
  <2> HIDE DEF new
  <2>3. ASSUME NEW a \in Places, Served(a), phase' = "replied"
        PROVE  Served(a)'
    <3>1. a = <<a[1], a[2]>>
      BY DEF Places
    <3>2. CASE a[1] \in Immutable
      BY <2>1, <2>3, <3>2 DEF Served, Far, Pending0
    <3>3. CASE a[1] \notin Immutable
      <4>1. need = <<>> /\ ((pend.chunk = a[1] /\ a[2] \in pend.units)
                            \/ a \in wmap)
        BY <2>1, <2>3, <3>3 DEF Served
      <4>2. a \in wmap'
        BY <2>1, <2>2, <2>3, <3>1, <4>1
      <4> QED BY <2>1, <3>3, <4>1, <4>2 DEF Served
    <3> QED BY <3>2, <3>3
  <2>4. ASSUME NEW a \in wu, Asked(a), phase' = "replied"
        PROVE  Asked(a)' \/ a \in wmap'
    <3>1. a = <<a[1], a[2]>>
      BY DEF Inv, TypeOK, Places
    <3>2. CASE \E i \in 1 .. Len(need) : Asks(need[i], a)
      BY <2>1, <3>2 DEF Asked
    <3>3. CASE Asks(pend, a)
      <4>1. pend.chunk = a[1] /\ a[2] \in pend.units
        BY <3>3 DEF Asks
      <4> QED BY <2>1, <2>2, <2>4, <3>1, <4>1
    <3> QED BY <2>4, <3>2, <3>3 DEF Asked
  <2> QED BY <2>1, <2>3, <2>4, RoundServe
<1>9. CASE Done
  <2>1. /\ UNCHANGED <<path, want, again, wu>> /\ wmap' = wmap
        /\ phase = "replied" /\ phase' = "post" /\ need' = need
        /\ ring' = ring
        /\ held' = [held EXCEPT ![pend.chunk] = IF pend.class = 0 THEN "ro"
                                                ELSE "rw"]
    BY <1>9 DEF Done, callVars, cardVars
  <2>2. pend.class \in {0, 1} /\ held \in [Chunks -> {"no", "ro", "rw"}]
    BY DEF Inv, TypeOK, Posts
  <2>3. OfClass(pend)
    BY <2>1 DEF Inv, ClassInv
  <2>4. ASSUME NEW a \in Places, Served(a), path = "region"
        PROVE  Served(a)'
    <3>1. CASE a[1] \in Immutable
      <4>1. /\ held[a[1]] = "ro" \/ (pend.class = 0 /\ pend.chunk = a[1])
            /\ Len(need) <= Ahead /\ Far(a[1])
        BY <2>1, <2>4, <3>1 DEF Served, Pending0
      <4>2. pend.class = 1 => pend.chunk # a[1]
        BY <2>3, <3>1 DEF OfClass, United
      <4>3. a[1] \in Chunks
        BY DEF Places
      <4>4. held'[a[1]] = "ro"
        BY <2>1, <2>2, <4>1, <4>2, <4>3
      <4>5. Far(a[1])'
        BY <2>1, <4>1 DEF Far
      <4> QED BY <2>1, <3>1, <4>1, <4>4, <4>5 DEF Served
    <3>2. CASE a[1] \notin Immutable
      BY <2>1, <2>4, <3>2 DEF Served
    <3> QED BY <3>1, <3>2
  <2>5. \A a : Asked(a) => Asked(a)'
    BY <2>1 DEF Asked
  <2> QED BY <2>1, <2>4, <2>5, RoundServe
<1>10. CASE Run
  <2>1. /\ UNCHANGED <<path, want, again, wu>> /\ wmap' = wmap
        /\ phase = "post" /\ phase' \in {"running", "died"} /\ need' = need
        /\ need = <<>> /\ held' = held /\ ring' = ring /\ pend' = pend
    BY <1>10 DEF Run, callVars, cardVars
  <2>2. \A a \in Places : Served(a) => Served(a)'
    BY <2>1 DEF Served, Far, Pending0
  <2>3. \A a : Asked(a) => Asked(a)'
    BY <2>1 DEF Asked, Asks
  <2> QED BY <2>1, <2>2, <2>3, RoundServe
<1>11. CASE Access
  <2>1. /\ phase = "running" /\ path' = path /\ again' = FALSE /\ wu' = wu
        /\ wmap' = wmap
        /\ \/ phase' = "native"
           \/ phase' = "running" /\ \E a \in Places : want' = {a}
    BY <1>11 DEF Access, callVars, cardVars
  <2>2. wu \subseteq wmap
    BY <2>1, UnitsAreMapped
  <2> QED BY <2>1, <2>2 DEF ServeInv, Serving
<1>12. CASE Fault
  BY <1>12, FaultServe
<1>13. CASE FaultFatal
  <2>1. phase' = "died" /\ path' = path /\ (again' <=> again)
    BY <1>13 DEF FaultFatal, callVars
  <2> QED BY <2>1 DEF ServeInv, Serving, Live
<1>14. CASE UNCHANGED vars
  <2>1. /\ phase' = phase /\ path' = path /\ (again' <=> again) /\ wu' = wu
        /\ wmap' = wmap /\ want' = want /\ need' = need /\ held' = held
        /\ ring' = ring /\ pend' = pend
    BY <1>14 DEF vars, hostVars, callVars, cardVars
  <2>2. /\ \A a : Served(a)' <=> Served(a)
        /\ Serving' <=> Serving
        /\ \A a : Asked(a)' <=> Asked(a)
    BY <2>1 DEF Served, Far, Pending0, Serving, Asked
  <2> QED BY <2>1, <2>2 DEF ServeInv, Live
<1> QED BY <1>1, <1>2, <1>3, <1>4, <1>5, <1>6, <1>7, <1>8, <1>9, <1>10,
           <1>11, <1>12, <1>13, <1>14 DEF Next

\* A region posted again after a fault finds its place: the rounds of the
\* fault, its read-ahead included, never evict what the fault brought in, as
\* long as the read-ahead is shorter than the ring (RO_AHEAD 8, C0_RING 16;
\* region.S ro_need, wu_ensure; card.S c0_victim).
THEOREM FaultsAreServed ==
  ASSUME Uniform, Ahead < Ring
  PROVE  Spec => []FaultServed
<1>1. Init => ViewInv /\ ServeInv
  <2>1. Init => ServeInv
    BY DEF Init, ServeInv, Serving
  <2> QED BY <2>1, InitView
<1>2. Inv /\ ViewInv /\ ServeInv /\ [Next]_vars => (ViewInv /\ ServeInv)'
  BY NextView, NextServe
<1>3. Inv /\ ViewInv /\ ServeInv => FaultServed
  <2> SUFFICES ASSUME Inv, ViewInv, ServeInv, phase = "running", again,
                      NEW a \in want
               PROVE  Placed(a)
    BY DEF FaultServed
  <2>1. Served(a) /\ a \in Places
    BY DEF ServeInv, Serving, Inv, TypeOK
  <2> QED BY <2>1, ServedIsPlaced
<1>4. Spec => []Inv
  BY Invariant
<1> QED BY <1>1, <1>2, <1>3, <1>4, PTL DEF Spec
=============================================================================
