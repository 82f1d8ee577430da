-------------------------------- MODULE Plan --------------------------------
(***************************************************************************)
(* The planner of a region's run on the card, and the run it plans:        *)
(* phi512/src/plan.rs, the loop phase of `run` in offload.rs, and the      *)
(* ranges mode and thread split of the card's engine (card/vpu/exec.S).    *)
(*                                                                         *)
(* A phase is a loop of the program.  From the registers at its head the   *)
(* planner works out how often the body runs, which memory it touches,     *)
(* which of it is written whole (the card then does not fetch it), and     *)
(* whether the iterations may run on several threads at once.  The state   *)
(* machine runs the same loop twice: once as the program would, giving     *)
(* `want`, and once as planned, on the card's pages, giving `mem` after    *)
(* the write-back.                                                         *)
(*                                                                         *)
(* A register is Full bits wide and a 32-bit operand Half bits; memory is  *)
(* one cell per address; a page is Page cells; an instruction's address is *)
(* its place in the program.                                               *)
(***************************************************************************)
EXTENDS Integers, Sequences, FiniteSets, SequencesExt

CONSTANTS Full, Half,     \* bits of a register and of its low half
          Page,           \* cells of a page
          Split,          \* SPLIT_THREADS: threads a loop is spread over
          MaxTrips,       \* the most trips the planner counts to
          MaxRanges,      \* EXEC_MAX_RANGES: the most ranges of a phase
          Programs,       \* the loops: sequences of instructions
          Bounds          \* the values the bound register may start with

ASSUME PlanAssumption == /\ Full \in Nat /\ Half \in 1 .. Full
                         /\ Page \in Nat \ {0} /\ Split \in Nat \ {0}
                         /\ MaxRanges \in Nat

W == 2 ^ Full
Addresses == 0 .. W - 1
\* F of the value x, worked out once.
With(x, F(_)) == CHOOSE y \in {F(v) : v \in {x}} : TRUE

Gprs == {"i", "j", "p", "n", "b", "f"}   \* integer registers; "z" is a vector
Frame == {"f"}                           \* rsp and rbp among them
None == [head |-> 0]

(***************************************************************************)
(* Instructions.  One record shape for all: the operation, its destination *)
(* and source registers, its immediate, its memory operand                 *)
(* <<base, index, scale, disp>>, its operand size in cells, the operand    *)
(* width in bits, and a branch's condition and target.                     *)
(***************************************************************************)
Insn(op) == [op |-> op, dst |-> "", src |-> "", imm |-> 0,
             at |-> <<"", "", 1, 0>>, size |-> 1, w |-> Full,
             cc |-> "", to |-> 0]

Branches == {"jcc"}
Stores == {"store", "mstore", "slot", "rmw"}   \* "slot": mov [m], reg
Loads == {"load", "fma", "reload"}             \* "reload": mov reg, [m]

\* The registers an instruction reads and writes, as the decoder's
\* instruction information gives them.
Reads(x) == ({x.at[1], x.at[2]} \cup {x.src}
             \cup (IF x.op \in {"add", "sub", "inc", "dec", "cmp", "fma", "bump"}
                   THEN {x.dst} ELSE {})
             \cup (IF x.op \in {"store", "mstore"} THEN {"z"} ELSE {})) \ {""}
Writes(x) == IF x.op \in {"cmp", "jcc"} \cup Stores THEN {} ELSE {x.dst}
written_gprs(x) == Writes(x) \cap Gprs

-----------------------------------------------------------------------------
(* Values: known, a range lo..hi by step, or unknown. *)
Known(v) == [k |-> "known", lo |-> v % W, hi |-> v % W, step |-> 0]
Ranging(lo, hi, s) == [k |-> "range", lo |-> lo % W, hi |-> hi % W, step |-> s]
Unknown == [k |-> "unknown", lo |-> 0, hi |-> 0, step |-> 0]

Add(v, d) == IF v.k = "unknown" THEN v
             ELSE [v EXCEPT !.lo = (@ + d) % W, !.hi = (@ + d) % W]
Plus(a, b) == IF a.k = "known" THEN Add(b, a.lo)
              ELSE IF b.k = "known" THEN Add(a, b.lo) ELSE Unknown
Times(v, s) == IF v.k = "unknown" THEN v
               ELSE [v EXCEPT !.lo = (@ * s) % W, !.hi = (@ * s) % W,
                              !.step = @ * s]

\* A register's value as an operand of w bits: a range has no low half.
Val(gpr, r, w) == IF r = "" THEN Known(0)
                  ELSE IF r \notin Gprs THEN Unknown
                  ELSE IF w = Full THEN gpr[r]
                  ELSE IF gpr[r].k = "known" THEN Known(gpr[r].lo % 2 ^ w)
                  ELSE Unknown
Set(gpr, r, v, w) ==
  IF r \notin Gprs THEN gpr
  ELSE [gpr EXCEPT ![r] =
         IF w = Full THEN v
         ELSE IF v.k = "known" THEN Known(v.lo % 2 ^ w)
         ELSE IF v.k = "range" /\ v.hi < 2 ^ w THEN v ELSE Unknown]
AddressVal(gpr, at) == Add(Plus(Val(gpr, at[1], Full),
                                Times(Val(gpr, at[2], Full), at[3])), at[4])
\* The one register that made the address a range.
RangeSource(gpr, at) ==
  LET rs == {n \in 1 .. 2 : at[n] \in Gprs /\ gpr[at[n]].k = "range"}
  IN  IF Cardinality(rs) = 1 THEN at[CHOOSE n \in rs : TRUE] ELSE ""

-----------------------------------------------------------------------------
(* Loops. *)

\* The constant a body steps a register by: one add or sub, nothing else
\* writing it; 0 when it has none.
InductionStep(pg, from, to, r) ==
  LET ws == {a \in from .. to - 1 : r \in written_gprs(pg[a])}
      x == pg[CHOOSE a \in ws : TRUE]
  IN  IF Cardinality(ws) # 1 \/ x.src # "" THEN 0
      ELSE CASE x.op = "add" -> x.imm  [] x.op = "sub" -> -x.imm
             [] x.op = "inc" -> 1      [] x.op = "dec" -> -1
             [] OTHER -> 0

\* The loop a back edge at a closes, if it is one the planner knows.
LoopAt(pg, a) ==
  LET head == pg[a].to
      prev == pg[a - 1]
      step == InductionStep(pg, head, a + 1, prev.dst)
      body == head .. a
  IN  IF /\ a > head
         /\ \A b \in body : pg[b].op \in Branches => pg[b].to \in body
         /\ prev.op \in {"cmp", "add", "sub"}
         /\ prev.op = "cmp" \/ prev.src = ""
         /\ step # 0
         /\ \A b \in body : prev.src \notin written_gprs(pg[b])
      THEN [head |-> head, back |-> a, exit |-> a + 1, ind |-> prev.dst,
            step |-> step, reg |-> prev.src, imm |-> prev.imm,
            cc |-> pg[a].cc, via_cmp |-> prev.op = "cmp",
            from_add |-> prev.op = "add", width |-> prev.w]
      ELSE None

\* The largest loop of from .. to-1 that contains the entry or follows it,
\* the first of them when two are as large.
find_loop(pg, from, to, entry) ==
  LET cands == {a \in from .. to - 1 :
                 /\ pg[a].op = "jcc" /\ pg[a].to \in from .. a
                 /\ entry \in pg[a].to .. a \/ pg[a].to >= entry
                 /\ LoopAt(pg, a) # None}
      size(a) == a - pg[a].to
      best == {a \in cands : \A b \in cands :
                 size(a) > size(b) \/ (size(a) = size(b) /\ a <= b)}
  IN  IF cands = {} THEN None ELSE LoopAt(pg, CHOOSE a \in best : TRUE)

Cut(x, w) == x % 2 ^ w
Sext(x, w) == IF Cut(x, w) >= 2 ^ (w - 1) THEN Cut(x, w) - 2 ^ w ELSE Cut(x, w)
Unsigned == {"b", "be", "a", "ae"}

\* Does the loop go on, the compared values cut to the compare's width?
continues(a, b, cc, w) ==
  CASE cc = "l"  -> Sext(a, w) < Sext(b, w)
    [] cc = "le" -> Sext(a, w) <= Sext(b, w)
    [] cc = "g"  -> Sext(a, w) > Sext(b, w)
    [] cc = "ge" -> Sext(a, w) >= Sext(b, w)
    [] cc = "b"  -> Cut(a, w) < Cut(b, w)
    [] cc = "be" -> Cut(a, w) <= Cut(b, w)
    [] cc = "a"  -> Cut(a, w) > Cut(b, w)
    [] cc = "ae" -> Cut(a, w) >= Cut(b, w)
    [] cc = "ne" -> Cut(a, w) # Cut(b, w)
    [] cc = "e"  -> Cut(a, w) = Cut(b, w)

\* Mutant: a sub's flags taken from the stepped value.
ContinuesAfter(l, i, bound) ==
  LET next == (i + l.step) % W
  IN  IF l.from_add THEN continues(next, 0, l.cc, l.width)
      ELSE continues(next, bound, l.cc, l.width)

\* Does the loop take another trip after the one from induction value i?
GoesOn(l, i, bound) ==
  LET next == (i + l.step) % W
  IN  IF l.via_cmp THEN continues(next, bound, l.cc, l.width)
      ELSE IF l.from_add THEN continues(next, 0, l.cc, l.width)
      ELSE continues(i, bound, l.cc, l.width)

\* How many times the body runs from i0 (a do-while); 0 when not planned.
iterations(l, i0, bound) ==
  LET ends == {n \in 1 .. MaxTrips :
                 ~GoesOn(l, (i0 + l.step * (n - 1)) % W, bound)}
  IN  IF (~l.via_cmp /\ l.from_add /\ l.cc \in Unsigned) \/ ends = {}
      THEN 0 ELSE CHOOSE n \in ends : \A m \in ends : n <= m

\* The values of a register stepped by s over n trips from v.
Swept(v, s, n) == LET last == v + s * (n - 1)
                  IN  IF s > 0 THEN Ranging(v, last, s) ELSE Ranging(last, v, -s)
-----------------------------------------------------------------------------
(* The tracker: values and memory ranges through a phase. *)

\* Registers read before they are written in the body, and written in it.
Carried(pg, from, to, Regs) ==
  {r \in Regs : /\ \E a \in from .. to - 1 : r \in Writes(pg[a])
                /\ \E a \in from .. to - 1 :
                     /\ r \in Reads(pg[a])
                     /\ \A b \in from .. a - 1 : r \notin Writes(pg[b])}

\* rsp and rbp: the frame, not loop state.
carried_gprs(pg, from, to) == Carried(pg, from, to, Gprs \ Frame)

MemRange(v, x, ind, write, whole) ==
  [addr |-> v.lo, len |-> ((v.hi - v.lo) % W) + x.size, write |-> write,
   form |-> x.at, ind |-> IF v.k = "range" THEN ind ELSE "",
   dense |-> v.step <= x.size /\ (~write \/ whole)]

\* Mutant: a masked or skippable write counts as written whole.
NoteWhole(t, x, skippable) ==
  LET v == AddressVal(t.gpr, x.at)
      r == MemRange(v, x, RangeSource(t.gpr, x.at), x.op \in Stores, TRUE)
  IN  IF v.k = "unknown" THEN [t EXCEPT !.resolved = FALSE]
      ELSE [t EXCEPT !.ranges = @ \cup {r},
                     !.stored = IF r.write THEN @ \cup {r} ELSE @]

\* One memory operand: a range, or the phase is not resolved.
Note(t, x, skippable) ==
  LET v == AddressVal(t.gpr, x.at)
      r == MemRange(v, x, RangeSource(t.gpr, x.at), x.op \in Stores,
                    x.op # "mstore" /\ ~skippable)
  IN  IF v.k = "unknown" THEN [t EXCEPT !.resolved = FALSE]
      ELSE [t EXCEPT !.ranges = @ \cup {r},
                     !.stored = IF r.write THEN @ \cup {r} ELSE @]

Overlap(r, s) == r.addr < s.addr + s.len /\ s.addr < r.addr + r.len

\* What a reload of a known address reads, from the program's memory, when
\* nothing in the phase stored over it so far.
Loaded(t, x, mem) ==
  LET v == AddressVal(t.gpr, x.at)
  IN  IF v.k = "known" /\ \A s \in t.stored :
           ~Overlap(s, [addr |-> v.lo, len |-> x.size])
      THEN Known(mem[v.lo]) ELSE Unknown

\* The value an instruction leaves in its destination.
Result(t, x, mem) ==
  LET src == Val(t.gpr, x.src, x.w)
      dst == Val(t.gpr, x.dst, x.w)
  IN  CASE x.op = "mov" -> IF x.src = "" THEN Known(x.imm) ELSE src
        [] x.op = "reload" -> Loaded(t, x, mem)
        [] x.op = "lea" -> AddressVal(t.gpr, x.at)
        [] x.op = "add" -> IF x.src = "" THEN Add(dst, x.imm)
                           ELSE Plus(dst, src)
        [] x.op = "sub" -> IF x.src = "" THEN Add(dst, -x.imm)
                           ELSE IF src.k = "known" THEN Add(dst, -src.lo)
                           ELSE Unknown
        [] x.op = "inc" -> Add(dst, 1)
        [] x.op = "dec" -> Add(dst, -1)
        [] OTHER -> Unknown

Forget(gpr, rs) == [r \in Gprs |-> IF r \in rs THEN Unknown ELSE gpr[r]]

\* One instruction of the phase in address order.
TrackStep(t, pg, a, skips, inner, mem) ==
  LET x == pg[a]
      skipped == \E s \in skips : a > s[1] /\ a < s[2]
      nest == {l \in inner : a \in l.head .. l.back}
      noted == IF x.op \in Loads \cup Stores THEN Note(t, x, skipped) ELSE t
  IN  IF nest # {}
      THEN [noted EXCEPT !.gpr = Forget(@, written_gprs(x)
                                  \ {(CHOOSE l \in nest : TRUE).ind})]
      ELSE IF skipped
      THEN [noted EXCEPT !.gpr = Forget(@, written_gprs(x))]
      ELSE IF Writes(x) = {} THEN noted
      ELSE [noted EXCEPT !.gpr = Set(t.gpr, x.dst, Result(t, x, mem), x.w)]

\* A nested loop's head: its induction becomes a range over its trips, all
\* else its body writes is unknown.
EnterNested(t, pg, l) ==
  LET i0 == t.gpr[l.ind]
      b == IF l.reg = "" THEN Known(l.imm) ELSE t.gpr[l.reg]
      n == iterations(l, i0.lo, b.lo)
      ws == UNION {written_gprs(pg[a]) : a \in l.head .. l.back}
  IN  IF i0.k # "known" \/ b.k # "known" \/ n = 0
      THEN [t EXCEPT !.resolved = FALSE]
      ELSE [t EXCEPT !.gpr = [Forget(@, ws \ {l.ind}) EXCEPT
                                ![l.ind] = Swept(i0.lo, l.step, n)],
                     !.leave = @ \cup {<<l.exit, l.ind,
                                         Known(i0.lo + l.step * n)>>}]

\* Where a nested loop ends, its induction is known again.
LeaveNested(t, a) ==
  LET ls == {l \in t.leave : l[1] = a}
  IN  [t EXCEPT !.gpr = [r \in Gprs |->
        IF \E l \in ls : l[2] = r THEN (CHOOSE l \in ls : l[2] = r)[3]
        ELSE @[r]]]

\* The body of loop l from registers regs over n trips (Tracker::run with
\* the phase's own induction).
Track(pg, l, regs, n, mem) ==
  LET from == l.head
      to == l.exit
      gpr0 == [r \in Gprs |->
        LET s == InductionStep(pg, from, to, r)
        IN  IF r = l.ind THEN Swept(regs[r], l.step, n)
            ELSE IF r \notin carried_gprs(pg, from, to) THEN Known(regs[r])
            ELSE IF s # 0 THEN Swept(regs[r], s, n) ELSE Unknown]
      backs == {a \in from .. to - 1 : pg[a].op \in Branches
                                       /\ pg[a].to <= a}
      closed(a) == find_loop(pg, pg[a].to, a + 1, pg[a].to)
      inner == UNION {{l1 \in {closed(b)} : /\ l1 # None /\ l1.back = b
                                            /\ l1.head = pg[b].to} :
                       b \in {a \in backs : pg[a].to # from}}
      strays == {a \in backs : pg[a].to # from
                               /\ \A e \in inner : e.back # a}
      skips == {<<a, pg[a].to>> : a \in
                 {b \in from .. to - 1 : pg[b].op \in Branches
                    /\ pg[b].to > b /\ pg[b].to < to}}
      walk(t, a) ==
        LET heads == {e \in inner : e.head = a}
            left == LeaveNested(t, a)
            here == IF heads = {} THEN left
                    ELSE EnterNested(left, pg, CHOOSE e \in heads : TRUE)
        IN  With(here, LAMBDA h : IF heads # {} /\ ~h.resolved THEN h
                                  ELSE TrackStep(h, pg, a, skips, inner, mem))
      at[a \in from - 1 .. to - 1] ==
        IF a < from
        THEN [gpr |-> gpr0, ranges |-> {}, stored |-> {}, leave |-> {},
              resolved |-> strays = {}]
        ELSE LET t == at[a - 1] IN walk(t, a)
  IN  at[to - 1]

\* Ranges that touch or are less than a page apart become one; dense only
\* if every part was a write of the whole and no gap lies between.
merged(ranges) ==
  LET seq == SetToSortSeq(ranges, LAMBDA r, s :
               r.addr < s.addr \/ (r.addr = s.addr /\ r.len < s.len))
      one(r) == [addr |-> r.addr, len |-> r.len, write |-> r.write,
                 dense |-> r.dense /\ r.write]
      join(out, r) ==
        LET last == out[Len(out)]
            end == last.addr + last.len
            x == one(r)
        IN  IF out # <<>> /\ x.addr <= end + Page - 1
            THEN [out EXCEPT ![Len(out)] =
                   [addr |-> last.addr,
                    len |-> (IF end > x.addr + x.len THEN end
                             ELSE x.addr + x.len) - last.addr,
                    write |-> last.write \/ x.write,
                    dense |-> last.dense /\ x.dense /\ x.addr <= end]]
            ELSE Append(out, x)
  IN  FoldLeft(join, <<>>, seq)

\* May the iterations run on several threads at once?
splittable(pg, l, t) ==
  /\ Carried(pg, l.head, l.exit, (Gprs \cup {"z"}) \ (Frame \cup {l.ind})) = {}
  /\ \A r \in t.ranges : r.write => r.ind = l.ind
  /\ \A w, r \in t.ranges : w.write /\ ~r.write /\ Overlap(w, r)
                            => w.form = r.form
-----------------------------------------------------------------------------
(* The machine both runs use: the program's own instructions. *)

Regs == Gprs \cup {"z"}
AddressOf(regs, at) ==
  LET v(r) == IF r = "" THEN 0 ELSE regs[r]
  IN  (v(at[1]) + v(at[2]) * at[3] + at[4]) % W
Touched(x, regs) == IF x.op \notin Loads \cup Stores THEN {}
                    ELSE {(AddressOf(regs, x.at) + k) % W : k \in 0 .. x.size - 1}

\* The flags of a + b or a - b at w bits.
Flags(a, b, sub, w) ==
  LET s == IF sub THEN Sext(a, w) - Sext(b, w) ELSE Sext(a, w) + Sext(b, w)
      u == IF sub THEN Cut(a, w) - Cut(b, w) ELSE Cut(a, w) + Cut(b, w)
  IN  [z |-> Cut(u, w) = 0, s |-> Sext(u, w) < 0,
       c |-> u \notin 0 .. 2 ^ w - 1, o |-> s # Sext(s, w)]
Taken(f, cc) ==
  CASE cc = "l"  -> f.s # f.o         [] cc = "ge" -> f.s = f.o
    [] cc = "le" -> f.z \/ f.s # f.o  [] cc = "g"  -> ~f.z /\ f.s = f.o
    [] cc = "b"  -> f.c               [] cc = "ae" -> ~f.c
    [] cc = "be" -> f.c \/ f.z        [] cc = "a"  -> ~f.c /\ ~f.z
    [] cc = "e"  -> f.z               [] cc = "ne" -> ~f.z

\* One instruction of thread th over memory cells.
Exec(pg, th, cells) ==
  LET x == pg[th.pc]
      r == th.regs
      a == AddressOf(r, x.at)
      b == IF x.src = "" THEN (IF x.op \in {"inc", "dec"} THEN 1 ELSE x.imm)
           ELSE r[x.src]
      sub == x.op \in {"sub", "cmp", "dec"}
      put(d, v) == [r EXCEPT ![d] = v % W]
      sum == (IF sub THEN r[x.dst] - b ELSE r[x.dst] + b) % 2 ^ x.w
      arith == x.op \in {"add", "sub", "inc", "dec"}
  IN  [th |-> [th EXCEPT
         !.pc = IF x.op = "jcc" /\ Taken(th.fl, x.cc) THEN x.to ELSE @ + 1,
         !.fl = IF arith \/ x.op = "cmp"
                THEN Flags(r[x.dst], b, sub, x.w) ELSE @,
         !.regs = CASE arith -> put(x.dst, sum)
                    [] x.op \in {"mov", "bcast"} -> put(x.dst, b % 2 ^ x.w)
                    [] x.op = "lea" -> put(x.dst, a)
                    [] x.op \in {"load", "reload"} -> put(x.dst, cells[a])
                    [] x.op = "fma" -> put(x.dst, r[x.dst] + cells[a])
                    [] x.op = "bump" -> put(x.dst, r[x.dst] + 1)
                    [] OTHER -> @],
       cells |-> IF x.op \notin Stores THEN cells
                 ELSE [c \in Touched(x, r) |->
                        CASE x.op = "store" -> r["z"]
                          [] x.op = "mstore" -> IF c = a THEN r["z"]
                                                ELSE cells[c]
                          [] x.op = "slot" -> r[x.src]
                          [] x.op = "rmw" -> (cells[c] + r[x.src]) % W]
                      @@ cells]

\* The program's own run of the loop, to its exit: at most Fuel steps, on
\* memory it has mapped.
Fuel == 10 * MaxTrips
Mapped == 4 .. W - 5
Sequential(pg, exit, th0, mem0) ==
  LET run[k \in 0 .. Fuel] ==
        IF k = 0 THEN [th |-> th0, cells |-> mem0, trips |-> 0, ok |-> TRUE]
        ELSE LET s == run[k - 1]
             IN  IF s.th.pc = exit \/ ~s.ok THEN s
                 ELSE LET e == Exec(pg, s.th, s.cells)
                      IN  [th |-> e.th, cells |-> e.cells,
                           trips |-> s.trips + (IF s.th.pc = exit - 1
                                                THEN 1 ELSE 0),
                           ok |-> Touched(pg[s.th.pc], s.th.regs)
                                    \subseteq Mapped]
  IN  run[Fuel]

-----------------------------------------------------------------------------
VARIABLES prog,      \* the region: one loop
          lp,        \* what find_loop says of it
          mem,       \* the program's memory
          want,      \* the program's own run: memory, registers, trips, start
          phase,     \* "planned", "run" or "left"
          mode,      \* what the planner decided
          cells,     \* the card's copy of the program's memory
          ths        \* the card's threads

vars == <<prog, lp, mem, want, phase, mode, cells, ths>>

MemoryOf == [a \in Addresses |-> (a + 5) % W]    \* told apart from zero
RegsOf(i0, n0) == [i |-> i0, j |-> 3, p |-> 2, n |-> n0, b |-> 8, f |-> 4,
                   z |-> 1]
Start(regs) == [pc |-> 1, regs |-> regs,
                fl |-> Flags(0, 0, TRUE, Full)]
Demand == [kind |-> "demand", n |-> 0, ranges |-> <<>>, split |-> 1,
           open |-> Addresses]

exit == Len(prog) + 1

Ceil(a, b) == (a + b - 1) \div b

\* Pages of the card: all of a range's are opened and fetched, but of a
\* dense one only the first and the last are fetched.
PageOf(a) == a \div Page
Pages(r) == PageOf(r.addr) .. PageOf(r.addr + r.len - 1)
Open(rs) == {a \in Addresses : \E k \in DOMAIN rs : PageOf(a) \in Pages(rs[k])}
Fetched(m) ==
  {a \in m.open : \A k \in DOMAIN m.ranges : LET r == m.ranges[k] IN
     r.dense /\ PageOf(a) \in Pages(r) =>
       PageOf(a) \in {PageOf(r.addr), PageOf(r.addr + r.len - 1)}}

\* The mode of the loop phase: its trips, its ranges, its threads.
PlanLoop(regs) ==
  LET n == IF lp = None THEN 0
           ELSE iterations(lp, regs[lp.ind],
                           IF lp.reg = "" THEN lp.imm ELSE regs[lp.reg])
      ranges(t) ==
        [kind |-> "ranges", n |-> n, ranges |-> merged(t.ranges),
         open |-> Open(merged(t.ranges)),
         split |-> IF lp.reg # "" /\ n > 1 /\ splittable(prog, lp, t)
                   THEN (IF n < Split THEN n ELSE Split) ELSE 1]
  IN  IF n = 0 THEN Demand
      ELSE With(Track(prog, lp, regs, n, mem), LAMBDA t :
             IF t.resolved /\ Len(merged(t.ranges)) <= MaxRanges
             THEN ranges(t) ELSE [Demand EXCEPT !.n = n])

\* A region that is one loop, the largest one in it, which ends.
Init == /\ prog \in Programs
        /\ lp = find_loop(prog, 1, exit, 1)
        /\ lp # None => lp.head = 1 /\ lp.exit = exit
        /\ \E i0, n0 \in Bounds :
             LET r == RegsOf(i0, n0)
                 s == Sequential(prog, exit, Start(r), MemoryOf)
             IN  /\ s.th.pc = exit /\ s.ok
                 /\ want = [cells |-> s.cells, regs |-> s.th.regs,
                            trips |-> s.trips, start |-> r]
                 /\ ths = <<Start(r)>>
                 /\ mem = MemoryOf /\ cells = mem
                 /\ mode = PlanLoop(r)
        /\ phase = "planned"

\* Mutant: the last thread takes its slice's bound like the others.
SlicesEven(m, regs) ==
  LET per == Ceil(m.n, m.split)
      count == IF m.split = 1 THEN 1 ELSE Ceil(m.n, per)
  IN  [t \in 1 .. count |->
        IF count = 1 THEN Start(regs)
        ELSE Start([regs EXCEPT
               ![lp.ind] = (@ + per * (t - 1) * lp.step) % W,
               ![lp.reg] = (regs[lp.ind] + per * t * lp.step) % W])]

\* The threads: each its slice of the induction, bounded where the next
\* begins; the last keeps the loop's own bound.
Slices(m, regs) ==
  LET per == Ceil(m.n, m.split)
      count == IF m.split = 1 THEN 1 ELSE Ceil(m.n, per)
  IN  [t \in 1 .. count |->
        IF count = 1 THEN Start(regs)
        ELSE Start([regs EXCEPT
               ![lp.ind] = (@ + per * (t - 1) * lp.step) % W,
               ![lp.reg] = IF t = count THEN @ ELSE
                             (regs[lp.ind] + per * t * lp.step) % W])]

\* The card opens its pages: what it did not fetch holds zeros.
Dispatch ==
  /\ phase = "planned"
  /\ ths' = Slices(mode, ths[1].regs)
  /\ cells' = [a \in Addresses |-> IF a \in Fetched(mode) THEN mem[a] ELSE 0]
  /\ phase' = "run"
  /\ UNCHANGED <<prog, lp, mem, want, mode>>

\* One instruction of one thread, on declared pages.
Run(t) ==
  /\ phase = "run" /\ t \in DOMAIN ths /\ ths[t].pc # exit
  /\ Touched(prog[ths[t].pc], ths[t].regs) \subseteq mode.open
  /\ LET e == Exec(prog, ths[t], cells)
     IN  ths' = [ths EXCEPT ![t] = e.th] /\ cells' = e.cells
  /\ UNCHANGED <<prog, lp, mem, want, phase, mode>>

\* Mutant: the retry keeps the ranges.
FaultAgain(t) ==
  /\ phase = "run" /\ t \in DOMAIN ths /\ ths[t].pc # exit
  /\ ~(Touched(prog[ths[t].pc], ths[t].regs) \subseteq mode.open)
  /\ ths' = <<Start(want.start)>>
  /\ cells' = mem
  /\ UNCHANGED <<prog, lp, mem, want, phase, mode>>

\* An access the planner did not declare: nothing is written back and the
\* same phase runs again, on one thread, paging memory in.
Fault(t) ==
  /\ phase = "run" /\ t \in DOMAIN ths /\ ths[t].pc # exit
  /\ ~(Touched(prog[ths[t].pc], ths[t].regs) \subseteq mode.open)
  /\ mode' = [Demand EXCEPT !.n = mode.n]
  /\ ths' = <<Start(want.start)>>
  /\ cells' = mem
  /\ UNCHANGED <<prog, lp, mem, want, phase>>

\* Every thread left at the loop's exit: the written ranges go back.
Leave ==
  /\ phase = "run" /\ \A t \in DOMAIN ths : ths[t].pc = exit
  /\ mem' = [a \in Addresses |->
       IF \/ mode.kind = "demand"
          \/ \E k \in DOMAIN mode.ranges : LET r == mode.ranges[k] IN
               r.write /\ a \in r.addr .. r.addr + r.len - 1
       THEN cells[a] ELSE mem[a]]
  /\ phase' = "left"
  /\ UNCHANGED <<prog, lp, want, mode, cells, ths>>

Next == \/ Dispatch \/ Leave
        \/ \E t \in 1 .. Split : Run(t) \/ Fault(t)
Spec == Init /\ [][Next]_vars /\ WF_vars(Next)

-----------------------------------------------------------------------------
TypeOK ==
  /\ prog \in Programs /\ phase \in {"planned", "run", "left"}
  /\ mem \in [Addresses -> Addresses] /\ cells \in [Addresses -> Addresses]
  /\ mode.kind \in {"demand", "ranges"} /\ mode.n \in 0 .. MaxTrips
  /\ Len(ths) \in 1 .. Split
  /\ \A t \in DOMAIN ths : /\ ths[t].pc \in 1 .. exit
                            /\ ths[t].regs \in [Regs -> Addresses]

\* The trips the planner counts, from the value at the head, the step, the
\* condition, the width and what set the flags, are those the loop takes.
TripsCounted == mode.n # 0 => mode.n = want.trips

\* The loop run as planned, on the card's pages and on as many threads as
\* the planner allows, in whatever order they take their steps, leaves the
\* program's memory as the program's own run would: every store came back,
\* none was computed from a page the card did not fetch, and no thread saw
\* another's iterations too early or too late.
SameMemory == phase = "left" => mem = want.cells

\* The register file that goes back to the program is the one its own run
\* would have left.
SameRegisters == phase = "left" => ths[Len(ths)].regs = want.regs

\* Every planned phase leaves: a thread's slice is bounded where the next
\* begins, and its own steps reach that bound.
Leaves == <>(phase = "left")
=============================================================================
