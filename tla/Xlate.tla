-------------------------------- MODULE Xlate --------------------------------
(***************************************************************************)
(* The translator of avx512-xlate (rewrite.rs): the card instructions that *)
(* stand in for one AVX-512 instruction, and what the emitter Em saves     *)
(* before it uses it and puts back at the end.  Instructions are those of  *)
(* Evex.  An encoding is left out: a card instruction is a record, a mask  *)
(* immediate the set of its bits.                                          *)
(***************************************************************************)
EXTENDS Evex, Sequences

ZRegs == 0..8
Even == {l \in Lane : l % 2 = 0}
Odd == {l \in Lane : l % 2 = 1}
Ones == Words - 1

Reg(r) == [t |-> "reg", n |-> r]
Mem(i) == [t |-> "mem", n |-> i.base]
Const(v) == [t |-> "const", n |-> v]
Fs(slot) == [t |-> "fs", n |-> slot]
Same(v) == Const([l \in Lane |-> v])

\* One card instruction: destination, sources, write mask (0: none), element
\* width and what else it takes.
Op(op, d, s1, s2, k, w, x) ==
    [op |-> op, d |-> d, s1 |-> s1, s2 |-> s2, k |-> k, w |-> w, x |-> x]

\* Integer instructions on rax and rcx, and moves to the scratch area.
Alu(f, d, x) == Op("alu", d, f, Reg(0), 0, 0, x)
ToFs(r, slot) == Op("tofs", r, 0, Fs(slot), 0, 0, 0)
FromFs(r, slot) == Op("fromfs", r, 0, Fs(slot), 0, 0, 0)
OrFs(r, slot) == Op("orfs", r, 0, Fs(slot), 0, 0, 0)

\* Mask instructions.
KOp(f, d, s) == Op("kop", d, f, Reg(s), 0, 0, 0)
KFromR(k, r) == Op("kfromr", k, r, Reg(0), 0, 0, 0)
RFromK(r, k) == Op("rfromk", r, k, Reg(0), 0, 0, 0)

\* Vector instructions.
VMov(d, s, k, w) == Op("mov", d, 0, s, k, w, 0)
Zero(d, k, w) == Op("zero", d, 0, Reg(d), k, w, 0)
PShufD(d, s, f, k) == Op("pshufd", d, 0, Reg(s), k, 0, f)
PermF32x4(d, s, f, k) == Op("permblk", d, 0, Reg(s), k, 0, f)
PermD(d, idx, s, k) == Op("permd", d, idx, Reg(s), k, 0, 0)
AlignD(d, s1, s2, n, k) == Op("alignd", d, s1, Reg(s2), k, 0, n)
And(d, s1, s2, w) == Op("bool", d, s1, s2, 0, w, 8)
Or(d, s1, s2, k) == Op("bool", d, s1, s2, k, 0, 14)
Xor(d, s1, s2, w) == Op("bool", d, s1, s2, 0, w, 6)
AndN(d, s1, s2, w) == Op("bool", d, s1, s2, 0, w, 2)
Shift(f, d, s, n, k) == Op(f, d, 0, Reg(s), k, 0, n)
VCmp(kind, pred, kd, s1, s2, k) ==
    Op("cmp", kd, s1, Reg(s2), k, 0, [kind |-> kind, pred |-> pred])
Broadcast(d, m, k, w) == Op("bcast", d, 0, m, k, w, 0)
LoadBlock(d, m, n) == Op("block", d, 0, m, 0, 0, n)
LoadUnaligned(d, m, k) == Op("load", d, 0, m, k, 0, 0)
StoreUnaligned(m, s, k) == Op("store", s, 0, m, k, 0, 0)

-----------------------------------------------------------------------------
(***************************************************************************)
(* The emitter.                                                            *)
(***************************************************************************)
MaskDest == {"cmpd", "cmpq", "cmpuq", "cmpps", "testnmq"}
MaskOps == {"kand", "kandn", "kxor", "kunpck", "kshiftl", "kstore"}

\* The vector and mask registers an instruction names.
VecOps(i) == IF i.op \in MaskOps THEN {}
             ELSE (IF i.op \in MaskDest THEN {} ELSE {i.d})
                  \cup {i.s1} \cup (IF i.mem THEN {} ELSE {i.s2})
KUses(i) == {i.aaa} \cup (IF i.op \in MaskDest THEN {i.d} ELSE {})
            \cup (IF i.op \in MaskOps THEN {i.d, i.s1, i.s2} ELSE {})

Highest(S) == CHOOSE n \in S : \A m \in S : m <= n
Lowest(S) == CHOOSE n \in S : \A m \in S : n <= m

\* The scratch mask taken without looking at the write mask: a bug in Em.
KScrOperands(i) == Highest(1..7 \ (KUses(i) \ {i.aaa}))

\* The scratch mask register: the highest the instruction does not name.
KScr(i) == Highest(1..7 \ KUses(i))

Em(i) == [seq |-> <<>>, reserved |-> VecOps(i), temps |-> <<>>,
          ks |-> KScr(i), k |-> FALSE, rax |-> FALSE, rcx |-> FALSE,
          flags |-> FALSE]

Emit(em, ops) == [em EXCEPT !.seq = @ \o ops]

Rax(em) == IF em.rax THEN em
           ELSE [Emit(em, <<ToFs("rax", "S_RAX")>>) EXCEPT !.rax = TRUE]
Rcx(em) == IF em.rcx THEN em
           ELSE [Emit(em, <<ToFs("rcx", "S_RCX")>>) EXCEPT !.rcx = TRUE]

\* The scratch mask's value kept through rax.
K(em) ==
    IF em.k THEN em
    ELSE [Emit(Rax(em), <<RFromK("rax", em.ks), ToFs("rax", "S_K")>>)
             EXCEPT !.k = TRUE]

\* The flags kept, through rax.
Flags(em) ==
    IF em.flags THEN em
    ELSE [Emit(Rax(em), <<Op("lahf", 0, 0, Reg(0), 0, 0, 0),
                          ToFs("rax", "S_FLAGS")>>) EXCEPT !.flags = TRUE]

MovEax(em, bits) == Emit(Rax(em), <<Alu("imm", "rax", bits)>>)

\* The scratch mask register set to an immediate.
MaskImm(em, bits) == Emit(MovEax(K(em), bits), <<KFromR(em.ks, "rax")>>)

\* The next free vector register, its contents kept in a scratch slot.
Temp(em) ==
    LET r == Lowest(ZRegs \ em.reserved)
    IN  [Emit(em, <<Op("spill", r, 0, Fs(Len(em.temps)), 0, 0, 0)>>)
            EXCEPT !.reserved = @ \cup {r}, !.temps = Append(@, r)]
T(em) == em.temps[Len(em.temps)]

PutBack(em) ==
    (IF em.flags THEN <<FromFs("rax", "S_FLAGS"),
                        Op("sahf", 0, 0, Reg(0), 0, 0, 0)>> ELSE <<>>)
    \o (IF em.k THEN <<FromFs("rax", "S_K"), KFromR(em.ks, "rax")>>
        ELSE <<>>)
    \o (IF em.rcx THEN <<FromFs("rcx", "S_RCX")>> ELSE <<>>)
    \o (IF em.rax THEN <<FromFs("rax", "S_RAX")>> ELSE <<>>)

Fill(em, n) == Op("fill", em.temps[n], 0, Fs(n - 1), 0, 0, 0)

\* Everything put back: the temporaries from the last, the flags, the
\* scratch mask, rcx and rax.
Finish(em) ==
    LET n == Len(em.temps)
    IN  em.seq \o [j \in 1..n |-> Fill(em, n + 1 - j)] \o PutBack(em)

VlLanes(ll, w) == Elements(ll, w)
Upper(ll) == Lane \ Lanes(ll)

ZeroLanes(em, d, bits) ==
    IF bits = {} THEN em
    ELSE Emit(MaskImm(em, bits), <<Zero(d, em.ks, 0)>>)

\* The qword mask k spread over dword lanes into the scratch mask, by
\* shifts and masks of eax and ecx.
QmaskToDmask(em, k, limit) ==
    LET e == Rcx(Flags(K(em)))
        step(n, keep) == <<Alu("mov", "rcx", "rax"), Alu("shl", "rcx", n),
                           Alu("or", "rax", "rcx"), Alu("and", "rax", keep)>>
    IN  Emit(e, <<RFromK("rax", k), Alu("movzx", "rax", 0..7)>>
                \o step(4, {0, 1, 2, 3, 8, 9, 10, 11})
                \o step(2, {0, 1, 4, 5, 8, 9, 12, 13})
                \o step(1, Even)
                \o step(1, limit)
                \o <<KFromR(em.ks, "rax")>>)

\* The result in r moved to the destination under the mask, zeroed under
\* {z}; the upper lanes are not touched yet.
UnderMask(em, i, d, r) ==
    LET plain == i.ll = 2 /\ i.aaa = 0
        k == IF plain THEN 0 ELSE em.ks
        e1 == IF plain THEN em ELSE MaskImm(em, VlLanes(i.ll, i.w))
        e2 == IF i.aaa = 0 THEN e1 ELSE Emit(e1, <<KOp("and", k, i.aaa)>>)
        e3 == IF r = d THEN e2 ELSE Emit(e2, <<VMov(d, Reg(r), k, i.w)>>)
    IN  IF i.z /\ i.aaa # 0
        THEN Emit(K(e3), <<KOp("not", em.ks, k), Zero(d, em.ks, i.w)>>)
        ELSE e3

\* The result in r into the destination: merged under the mask, zeroed
\* under {z}, zero above the vector length.
Commit(em, i, d, r) == ZeroLanes(UnderMask(em, i, d, r), d, Upper(i.ll))

\* The second source in a register: itself, or memory staged in a new
\* temporary.
Staged(em, i) ==
    IF ~i.mem THEN em
    ELSE LET e == Temp(em)
         IN  IF i.bc THEN Emit(e, <<Broadcast(T(e), Mem(i), 0, i.w)>>)
             ELSE IF i.ll = 2
             THEN Emit(e, <<LoadUnaligned(T(e), Mem(i), 0)>>)
             ELSE Emit(MaskImm(e, VlLanes(i.ll, 0)),
                       <<LoadUnaligned(T(e), Mem(i), em.ks)>>)
Src2(em, i) == IF i.mem THEN T(em) ELSE i.s2

-----------------------------------------------------------------------------
(***************************************************************************)
(* Moves.                                                                  *)
(***************************************************************************)
\* A store merged by lane into what memory holds: the span is read, the
\* program's lanes are put in, and the whole span is stored back.
MergedStore(em, i, s, k, span) ==
    LET e == Temp(em)
    IN  Emit(e, <<LoadUnaligned(T(e), Mem(i), span), VMov(T(e), Reg(s), k, 0),
                  StoreUnaligned(Mem(i), T(e), span)>>)

\* The program's mask over dword lanes.
ProgMask(em, i, limit) ==
    IF i.w = 1 THEN QmaskToDmask(em, i.aaa, limit) ELSE em
ProgReg(em, i) == IF i.w = 1 THEN em.ks ELSE i.aaa

\* The lanes of the vector length, in the scratch mask.
Span(em, i) == IF i.ll = 2 THEN em ELSE MaskImm(em, VlLanes(i.ll, 0))

\* No mask for a narrow operand: a bug in unaligned_move and generic.
SpanRegWhole(em, i) == 0
SpanReg(em, i) == IF i.ll = 2 THEN 0 ELSE em.ks

StoreMove(em, i) ==
    LET e == Span(em, i)
        span == SpanReg(em, i)
    IN  IF i.aaa = 0
        THEN Emit(e, <<StoreUnaligned(Mem(i), i.d, span)>>)
        ELSE MergedStore(ProgMask(e, i, VlLanes(i.ll, 0)), i, i.d,
                         ProgReg(em, i), span)

LoadMove(em, i) ==
    LET e == Span(em, i)
        span == SpanReg(em, i)
        e1 == Temp(ProgMask(e, i, VlLanes(i.ll, 0)))
        k == ProgReg(em, i)
        e2 == Emit(e1, <<LoadUnaligned(T(e1), Mem(i), span),
                         VMov(i.d, Reg(T(e1)), k, 0)>>)
        e3 == IF i.z THEN Emit(K(e2), <<KOp("not", em.ks, k),
                                        Zero(i.d, em.ks, 0)>>) ELSE e2
    IN  ZeroLanes(IF i.aaa = 0
                  THEN Emit(e, <<LoadUnaligned(i.d, Mem(i), span)>>) ELSE e3,
                  i.d, Upper(i.ll))

UnalignedMove(i) ==
    IF i.op = "storeu" THEN Finish(StoreMove(Em(i), i))
    ELSE IF i.mem THEN Finish(LoadMove(Em(i), i))
    ELSE IF i.ll = 2 /\ ~i.z THEN <<VMov(i.d, Reg(i.s2), i.aaa, i.w)>>
    ELSE Finish(Commit(Em(i), i, i.d, i.s2))

\* The low lane of a load, a store or a register move.
LowMask(em, i, bits) ==
    IF i.aaa = 0 THEN MaskImm(em, bits)
    ELSE Emit(MaskImm(em, bits), <<KOp("and", em.ks, i.aaa)>>)

ScalarMove(i) ==
    LET em == Em(i)
        low == LowMask(em, i, {0})
        load == Emit(IF i.aaa = 0 THEN em ELSE low,
                     <<Broadcast(i.d, Mem(i), IF i.aaa = 0 THEN 0 ELSE em.ks,
                                 i.w)>>)
        store == IF i.aaa # 0 /\ i.w = 1
                 THEN QmaskToDmask(em, i.aaa, {0, 1})
                 ELSE LowMask(em, i, 0..i.w)
        lane == IF i.d = i.s2 THEN low
                ELSE Emit(low, <<VMov(i.d, Reg(i.s2), em.ks, i.w)>>)
        rest == IF i.d = i.s1 THEN lane
                ELSE Emit(MaskImm(lane, IF i.w = 0 THEN 1..3 ELSE {1}),
                          <<VMov(i.d, Reg(i.s1), em.ks, i.w)>>)
    IN  Finish(CASE i.op = "loads" -> ZeroLanes(load, i.d, Lane \ (0..i.w))
                 [] i.op = "stores" ->
                       Emit(store, <<StoreUnaligned(Mem(i), i.d, em.ks)>>)
                 [] i.op = "movs" -> ZeroLanes(rest, i.d, Upper(0)))

-----------------------------------------------------------------------------
(***************************************************************************)
(* Instructions the card has, and the general form of the others.          *)
(***************************************************************************)
CardOp(i, s2, k) ==
    CASE i.op = "mova" -> VMov(i.d, s2, k, i.w)
      [] i.op = "add" -> Op("add", i.d, i.s1, s2, k, 0, 0)
      [] i.op = "ddup" -> Op("pshufd", i.d, 0, s2, k, 0, Fields(\h44))
      [] i.op = "cmpd" -> Op("cmp", i.d, i.s1, s2, k, 0,
                             [kind |-> "s", pred |-> i.pred])

\* The 512-bit form without zeroing of an instruction spelled the same,
\* whose memory operand the card can address, stays in place.
InPlace(i) == /\ i.ll = 2
              /\ ~i.z
              /\ i.op # "ddup"
              /\ ~i.mem \/ i.bc \/ i.op \in {"mova", "store"}

OneToAll(i, s2) == IF i.bc THEN [s2 EXCEPT !.t = "one"] ELSE s2

Generic(i) ==
    LET em == Em(i)
        t == Temp(em)
        staged == IF ~i.mem \/ i.bc THEN em
                  ELSE IF i.op = "mova" /\ i.ll # 2
                  THEN Emit(t, <<LoadBlock(T(t), Mem(i), 4 * 2^i.ll)>>)
                  ELSE Emit(Span(t, i), <<LoadUnaligned(T(t), Mem(i),
                                                        SpanReg(em, i))>>)
        rm == IF ~i.mem THEN Reg(i.s2)
              ELSE IF i.bc THEN OneToAll(i, Mem(i)) ELSE Reg(T(t))
        masked == IF i.ll = 2 THEN staged
                  ELSE LET e == MaskImm(staged, VlLanes(i.ll, i.w))
                       IN  IF i.aaa = 0 THEN e
                           ELSE Emit(e, <<KOp("and", em.ks, i.aaa)>>)
        keff == IF i.ll = 2 THEN i.aaa ELSE em.ks
        done == Emit(masked, <<CardOp(i, rm, keff)>>)
        zeroed == IF i.z THEN Emit(K(done), <<KOp("not", em.ks, keff),
                                              Zero(i.d, em.ks, i.w)>>)
                  ELSE done
    IN  Finish(IF i.op = "store" THEN StoreMove(em, i)
               ELSE IF i.op \in MaskDest
               THEN IF i.ll # 2 \/ i.aaa # 0
                    THEN Emit(done, <<KOp("and", i.d, keff)>>) ELSE done
               ELSE ZeroLanes(zeroed, i.d, Upper(i.ll)))

Whitelisted(i) ==
    IF ~InPlace(i) THEN Generic(i)
    ELSE IF i.op = "store"
    THEN <<Op("storea", i.d, 0, Mem(i), i.aaa, i.w, 0)>>
    ELSE <<CardOp(i, IF i.mem THEN OneToAll(i, Mem(i)) ELSE Reg(i.s2),
                  i.aaa)>>

-----------------------------------------------------------------------------
(***************************************************************************)
(* Inserts, extracts, shuffles.                                            *)
(***************************************************************************)
\* A 128-bit block (x = 0) or a 256-bit half (x = 1) of the source.
Extract(i) ==
    LET em == Em(i)
        s == IF i.mem THEN i.d ELSE i.s2
        perm == IF i.x = 1 THEN Fields(\h4e) ELSE Fields(i.imm * \h55)
        lanes == 0..(4 * 2^i.x - 1)
        t == Temp(em)
        moved == MaskImm(Emit(t, <<IF i.imm # 0
                                   THEN PermF32x4(T(t), s, perm, 0)
                                   ELSE VMov(T(t), Reg(s), 0, 0)>>), lanes)
        toTemp == IF i.aaa # 0 THEN t ELSE em
        r == IF i.imm = 0 THEN s ELSE IF i.aaa # 0 THEN T(t) ELSE i.d
        short == [i EXCEPT !.ll = i.x]
    IN  Finish(
            IF i.mem
            THEN IF i.aaa = 0
                 THEN Emit(moved, <<StoreUnaligned(Mem(i), T(t), em.ks)>>)
                 ELSE MergedStore(ProgMask(moved, i, lanes), i, T(t),
                                  ProgReg(em, i), em.ks)
            ELSE Commit(IF i.imm = 0 THEN em
                        ELSE Emit(toTemp, <<PermF32x4(r, s, perm, 0)>>),
                        short, i.d, r))

Insert(i) ==
    LET em == Staged(Em(i), i)
        s2 == Src2(em, i)
        aside == i.d = s2 \/ i.aaa # 0
        e1 == IF aside THEN Temp(em) ELSE em
        r == IF aside THEN T(e1) ELSE i.d
        e2 == IF r = i.s1 THEN e1 ELSE Emit(e1, <<VMov(r, Reg(i.s1), 0, 0)>>)
        size == 4 * 2^i.x
        e3 == MaskImm(e2, (i.imm * size)..(i.imm * size + size - 1))
    IN  Finish(Commit(
            Emit(e3, <<PermF32x4(r, s2, Fields(IF i.x = 1 THEN \h44 ELSE 0),
                                 em.ks)>>), i, i.d, r))

\* Two shuffles within blocks, joined under a lane mask.
Interleave(i) ==
    LET em == Staged(Em(i), i)
        s2 == Src2(em, i)
        sh == IF i.op = "shufps" THEN Fields(i.imm) ELSE Fields(\h50)
        from2 == IF i.op = "shufps" THEN {l \in Lane : l % 4 >= 2} ELSE Odd
        e1 == Temp(em)
        e2 == Temp(e1)
        e3 == MaskImm(Emit(e2, <<PShufD(T(e1), i.s1, sh, 0),
                                 PShufD(T(e2), s2, sh, 0)>>), from2)
    IN  Finish(Commit(Emit(e3, <<VMov(T(e1), Reg(T(e2)), em.ks, 0)>>),
                      i, i.d, T(e1)))

Valignq(i) ==
    LET em == Staged(Em(i), i)
        s2 == Src2(em, i)
        n == (i.imm % 8) * 2
        e1 == Temp(em)
        e2 == Temp(e1)
        e3 == MaskImm(Emit(e2, <<VMov(T(e2), Reg(s2), 0, 0)>>),
                      IF i.ll = 1 THEN 8..15 ELSE 4..7)
        e4 == Emit(e3, <<PermF32x4(T(e2), i.s1,
                             Fields(IF i.ll = 1 THEN \h4e ELSE 0), em.ks),
                         AlignD(T(e1), T(e2), T(e2), n, 0)>>)
    IN  Finish(Commit(IF i.ll = 2
                      THEN Emit(e1, <<AlignD(T(e1), i.s1, s2, n, 0)>>)
                      ELSE e4, i, i.d, T(e1)))

Rotation(by) == [j \in 0..3 |-> (j + by) % 4]
EachBlock(lanes) == {l \in Lane : l % 4 \in lanes}

\* vpalignr by a whole number of dwords.
ByteShift(i) ==
    LET n == i.imm
        e0 == Temp(Em(i))
        r == T(e0)
        em == Staged(e0, i)
        b == Src2(em, i)
        e1 == Temp(em)
        far == Emit(em, <<PShufD(r, i.s1, Rotation(n - 4), 0)>>)
        near == MaskImm(Emit(e1, <<PShufD(r, b, Rotation(n), 0),
                                   PShufD(T(e1), i.s1, Rotation(n), 0)>>),
                        EachBlock((4 - n)..3))
    IN  Finish(Commit(
            CASE n >= 8 -> Emit(em, <<Zero(r, 0, 0)>>)
              [] n \in 4..7 -> ZeroLanes(far, r, EachBlock((8 - n)..3))
              [] n < 4 -> Emit(near, <<VMov(r, Reg(T(e1)), em.ks, 0)>>),
            i, i.d, r))

\* vpbroadcastd/q from a vector register.
BroadcastReg(i) ==
    LET em == IF i.aaa # 0 THEN Temp(Em(i)) ELSE Em(i)
        r == IF i.aaa # 0 THEN T(em) ELSE i.d
    IN  Finish(Commit(
            Emit(em, <<PermF32x4(r, i.s2, Fields(0), 0),
                       PShufD(r, r, Fields(IF i.w = 1 THEN \h44 ELSE 0), 0)>>),
            i, i.d, r))

ShufBlocks(i) ==
    LET em == Staged(Em(i), i)
        s2 == Src2(em, i)
        e1 == Temp(em)
        r == T(e1)
        low == IF i.ll = 2 THEN i.imm % 16 ELSE i.imm % 2
        high == IF i.ll = 2 THEN i.imm - (i.imm % 16) ELSE 4 * Bit(i.imm, 1)
        e2 == MaskImm(Emit(e1, <<PermF32x4(r, i.s1, Fields(low), 0)>>),
                      IF i.ll = 2 THEN 8..15 ELSE 4..7)
    IN  Finish(Commit(Emit(e2, <<PermF32x4(r, s2, Fields(high), em.ks)>>),
                      i, i.d, r))

\* vpmovsxdq.
WidenDq(i) ==
    LET e1 == Temp(Em(i))
        e2 == Temp(e1)
        e3 == Temp(e2)
        mem == Emit(MaskImm(e3, VlLanes(i.ll, 1)),
                    <<LoadUnaligned(T(e3), Mem(i), e1.ks)>>)
        em == IF i.mem THEN mem ELSE e2
        s == IF i.mem THEN T(e3) ELSE i.s2
        idx == Const([l \in Lane |-> l \div 2])
        e4 == MaskImm(Emit(em, <<VMov(T(e2), idx, 0, 0),
                                 PermD(T(e1), T(e2), s, 0)>>), Odd)
    IN  Finish(Commit(
            Emit(e4, <<Shift("sra", T(e1), T(e1), Bits - 1, em.ks)>>),
            [i EXCEPT !.w = 1], i.d, T(e1)))

-----------------------------------------------------------------------------
(***************************************************************************)
(* Boolean functions and arithmetic.                                       *)
(***************************************************************************)
\* A two-input function of b and c into t, from the card's four.
Bool2Seq(t, b, c, table) ==
    LET neg(ops) == ops \o <<Xor(t, t, Same(Ones), 0)>>
        negOf(s) == <<Xor(t, s, Same(Ones), 0)>>
    IN  CASE table = 0 -> <<Zero(t, 0, 0)>>
          [] table = 15 -> <<VMov(t, Same(Ones), 0, 0)>>
          [] table = 12 -> <<VMov(t, Reg(b), 0, 0)>>
          [] table = 10 -> <<VMov(t, Reg(c), 0, 0)>>
          [] table = 8 -> <<And(t, b, Reg(c), 0)>>
          [] table = 14 -> <<Or(t, b, Reg(c), 0)>>
          [] table = 6 -> <<Xor(t, b, Reg(c), 0)>>
          [] table = 2 -> <<AndN(t, b, Reg(c), 0)>>
          [] table = 4 -> <<AndN(t, c, Reg(b), 0)>>
          [] table = 9 -> neg(<<Xor(t, b, Reg(c), 0)>>)
          [] table = 1 -> neg(<<Or(t, b, Reg(c), 0)>>)
          [] table = 7 -> neg(<<And(t, b, Reg(c), 0)>>)
          [] table = 3 -> negOf(b)
          [] table = 5 -> negOf(c)
          [] table = 11 -> negOf(c) \o <<Or(t, t, Reg(b), 0)>>
          [] table = 13 -> negOf(b) \o <<Or(t, t, Reg(c), 0)>>

\* The truth table split on the first operand, which is the destination.
Ternlog(i) ==
    LET a == i.d
        simple == IF i.aaa # 0 \/ i.ll # 2 THEN Temp(Em(i)) ELSE Em(i)
        r == IF i.aaa # 0 \/ i.ll # 2 THEN T(simple) ELSE a
        em == Staged(Em(i), i)
        c == Src2(em, i)
        e1 == Temp(em)
        e2 == Temp(e1)
        t1 == T(e1)
        t2 == T(e2)
    IN  Finish(
            CASE i.imm = 255 ->
                    Commit(Emit(simple, <<VMov(r, Same(Ones), 0, 0)>>),
                           i, a, r)
              [] i.imm = 0 ->
                    Commit(Emit(simple, <<Zero(r, 0, i.w)>>), i, a, r)
              [] i.imm = \h96 ->
                    Commit(Emit(e2, <<Xor(t1, a, Reg(i.s1), i.w),
                                      Xor(t1, t1, Reg(c), i.w)>>), i, a, t1)
              [] OTHER ->
                    Commit(Emit(e2, Bool2Seq(t1, i.s1, c, i.imm \div 16)
                                    \o Bool2Seq(t2, i.s1, c, i.imm % 16)
                                    \o <<And(t1, a, Reg(t1), i.w),
                                         AndN(t2, a, Reg(t2), i.w),
                                         Or(t1, t1, Reg(t2), 0)>>),
                           i, a, t1))

\* Both halves added, then the carry of each low half into its high half.
AddSubQ(i) ==
    LET em == Staged(Em(i), i)
        s2 == Src2(em, i)
        f == IF i.op = "subq" THEN "sub" ELSE "add"
        e1 == Temp(em)
        r == T(e1)
        e2 == K(Flags(Emit(e1, <<Op(f, r, i.s1, Reg(s2), 0, 0, 0)>>)))
        carry == IF f = "sub" THEN VCmp("u", "lt", em.ks, i.s1, s2, 0)
                 ELSE VCmp("u", "lt", em.ks, r, i.s1, 0)
    IN  Finish(Commit(
            Emit(e2, <<carry, RFromK("rax", em.ks), Alu("and", "rax", Even),
                       Alu("shl", "rax", 1), KFromR(em.ks, "rax"),
                       Op(f, r, r, Same(1), em.ks, 0, 0)>>),
            [i EXCEPT !.w = 1], i.d, r))

\* Into eax the "less" of qword j at bit 2j, at S_XFER its "equal".
QwordLtEq(em, a, b, kind) ==
    Emit(Rcx(Flags(K(em))),
         <<VCmp("s", "eq", em.ks, a, b, 0), RFromK("rax", em.ks),
           Alu("mov", "rcx", "rax"), Alu("shr", "rcx", 1),
           Alu("andr", "rcx", "rax"), ToFs("rcx", "S_XFER"),
           Alu("shr", "rax", 1),
           VCmp("u", "lt", em.ks, a, b, 0), RFromK("rcx", em.ks),
           Alu("andr", "rax", "rcx"), ToFs("rax", "S_XFER8")>>
         \o (IF kind = "s"
             THEN <<VCmp("s", "lt", em.ks, a, b, 0), RFromK("rax", em.ks)>>
             ELSE <<Alu("mov", "rax", "rcx")>>)
         \o <<Alu("shr", "rax", 1), OrFs("rax", "S_XFER8")>>)

\* The even bits of eax packed down.
PackEven ==
    LET step(n, keep) == <<Alu("mov", "rcx", "rax"), Alu("shr", "rcx", n),
                           Alu("or", "rax", "rcx"), Alu("and", "rax", keep)>>
    IN  <<Alu("and", "rax", Even)>>
        \o step(1, {0, 1, 4, 5, 8, 9, 12, 13})
        \o step(2, {0, 1, 2, 3, 8, 9, 10, 11})
        \o step(4, 0..7)

SpreadEven == <<Alu("and", "rax", Even), Alu("mov", "rcx", "rax"),
                Alu("shl", "rcx", 1), Alu("or", "rax", "rcx")>>

\* The result in eax cut to the write mask, into the destination mask.
IntoMask(em, i) ==
    Emit(em, (IF i.aaa = 0 THEN <<>>
              ELSE <<RFromK("rcx", i.aaa), Alu("andr", "rax", "rcx")>>)
             \o <<KFromR(i.d, "rax")>>)

CmpQ(i) ==
    LET lanes == VlLanes(i.ll, 1)
        em == Staged(Em(i), i)
        s2 == Src2(em, i)
        kind == IF i.op = "cmpuq" THEN "u" ELSE "s"
        pick == CASE i.pred = "eq" -> <<FromFs("rax", "S_XFER")>>
                  [] i.pred = "lt" -> <<>>
                  [] i.pred = "le" -> <<OrFs("rax", "S_XFER")>>
                  [] i.pred = "neq" -> <<FromFs("rax", "S_XFER"),
                                         Alu("not", "rax", 0)>>
                  [] i.pred = "nlt" -> <<Alu("not", "rax", 0)>>
                  [] OTHER -> <<OrFs("rax", "S_XFER"), Alu("not", "rax", 0)>>
    IN  Finish(
            IF i.pred = "false"
            THEN Emit(MovEax(Em(i), {}), <<KFromR(i.d, "rax")>>)
            ELSE IntoMask(
                     IF i.pred = "true"
                     THEN MovEax(Rcx(Flags(em)), lanes)
                     ELSE Emit(QwordLtEq(em, i.s1, s2, kind),
                               pick \o PackEven
                               \o <<Alu("and", "rax", lanes)>>), i))

\* The second source, then the first where it wins.
MinmaxQ(i) ==
    LET em == Staged(Em(i), i)
        s2 == Src2(em, i)
        e1 == Temp(em)
        r == T(e1)
        e2 == IF i.op = "maxsq" THEN QwordLtEq(e1, s2, i.s1, "s")
              ELSE QwordLtEq(e1, i.s1, s2, "u")
    IN  Finish(Commit(
            Emit(e2, SpreadEven \o <<KFromR(em.ks, "rax"),
                                     VMov(r, Reg(s2), 0, 1),
                                     VMov(r, Reg(i.s1), em.ks, 0)>>),
            [i EXCEPT !.w = 1], i.d, r))

\* vptestnmq: either dword nonzero makes the qword nonzero.
Testm(i) ==
    LET em == Staged(Em(i), i)
        s2 == Src2(em, i)
    IN  Finish(IntoMask(
            Emit(Rcx(Flags(K(em))),
                 <<Op("testm", em.ks, i.s1, Reg(s2), 0, 0, 0),
                   RFromK("rax", em.ks), Alu("mov", "rcx", "rax"),
                   Alu("shr", "rcx", 1), Alu("or", "rax", "rcx"),
                   Alu("not", "rax", 0)>>
                 \o PackEven \o <<Alu("and", "rax", VlLanes(i.ll, i.w))>>),
            i))

\* vpsrlq and vpsllq by an immediate: the halves shifted and combined.
ShiftQ(i) ==
    LET em == Staged(Em(i), i)
        s == Src2(em, i)
        right == i.op = "srlq"
        n == i.imm
        e1 == Temp(em)
        e2 == Temp(e1)
        r == T(e1)
        t == T(e2)
        f == IF right THEN "srl" ELSE "sll"
        back == IF right THEN "sll" ELSE "srl"
        half == Fields(IF right THEN \hf5 ELSE \ha0)
        near == IF right THEN Even ELSE Odd
        wholeHalf ==
            LET m == MaskImm(Emit(e2, <<PShufD(r, s, half, 0)>>), near)
            IN  Emit(MaskImm(Emit(m, <<Shift(f, r, r, n - Bits, em.ks)>>),
                             Lane \ near), <<Zero(r, em.ks, 0)>>)
        split ==
            Emit(MaskImm(Emit(e2, <<Shift(f, r, s, n, 0),
                                    PShufD(t, s, half, 0),
                                    Shift(back, t, t, Bits - n, 0)>>), near),
                 <<Or(r, r, Reg(t), em.ks)>>)
    IN  Finish(Commit(
            CASE n >= 2 * Bits -> Emit(e2, <<Zero(r, 0, 0)>>)
              [] n \in Bits..(2 * Bits - 1) -> wholeHalf
              [] n = 0 -> Emit(e2, <<VMov(r, Reg(s), 0, 0)>>)
              [] n \in 1..(Bits - 1) -> split,
            [i EXCEPT !.w = 1], i.d, r))

AbsD(i) ==
    LET em == Staged(Em(i), i)
        s == Src2(em, i)
        e1 == Temp(em)
        e2 == Temp(e1)
    IN  Finish(Commit(
            Emit(e2, <<Shift("sra", T(e2), s, Bits - 1, 0),
                       Xor(T(e1), s, Reg(T(e2)), 0),
                       Op("sub", T(e1), T(e1), Reg(T(e2)), 0, 0, 0)>>),
            i, i.d, T(e1)))

-----------------------------------------------------------------------------
(***************************************************************************)
(* Compares into a mask, mask instructions, gathers and scatters.          *)
(***************************************************************************)
\* Each predicate above 7 from the card's: one compare, or two joined; each
\* with its operands in order or swapped.
Predicates == [eq_uq |-> <<<<"eq", FALSE>>, <<"unord", FALSE>>>>,
               nge |-> <<<<"nle", TRUE>>>>,
               neq_oq |-> <<<<"lt", FALSE>>, <<"lt", TRUE>>>>,
               ge |-> <<<<"le", TRUE>>>>]

CompareSeq(i) ==
    LET em == IF i.ll = 2 THEN Em(i) ELSE LowMask(Em(i), i, VlLanes(i.ll, i.w))
        keff == IF i.ll = 2 THEN i.aaa ELSE em.ks
        e1 == IF i.op = "cmpd" THEN em ELSE Staged(em, i)
        s2 == Src2(e1, i)
        cmp(p, kd) == IF p[2] THEN VCmp("f", p[1], kd, s2, i.s1, keff)
                      ELSE VCmp("f", p[1], kd, i.s1, s2, keff)
        plan == Predicates[i.pred]
        first == Emit(e1, <<cmp(plan[1], i.d)>>)
        k2 == Highest(1..7 \ {i.d, em.ks, i.aaa})
        both == IF Len(plan) = 1 THEN first
                ELSE Emit(Rcx(first), <<RFromK("rcx", k2), cmp(plan[2], k2),
                                        KOp("or", i.d, k2),
                                        KFromR(k2, "rcx")>>)
    IN  Finish(
            IF i.pred = "false"
            THEN Emit(MovEax(e1, {}), <<KFromR(i.d, "rax")>>)
            ELSE IF i.pred = "true"
            THEN IF i.ll = 2 /\ i.aaa = 0
                 THEN Emit(MovEax(e1, Lane), <<KFromR(i.d, "rax")>>)
                 ELSE Emit(e1, <<KOp("mov", i.d, keff)>>)
            ELSE IF i.ll # 2 \/ i.aaa # 0
            THEN Emit(both, <<KOp("and", i.d, keff)>>) ELSE both)

\* k1 = k2 op k3 from the card's k1 = k1 op k2.
Three(em, i, f) ==
    IF i.d = i.s1 THEN Emit(em, <<KOp(f, i.d, i.s2)>>)
    ELSE IF i.d = i.s2 /\ f # "andn" THEN Emit(em, <<KOp(f, i.d, i.s1)>>)
    ELSE IF i.d # i.s2
    THEN Emit(em, <<KOp("mov", i.d, i.s1), KOp(f, i.d, i.s2)>>)
    ELSE Emit(K(em), <<KOp("mov", em.ks, i.s1), KOp(f, em.ks, i.s2),
                       KOp("mov", i.d, em.ks)>>)

Kops(i) ==
    LET em == Em(i)
    IN  Finish(
        CASE i.op = "kand" -> Three(em, i, "and")
          [] i.op = "kandn" -> Three(em, i, "andn")
          [] i.op = "kxor" -> Three(em, i, "xor")
          [] i.op = "kstore" ->
                Emit(Rax(em), <<RFromK("rax", i.s1),
                                Op("storer", "rax", 0, Mem(i), 0, 0, 0)>>)
          [] i.op = "kunpck" ->
                Emit(Rcx(Flags(em)),
                     <<RFromK("rax", i.s2), RFromK("rcx", i.s1),
                       Alu("movzx", "rax", 0..7), Alu("shl", "rcx", 8),
                       Alu("movzx", "rcx", 0..7), Alu("shl", "rcx", 8),
                       Alu("or", "rax", "rcx"), KFromR(i.d, "rax")>>)
          [] i.op = "kshiftl" ->
                Emit(Flags(em),
                     <<RFromK("rax", i.s1)>>
                     \o (IF i.imm >= 16 THEN <<Alu("and", "rax", {})>>
                         ELSE <<Alu("shl", "rax", i.imm),
                                Alu("movzx", "rax", Lane)>>)
                     \o <<KFromR(i.d, "rax")>>))

\* The loop tests another mask: a bug in gather_scatter (the mask in vvvv).
GatherScatterOther(i) ==
    <<Op(i.op, i.d, i.s1, Mem(i), i.aaa, 0, 0),
      Op("jknz", 0, 0, Reg(0), KScr(i), 0, 1)>>

\* The card's own gather or scatter, repeated while the mask is not empty.
GatherScatter(i) ==
    <<Op(i.op, i.d, i.s1, Mem(i), i.aaa, 0, 0),
      Op("jknz", 0, 0, Reg(0), i.aaa, 0, 1)>>

-----------------------------------------------------------------------------
\* The translation of an instruction (rewrite, special).
Rewrite(i) ==
    CASE i.op \in {"movu", "storeu"} -> UnalignedMove(i)
      [] i.op \in {"loads", "stores", "movs"} -> ScalarMove(i)
      [] i.op \in {"mova", "store", "add", "ddup"} -> Whitelisted(i)
      [] i.op = "cmpd" -> IF i.pred \in {"false", "true"} THEN CompareSeq(i)
                          ELSE Whitelisted(i)
      [] i.op = "cmpps" -> CompareSeq(i)
      [] i.op = "extract" -> Extract(i)
      [] i.op = "insert" -> Insert(i)
      [] i.op \in {"unpckl", "shufps"} -> Interleave(i)
      [] i.op = "alignq" -> Valignq(i)
      [] i.op = "alignr" -> ByteShift(i)
      [] i.op = "bcastr" -> BroadcastReg(i)
      [] i.op = "shufblk" -> ShufBlocks(i)
      [] i.op = "sxdq" -> WidenDq(i)
      [] i.op = "ternlog" -> Ternlog(i)
      [] i.op \in {"addq", "subq"} -> AddSubQ(i)
      [] i.op \in {"cmpq", "cmpuq"} -> CmpQ(i)
      [] i.op \in {"maxsq", "minuq"} -> MinmaxQ(i)
      [] i.op = "testnmq" -> Testm(i)
      [] i.op \in {"srlq", "sllq"} -> ShiftQ(i)
      [] i.op = "absd" -> AbsD(i)
      [] i.op \in MaskOps -> Kops(i)
      [] i.op \in {"gather", "scatter"} -> GatherScatter(i)
=============================================================================
