------------------------------- MODULE Emulate -------------------------------
(****************************************************************************)
(* What phi512/src/emulate.rs does for one AVX-512 instruction, family by   *)
(* family, on a register file of the same shape and a smaller size: a dword *)
(* has 4 bits, a quadword 8, a register 8 dwords, ymm the low half, xmm (a  *)
(* 128-bit group) the low quarter, a mask 8 bits.  Arithmetic is modulo the *)
(* element.                                                                 *)
(* Floats are left out: a lane operation is any function of its lanes, and  *)
(* what is translated is which lanes are read, which are written, which are *)
(* kept or zeroed, and which bytes of memory are touched.                   *)
(*                                                                          *)
(* A machine is a record: zmm, k (a mask is the set of its bits), gpr (low  *)
(* and high half), zf, cf, mem (dwords from the operand's address), touch   *)
(* (those the last instruction accessed), ok (FALSE: Unsupported).          *)
(****************************************************************************)
EXTENDS Integers, FiniteSets, FiniteSetsExt, Folds, Sequences

Base == 16                      \* values of a dword
Dwords == 8                     \* of a zmm register
Half == Dwords \div 2           \* of a ymm register
Group == Dwords \div 4          \* of an xmm register, a 128-bit group
Lanes == 0 .. Dwords - 1
Val == 0 .. Base - 1
Mem == 0 .. Base - 1            \* dwords an index can reach
Zero == [j \in Lanes |-> 0]

\* Element i of a vector, e dwords wide, and the vector of n elements f[i].
Elem(v, e, i) == IF e = 1 THEN v[i] ELSE v[2 * i] + Base * v[2 * i + 1]
Part(e, j, x) == IF e = 1 \/ j % 2 = 0 THEN x % Base ELSE (x \div Base) % Base
Vector(e, f) == [j \in Lanes |-> IF j \div e \in DOMAIN f
                                 THEN Part(e, j, f[j \div e]) ELSE 0]

\* A set of bits as a number, and back.
Number(bits) == FoldSet(LAMBDA i, n : n + 2 ^ i, 0, bits)
Bits(n, w) == {i \in 0 .. w - 1 : (n \div 2 ^ i) % 2 = 1}

\* lane_enabled: k0 is no mask.
LaneEnabled(m, k, i) == k = 0 \/ i \in m.k[k]

\* dest_width, in dwords, is the instruction's w; op_mask its k;
\* zeroing_masking its z; e the element; src its last source's kind.

\* source_bytes: the second source, whatever kind it is.
SourceBytes(in, r, kind, m) ==
    CASE kind = "reg" -> m.zmm[r]
      [] kind = "gpr" -> [j \in Lanes |-> m.gpr[r][(j % in.e) + 1]]
      [] kind = "bcast" -> [j \in Lanes |-> m.mem[j % in.e]]
      [] kind = "mem" -> [j \in Lanes |-> IF j < in.w THEN m.mem[j] ELSE 0]

\* The elements of memory source_bytes reads.
SourceTouch(in) == CASE in.src = "bcast" -> 0 .. in.e - 1
                     [] in.src = "mem" -> 0 .. in.w - 1
                     [] OTHER -> {}

\* The loop at the end of every family with a vector destination: a lane is
\* written, zeroed or left, and what is above the width is zeroed.
Masked(in, m, out) ==
    [j \in Lanes |->
        IF j >= in.w THEN 0
        ELSE IF LaneEnabled(m, in.k, j \div in.e) THEN out[j]
        ELSE IF in.z THEN 0 ELSE m.zmm[in.d][j]]

SetVec(m, d, v) == [m EXCEPT !.zmm[d] = v]
Touch(m, s) == [m EXCEPT !.touch = s]
Refuse(m) == [m EXCEPT !.ok = FALSE]

\* Cpu::set of a 32-bit register zeroes the upper half.
SetGpr(m, r, lo, hi) == [m EXCEPT !.gpr[r] = <<lo, hi>>]

-----------------------------------------------------------------------------
(* step: plain lane arithmetic.                                             *)

\* addsub_sign: the odd lanes add, the even subtract.
AddsubSign(i, v) == IF i % 2 = 1 THEN v ELSE -v

\* One lane of add, fmadd231, fmaddsub231 and broadcast.
LaneValue(op, x, y, cur, first, i) ==
    CASE op = "add" -> x + y
      [] op = "fma" -> x * y + cur
      [] op = "fmaddsub" -> x * y + AddsubSign(i, cur)
      [] op = "bcast" -> first

Step(in, m) ==
    LET one == in.op = "bcast"
        b == SourceBytes(in, in.b, in.src, m)
        a == IF one THEN b ELSE m.zmm[in.a]
        d == m.zmm[in.d]
        out == Vector(in.e, [i \in 0 .. (in.w \div in.e) - 1 |->
                   LaneValue(in.op, Elem(a, in.e, i), Elem(b, in.e, i),
                             Elem(d, in.e, i), Elem(a, in.e, 0), i)
                     % (Base ^ in.e)])
    IN  Touch(SetVec(m, in.d, Masked(in, m, out)), SourceTouch(in))

-----------------------------------------------------------------------------
(* step_uncommon: the other families.                                       *)

\* Mutant: the whole operand is read, then masked.
DoMoveWhole(in, m) ==
    LET on == {j \in 0 .. in.w - 1 : LaneEnabled(m, in.k, j \div in.e)}
    IN  CASE in.op = "load" ->
               Touch(SetVec(m, in.d, Masked(in, m, m.mem)), 0 .. in.w - 1)
          [] in.op = "store" ->
               Touch([m EXCEPT !.mem = [j \in Mem |->
                   IF j \in on THEN m.zmm[in.a][j] ELSE m.mem[j]]], on)
          [] in.op = "move" ->
               Touch(SetVec(m, in.d, Masked(in, m, m.zmm[in.a])), {})

\* do_move: load, store, register to register; lane by lane, the enabled
\* ones only.
DoMove(in, m) ==
    LET on == {j \in 0 .. in.w - 1 : LaneEnabled(m, in.k, j \div in.e)}
    IN  CASE in.op = "load" ->
               Touch(SetVec(m, in.d, Masked(in, m, m.mem)), on)
          [] in.op = "store" ->
               Touch([m EXCEPT !.mem = [j \in Mem |->
                   IF j \in on THEN m.zmm[in.a][j] ELSE m.mem[j]]], on)
          [] in.op = "move" ->
               Touch(SetVec(m, in.d, Masked(in, m, m.zmm[in.a])), {})

\* do_compare: a fresh mask, over all the lanes of a zmm register; the
\* write-mask of a compare does not merge.
DoCompare(in, m) ==
    LET a == m.zmm[in.a]
        b == SourceBytes(in, in.b, in.src, m)
        out == {i \in 0 .. (Dwords \div in.e) - 1 :
                   /\ LaneEnabled(m, in.k, i)
                   /\ Elem(a, in.e, i) <= Elem(b, in.e, i)}
    IN  Touch([m EXCEPT !.k[in.dk] = out], SourceTouch(in))

\* do_ternlog: dwords, the destination is an input too.
DoTernlog(in, m) ==
    LET b == m.zmm[in.a]
        c == SourceBytes(in, in.b, in.src, m)
        out == [j \in Lanes |-> (m.zmm[in.d][j] + 2 * b[j] + c[j]) % Base]
    IN  Touch(SetVec(m, in.d, Masked([in EXCEPT !.e = 1], m, out)),
              SourceTouch(in))

\* do_blend: the mask chooses which source supplies a lane.
DoBlend(in, m) ==
    LET b == SourceBytes(in, in.b, in.src, m)
    IN  Touch(SetVec(m, in.d, [j \in Lanes |->
            IF j >= in.w THEN 0
            ELSE IF LaneEnabled(m, in.k, j \div in.e)
                 THEN b[j] ELSE m.zmm[in.a][j]]), SourceTouch(in))

\* do_shift: one count for every lane (the low quadword of a vector) or one
\* per lane; at or beyond the lane width the result is zero.
DoShift(in, m) ==
    LET a == m.zmm[in.a]
        c == SourceBytes(in, in.b, in.src, m)
        top == in.e * 4         \* lane width in bits
        count(i) == IF in.op = "shiftv" THEN Elem(c, in.e, i) ELSE Elem(c, 2, 0)
        shift(x, n) == IF n >= top THEN 0 ELSE x * 2 ^ n
        out == Vector(in.e, [i \in 0 .. (in.w \div in.e) - 1 |->
                   shift(Elem(a, in.e, i), count(i)) % (Base ^ in.e)])
    IN  Touch(SetVec(m, in.d, Masked(in, m, out)), SourceTouch(in))

\* do_permute: by an index per lane, out of one table or out of two; always
\* the whole register.
DoPermute(in, m) ==
    LET n == Dwords \div in.e
        src2 == SourceBytes(in, in.b, in.src, m)
        idx == IF in.op = "permi2" THEN m.zmm[in.d] ELSE m.zmm[in.a]
        tblA == CASE in.op = "perm" -> src2
                  [] in.op = "permt2" -> m.zmm[in.d]
                  [] in.op = "permi2" -> m.zmm[in.a]
        raw(i) == Elem(idx, in.e, i)
        from(i) == IF in.op # "perm" /\ (raw(i) \div n) % 2 = 1
                   THEN src2 ELSE tblA
        out == Vector(in.e, [i \in 0 .. n - 1 |->
                   Elem(from(i), in.e, raw(i) % n)])
    IN  Touch(SetVec(m, in.d, [j \in Lanes |->
                IF LaneEnabled(m, in.k, j \div in.e) THEN out[j]
                ELSE IF in.z THEN 0 ELSE m.zmm[in.d][j]]), SourceTouch(in))

\* do_misc_int, vpmuludq: the even dwords multiplied into quadwords.
DoMulEven(in, m) ==
    LET b == SourceBytes(in, in.b, in.src, m)
        out == Vector(2, [i \in 0 .. (in.w \div 2) - 1 |->
                   m.zmm[in.a][2 * i] * b[2 * i]])
    IN  Touch(SetVec(m, in.d, Masked([in EXCEPT !.e = 2], m, out)),
              SourceTouch(in))

\* do_lane_move: unpacks work within each 128-bit group, valign on the two
\* sources end to end, vshuf32x4 on whole groups.
DoLaneMove(in, m) ==
    LET a == m.zmm[in.a]
        b == SourceBytes(in, in.b, in.src, m)
        n == in.w
        groups == in.w \div Group
        out ==
          CASE in.op = "unpckl" ->
                 [j \in Lanes |-> (IF j % 2 = 0 THEN a ELSE b)[j - (j % 2)]]
            [] in.op = "unpckh" ->
                 [j \in Lanes |-> (IF j % 2 = 0 THEN a ELSE b)[j - (j % 2) + 1]]
            [] in.op = "align" ->
                 [j \in Lanes |->
                     LET from == j + (in.imm % (2 * n))
                     IN  IF from < n THEN b[from]
                         ELSE IF from < 2 * n THEN a[from - n] ELSE 0]
            [] in.op = "shufgroup" ->
                 [j \in Lanes |->
                     LET g == j \div Group
                         sel == (in.imm \div 4 ^ g) % 4
                     IN  (IF g < groups \div 2 THEN a ELSE b)
                            [sel * Group + (j % Group)]]
    IN  Touch(SetVec(m, in.d, Masked(in, m, out)), SourceTouch(in))

\* do_extract_insert: a group or half out of a vector, or into one.
DoExtractInsert(in, m) ==
    LET slot == in.imm * in.n
        piece == IF in.src = "mem"
                 THEN [j \in Lanes |-> IF j < in.n THEN m.mem[j] ELSE 0]
                 ELSE m.zmm[in.b]
        touched == IF in.src = "mem" THEN 0 .. in.n - 1 ELSE {}
    IN  CASE in.op = "insert" ->
               Touch(SetVec(m, in.d, [j \in Lanes |->
                   IF slot + in.n <= Dwords /\ j \in slot .. slot + in.n - 1
                   THEN piece[j - slot] ELSE m.zmm[in.a][j]]), touched)
          [] in.op = "extract" /\ slot + in.n > Dwords -> Refuse(m)
          [] in.op = "extract" /\ slot + in.n <= Dwords /\ in.src = "reg" ->
               Touch(SetVec(m, in.d, [j \in Lanes |->
                   IF j < in.n THEN m.zmm[in.a][slot + j] ELSE 0]), {})
          [] in.op = "extract" /\ slot + in.n <= Dwords /\ in.src = "mem" ->
               Touch([m EXCEPT !.mem = [j \in Mem |->
                   IF j < in.n THEN m.zmm[in.a][slot + j] ELSE m.mem[j]]],
                   0 .. in.n - 1)

\* do_scalar: element 0, the rest of the xmm from the first source, zero
\* above; a scalar move to or from memory has no merge.
DoScalar(in, m) ==
    LET a == m.zmm[in.a]
        b == IF in.op = "sqrts" THEN a ELSE SourceBytes(in, in.b, in.src, m)
        x == Elem(a, in.e, 0)
        y == Elem(b, in.e, 0)
        v == IF in.op = "sqrts" THEN y + 1 ELSE x + y
        out == [j \in Lanes |->
                   IF j < in.e THEN Part(in.e, j, v % (Base ^ in.e))
                   ELSE IF j < Group THEN a[j] ELSE 0]
    IN  CASE in.op = "loads" ->
               Touch(SetVec(m, in.d, [j \in Lanes |->
                   IF j < in.e THEN m.mem[j] ELSE 0]), 0 .. in.e - 1)
          [] in.op = "stores" ->
               Touch([m EXCEPT !.mem = [j \in Mem |->
                   IF j < in.e THEN a[j] ELSE m.mem[j]]], 0 .. in.e - 1)
          [] OTHER -> Touch(SetVec(m, in.d, out),
                            IF in.src = "mem" THEN 0 .. in.e - 1 ELSE {})

\* do_extend: widen or narrow every element; a narrowing store writes the
\* enabled elements only.
DoExtend(in, m) ==
    LET sw == IF in.op = "widen" THEN 1 ELSE 2      \* source element
        dw == IF in.op = "widen" THEN 2 ELSE 1      \* destination element
        n == Half
        src == IF in.src = "mem" /\ in.op = "widen"
               THEN [j \in Lanes |-> IF j < n THEN m.mem[j] ELSE 0]
               ELSE m.zmm[in.a]
        out == Vector(dw, [i \in 0 .. n - 1 |->
                              Elem(src, sw, i) % (Base ^ dw)])
        kept == [j \in Lanes |->
                   IF j >= n * dw THEN 0
                   ELSE IF LaneEnabled(m, in.k, j \div dw) THEN out[j]
                   ELSE IF in.z THEN 0 ELSE m.zmm[in.d][j]]
        on == {i \in 0 .. n - 1 : LaneEnabled(m, in.k, i)}
    IN  IF in.op = "narrow" /\ in.src = "mem"
        THEN Touch([m EXCEPT !.mem = [j \in Mem |->
                       IF j \in on THEN out[j] ELSE m.mem[j]]], on)
        ELSE Touch(SetVec(m, in.d, kept),
                   IF in.src = "mem" THEN 0 .. n - 1 ELSE {})

\* do_gather_scatter: lane by lane from the lowest, the mask cleared at the
\* end; without a mask it is refused.
DoGatherScatter(in, m) ==
    LET idx == m.zmm[in.b]
        lanes == {i \in Lanes : LaneEnabled(m, in.k, i)}
        writes(j) == {i \in lanes : idx[i] = j}
        mem == [j \in Mem |-> IF writes(j) = {} THEN m.mem[j]
                                ELSE m.zmm[in.d][Max(writes(j))]]
        vec == [i \in Lanes |-> IF i \in lanes THEN m.mem[idx[i]]
                                ELSE m.zmm[in.d][i]]
        done == [Touch(m, {idx[i] : i \in lanes}) EXCEPT !.k[in.k] = {}]
    IN  IF in.k = 0 THEN Refuse(m)
        ELSE IF in.op = "scatter" THEN [done EXCEPT !.mem = mem]
        ELSE SetVec(done, in.d, vec)

\* do_mask: the mask registers, at the width of the instruction's suffix.
\* kortest writes the flags.
DoMask(in, m) ==
    LET w == 0 .. in.w - 1
        x == m.k[in.a] \cap w
        y == m.k[in.b] \cap w
    IN  CASE in.op = "kmovk" ->
               [Touch(m, {}) EXCEPT !.k[in.d] =
                   Bits(m.gpr[in.r][1] + Base * m.gpr[in.r][2], in.w)]
          [] in.op = "kmovr" ->
               SetGpr(Touch(m, {}), in.r, Number(x) % Base, Number(x) \div Base)
          [] in.op = "kandn" -> [Touch(m, {}) EXCEPT !.k[in.d] = y \ x]
          [] in.op = "kshiftl" ->
               [Touch(m, {}) EXCEPT !.k[in.d] = {i + in.imm : i \in x} \cap w]
          [] in.op = "kortest" ->
               [Touch(m, {}) EXCEPT !.zf = x \cup y = {},
                                    !.cf = x \cup y = w]

\* do_movdq: into a vector, the low bytes and the rest zero; out of one,
\* those bytes alone.
DoMovdq(in, m) ==
    IF in.op = "tovec"
    THEN Touch(SetVec(m, in.d, [j \in Lanes |->
             IF j < in.e THEN m.gpr[in.r][j + 1] ELSE 0]), {})
    ELSE SetGpr(Touch(m, {}), in.r, m.zmm[in.a][0],
                IF in.e = 2 THEN m.zmm[in.a][1] ELSE 0)

\* do_scalar_cvt: a general register into lane 0 with the rest of the xmm from
\* the first source, or lane 0 into a general register; a value the register
\* cannot hold becomes its highest.
DoScalarCvt(in, m) ==
    IF in.op = "fromgpr"
    THEN Touch(SetVec(m, in.d, [j \in Lanes |->
             IF j < in.e THEN m.gpr[in.r][j + 1]
             ELSE IF j < Group THEN m.zmm[in.a][j] ELSE 0]), {})
    ELSE LET x == Elem(m.zmm[in.a], 2, 0)
         IN  IF in.e = 1 /\ x >= Base
             THEN SetGpr(Touch(m, {}), in.r, Base - 1, 0)
             ELSE SetGpr(Touch(m, {}), in.r, x % Base, x \div Base)

\* do_convert: whole registers; the narrower side gives the count, and a
\* narrowed result leaves the upper half zero.
DoConvert(in, m) ==
    LET a == SourceBytes(in, in.a, "reg", m)
        n == IF in.op = "cvt" THEN Dwords ELSE Half
        dw == IF in.op = "cvtwide" THEN 2 ELSE 1
        out == CASE in.op = "cvt" -> [j \in Lanes |-> (a[j] + 1) % Base]
                 [] in.op = "cvtwide" ->
                      Vector(2, [i \in 0 .. n - 1 |-> a[i] + 1])
                 [] in.op = "cvtnarrow" ->
                      Vector(1, [i \in 0 .. n - 1 |-> (Elem(a, 2, i) + 1) % Base])
    IN  Touch(SetVec(m, in.d, [j \in Lanes |->
            IF j >= n * dw THEN 0
            ELSE IF LaneEnabled(m, in.k, j \div dw) THEN out[j]
            ELSE IF in.z THEN 0 ELSE m.zmm[in.d][j]]), {})

\* do_insertps: one dword of the xmm replaced, the named ones zeroed, and
\* everything above.
DoInsertps(in, m) ==
    LET b == SourceBytes(in, in.b, in.src, m)
        from == IF in.src = "mem" THEN 0 ELSE (in.imm \div 8) % 2
        to == (in.imm \div 4) % 2
    IN  Touch(SetVec(m, in.d, [j \in Lanes |->
            IF j >= Group \/ j \in Bits(in.imm % 4, Group) THEN 0
            ELSE IF j = to THEN b[from] ELSE m.zmm[in.a][j]]), {})

\* do_comis: lane 0 compared into the flags.
DoComis(in, m) ==
    LET x == Elem(m.zmm[in.a], in.e, 0)
        y == Elem(SourceBytes(in, in.b, in.src, m), in.e, 0)
    IN  Touch([m EXCEPT !.zf = x = y, !.cf = x < y], {})

\* step and step_uncommon: which family performs an instruction.
Perform(in, m) ==
    CASE in.f = "lane" -> Step(in, m)
      [] in.f = "move" -> DoMove(in, m)
      [] in.f = "compare" -> DoCompare(in, m)
      [] in.f = "ternlog" -> DoTernlog(in, m)
      [] in.f = "blend" -> DoBlend(in, m)
      [] in.f = "shift" -> DoShift(in, m)
      [] in.f = "permute" -> DoPermute(in, m)
      [] in.f = "muleven" -> DoMulEven(in, m)
      [] in.f = "lanemove" -> DoLaneMove(in, m)
      [] in.f = "piece" -> DoExtractInsert(in, m)
      [] in.f = "scalar" -> DoScalar(in, m)
      [] in.f = "extend" -> DoExtend(in, m)
      [] in.f = "gather" -> DoGatherScatter(in, m)
      [] in.f = "mask" -> DoMask(in, m)
      [] in.f = "movdq" -> DoMovdq(in, m)
      [] in.f = "comis" -> DoComis(in, m)
      [] in.f = "scalarcvt" -> DoScalarCvt(in, m)
      [] in.f = "convert" -> DoConvert(in, m)
      [] in.f = "insertps" -> DoInsertps(in, m)
=============================================================================
