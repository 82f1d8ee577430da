------------------------------- MODULE Avx512 -------------------------------
(****************************************************************************)
(* What an AVX-512 processor does for the instructions of Emulate, stated   *)
(* once for all of them: an instruction has a value for every element of    *)
(* its destination, and the destination keeps, zeroes or takes it by the    *)
(* mask and the width.  This is the reference the emulator is held to; the  *)
(* machine is Emulate's record.                                             *)
(****************************************************************************)
EXTENDS Emulate

\* An element is enabled by its bit of the mask, or by there being no mask.
On(in, m, i) == in.k = 0 \/ i \in m.k[in.k]

\* Operands, as functions of the element.
OpA(in, m, i) == Elem(m.zmm[in.a], in.e, i)
OpD(in, m, i) == Elem(m.zmm[in.d], in.e, i)
OpB(in, m, i) == CASE in.src = "reg" -> Elem(m.zmm[in.b], in.e, i)
                   [] in.src = "mem" -> Elem(m.mem, in.e, i)
                   [] in.src = "bcast" -> Elem(m.mem, in.e, 0)
                   [] in.src = "gpr" -> IF in.e = 1 THEN m.gpr[in.b][1]
                        ELSE m.gpr[in.b][1] + Base * m.gpr[in.b][2]

\* The elements an instruction works on.
Count(in) == in.w \div in.e

\* The value of element i of the destination, were it enabled.
Value(in, m, i) ==
    LET a == OpA(in, m, i)
        b == OpB(in, m, i)
        d == OpD(in, m, i)
        n == Count(in)
        pick(x) == IF x < n THEN OpD(in, m, x) ELSE OpB(in, m, x - n)
        pickA(x) == IF x < n THEN OpA(in, m, x) ELSE OpB(in, m, x - n)
        cat(x) == IF x < n THEN OpB(in, m, x)
                  ELSE IF x < 2 * n THEN OpA(in, m, x - n) ELSE 0
        g == i \div Group
        sel == (in.imm \div 4 ^ g) % 4
    IN  CASE in.op = "add" -> a + b
          [] in.op = "fma" -> a * b + d
          [] in.op = "fmaddsub" -> IF i % 2 = 1 THEN a * b + d ELSE a * b - d
          [] in.op = "bcast" -> OpB(in, m, 0)
          [] in.op = "load" -> Elem(m.mem, in.e, i)
          [] in.op = "move" -> a
          [] in.op = "cvt" -> a + 1
          [] in.op = "ternlog" -> IF in.e = 1 THEN d + 2 * a + b ELSE 0
          [] in.op = "shift" ->
               LET c == IF in.src = "mem" THEN m.mem[0] + Base * m.mem[1]
                        ELSE m.zmm[in.b][0] + Base * m.zmm[in.b][1]
               IN  IF c > 4 * in.e - 1 THEN 0 ELSE a * 2 ^ c
          [] in.op = "shiftv" -> IF b > 4 * in.e - 1 THEN 0 ELSE a * 2 ^ b
          [] in.op = "perm" -> OpB(in, m, a % n)
          [] in.op = "permt2" -> pick(a % (2 * n))
          [] in.op = "permi2" -> pickA(d % (2 * n))
          [] in.op = "unpckl" -> IF i % 2 = 0 THEN a ELSE OpB(in, m, i - 1)
          [] in.op = "unpckh" -> IF i % 2 = 0 THEN OpA(in, m, i + 1) ELSE b
          [] in.op = "align" -> cat(i + (in.imm % (2 * n)))
          [] in.op = "shufgroup" ->
               IF g < 2 THEN OpA(in, m, sel * Group + (i % Group))
                        ELSE OpB(in, m, sel * Group + (i % Group))
          [] in.op = "muleven" ->
               (IF in.src = "reg" THEN m.zmm[in.b] ELSE m.mem)[2 * i]
                 * m.zmm[in.a][2 * i]

\* The destination: an element is taken, zeroed or kept, and what is above
\* the instruction's width is zero.
Destination(in, m) ==
    [j \in Lanes |->
        LET i == j \div in.e
        IN  IF j >= in.w THEN 0
            ELSE IF On(in, m, i)
                 THEN Part(in.e, j, Value(in, m, i) % (Base ^ in.e))
            ELSE IF in.z THEN 0 ELSE m.zmm[in.d][j]]

\* The elements of memory it reads: those of its enabled lanes.
Reads(in, m) ==
    CASE in.src = "bcast" -> 0 .. in.e - 1
      [] in.src = "mem" \/ in.op = "load" ->
           {j \in 0 .. in.w - 1 : On(in, m, j \div in.e)}
      [] OTHER -> {}

Vec(m, d, v, t) == [m EXCEPT !.zmm[d] = v, !.touch = t]
Store(m, s, v(_)) == [m EXCEPT !.touch = s,
                        !.mem = [j \in Mem |-> IF j \in s THEN v(j) ELSE @[j]]]
MaskReg(m, d, s) == [m EXCEPT !.k[d] = s, !.touch = {}]

\* What the processor does.
Processor(in, m) ==
  LET low(j, n) == j < n
      scalar == IF in.op = "sqrts" THEN OpB(in, m, 0) + 1
                ELSE OpA(in, m, 0) + OpB(in, m, 0)
      size == in.w
  IN
  CASE in.op = "compare" ->
         [m EXCEPT !.k[in.dk] = {i \in 0 .. Count(in) - 1 :
                       On(in, m, i) /\ OpA(in, m, i) <= OpB(in, m, i)},
                   !.touch = Reads(in, m)]
    [] in.op = "blend" ->
         Vec(m, in.d, [j \in Lanes |->
               IF j >= in.w THEN 0
               ELSE IF On(in, m, j \div in.e)
                    THEN Part(in.e, j, OpB(in, m, j \div in.e))
               ELSE IF in.z THEN 0 ELSE m.zmm[in.a][j]], Reads(in, m))
    [] in.op = "store" ->
         Store(m, {j \in 0 .. in.w - 1 : On(in, m, j \div in.e)},
               LAMBDA j : m.zmm[in.a][j])
    [] in.op = "insert" ->
         Vec(m, in.d, [j \in Lanes |->
               IF j >= in.w THEN 0
               ELSE IF j \div in.n = in.imm % (in.w \div in.n)
                    THEN (IF in.src = "mem" THEN m.mem ELSE m.zmm[in.b])
                            [j % in.n]
               ELSE m.zmm[in.a][j]],
             IF in.src = "mem" THEN 0 .. in.n - 1 ELSE {})
    [] in.op = "extract" /\ in.src = "reg" ->
         Vec(m, in.d, [j \in Lanes |-> IF j < in.n
               THEN m.zmm[in.a][in.imm * in.n + j] ELSE 0], {})
    [] in.op = "extract" /\ in.src = "mem" ->
         Store(m, 0 .. in.n - 1, LAMBDA j : m.zmm[in.a][in.imm * in.n + j])
    [] in.op \in {"adds", "sqrts"} ->
         Vec(m, in.d, [j \in Lanes |->
               IF j < in.e THEN Part(in.e, j, scalar % (Base ^ in.e))
               ELSE IF j < Group THEN m.zmm[in.a][j] ELSE 0],
             IF in.src = "mem" THEN 0 .. in.e - 1 ELSE {})
    [] in.op = "loads" ->
         Vec(m, in.d, [j \in Lanes |-> IF j < in.e THEN m.mem[j] ELSE 0],
             0 .. in.e - 1)
    [] in.op = "stores" ->
         Store(m, 0 .. in.e - 1, LAMBDA j : m.zmm[in.a][j])
    [] in.op = "widen" ->
         Vec(m, in.d, [j \in Lanes |->
               IF On(in, m, j \div 2)
               THEN IF j % 2 = 1 THEN 0
                    ELSE (IF in.src = "mem" THEN m.mem ELSE m.zmm[in.a])
                            [j \div 2]
               ELSE IF in.z THEN 0 ELSE m.zmm[in.d][j]],
             IF in.src = "mem" THEN 0 .. Half - 1 ELSE {})
    [] in.op = "narrow" /\ in.src = "reg" ->
         Vec(m, in.d, [j \in Lanes |->
               IF j >= Half THEN 0
               ELSE IF On(in, m, j) THEN m.zmm[in.a][2 * j]
               ELSE IF in.z THEN 0 ELSE m.zmm[in.d][j]], {})
    [] in.op = "narrow" /\ in.src = "mem" ->
         Store(m, {j \in 0 .. Half - 1 : On(in, m, j)},
               LAMBDA j : m.zmm[in.a][2 * j])
    [] in.op = "gather" ->
         [Vec(m, in.d, [i \in Lanes |-> IF On(in, m, i)
                THEN m.mem[m.zmm[in.b][i]] ELSE m.zmm[in.d][i]],
              {m.zmm[in.b][i] : i \in m.k[in.k]}) EXCEPT !.k[in.k] = {}]
    [] in.op = "scatter" ->
         [Store(m, {m.zmm[in.b][i] : i \in m.k[in.k]},
                LAMBDA j : m.zmm[in.d][Max({i \in m.k[in.k] :
                                              m.zmm[in.b][i] = j})])
              EXCEPT !.k[in.k] = {}]
    [] in.op = "kmovk" ->
         MaskReg(m, in.d, {i \in 0 .. size - 1 :
             (m.gpr[in.r][1 + (i \div 4)] \div 2 ^ (i % 4)) % 2 = 1})
    [] in.op = "kmovr" ->
         [m EXCEPT !.touch = {}, !.gpr[in.r] =
             <<Number({i \in m.k[in.a] : i < 4 /\ i < size}),
               Number({i - 4 : i \in {x \in m.k[in.a] : x > 3 /\ x < size}})>>]
    [] in.op = "kandn" ->
         MaskReg(m, in.d, {i \in 0 .. size - 1 :
                              i \notin m.k[in.a] /\ i \in m.k[in.b]})
    [] in.op = "kshiftl" ->
         MaskReg(m, in.d, {i \in in.imm .. size - 1 :
                              i - in.imm \in m.k[in.a]})
    [] in.op = "kortest" ->
         [m EXCEPT !.touch = {},
             !.zf = \A i \in 0 .. size - 1 : i \notin m.k[in.a] \cup m.k[in.b],
             !.cf = \A i \in 0 .. size - 1 : i \in m.k[in.a] \cup m.k[in.b]]
    [] in.op = "tovec" ->
         Vec(m, in.d, [j \in Lanes |-> IF j < in.e
                                       THEN m.gpr[in.r][j + 1] ELSE 0], {})
    [] in.op = "togpr" ->
         [m EXCEPT !.touch = {}, !.gpr[in.r] =
             <<m.zmm[in.a][0], IF in.e = 2 THEN m.zmm[in.a][1] ELSE 0>>]
    [] in.op = "fromgpr" ->
         Vec(m, in.d, [j \in Lanes |-> IF j < in.e THEN m.gpr[in.r][j + 1]
                ELSE IF j < Group THEN m.zmm[in.a][j] ELSE 0], {})
    [] in.op = "tosi" ->
         [m EXCEPT !.touch = {}, !.gpr[in.r] =
             IF in.e = 2 THEN <<m.zmm[in.a][0], m.zmm[in.a][1]>>
             ELSE IF m.zmm[in.a][1] = 0 THEN <<m.zmm[in.a][0], 0>>
             ELSE <<Base - 1, 0>>]
    [] in.op = "cvtwide" ->
         Vec(m, in.d, [j \in Lanes |->
               LET x == m.zmm[in.a][j \div 2] + 1
               IN  IF ~On(in, m, j \div 2)
                   THEN IF in.z THEN 0 ELSE m.zmm[in.d][j]
                   ELSE IF j % 2 = 0 THEN x % Base ELSE x \div Base], {})
    [] in.op = "cvtnarrow" ->
         Vec(m, in.d, [j \in Lanes |->
               IF j >= Half THEN 0
               ELSE IF On(in, m, j) THEN (m.zmm[in.a][2 * j] + 1) % Base
               ELSE IF in.z THEN 0 ELSE m.zmm[in.d][j]], {})
    [] in.op = "insertps" ->
         Vec(m, in.d,
             [j \in Lanes |->
               CASE j = 0 /\ in.imm % 2 = 1 -> 0
                 [] j = 1 /\ (in.imm \div 2) % 2 = 1 -> 0
                 [] j > 1 -> 0
                 [] OTHER -> IF j # (in.imm \div 4) % 2 THEN m.zmm[in.a][j]
                             ELSE IF in.src = "mem" THEN m.mem[0]
                             ELSE m.zmm[in.b][(in.imm \div 8) % 2]], {})
    [] in.op = "comis" ->
         [m EXCEPT !.touch = {}, !.zf = OpA(in, m, 0) = OpB(in, m, 0),
                   !.cf = OpA(in, m, 0) < OpB(in, m, 0)]
    [] OTHER -> Vec(m, in.d, Destination(in, m), Reads(in, m))
=============================================================================
