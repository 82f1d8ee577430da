-------------------------------- MODULE Evex --------------------------------
(***************************************************************************)
(* What AVX-512 defines for the instructions that the translator of        *)
(* avx512-xlate rewrites: the reference the rewritten code is compared     *)
(* with.  Vectors have their sixteen 32-bit lanes, masks their bits, and   *)
(* the three vector lengths are those of the processor; only the lanes are *)
(* narrowed, to Bits bits each.                                            *)
(***************************************************************************)
EXTENDS Integers, FiniteSets

Bits == 8
Words == 2^Bits
Lane == 0..15
Vec == [Lane -> 0..(Words - 1)]

Bit(v, n) == (v \div 2^n) % 2
Signed(v) == IF v < Words \div 2 THEN v ELSE v - Words

\* The bits of a lane for which P holds, as a number.
Number(P(_)) ==
    LET sum[n \in 0..Bits] ==
            IF n = 0 THEN 0
            ELSE sum[n - 1] + (IF P(n - 1) THEN 2^(n - 1) ELSE 0)
    IN  sum[Bits]

\* A two-input boolean function from its table, at index 2b + c.
Bool2(table, b, c) ==
    Number(LAMBDA n : Bit(table, 2 * Bit(b, n) + Bit(c, n)) = 1)

\* A three-input one, at index 4a + 2b + c.
Bool3(table, a, b, c) ==
    Number(LAMBDA n :
        Bit(table, 4 * Bit(a, n) + 2 * Bit(b, n) + Bit(c, n)) = 1)

\* The two-bit fields of an immediate.
Fields(imm) == [j \in 0..3 |-> (imm \div 4^j) % 4]

\* Lanes and elements of a vector length (128, 256, 512 bits: 0, 1, 2).
Lanes(ll) == 0..(4 * 2^ll - 1)
Elements(ll, w) == 0..((4 * 2^ll) \div (1 + w) - 1)

\* Qword e of a vector, unsigned and signed.
QWord(v, e) == v[2 * e] + Words * v[2 * e + 1]
SQWord(v, e) == v[2 * e] + Words * Signed(v[2 * e + 1])

\* A not-a-number among the lanes taken as floats; the rest are ordered.
NaN == Words - 1

Compare(pred, a, b) ==
    CASE pred = "eq" -> a = b
      [] pred = "lt" -> a < b
      [] pred = "le" -> a <= b
      [] pred = "false" -> FALSE
      [] pred = "neq" -> a # b
      [] pred = "nlt" -> a >= b
      [] pred = "nle" -> a > b
      [] pred = "true" -> TRUE

FloatCompare(pred, a, b) ==
    LET unord == a = NaN \/ b = NaN
    IN  CASE pred = "eq_uq" -> unord \/ a = b
          [] pred = "nge" -> unord \/ a < b
          [] pred = "neq_oq" -> ~unord /\ a # b
          [] pred = "ge" -> ~unord /\ a >= b
          [] pred = "false" -> FALSE
          [] pred = "true" -> TRUE

-----------------------------------------------------------------------------
(***************************************************************************)
(* An instruction: op, vector length ll, element width w (1: qwords), mask *)
(* register aaa (0: none), zeroing z, destination d, first source s1,      *)
(* second source s2 or memory, embedded broadcast bc, immediate imm.  A    *)
(* state has z (vectors), k (masks), gpr, flags and mem.                   *)
(***************************************************************************)
S1(i, s) == s.z[i.s1]
S2(i, s) ==
    IF ~i.mem THEN s.z[i.s2]
    ELSE IF i.bc THEN [l \in Lane |-> s.mem[l % (1 + i.w)]]
    ELSE s.mem

\* The elements the mask leaves in, and the lanes they cover.
In(i, s) == {e \in Elements(i.ll, i.w) : i.aaa = 0 \/ e \in s.k[i.aaa]}
InLanes(i, s) == {l \in Lane : l \div (1 + i.w) \in In(i, s)}

\* Lane l of the result of each operation.
LaneOf(i, s, l) ==
    LET a == S1(i, s)
        b == S2(i, s)
        q == l \div 2
        block == 4 * (l \div 4)
        wide(v) == IF l % 2 = 0 THEN v % Words ELSE (v \div Words) % Words
        half == 4 * 2^i.x
    IN  CASE i.op \in {"movu", "mova"} -> b[l]
          [] i.op = "add" -> (a[l] + b[l]) % Words
          [] i.op = "ddup" -> b[block + (l % 2)]
          [] i.op = "ternlog" -> Bool3(i.imm, s.z[i.d][l], a[l], b[l])
          [] i.op = "addq" -> wide(QWord(a, q) + QWord(b, q))
          [] i.op = "subq" ->
                wide(QWord(a, q) - QWord(b, q) + Words * Words)
          [] i.op = "maxsq" ->
                IF SQWord(a, q) > SQWord(b, q) THEN a[l] ELSE b[l]
          [] i.op = "minuq" ->
                IF QWord(a, q) < QWord(b, q) THEN a[l] ELSE b[l]
          [] i.op = "sxdq" ->
                IF l % 2 = 0 THEN b[q]
                ELSE IF Signed(b[q]) < 0 THEN Words - 1 ELSE 0
          [] i.op = "srlq" ->
                IF i.imm >= 2 * Bits THEN 0 ELSE wide(QWord(b, q) \div 2^i.imm)
          [] i.op = "sllq" ->
                IF i.imm >= 2 * Bits THEN 0 ELSE wide(QWord(b, q) * 2^i.imm)
          [] i.op = "absd" -> (IF Signed(b[l]) < 0 THEN Words - b[l]
                               ELSE b[l]) % Words
          [] i.op = "bcastr" -> b[l % (1 + i.w)]
          [] i.op = "unpckl" ->
                (IF l % 2 = 0 THEN a ELSE b)[block + ((l % 4) \div 2)]
          [] i.op = "shufps" ->
                (IF l % 4 < 2 THEN a ELSE b)[block + Fields(i.imm)[l % 4]]
          [] i.op = "shufblk" ->
                IF i.ll = 2
                THEN (IF l < 8 THEN a ELSE b)
                         [(4 * Fields(i.imm)[l \div 4]) + (l % 4)]
                ELSE (IF l < 4 THEN a ELSE b)
                         [(4 * Bit(i.imm, l \div 4)) + (l % 4)]
          [] i.op = "alignq" ->
                LET n == 4 * 2^i.ll
                    at == l + 2 * (i.imm % (n \div 2))
                IN  IF at < n THEN b[at] ELSE a[at - n]
          [] i.op = "alignr" ->
                LET at == (l % 4) + i.imm
                IN  IF at < 4 THEN b[block + at]
                    ELSE IF at < 8 THEN a[block + at - 4] ELSE 0
          [] i.op = "insert" ->
                IF l \div half = i.imm THEN b[l % half] ELSE a[l]
          [] i.op = "extract" -> b[i.imm * half + l]

\* A register under the mask: merged, or zeroed, and zero above the length.
Masked(i, s, old) ==
    [l \in Lane |->
        IF l \in InLanes(i, s) THEN LaneOf(i, s, l)
        ELSE IF l \in Lanes(i.ll) /\ ~(i.z /\ i.aaa # 0) THEN old[l]
        ELSE 0]

\* The low lane (w: the low qword) of a scalar form.
Low(i) == 0..i.w
LowIn(i, s) == i.aaa = 0 \/ 0 \in s.k[i.aaa]

\* What a compare puts in its mask register.
Result(i, s) ==
    {e \in In(i, s) :
        CASE i.op = "cmpd" -> Compare(i.pred, Signed(S1(i, s)[e]),
                                      Signed(S2(i, s)[e]))
          [] i.op = "cmpq" -> Compare(i.pred, SQWord(S1(i, s), e),
                                      SQWord(S2(i, s), e))
          [] i.op = "cmpuq" -> Compare(i.pred, QWord(S1(i, s), e),
                                       QWord(S2(i, s), e))
          [] i.op = "cmpps" -> FloatCompare(i.pred, S1(i, s)[e], S2(i, s)[e])
          [] i.op = "testnmq" ->
                \A l \in {2 * e, 2 * e + 1} :
                    Bool2(8, S1(i, s)[l], S2(i, s)[l]) = 0}

MaskOp(i, s) ==
    LET a == s.k[i.s1]
        b == s.k[i.s2]
    IN  CASE i.op = "kand" -> a \cap b
          [] i.op = "kandn" -> b \ a
          [] i.op = "kxor" -> (a \cup b) \ (a \cap b)
          [] i.op = "kunpck" ->
                {n \in 0..7 : n \in b} \cup {n \in 8..15 : n - 8 \in a}
          [] i.op = "kshiftl" -> {n \in 0..15 : n - i.imm \in a}

\* The state an instruction leaves.
Reference(i, s) ==
    CASE i.op \in {"cmpd", "cmpq", "cmpuq", "cmpps", "testnmq"} ->
            [s EXCEPT !.k[i.d] = Result(i, s)]
      [] i.op \in {"kand", "kandn", "kxor", "kunpck", "kshiftl"} ->
            [s EXCEPT !.k[i.d] = MaskOp(i, s)]
      [] i.op = "kstore" ->
            [s EXCEPT !.mem[0] = Number(LAMBDA n : n \in s.k[i.s1])]
      [] i.op \in {"store", "storeu"} ->
            [s EXCEPT !.mem = [l \in Lane |-> IF l \in InLanes(i, s)
                                              THEN s.z[i.d][l] ELSE @[l]]]
      [] i.op = "extract" /\ i.mem ->
            [s EXCEPT !.mem = [l \in Lane |->
                IF l \in InLanes(i, s) THEN s.z[i.d][i.imm * 4 * 2^i.x + l]
                ELSE @[l]]]
      [] i.op = "loads" ->
            [s EXCEPT !.z[i.d] = [l \in Lane |->
                IF l \notin Low(i) THEN 0
                ELSE IF LowIn(i, s) THEN s.mem[l] ELSE @[l]]]
      [] i.op = "stores" ->
            [s EXCEPT !.mem = [l \in Lane |->
                IF l \in Low(i) /\ LowIn(i, s) THEN s.z[i.d][l] ELSE @[l]]]
      [] i.op = "movs" ->
            [s EXCEPT !.z[i.d] = [l \in Lane |->
                IF l \in 4..15 THEN 0
                ELSE IF l \notin Low(i) THEN s.z[i.s1][l]
                ELSE IF LowIn(i, s) THEN s.z[i.s2][l] ELSE @[l]]]
      [] i.op = "gather" ->
            [s EXCEPT !.z[i.d] = [l \in Lane |->
                          IF l \in s.k[i.aaa]
                          THEN s.mem[s.z[i.s1][l] % 16] ELSE @[l]],
                      !.k[i.aaa] = {}]
      [] i.op = "scatter" ->
            [s EXCEPT !.mem = [l \in Lane |->
                          LET at == {m \in s.k[i.aaa] : s.z[i.s1][m] % 16 = l}
                          IN  IF at = {} THEN @[l]
                              ELSE s.z[i.d][CHOOSE m \in at :
                                               \A n \in at : n <= m]],
                      !.k[i.aaa] = {}]
      [] OTHER ->
            [s EXCEPT !.z[i.d] = Masked(i, s, @)]
=============================================================================
