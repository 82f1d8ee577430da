-------------------------------- MODULE Thunk --------------------------------
(***************************************************************************)
(* A translated instruction running on the card: the sequence that Xlate   *)
(* puts in its place, one card instruction at a time, next to another      *)
(* thread of the program that shares the memory, and what AVX-512 would    *)
(* have left (Evex).                                                       *)
(*                                                                         *)
(* A mask is the set of its bits.  rax and rcx, which sequences use for    *)
(* masks, are sets of bits too; an address is good while the register it   *)
(* is based on still holds what the program put there.                     *)
(***************************************************************************)
EXTENDS Xlate

CONSTANTS
    Insns,          \* the instructions considered
    Seeds,          \* which contents the vectors have
    Masks,          \* the values of the write mask
    OtherLanes,     \* the lanes another thread may store to
    RaceMasked      \* other threads store beside masked stores as well

VARIABLES
    insn,       \* the instruction the program has at the site
    seq,        \* the card instructions it became
    ip,         \* the next of them
    card,       \* the card's registers, scratch area and memory
    want,       \* the state AVX-512 would have left
    others      \* the lanes of memory other threads have stored to

vars == <<insn, seq, ip, card, want, others>>

Gprs == {"rax", "rcx", "rdi"}
Pointer == {30}     \* the value of the register a memory operand is based on
Foreign == 99       \* what another thread stores

\* What the program's vectors and memory (register 20) hold.
Contents(seed, r) ==
    [l \in Lane |->
        IF seed = 1 THEN (r * 59 + l * 43 + 5) % Words
        ELSE <<0, 255, 128, 1, 255, 127>>
                 [((r * ((l \div 3) + 1) + l) % 6) + 1]]

Start(i, seed, mask) ==
    [z |-> [r \in ZRegs |-> Contents(seed, r)],
     k |-> [n \in 0..7 |-> IF n = i.aaa /\ n # 0 THEN mask
                           ELSE {n, n + 3, 2 * n}],
     gpr |-> [g \in Gprs |-> IF g = i.base THEN Pointer
                             ELSE IF g = "rax" THEN {3, 17} ELSE {1, 4, 20}],
     flags |-> {0, 2},
     mem |-> Contents(seed, 20),
     fs |-> [s \in {"S_RAX", "S_RCX", "S_K", "S_FLAGS", "S_XFER", "S_XFER8"}
                |-> {}],
     zmm |-> [s \in 0..5 |-> [l \in Lane |-> 0]],
     wild |-> FALSE,
     touched |-> {}]

-----------------------------------------------------------------------------
(***************************************************************************)
(* The card's instructions (external: the card's instruction set).         *)
(***************************************************************************)
Enabled(c, o) ==
    {l \in Lane : o.k = 0 \/ l \div (1 + o.w) \in c.k[o.k]}

\* The position of lane l among the enabled ones.
Rank(S, l) == Cardinality({m \in S : m < l})

Operand2(c, o) ==
    CASE o.s2.t = "reg" -> c.z[o.s2.n]
      [] o.s2.t = "const" -> o.s2.n
      [] o.s2.t = "mem" -> c.mem
      [] o.s2.t = "one" -> [l \in Lane |-> c.mem[l % (1 + o.w)]]

VectorLane(c, o, l) ==
    LET a == c.z[o.s1]
        b == Operand2(c, o)
        block == 4 * (l \div 4)
    IN  CASE o.op = "mov" -> b[l]
          [] o.op = "zero" -> 0
          [] o.op = "add" -> (a[l] + b[l]) % Words
          [] o.op = "sub" -> (a[l] - b[l]) % Words
          [] o.op = "bool" -> Bool2(o.x, a[l], b[l])
          [] o.op = "pshufd" -> b[block + o.x[l % 4]]
          [] o.op = "permblk" -> b[4 * o.x[l \div 4] + (l % 4)]
          [] o.op = "permd" -> b[a[l] % 16]
          [] o.op = "alignd" ->
                IF l + o.x < 16 THEN b[l + o.x] ELSE a[l + o.x - 16]
          [] o.op = "srl" -> b[l] \div 2^o.x
          [] o.op = "sra" -> (Signed(b[l]) \div 2^o.x) % Words
          [] o.op = "sll" -> (b[l] * 2^o.x) % Words
          [] o.op = "bcast" -> c.mem[l % (1 + o.w)]
          [] o.op = "block" -> c.mem[l % o.x]
          [] o.op = "load" -> c.mem[Rank(Enabled(c, o), l)]
VectorOps == {"mov", "zero", "add", "sub", "bool", "pshufd", "permblk",
              "permd", "alignd", "srl", "sra", "sll", "bcast", "block",
              "load"}

CardCompare(x, a, b) ==
    LET unord == x.kind = "f" /\ (a = NaN \/ b = NaN)
        p == IF x.kind = "s" THEN Signed(a) ELSE a
        q == IF x.kind = "s" THEN Signed(b) ELSE b
    IN  IF x.pred = "unord" THEN unord
        ELSE IF unord THEN x.pred \in {"neq", "nlt", "nle"}
        ELSE Compare(x.pred, p, q)

MaskResult(c, o) ==
    {l \in Enabled(c, o) :
        IF o.op = "testm"
        THEN Bool2(8, c.z[o.s1][l], c.z[o.s2.n][l]) # 0
        ELSE CardCompare(o.x, c.z[o.s1][l], Operand2(c, o)[l])}

KResult(f, d, s) ==
    CASE f = "and" -> d \cap s
      [] f = "andn" -> s \ d
      [] f = "or" -> d \cup s
      [] f = "xor" -> (d \cup s) \ (d \cap s)
      [] f = "not" -> Lane \ s
      [] f = "mov" -> s

\* rax and rcx have 32 bits here; shifts, and, or write the flags.
Integer(c, o) ==
    LET v == c.gpr[o.d]
        r == CASE o.s1 = "imm" -> o.x
               [] o.s1 = "mov" -> c.gpr[o.x]
               [] o.s1 \in {"and", "movzx"} -> v \cap o.x
               [] o.s1 = "andr" -> v \cap c.gpr[o.x]
               [] o.s1 = "or" -> v \cup c.gpr[o.x]
               [] o.s1 = "not" -> 0..31 \ v
               [] o.s1 = "shl" -> {n \in 0..31 : n - o.x \in v}
               [] o.s1 = "shr" -> {n \in 0..31 : n + o.x \in v}
    IN  [c EXCEPT !.gpr[o.d] = r,
                  !.flags = IF o.s1 \in {"imm", "mov", "movzx", "not"} THEN @
                            ELSE IF r = {} THEN {6} ELSE {7}]

\* The lanes of memory an instruction reads or writes.
Touches(c, o) ==
    CASE o.op \in {"load", "store"} ->
            {n \in Lane : n < Cardinality(Enabled(c, o))}
      [] o.op = "bcast" \/ o.s2.t = "one" -> 0..o.w
      [] o.op = "block" -> 0..(o.x - 1)
      [] o.op = "storer" -> {0}
      [] OTHER -> Lane

Execute(c, o) ==
    CASE o.op \in VectorOps ->
            [c EXCEPT !.z[o.d] = [l \in Lane |->
                IF l \in Enabled(c, o) THEN VectorLane(c, o, l) ELSE @[l]]]
      [] o.op = "store" ->
            [c EXCEPT !.mem = [n \in Lane |->
                LET at == {l \in Enabled(c, o) : Rank(Enabled(c, o), l) = n}
                IN  IF at = {} THEN @[n]
                    ELSE c.z[o.d][CHOOSE l \in at : TRUE]]]
      [] o.op = "storea" ->
            [c EXCEPT !.mem = [l \in Lane |->
                IF l \in Enabled(c, o) THEN c.z[o.d][l] ELSE @[l]]]
      [] o.op = "storer" ->
            [c EXCEPT !.mem[0] = Number(LAMBDA n : n \in c.gpr[o.d])]
      [] o.op \in {"cmp", "testm"} ->
            [c EXCEPT !.k[o.d] = MaskResult(c, o)]
      [] o.op = "kop" ->
            [c EXCEPT !.k[o.d] = KResult(o.s1, @, c.k[o.s2.n])]
      [] o.op = "kfromr" -> [c EXCEPT !.k[o.d] = c.gpr[o.s1] \cap Lane]
      [] o.op = "rfromk" -> [c EXCEPT !.gpr[o.d] = c.k[o.s1]]
      [] o.op = "alu" -> Integer(c, o)
      [] o.op = "tofs" -> [c EXCEPT !.fs[o.s2.n] = c.gpr[o.d]]
      [] o.op = "fromfs" -> [c EXCEPT !.gpr[o.d] = c.fs[o.s2.n]]
      [] o.op = "orfs" ->
            [c EXCEPT !.gpr[o.d] = @ \cup c.fs[o.s2.n], !.flags = {7}]
      [] o.op = "lahf" -> [c EXCEPT !.gpr["rax"] = c.flags]
      [] o.op = "sahf" -> [c EXCEPT !.flags = c.gpr["rax"]]
      [] o.op = "spill" -> [c EXCEPT !.zmm[o.s2.n] = c.z[o.d]]
      [] o.op = "fill" -> [c EXCEPT !.z[o.d] = c.zmm[o.s2.n]]

\* With an address: wild when its register has been overwritten.
Run(c, o) ==
    IF o.s2.t \notin {"mem", "one"} THEN Execute(c, o)
    ELSE IF c.gpr[o.s2.n] # Pointer THEN [c EXCEPT !.wild = TRUE]
    ELSE [Execute(c, o) EXCEPT !.touched = @ \cup Touches(c, o)]

-----------------------------------------------------------------------------
Init ==
    \E i \in Insns, seed \in Seeds, mask \in Masks :
        LET start == Start(i, seed, mask)
        IN  /\ i.aaa = 0 => mask = {0}
            /\ insn = i
            /\ seq = Rewrite(i)
            /\ ip = 1
            /\ card = start
            /\ want = Reference(i, start)
            /\ others = {}

Running == ip <= Len(seq)

\* The next card instruction.
Step ==
    /\ Running
    /\ seq[ip].op \notin {"gather", "scatter", "jknz"}
    /\ card' = Run(card, seq[ip])
    /\ ip' = ip + 1
    /\ UNCHANGED <<insn, seq, want, others>>

\* A gather or scatter does some of the elements left, those of one address
\* from the lowest lane up, and clears their bits.
SomeElements ==
    /\ Running
    /\ seq[ip].op \in {"gather", "scatter"}
    /\ LET o == seq[ip]
           at(l) == card.z[o.s1][l] % 16
       IN  \E S \in SUBSET card.k[o.k] :
               /\ card.k[o.k] # {} => S # {}
               /\ \A l \in S, m \in card.k[o.k] \ S : at(l) = at(m) => l < m
               /\ card' =
                    IF o.op = "gather"
                    THEN [card EXCEPT
                            !.z[o.d] = [l \in Lane |->
                                IF l \in S THEN card.mem[at(l)] ELSE @[l]],
                            !.k[o.k] = @ \ S]
                    ELSE [card EXCEPT
                            !.mem = [n \in Lane |->
                                LET here == {l \in S : at(l) = n}
                                IN  IF here = {} THEN @[n]
                                    ELSE card.z[o.d][Highest(here)]],
                            !.k[o.k] = @ \ S]
    /\ ip' = ip + 1
    /\ UNCHANGED <<insn, seq, want, others>>

\* The jump back while the mask is not empty.
Again ==
    /\ Running
    /\ seq[ip].op = "jknz"
    /\ ip' = IF card.k[seq[ip].k] # {} THEN seq[ip].x ELSE ip + 1
    /\ UNCHANGED <<insn, seq, card, want, others>>

\* The lanes that are another thread's while the instruction stores.
Free ==
    CASE insn.op = "stores" -> Lane \ Low(insn)
      [] insn.op = "kstore" -> Lane \ {0}
      [] insn.op \in {"store", "storeu", "extract"} /\ insn.mem ->
            IF RaceMasked THEN Lane \ InLanes(insn, want)
            ELSE Lane \ Lanes(insn.ll)
      [] OTHER -> {}

OtherStore ==
    /\ Running
    /\ others = {}
    /\ \E l \in Free \cap OtherLanes :
           /\ card' = [card EXCEPT !.mem[l] = Foreign]
           /\ others' = {l}
    /\ UNCHANGED <<insn, seq, ip, want>>

\* The program goes on after the site.
Returned == ~Running /\ UNCHANGED vars

Next == Step \/ SomeElements \/ Again \/ OtherStore \/ Returned

Spec == Init /\ [][Next]_vars /\ WF_vars(Step \/ SomeElements \/ Again)

-----------------------------------------------------------------------------
TypeOK ==
    /\ ip \in 1..(Len(seq) + 1)
    /\ card.z \in [ZRegs -> Vec]
    /\ card.k \in [0..7 -> SUBSET Lane]
    /\ card.gpr \in [Gprs -> SUBSET (0..31)]
    /\ card.mem \in Vec
    /\ card.zmm \in [0..5 -> Vec]
    /\ others \subseteq Lane

\* When the sequence is over, every register, every mask, the general
\* registers, the flags and memory are what AVX-512 defines, another
\* thread's stores included: the temporaries, the scratch mask, rax, rcx
\* and the flags are back (Em::finish), the unselected and the upper lanes
\* are right (commit), and no address was computed from an overwritten
\* register.
AsProgrammed ==
    ~Running =>
        /\ ~card.wild
        /\ card.z = want.z
        /\ card.k = want.k
        /\ card.gpr = want.gpr
        /\ card.flags = want.flags
        /\ card.mem = [l \in Lane |-> IF l \in others THEN Foreign
                                      ELSE want.mem[l]]

\* The lanes of the memory operand.
OperandLanes ==
    CASE insn.op \in {"loads", "stores"} -> Low(insn)
      [] insn.op \in {"insert", "extract"} -> 0..(4 * 2^insn.x - 1)
      [] insn.op = "sxdq" -> VlLanes(insn.ll, 1)
      [] insn.op = "kstore" -> {0}
      [] insn.bc -> 0..insn.w
      [] OTHER -> Lanes(insn.ll)

\* A sequence reads and writes memory only inside the operand of the
\* instruction it stands for: what lies behind may be another mapping or
\* none (load_unaligned and store_unaligned carry the vector length's lanes
\* only).
WithinOperand == card.touched \subseteq OperandLanes

\* Every sequence comes to its end, however few elements the card's gathers
\* and scatters complete each time (the jknzd loop of gather_scatter).
Returns == <>~Running
=============================================================================
