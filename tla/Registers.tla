------------------------------ MODULE Registers ------------------------------
(****************************************************************************)
(* One thread's AVX-512 registers on a host that has only their low halves  *)
(* (phi512/src/state.rs, frame.rs, the register exchange of handler.rs and  *)
(* the rewritten site of patch.rs).                                         *)
(*                                                                          *)
(* The low half of an aliased register is hardware (hw): AVX2 instructions  *)
(* read and write it and nothing is told.  The upper half, the registers    *)
(* above 15 and the masks are the library's (st), with what it last left in *)
(* the hardware (lastLow).  An AVX-512 instruction is performed in the      *)
(* SIGILL handler, through the signal frame, or at a rewritten site, through*)
(* the trampoline's frame.  arch is the processor the program believes in.  *)
(****************************************************************************)
EXTENDS Avx512

CONSTANTS
    Insns,          \* the families of AVX-512 instructions the program uses
    Narrow,         \* those of them it also uses on ymm registers
    Stray,          \* memory operands of masked arithmetic are used too
    MaxSteps        \* bound: instructions

Aliased == {0, 1}
Regs == Aliased \cup {16}
Low == 0 .. Half - 1

VARIABLES
    hw,         \* aliased register -> its low half
    st,         \* VState, the library's registers, as a machine of Emulate
    lastLow,    \* VState::last_low
    arch,       \* the processor the program believes in
    steps       \* instructions executed

vars == <<hw, st, lastLow, arch, steps>>

-----------------------------------------------------------------------------
(* The instructions: a representative of each form of each family.          *)

Blank == [f |-> "lane", op |-> "add", d |-> 0, a |-> 0, b |-> 0, w |-> Dwords,
          e |-> 1, k |-> 0, z |-> FALSE, src |-> "reg", imm |-> 0, n |-> 0,
          dk |-> 1, r |-> "rcx"]

\* Destination and sources: a register of the hardware, and one of the
\* library that is a source too.
Triples == {<<0, 1, 16>>, <<16, 16, 0>>}
Maskings == {<<0, FALSE>>, <<1, FALSE>>, <<1, TRUE>>}

\* The forms of a family: its operations over elements, sources, operands
\* and maskings, whole and, where the family is in Narrow, on ymm.
Forms(f, ops, es, srcs, masks) ==
    {[Blank EXCEPT !.f = f, !.op = op, !.e = e, !.src = s, !.w = w,
          !.d = t[1], !.a = t[2], !.b = t[3], !.k = mk[1], !.z = mk[2]] :
       op \in ops, e \in es, s \in srcs, t \in Triples, mk \in masks,
       w \in IF f \in Narrow THEN {Dwords, Half} ELSE {Dwords}}

Family(f) ==
    CASE f = "lane" ->
           Forms(f, {"add", "fma", "fmaddsub"}, {1, 2}, {"reg", "bcast"},
                 Maskings)
             \cup Forms(f, {"bcast"}, {1, 2}, {"reg"}, Maskings)
             \cup Forms(f, {"add"}, {2}, {"mem"},
                        IF Stray THEN Maskings ELSE {<<0, FALSE>>})
      [] f = "move" ->
           Forms(f, {"load", "store", "move"}, {1, 2}, {"reg"}, Maskings)
      [] f = "compare" ->
           Forms(f, {"compare"}, {1, 2}, {"reg", "bcast"},
                 {<<0, FALSE>>, <<1, FALSE>>})
      [] f = "ternlog" -> Forms(f, {"ternlog"}, {1}, {"reg"}, Maskings)
      [] f = "blend" ->
           Forms(f, {"blend"}, {1, 2}, {"reg"}, {<<0, FALSE>>, <<1, FALSE>>})
      [] f = "shift" ->
           Forms(f, {"shift", "shiftv"}, {1, 2}, {"reg"}, Maskings)
      [] f = "permute" ->
           Forms(f, {"perm", "permt2", "permi2"}, {1, 2}, {"reg"}, Maskings)
      [] f = "muleven" -> Forms(f, {"muleven"}, {2}, {"reg"}, Maskings)
      [] f = "lanemove" ->
           Forms(f, {"unpckl", "unpckh"}, {1}, {"reg"}, Maskings)
             \cup {[x EXCEPT !.imm = 5] :
                      x \in Forms(f, {"align"}, {1}, {"reg"}, Maskings)}
             \cup {[x EXCEPT !.imm = 27, !.w = Dwords] :
                      x \in Forms(f, {"shufgroup"}, {1}, {"reg"}, Maskings)}
      [] f = "piece" ->
           {[x EXCEPT !.n = n, !.imm = 1] : n \in {Group, Half},
              x \in Forms(f, {"extract", "insert"}, {1}, {"reg", "mem"},
                          {<<0, FALSE>>})}
      [] f = "scalar" ->
           Forms(f, {"adds", "loads", "stores"}, {1, 2}, {"reg"},
                 {<<0, FALSE>>})
      [] f = "sqrt" ->
           {[x EXCEPT !.f = "scalar"] :
              x \in Forms(f, {"sqrts"}, {1}, {"reg"}, {<<0, FALSE>>})}
      [] f = "extend" ->
           Forms(f, {"widen", "narrow"}, {1}, {"reg"}, Maskings)
             \cup Forms(f, {"narrow"}, {1}, {"mem"},
                        {<<0, FALSE>>, <<1, FALSE>>})
      [] f = "gather" ->
           {[x EXCEPT !.d = t[1], !.b = t[2]] : t \in {<<0, 1>>, <<16, 0>>},
              x \in Forms(f, {"gather", "scatter"}, {1}, {"reg"},
                          {<<1, FALSE>>})}
      [] f = "mask" ->
           {[Blank EXCEPT !.f = f, !.op = op, !.w = w, !.d = 1, !.a = a,
                !.b = 2, !.imm = 1, !.r = r] :
              op \in {"kmovk", "kmovr", "kandn", "kshiftl", "kortest"},
              w \in {Half, Dwords}, a \in {1, 2}, r \in {"rcx", "r11"}}
      [] f = "movdq" ->
           {[Blank EXCEPT !.f = f, !.op = op, !.e = e, !.d = d, !.a = 1,
                !.r = r] :
              op \in {"tovec", "togpr"}, e \in {1, 2}, d \in {0, 16},
              r \in {"rcx", "r11"}}
      [] f = "scalarcvt" ->
           {[Blank EXCEPT !.f = f, !.op = op, !.e = e, !.d = 16, !.a = a,
                !.b = a] :
              op \in {"fromgpr", "tosi"}, e \in {1, 2}, a \in {1, 16}}
      [] f = "convert" ->
           Forms(f, {"cvt", "cvtwide", "cvtnarrow"}, {1}, {"reg"}, Maskings)
      [] f = "insertps" ->
           {[x EXCEPT !.imm = i] : i \in {9, 14},
              x \in Forms(f, {"insertps"}, {1}, {"reg"}, {<<0, FALSE>>})}
      [] f = "comis" ->
           Forms(f, {"comis"}, {1, 2}, {"reg"}, {<<0, FALSE>>})

Program == UNION {Family(f) : f \in Insns}

-----------------------------------------------------------------------------
(* The general registers at a rewritten site.                               *)

Gprs == {"rax", "rbx", "rcx", "rdx", "rsi", "rdi", "rbp", "r8", "r9", "r10",
         "r11", "r12", "r13", "r14", "r15"}

\* PUSH_ORDER: what the trampoline pushes, first to last.
PushOrder ==
    <<"r15", "r14", "r13", "r12", "r11", "r10", "r9", "r8",
      "rbp", "rdi", "rsi", "rdx", "rcx", "rbx", "rax">>

\* frame::gpr_slot: where PatchCpu looks for a register.
GprSlot == [rax |-> 0, rbx |-> 1, rcx |-> 2, rdx |-> 3, rsi |-> 4, rdi |-> 5,
            rbp |-> 6, r8 |-> 7, r9 |-> 8, r10 |-> 9, r11 |-> 10, r12 |-> 11,
            r13 |-> 12, r14 |-> 13, r15 |-> 14]

\* build_trampoline: the last one pushed is slot zero; popping in reverse
\* gives every register what is in the slot its push filled.
PushSlot(r) == CHOOSE s \in 0 .. 14 : PushOrder[15 - s] = r
Pushed(gpr) == [s \in 0 .. 14 |-> gpr[PushOrder[15 - s]]]
Popped(frame) == [r \in Gprs |-> frame[PushSlot(r)]]

\* PatchCpu: get and set through the slots.
PatchGet(frame) == [r \in Gprs |-> frame[GprSlot[r]]]
PatchSet(frame, gpr) == [s \in 0 .. 14 |->
                            gpr[CHOOSE r \in Gprs : GprSlot[r] = s]]

-----------------------------------------------------------------------------
(* The vector registers.                                                    *)

\* upper_is_stale: somebody else has written the register.
UpperIsStale(i, live) == live # lastLow[i]

\* The VEX-zeroing rule and the live low half, for one register.
Pulled(i, live) ==
    [j \in Lanes |-> IF j \in Low THEN live[j]
                     ELSE IF UpperIsStale(i, live) THEN 0 ELSE st.zmm[i][j]]

LowOf(v) == [j \in Low |-> v[j]]

\* Mutant: the index register of a gather is not among the operands.
VectorRegsOperands(in) ==
    (IF in.f \in {"mask"} THEN {}
     ELSE IF in.f = "gather" THEN {in.d}
     ELSE {in.d, in.a} \cup (IF in.src = "reg" THEN {in.b} ELSE {}))
        \cap Aliased

\* vector_regs: those of zmm0 to zmm15 an instruction names.
VectorRegs(in) ==
    (IF in.f \in {"mask"} THEN {}
     ELSE {in.d, in.a} \cup (IF in.src = "reg" THEN {in.b} ELSE {}))
        \cap Aliased

\* sync_in_masked
SyncIn(in) ==
    [st EXCEPT !.zmm = [i \in Regs |->
        IF i \in VectorRegs(in) THEN Pulled(i, hw[i]) ELSE st.zmm[i]]]

\* sync_out_masked
SyncOut(in, m) ==
    /\ hw' = [i \in Aliased |-> IF i \in VectorRegs(in)
                                THEN LowOf(m.zmm[i]) ELSE hw[i]]
    /\ lastLow' = [i \in Aliased |-> IF i \in VectorRegs(in)
                                     THEN LowOf(m.zmm[i]) ELSE lastLow[i]]

\* phi512_patched: the instruction of a rewritten site.
Patched(in) ==
    LET frame == Pushed(st.gpr)
        m == Perform(in, [SyncIn(in) EXCEPT !.gpr = PatchGet(frame)])
    IN  /\ m.ok
        /\ SyncOut(in, m)
        /\ st' = [m EXCEPT !.gpr = Popped(PatchSet(frame, m.gpr))]

\* The signal frame says whether the upper parts of the ymm registers are
\* saved in it (XSTATE_BV); where it does not they are zero.
Announced == {bv \in BOOLEAN :
                 ~bv => \A i \in Aliased : \A j \in Group .. Half - 1 :
                            hw[i][j] = 0}

\* pull_live_registers: all sixteen.
PullLive(bv) ==
    [st EXCEPT !.zmm = [i \in Regs |->
        IF i \in Aliased
        THEN Pulled(i, [j \in Low |-> IF j < Group \/ bv THEN hw[i][j] ELSE 0])
        ELSE st.zmm[i]]]

\* push_live_registers: written back and announced, so that the kernel
\* restores them.
PushLive(bv, m) == hw' = [i \in Aliased |-> LowOf(m.zmm[i])]

\* note_write
NoteWrite(m) == lastLow' = [i \in Aliased |-> LowOf(m.zmm[i])]

\* on_sigill, from the frame to the frame.
Faulted(in) ==
    \E bv \in Announced :
        LET m == Perform(in, PullLive(bv))
        IN  m.ok /\ PushLive(bv, m) /\ NoteWrite(m) /\ st' = m

-----------------------------------------------------------------------------
\* An AVX-512 instruction, faulting or rewritten.
Evex(in) ==
    /\ steps < MaxSteps /\ steps' = steps + 1
    /\ Faulted(in) \/ Patched(in)
    /\ arch' = Processor(in, arch)

\* An AVX2 instruction: the hardware runs it.  The processor the program
\* believes in zeroes the upper half.
Vex(i, v) ==
    /\ steps < MaxSteps /\ steps' = steps + 1
    /\ v # hw[i]
    /\ hw' = [hw EXCEPT ![i] = v]
    /\ arch' = [arch EXCEPT !.zmm[i] =
                   [j \in Lanes |-> IF j \in Low THEN v[j] ELSE 0]]
    /\ UNCHANGED <<st, lastLow>>

\* What AVX2 instructions leave: a full ymm, an xmm with zeros above, zero.
VexValues == {[j \in Low |-> j + 9], [j \in Low |-> IF j < Group THEN 3 ELSE 0],
              [j \in Low |-> 0]}

\* A thread whose vector registers are as VState::new leaves them, and one
\* that has loaded consecutive numbers; partial masks, memory 15, 14, ...
Init ==
    /\ steps = 0
    /\ \E new \in BOOLEAN :
       arch = [zmm |-> [i \in Regs |-> [j \in Lanes |-> IF new THEN 0
                           ELSE (((i + 1) \div 2) + j + 2) % Base]],
               k |-> [i \in {1, 2} |-> IF i = 1 THEN {0, 2, 5} ELSE {1, 4}],
               gpr |-> [r \in Gprs |-> <<GprSlot[r], 5>>],
               zf |-> FALSE, cf |-> FALSE,
               mem |-> [j \in Mem |-> Base - 1 - j],
               touch |-> {}, ok |-> TRUE]
    /\ st = arch
    /\ hw = [i \in Aliased |-> LowOf(arch.zmm[i])]
    /\ lastLow = hw

Next == \/ \E in \in Program : Evex(in)
        \/ \E i \in Aliased, v \in VexValues : Vex(i, v)

Spec == Init /\ [][Next]_vars

-----------------------------------------------------------------------------
(* Properties.                                                              *)

TypeOK ==
    /\ hw \in [Aliased -> [Low -> Val]] /\ lastLow \in [Aliased -> [Low -> Val]]
    /\ \A m \in {st, arch} :
          /\ DOMAIN m = {"zmm", "k", "gpr", "zf", "cf", "mem", "touch", "ok"}
          /\ m.zmm \in [Regs -> [Lanes -> Val]]
          /\ m.k \in [{1, 2} -> SUBSET Lanes]
          /\ m.gpr \in [Gprs -> Val \X Val]
          /\ m.mem \in [Mem -> Val]
    /\ steps \in 0 .. MaxSteps

\* What the next AVX-512 instruction will find in register i.
View(i) == IF i \in Aliased THEN Pulled(i, hw[i]) ELSE st.zmm[i]

\* The program cannot tell: whichever of its instructions faulted, were
\* rewritten or ran on the hardware, every register it can name, every mask,
\* flag and general register, and its memory, are those of an AVX-512
\* processor.
Illusion ==
    /\ \A i \in Regs : View(i) = arch.zmm[i]
    /\ \A i \in Aliased : \A j \in Low : hw[i][j] = arch.zmm[i][j]
    /\ st.k = arch.k /\ st.gpr = arch.gpr /\ st.mem = arch.mem
    /\ st.zf = arch.zf /\ st.cf = arch.cf

\* Performing an instruction touches no memory that the instruction itself
\* would not: a masked tail at the end of a mapping does not fault.
TouchesOwn == st.touch \subseteq arch.touch
=============================================================================
