------------------------------- MODULE MCThunk -------------------------------
(***************************************************************************)
(* Instructions for Thunk: every family the translator has a sequence for, *)
(* at the vector lengths, with the operands that may be one register, with *)
(* no mask, a merging and a zeroing one.                                   *)
(***************************************************************************)
EXTENDS Thunk

I(op, ll, w, mask, alias) ==
    [op |-> op, ll |-> ll, w |-> w, aaa |-> mask[1], z |-> mask[2],
     d |-> alias[1], s1 |-> alias[2], s2 |-> alias[3], mem |-> FALSE,
     bc |-> FALSE, base |-> "rdi", imm |-> 0, x |-> 0, pred |-> ""]

None == <<0, FALSE>>
Merge == <<1, FALSE>>
Zeroing == <<7, TRUE>>
Distinct == <<0, 1, 2>>
Aliases == {Distinct, <<0, 0, 1>>, <<0, 1, 0>>, <<0, 1, 1>>, <<0, 0, 0>>}

Forms(op, lls, w) ==
    {I(op, ll, w, m, a) : ll \in lls, m \in {None, Merge, Zeroing},
                          a \in Aliases}
NoZ(F) == {i \in F : ~i.z}
Unmasked(F) == {i \in F : i.aaa = 0}
Narrow(F) == {i \in F : i.ll # 2}

\* The same with a memory operand.
Mem2(F) == {[i EXCEPT !.mem = TRUE] : i \in {i \in F : i.d # i.s2}}
Bcast(F) == {[i EXCEPT !.bc = TRUE] : i \in Mem2(F)}
Base(F, g) == {[i EXCEPT !.base = g] : i \in F}

Imm(F, imms) == {[i EXCEPT !.imm = n] : i \in F, n \in imms}
Pred(F, ps) == {[i EXCEPT !.pred = p] : i \in F, p \in ps}
X(F, x) == {[i EXCEPT !.x = x] : i \in F}
Into(F, k) == {[i EXCEPT !.d = k] : i \in F}

-----------------------------------------------------------------------------
Moves ==
    Forms("movu", 0..2, 1) \cup Mem2(Forms("movu", 0..2, 0))
    \cup Mem2(Forms("movu", {2}, 1))
    \cup Mem2(NoZ(Forms("storeu", 0..2, 0) \cup Forms("store", 1..2, 0)
                  \cup Forms("storeu", {2}, 1)))
    \cup NoZ(UNION {Mem2(Forms("loads", {0}, w)) \cup Forms("movs", {0}, w)
                    \cup Mem2(Forms("stores", {0}, w)) : w \in {0, 1}})

CardForms ==
    Mem2(Forms("mova", 0..2, 1)) \cup Forms("add", 1..2, 0)
    \cup Mem2(Forms("add", 0..2, 0)) \cup Bcast(Forms("add", {0, 2}, 0))
    \cup Unmasked(Forms("ddup", {2}, 1))

Shuffles ==
    X(Imm(Forms("extract", {0}, 1) \cup Mem2(NoZ(Forms("extract", {0}, 0))),
          {0, 3}), 0)
    \cup X(Imm(Forms("insert", {2}, 0), {0, 1}), 1)
    \cup X(Imm(Forms("insert", {1}, 1), {1}), 0)
    \cup Forms("unpckl", {0, 2}, 0) \cup Imm(Forms("shufps", {1}, 0), {78})
    \cup Imm(Forms("alignq", {2}, 1), {0, 7}) \cup Imm(Forms("alignq", {1}, 1),
                                                      {3})
    \cup Imm(Unmasked(Forms("alignr", {1, 2}, 0)
                      \cup Mem2(Forms("alignr", {2}, 0))), {0, 1, 6, 8})
    \cup Forms("bcastr", {0, 2}, 1)
    \cup Imm(Forms("shufblk", {1}, 0), {2}) \cup Imm(Forms("shufblk", {2}, 1),
                                                     {177})
    \cup Forms("sxdq", {1, 2}, 1) \cup Mem2(Forms("sxdq", {0}, 1))

Arithmetic ==
    Imm(Forms("ternlog", {1}, 1), {255, 150, 202})
    \cup Imm(NoZ(Forms("ternlog", {2}, 0)), {0, 23})
    \cup Forms("addq", {0, 2}, 1) \cup Forms("subq", {1}, 1)
    \cup Mem2(Forms("subq", {1, 2}, 1)) \cup Bcast(Forms("addq", {1}, 1))
    \cup Forms("maxsq", {1}, 1) \cup Forms("minuq", {2}, 1)
    \cup Imm(Forms("srlq", {2}, 1), {0, 3, 11}) \cup Imm(Forms("sllq", {1}, 1),
                                                        {3, 8, 16})
    \cup Forms("absd", {0, 2}, 0)

Compares ==
    Into(Pred(NoZ(Forms("cmpd", 1..2, 0)), {"lt", "false", "true"}), 3)
    \cup Into(Pred(NoZ(Forms("cmpd", {2}, 0)), {"nle"}), 1)
    \cup Into(Pred(NoZ(Forms("cmpq", {1}, 1)),
                   {"le", "nle", "neq", "true"}), 7)
    \cup Into(Pred(NoZ(Forms("cmpuq", {2}, 1)), {"eq", "lt", "nlt"}), 1)
    \cup Into(Pred(Forms("cmpuq", {2}, 1), {"false"}), 2)
    \cup Into(NoZ(Forms("testnmq", {0, 2}, 1)), 7)
    \cup Into(Pred(NoZ(Forms("cmpps", 1..2, 0)),
                   {"eq_uq", "nge", "neq_oq", "ge", "true"}), 3)
    \cup Into(Pred(NoZ(Forms("cmpps", {2}, 0)), {"nge", "false"}), 1)
    \cup Into(Pred(Unmasked(Mem2(Forms("cmpps", 0..1, 0))), {"neq_oq"}), 3)

MaskForms ==
    Unmasked(Forms("kand", {2}, 0) \cup Forms("kandn", {2}, 0)
             \cup Forms("kxor", {2}, 0) \cup Mem2(Forms("kstore", {2}, 0))
             \cup Imm(Forms("kshiftl", {2}, 0), {3, 16}))

Indexed ==
    {i \in Mem2(NoZ(Forms("gather", {2}, 0) \cup Forms("scatter", {2}, 0))) :
        i.aaa # 0 /\ i.d # i.s1}

MCInsns == Moves \cup CardForms \cup Shuffles \cup Arithmetic \cup Compares
           \cup MaskForms \cup Indexed

MCMasks == {{0}, {1, 2, 6}, {0, 2, 3, 5, 9, 15}}
MCOtherLanes == {3, 9}

-----------------------------------------------------------------------------
(***************************************************************************)
(* Instructions whose sequences do not do what AVX-512 defines.            *)
(***************************************************************************)
\* A memory operand based on rax, which the sequence uses for a mask.
OnRax == Base(Mem2(Unmasked(Forms("movu", {1}, 0))), "rax")

\* A narrow move of qwords under a mask.
QwordNarrow == {i \in Mem2(NoZ(Forms("movu", {1}, 1))) : i.aaa # 0}

\* A compare into its own write mask that takes two of the card's.
IntoOwn == Into(Pred(NoZ(Forms("cmpps", {2}, 0)), {"neq_oq"}), 1)

\* A narrow masked compare with a memory operand.
NarrowMem == Into(Pred(Mem2(NoZ(Forms("cmpps", {1}, 0))), {"neq_oq"}), 3)

\* vmovddup under a mask; kunpckbw; an insert from memory; a masked store.
Ddup == NoZ(Forms("ddup", {2}, 1))
Unpack == {I("kunpck", 2, 0, None, <<1, 2, 3>>)}
InsertMem == X(Mem2(Unmasked(Forms("insert", {2}, 0))), 0)
MaskedStore == Mem2(NoZ(Forms("storeu", {2}, 0)))

\* valignq of 256 bits with an immediate above its three.
AlignFar == Imm(Unmasked(Forms("alignq", {1}, 1)), {5})
=============================================================================
