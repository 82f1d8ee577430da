------------------------------- MODULE MCPlan -------------------------------
(* Loops for the planner: bodies of the kinds compilers make, each with the *)
(* ways a compiler ends a loop.                                             *)
EXTENDS Plan

Op(op, dst, at) == [Insn(op) EXCEPT !.dst = dst, !.at = at, !.size = 2]
OpI(op, dst, imm) == [Insn(op) EXCEPT !.dst = dst, !.imm = imm]
OpR(op, dst, src) == [Insn(op) EXCEPT !.dst = dst, !.src = src]
Jcc(cc, to) == [Insn("jcc") EXCEPT !.cc = cc, !.to = to]
Cell(x) == [x EXCEPT !.size = 1]
Low(x) == [x EXCEPT !.w = Half]

A == <<"b", "i", 1, 0>>      \* one array, walked with the induction
B == <<"b", "i", 1, 10>>     \* another
Bcast == OpR("bcast", "z", "i")

Copy == <<Op("load", "z", A), Op("store", "", B)>>
InPlace == <<Op("load", "z", A), OpI("bump", "z", 0), Op("store", "", A)>>
Fill == <<Bcast, Op("store", "", A)>>
Masked == <<Bcast, Op("mstore", "", A)>>
Pointer == <<Op("load", "z", <<"p", "", 1, 4>>), Op("store", "", B),
             OpI("add", "p", 2)>>
Sum == <<Op("fma", "z", A)>>
Shifted == <<Op("load", "z", <<"b", "i", 1, 2>>), Op("store", "", A)>>
Guarded == <<Bcast, OpI("cmp", "i", 2), Jcc("e", 5), Op("store", "", A)>>
Fixed == <<Bcast, Op("store", "", <<"b", "", 1, 0>>)>>
Slot == <<Cell(Op("reload", "j", <<"", "", 1, 4>>)), Bcast,
          Op("store", "", <<"j", "", 1, 0>>), OpI("add", "j", 8),
          Cell([Op("slot", "", <<"", "", 1, 4>>) EXCEPT !.src = "j"])>>
Lea == <<Bcast, Op("lea", "j", B), Op("store", "", <<"j", "", 1, 0>>)>>
Nested == <<OpI("mov", "j", 0), Op("load", "z", <<"b", "j", 1, 0>>),
            OpI("add", "j", 2), OpI("cmp", "j", 4), Jcc("l", 2),
            Op("store", "", B)>>
Sparse == <<Bcast, Op("store", "", <<"b", "i", 2, 0>>)>>
Unresolved == <<Bcast, OpI("mov", "j", 31), OpR("sub", "j", "i"),
                Op("store", "", <<"j", "", 1, 0 - 5>>)>>
InFrame == <<Cell(Op("reload", "j", <<"f", "", 1, 0>>)), Bcast,
             Op("store", "", A)>>
Three == <<Cell(Op("reload", "j", <<"f", "", 1, 0>>))>> \o Copy
Bodies == {Copy, InPlace, Fill, Masked, Pointer, Sum, Shifted, Guarded,
           Fixed, Slot, Lea, Nested, Sparse, Unresolved, InFrame, Three}

\* Ends of a loop: the step, the compare if any, the branch back.
Up(cc) == <<OpI("add", "i", 2), OpR("cmp", "i", "n"), Jcc(cc, 1)>>
Down(cc) == <<OpI("sub", "i", 2), OpR("cmp", "i", "n"), Jcc(cc, 1)>>
Ends == {Up("l"), Up("b"), Up("ne"), Down("g"), Down("ne"),
         <<OpI("add", "i", 2), Low(OpR("cmp", "i", "n")), Jcc("l", 1)>>,
         <<OpI("add", "i", 2), OpI("cmp", "i", 6), Jcc("le", 1)>>,
         <<OpI("sub", "i", 2), Jcc("ne", 1)>>,
         <<OpI("sub", "i", 2), Jcc("ae", 1)>>,
         <<OpI("sub", "i", 2), Jcc("g", 1)>>,
         <<OpI("add", "i", 0 - 2), Jcc("ne", 1)>>,
         <<OpI("add", "i", 0 - 2), Jcc("g", 1)>>,
         <<OpI("dec", "i", 0), OpI("dec", "i", 0), Jcc("ne", 1)>>}
Loops == {b \o Up("l") : b \in Bodies}
         \cup {b \o e : b \in {InPlace, Fill, Masked}, e \in Ends}

\* Loops the planner's rules let through although they should not.
LoopsAtBound == {InPlace \o Up("le")}
LoopsInMemory == {[Slot EXCEPT ![4].imm = 1] \o Up("l")}
LoopsUpdate == {<<OpI("mov", "j", 1),
                  [Op("rmw", "", A) EXCEPT !.src = "j"]>> \o Up("l")}
LoopsChoosing == {<<OpI("cmp", "i", 2), Jcc("ne", 4), OpR("mov", "j", "i")>>
                  \o Up("l")}
LoopsFramePointer == {<<Op("load", "z", <<"f", "", 1, 4>>), Op("store", "", B),
                        OpI("add", "f", 2)>> \o Up("l")}
LoopsOverlap == {<<Bcast, Op("store", "", A),
                   Op("store", "", <<"b", "i", 1, 2>>)>> \o Up("l")}
=============================================================================
