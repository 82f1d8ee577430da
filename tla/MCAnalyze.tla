------------------------------ MODULE MCAnalyze ------------------------------
(* Small texts for Analyze.  Lengths are scaled with Jump = 3: a mask     *)
(* instruction is one byte too short for the jump that replaces it.       *)
EXTENDS Analyze

CONSTANTS
    RetLen,     \* bytes of the instruction a region ends at (ret has 1)
    BothFlags,  \* texts in which both flags are tested after one kortest
    Size        \* instructions of a text

I(kind, len) ==
    [kind |-> kind, len |-> len, to |-> 1, skew |-> 0, cc |-> "any"]
B(kind, to, skew, cc) ==
    [kind |-> kind, len |-> 2, to |-> to, skew |-> skew, cc |-> cc]

Ret == I("ret", RetLen)

\* Branches among instructions in place, long sites and exits.
ControlFlow ==
    {I("evex", 3), I("plain", 2), I("thunk", 4), I("native", 2), Ret,
     B("jmp", 3, 0, "any"), B("jcc", 2, 1, "any"), B("jcc", 1, 0, "any")}

\* Sites too short for the jump, with what may and may not follow.
ShortSites ==
    {I("mask", 2), I("plain", 2), I("iprel", 2), I("evex", 3), Ret,
     B("jrcxz", 1, 0, "any"), B("jmp", Size + 1, 0, "any"),
     B("jcc", 3, 0, "any")}

\* Byte compares tested by kortest, with a branch on one flag or on both.
Compares(cc) ==
    {I("cmpeq", 4), I("cmpne", 4), I("cmplt", 4), I("kortest", 3), Ret}
    \cup {B("jcc", t, 0, c) : t \in {2, Size}, c \in cc}

TextsMC ==
    LET families == {ControlFlow, ShortSites}
                    \cup (IF BothFlags THEN {Compares({"CF", "ZF"})}
                          ELSE {Compares({"CF"}), Compares({"ZF"})})
    IN  UNION {[1..Size -> f] : f \in families}
=============================================================================
