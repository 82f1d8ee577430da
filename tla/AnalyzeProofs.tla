---------------------------- MODULE AnalyzeProofs ----------------------------
(***************************************************************************)
(* For every text of the program, the region the library builds of it does *)
(* on the card what the program would have done: whatever the branches,    *)
(* the sites that are jumps to thunks, the instructions moved along and    *)
(* the phases the region is cut into.  And the thunk area stays alone in   *)
(* its chunk.                                                              *)
(***************************************************************************)
EXTENDS Analyze, SequenceTheorems, WellFoundedInduction, TLAPS

-----------------------------------------------------------------------------
(* The invariant.                                                          *)

TextInv == text \in Texts /\ entry \in Index

\* What the card can run.
Fit(i) ==
    /\ text[i].kind \in Avx512 => Rewritten(i)
    /\ CardCanRun(i) /\ text[i].kind # "ret"

\* The walk has dealt with the address or will.
Known(a) == Seen(a) \/ \E k \in DOMAIN work : work[k] = a

\* Where the walk has come to: the region is closed under control flow, up
\* to the exits found and the addresses still to visit.
WalkInv ==
    /\ work \in Seq(0..End) /\ exits \in Seq(0..End)
    /\ included \subseteq Index
    /\ \A i \in included : Fit(i)
    /\ \A k \in DOMAIN exits : At(exits[k]) \notin included
    /\ Known(Addr[entry])
    /\ \A i \in included :
          /\ IsBranch(i) => Known(Target(i))
          /\ text[i].kind # "jmp" => Known(Addr[i + 1])

\* A region that was not refused.
LaidInv ==
    /\ stage \in {"reserve", "layout", "ready", "run", "left"} =>
         work = <<>> /\ ~ExitInside /\ ~Spans
    /\ stage \in {"ready", "run", "left"} => CanMove /\ image = Image

\* A flag is the same for the program and for the card, and so is what a
\* kortest would make of the mask.
Keeps(c, m) == IF c = "CF" THEN m = "all" ELSE m = "none"
Agree(c) ==
    /\ Keeps(c, mask.program) <=> Keeps(c, mask.card)
    /\ flags.program[c] = flags.card[c]

\* The card is at the program's instruction: in the code, where it has not
\* been moved into a thunk, or in a thunk, at its site or at what moved.
InStep ==
    \/ at.in = "code" /\ at.a = pc /\ Seen(pc) /\ At(pc) \notin Swallowed
    \/ /\ at.in = "thunk" /\ at.site \in Sites
       /\ at.a \in at.site .. SiteEnd(at.site) /\ pc = Addr[at.a]

RunInv ==
    /\ DOMAIN mask = {"program", "card"} /\ DOMAIN flags = {"program", "card"}
    /\ stage \in {"walk", "reserve", "layout", "ready"} =>
         /\ mask.program = mask.card /\ flags.program = flags.card
    /\ stage = "run" =>
         /\ loop \in Loops \cup {NoLoop}
         /\ extra \in {NoAddr, loop.head, loop.exit}
         /\ Apart /\ OneFlag =>
               /\ InStep
               /\ \E c \in {"CF", "ZF"} : Tests(text, c) /\ Agree(c)

Inv == TextInv /\ WalkInv /\ LaidInv /\ RunInv

-----------------------------------------------------------------------------
(* Induction over the naturals, through the least counterexample.          *)

\* A set of naturals that is not empty has a least element.
LEMMA Least ==
  ASSUME NEW T, T \subseteq Nat, T # {}
  PROVE  \E x \in T : \A y \in T : x <= y
<1> DEFINE R == OpToRel(<, Nat)
<1>1. IsWellFoundedOn(R, Nat)
  BY NatLessThanWellFounded
<1> HIDE DEF R
<1>2. PICK x \in T : \A y \in T : ~ (<<y, x>> \in R)
  BY <1>1, WFMin
<1>3. \A a, b \in Nat : <<b, a>> \in R <=> b < a
  BY DEF R, OpToRel
<1>4. ASSUME NEW y \in T PROVE x <= y
  <2>1. x \in Nat /\ y \in Nat
    OBVIOUS
  <2>2. ~ (y < x)
    BY <1>2, <1>3, <2>1
  <2> QED BY <2>1, <2>2
<1> QED BY <1>4

\* A set that holds 0 and the successors of its elements up to n holds all
\* the naturals up to n.
LEMMA Climb ==
  ASSUME NEW n \in Nat, NEW S, 0 \in S,
         \A m \in S : m \in Nat /\ m < n => m + 1 \in S
  PROVE  0 .. n \subseteq S
<1> SUFFICES ASSUME ~ (0 .. n \subseteq S) PROVE FALSE
  OBVIOUS
<1> DEFINE T == {m \in 0 .. n : m \notin S}
<1>1. T \subseteq Nat /\ T # {}
  OBVIOUS
<1>2. PICK x \in T : \A y \in T : x <= y
  BY <1>1, Least
<1>3. x \in 1 .. n /\ x \notin S
  BY <1>2
<1>4. x - 1 \in S /\ x - 1 \in Nat /\ x - 1 < n
  BY <1>2, <1>3
<1>5. (x - 1) + 1 \in S
  BY <1>4
<1> QED BY <1>3, <1>5

-----------------------------------------------------------------------------
(* Addresses.                                                              *)

\* What a text is, in the form the proofs below use.
LEMMA TextType ==
  ASSUME NEW t \in Texts
  PROVE  /\ Len(t) \in Nat /\ DOMAIN t = 1 .. Len(t)
         /\ \A i \in 1 .. Len(t) :
              /\ t[i].kind \in Kinds
              /\ t[i].len \in Nat /\ t[i].len > 0
              /\ t[i].to \in 1 .. Len(t) + 1
              /\ t[i].skew \in Nat
              /\ t[i].to \in 1 .. Len(t) => t[i].skew <= t[t[i].to].len
              /\ t[i].to = Len(t) + 1 => t[i].skew = 0
              /\ t[i].kind \in {"thunk", "mask", "kortest"}
                    => t[i].len + 1 >= Jump
<1> DEFINE I == [kind : Kinds, len : Nat \ {0}, to : Nat, skew : Nat,
                 cc : {"any", "CF", "ZF"}]
<1>1. t \in Seq(I)
  BY TextsAssumption
<1> HIDE DEF I
<1>2. Len(t) \in Nat /\ DOMAIN t = 1 .. Len(t)
  BY <1>1
<1>3. \A i \in 1 .. Len(t) : t[i] \in I
  BY <1>1, ElementOfSeq
<1>4. ASSUME NEW i \in 1 .. Len(t)
      PROVE  /\ t[i].to \in 1 .. Len(t) + 1
             /\ t[i].to \in 1 .. Len(t) => t[i].skew <= t[t[i].to].len
             /\ t[i].to = Len(t) + 1 => t[i].skew = 0
             /\ t[i].kind \in {"thunk", "mask", "kortest"}
                    => t[i].len + 1 >= Jump
  <2>1. i \in DOMAIN t
    BY <1>2
  <2>2. DOMAIN t = 1 .. Len(t)
    BY <1>2
  <2>3. /\ \/ t[i].to \in DOMAIN t /\ t[i].skew <= t[t[i].to].len
           \/ t[i].to = Len(t) + 1 /\ t[i].skew = 0
        /\ t[i].kind \in {"thunk", "mask", "kortest"} => t[i].len + 1 >= Jump
    BY <2>1, TextsAssumption
  <2>4. Len(t) + 1 \notin 1 .. Len(t) /\ Len(t) + 1 \in 1 .. Len(t) + 1
    BY <1>2
  <2>5. 1 .. Len(t) \subseteq 1 .. Len(t) + 1
    BY <1>2
  <2> QED BY <2>2, <2>3, <2>4, <2>5
<1>5. \A r \in I : /\ r.kind \in Kinds /\ r.skew \in Nat
                   /\ r.len \in Nat /\ r.len > 0
  BY DEF I
<1> QED BY <1>2, <1>3, <1>4, <1>5

\* The addresses exist, and each is the one before it and a length.
LEMMA AddrOfIs ==
  ASSUME NEW t \in Texts
  PROVE  /\ AddrOf(t) \in [1 .. Len(t) + 1 -> Nat]
         /\ AddrOf(t)[1] = 0
         /\ \A i \in 1 .. Len(t) :
              AddrOf(t)[i + 1] = AddrOf(t)[i] + t[i].len
<1> DEFINE n == Len(t)
           Step(g, k) == IF k = 1 THEN 0 ELSE g[k - 1] + t[k - 1].len
           Good(m, g) == /\ g \in [1 .. m + 1 -> Nat]
                         /\ \A k \in 1 .. m + 1 : g[k] = Step(g, k)
           S == {m \in 0 .. n : \E g : Good(m, g)}
<1>1. n \in Nat /\ \A i \in 1 .. n : t[i].len \in Nat
  BY TextType
<1>2. 0 \in S
  <2>1. Good(0, [k \in 1 .. 1 |-> 0])
    OBVIOUS
  <2>2. 0 \in 0 .. n
    BY <1>1
  <2> QED BY <2>1, <2>2
<1>3. ASSUME NEW m \in S, m \in Nat, m < n PROVE m + 1 \in S
  <2>1. PICK g : Good(m, g)
    OBVIOUS
  <2> DEFINE h == [k \in 1 .. (m + 1) + 1 |->
                     IF k <= m + 1 THEN g[k] ELSE g[m + 1] + t[m + 1].len]
  <2>2. t[m + 1].len \in Nat /\ g \in [1 .. m + 1 -> Nat]
    BY <1>1, <1>3, <2>1
  <2>3. h \in [1 .. (m + 1) + 1 -> Nat]
    BY <1>3, <2>2
  <2>4. ASSUME NEW k \in 1 .. (m + 1) + 1 PROVE h[k] = Step(h, k)
    <3>1. CASE k <= m + 1
      <4>1. h[k] = g[k] /\ g[k] = Step(g, k)
        BY <1>3, <2>1, <3>1
      <4>2. k # 1 => h[k - 1] = g[k - 1]
        BY <1>3, <3>1
      <4> QED BY <4>1, <4>2
    <3>2. CASE k = (m + 1) + 1
      BY <1>3, <3>2
    <3> QED BY <1>3, <3>1, <3>2
  <2>5. Good(m + 1, h)
    BY <2>3, <2>4
  <2>6. m + 1 \in 0 .. n
    BY <1>1, <1>3
  <2> HIDE DEF h, Good
  <2>7. \E f : Good(m + 1, f)
    BY <2>5
  <2> QED BY <2>6, <2>7
<1>4. n \in S
  <2> HIDE DEF S
  <2>1. 0 .. n \subseteq S
    BY <1>1, <1>2, <1>3, Climb
  <2> QED BY <1>1, <2>1
<1>5. PICK g : Good(n, g)
  BY <1>4
<1>6. g = [k \in 1 .. (n + 1) |-> Step(g, k)]
  BY <1>5
<1>7. AddrOf(t) = CHOOSE a : a = [k \in 1 .. (n + 1) |-> Step(a, k)]
  BY DEF AddrOf
<1>8. AddrOf(t) = [k \in 1 .. (n + 1) |-> Step(AddrOf(t), k)]
  BY <1>6, <1>7
<1> DEFINE A == AddrOf(t)
<1> HIDE DEF A
<1>9. A = [k \in 1 .. (n + 1) |-> Step(A, k)]
  BY <1>8 DEF A
<1>10. A[1] = 0 /\ \A i \in 1 .. n : A[i + 1] = A[i] + t[i].len
  BY <1>1, <1>9
<1>11. \A k \in 1 .. n + 1 : A[k] \in Nat
  <2> DEFINE U == {m \in 0 .. n : A[m + 1] \in Nat}
  <2>1. 0 \in U
    BY <1>1, <1>10
  <2>2. ASSUME NEW m \in U, m \in Nat, m < n PROVE m + 1 \in U
    <3>1. m + 1 \in 1 .. n /\ m + 1 \in 0 .. n
      BY <1>1, <2>2
    <3>2. A[(m + 1) + 1] = A[m + 1] + t[m + 1].len
      BY <1>10, <3>1
    <3>3. A[m + 1] \in Nat /\ t[m + 1].len \in Nat
      BY <1>1, <3>1
    <3> QED BY <3>1, <3>2, <3>3
  <2> HIDE DEF U
  <2>3. 0 .. n \subseteq U
    BY <1>1, <2>1, <2>2, Climb
  <2> USE DEF U
  <2>4. ASSUME NEW k \in 1 .. n + 1 PROVE A[k] \in Nat
    <3>1. k - 1 \in 0 .. n /\ (k - 1) + 1 = k
      BY <1>1
    <3> QED BY <2>3, <3>1
  <2> QED BY <2>4
<1>12. A \in [1 .. n + 1 -> Nat]
  BY <1>9, <1>11
<1> QED BY <1>10, <1>12 DEF A

\* The same of the program's text.
LEMMA AddrIs ==
  ASSUME TextInv
  PROVE  /\ Len(text) \in Nat /\ Index = 1 .. Len(text)
         /\ DOMAIN text = Index /\ entry \in Index
         /\ \A i \in Index : /\ text[i].len \in Nat /\ text[i].len > 0
                             /\ i \in Nat /\ i > 0
                             /\ i \in 1 .. Len(text) + 1
                             /\ i + 1 \in 1 .. Len(text) + 1
         /\ \A i \in 1 .. Len(text) + 1 : Addr[i] \in Nat
         /\ Addr[1] = 0
         /\ \A i \in Index : Addr[i + 1] = Addr[i] + text[i].len
         /\ End = Addr[Len(text) + 1] /\ End \in Nat
<1> DEFINE A == AddrOf(text)
<1>1. /\ A \in [1 .. Len(text) + 1 -> Nat] /\ A[1] = 0
      /\ \A i \in 1 .. Len(text) : A[i + 1] = A[i] + text[i].len
  BY AddrOfIs DEF TextInv
<1>2. /\ Len(text) \in Nat /\ DOMAIN text = 1 .. Len(text)
      /\ \A i \in 1 .. Len(text) : text[i].len \in Nat /\ text[i].len > 0
  BY TextType DEF TextInv
<1>3. Addr = A
  BY DEF Addr
<1> HIDE DEF A
<1>4. /\ Index = 1 .. Len(text) /\ entry \in Index
      /\ \A i \in Index : /\ i \in Nat /\ i > 0
                          /\ i \in 1 .. Len(text) + 1
                          /\ i + 1 \in 1 .. Len(text) + 1
  BY <1>2 DEF Index, TextInv
<1>5. End = A[Len(text) + 1] /\ End \in Nat
  BY <1>1, <1>2, <1>3 DEF End
<1> QED BY <1>1, <1>2, <1>3, <1>4, <1>5

\* An address further on in the text is higher.
LEMMA Increases ==
  ASSUME TextInv, NEW i \in 1 .. Len(text) + 1, NEW j \in 1 .. Len(text) + 1,
         i < j
  PROVE  Addr[i] < Addr[j]
<1> DEFINE n == Len(text)
           S == {m \in 0 .. n : i < m + 1 => Addr[i] < Addr[m + 1]}
<1>1. n \in Nat /\ Index = 1 .. n
  BY AddrIs
<1>2. \A k \in 1 .. n + 1 : Addr[k] \in Nat
  BY AddrIs
<1>3. \A k \in 1 .. n : Addr[k + 1] > Addr[k]
  BY <1>1, <1>2, AddrIs
<1> HIDE DEF n
<1>4. i \in 1 .. n + 1 /\ j \in 1 .. n + 1
  BY DEF n
<1>5. 0 \in S
  BY <1>1, <1>4
<1>6. ASSUME NEW m \in S, m \in Nat, m < n PROVE m + 1 \in S
  <2>1. m + 1 \in 1 .. n /\ m + 1 \in 0 .. n /\ (m + 1) + 1 \in 1 .. n + 1
    BY <1>1, <1>6
  <2>2. Addr[(m + 1) + 1] > Addr[m + 1]
    BY <1>3, <2>1
  <2>3. /\ Addr[i] \in Nat /\ Addr[m + 1] \in Nat
        /\ Addr[(m + 1) + 1] \in Nat
    BY <1>1, <1>2, <1>4, <2>1
  <2>4. i < (m + 1) + 1 => i < m + 1 \/ i = m + 1
    BY <1>4, <1>6
  <2>5. i < m + 1 => Addr[i] < Addr[m + 1]
    OBVIOUS
  <2>6. i < (m + 1) + 1 => Addr[i] < Addr[(m + 1) + 1]
    <3>1. CASE i < m + 1
      BY <2>2, <2>3, <2>5, <3>1
    <3>2. CASE i = m + 1
      BY <2>2, <3>2
    <3> QED BY <2>4, <3>1, <3>2
  <2> QED BY <2>1, <2>6
<1> HIDE DEF S
<1>7. 0 .. n \subseteq S
  BY <1>1, <1>5, <1>6, Climb
<1>8. j - 1 \in 0 .. n /\ (j - 1) + 1 = j
  BY <1>1, <1>4
<1>9. j - 1 \in S
  BY <1>7, <1>8
<1> QED BY <1>8, <1>9 DEF S

\* The same without an order given.
LEMMA Ordered ==
  ASSUME TextInv, NEW i \in 1 .. Len(text) + 1, NEW j \in 1 .. Len(text) + 1
  PROVE  /\ Addr[i] \in Nat /\ Addr[j] \in Nat
         /\ Addr[i] < Addr[j] <=> i < j
         /\ Addr[i] = Addr[j] <=> i = j
<1>1. Addr[i] \in Nat /\ Addr[j] \in Nat /\ Len(text) \in Nat
  BY AddrIs
<1>2. i \in Nat /\ j \in Nat
  BY <1>1
<1>3. CASE i < j
  BY <1>1, <1>2, <1>3, Increases
<1>4. CASE j < i
  BY <1>1, <1>2, <1>4, Increases
<1>5. CASE i = j
  BY <1>1, <1>5
<1> QED BY <1>2, <1>3, <1>4, <1>5

\* A byte is in one instruction.
LEMMA OneOwner ==
  ASSUME TextInv, NEW i \in Index, NEW j \in Index, NEW a \in Int,
         Addr[i] <= a, a < Addr[i + 1], Addr[j] <= a, a < Addr[j + 1]
  PROVE  i = j
<1>1. /\ i \in 1 .. Len(text) + 1 /\ i + 1 \in 1 .. Len(text) + 1
      /\ j \in 1 .. Len(text) + 1 /\ j + 1 \in 1 .. Len(text) + 1
      /\ i \in Nat /\ j \in Nat
  BY AddrIs
<1>2. Addr[i] < Addr[j + 1] /\ Addr[j] < Addr[i + 1]
  <2>1. \A k \in {i, j, i + 1, j + 1} : Addr[k] \in Nat
    BY <1>1, AddrIs
  <2> QED BY <2>1
<1>3. i < j + 1 /\ j < i + 1
  BY <1>1, <1>2, Ordered
<1> QED BY <1>1, <1>3

\* Every byte of the text is in an instruction.
LEMMA SomeOwner ==
  ASSUME TextInv, NEW a \in Nat, a < End
  PROVE  \E i \in Index : Addr[i] <= a /\ a < Addr[i + 1]
<1> DEFINE T == {m \in 1 .. Len(text) + 1 : a < Addr[m]}
<1>1. Len(text) \in Nat /\ Index = 1 .. Len(text) /\ Addr[1] = 0
      /\ End = Addr[Len(text) + 1]
  BY AddrIs
<1>2. \A m \in 1 .. Len(text) + 1 : Addr[m] \in Nat
  BY AddrIs
<1>3. T \subseteq Nat /\ T # {}
  BY <1>1
<1>4. PICK x \in T : \A y \in T : x <= y
  BY <1>3, Least
<1>5. x \in 1 .. Len(text) + 1 /\ a < Addr[x] /\ x # 1
  BY <1>1, <1>4
<1>6. x - 1 \in Index /\ x - 1 \in 1 .. Len(text) + 1 /\ (x - 1) + 1 = x
      /\ x \in Nat
  BY <1>1, <1>5
<1>7. x - 1 \notin T
  BY <1>4, <1>6
<1>8. Addr[x - 1] <= a
  BY <1>2, <1>6, <1>7
<1> QED BY <1>5, <1>6, <1>8

\* The instruction at an address.
LEMMA AtIs ==
  ASSUME TextInv
  PROVE  /\ \A i \in Index : At(Addr[i]) = i
         /\ \A a : At(a) \in Index => Addr[At(a)] = a
         /\ \A a : At(a) # 0 => At(a) \in Index
         /\ 0 \notin Index
         /\ At(End) = 0
         /\ \A a : a > End /\ a \in Nat => At(a) = 0
<1>1. 0 \notin Index /\ Len(text) \in Nat /\ Index = 1 .. Len(text)
  BY AddrIs
<1>2. ASSUME NEW i \in Index PROVE At(Addr[i]) = i
  <2>1. \A j \in Index : Addr[j] = Addr[i] => j = i
    BY AddrIs, Ordered
  <2> QED BY <2>1 DEF At
<1>3. ASSUME NEW a, At(a) # 0 PROVE At(a) \in Index /\ Addr[At(a)] = a
  BY <1>3 DEF At
<1>4. ASSUME NEW a \in Nat, a >= End PROVE At(a) = 0
  <2>1. SUFFICES ASSUME NEW i \in Index, Addr[i] = a PROVE FALSE
    BY DEF At
  <2>2. Len(text) + 1 \in 1 .. Len(text) + 1 /\ i \in 1 .. Len(text) + 1
        /\ i < Len(text) + 1
    BY <1>1
  <2>3. Addr[i] < Addr[Len(text) + 1] /\ Addr[Len(text) + 1] \in Nat
    BY <2>2, Ordered
  <2>4. End = Addr[Len(text) + 1]
    BY AddrIs
  <2> QED BY <1>4, <2>1, <2>3, <2>4
<1>5. End \in Nat
  BY AddrIs
<1> QED BY <1>1, <1>2, <1>3, <1>4, <1>5

\* The targets of branches, and the instruction after, are in the text or at
\* its end.
LEMMA WhereTo ==
  ASSUME TextInv, NEW i \in Index
  PROVE  Target(i) \in 0 .. End /\ Addr[i + 1] \in 0 .. End /\ Addr[i] \in 0 .. End
<1>1. /\ Len(text) \in Nat /\ Index = 1 .. Len(text)
      /\ End = Addr[Len(text) + 1] /\ End \in Nat
      /\ Len(text) + 1 \in 1 .. Len(text) + 1
  BY AddrIs
<1>2. \A k \in 1 .. Len(text) + 1 : Addr[k] \in Nat /\ Addr[k] <= End
  <2>1. ASSUME NEW k \in 1 .. Len(text) + 1 PROVE Addr[k] <= End
    <3>1. k < Len(text) + 1 \/ k = Len(text) + 1
      BY <1>1
    <3> QED BY <1>1, <3>1, Ordered
  <2> QED BY <2>1, AddrIs
<1>3. /\ text[i].to \in 1 .. Len(text) + 1 /\ text[i].skew \in Nat
      /\ text[i].to \in 1 .. Len(text) => text[i].skew <= text[text[i].to].len
      /\ text[i].to = Len(text) + 1 => text[i].skew = 0
  BY <1>1, TextType DEF TextInv
<1>4. Target(i) \in 0 .. End
  <2> DEFINE to == text[i].to
  <2>1. Target(i) = Addr[to] + text[i].skew
    BY DEF Target
  <2>2. CASE to = Len(text) + 1
    BY <1>1, <1>2, <1>3, <2>1, <2>2
  <2>3. CASE to \in Index
    <3>1. Addr[to + 1] = Addr[to] + text[to].len /\ to + 1 \in 1 .. Len(text) + 1
          /\ text[to].len \in Nat
      BY <2>3, AddrIs
    <3>2. Addr[to + 1] <= End /\ Addr[to] \in Nat /\ Addr[to + 1] \in Nat
      BY <1>1, <1>2, <1>3, <3>1
    <3>3. text[i].skew <= text[to].len /\ text[i].skew \in Nat
      BY <1>1, <1>3, <2>3
    <3> DEFINE x == Addr[to]
               y == Addr[to + 1]
               l == text[to].len
               s == text[i].skew
    <3> HIDE DEF to, x, y, l, s
    <3>4. /\ x \in Nat /\ y \in Nat /\ l \in Nat /\ s \in Nat
          /\ y = x + l /\ y <= End /\ s <= l
      BY <3>1, <3>2, <3>3 DEF x, y, l, s
    <3>5. Target(i) = x + s
      BY <2>1 DEF x, s
    <3> QED BY <1>1, <3>4, <3>5
  <2> QED BY <1>1, <1>3, <2>2, <2>3
<1>5. i \in 1 .. Len(text) + 1 /\ i + 1 \in 1 .. Len(text) + 1
  BY AddrIs
<1> QED BY <1>1, <1>2, <1>4, <1>5

-----------------------------------------------------------------------------
(* The image.                                                              *)

Ud2Byte(n) == [by |-> "ud2", of |-> 0, n |-> n]

\* The first m exits are in img, over base, those in the chunk.
Marked(img, base, es, m) ==
    /\ img = [a \in DOMAIN base |-> img[a]]
    /\ \A a \in DOMAIN base :
          LET first == \E k \in 1 .. m : Fits(es[k]) /\ es[k] = a
              second == \E k \in 1 .. m : Fits(es[k]) /\ es[k] + 1 = a
          IN  /\ ~first /\ ~second => img[a] = base[a]
              /\ first /\ ~second => img[a] = Ud2Byte(0)
              /\ second /\ ~first => img[a] = Ud2Byte(1)

\* An exit outside the chunk, which is not painted.
LEMMA MarkNone ==
  ASSUME NEW base, NEW img, NEW es, NEW m \in Nat, ~Fits(es[m + 1]),
         Marked(img, base, es, m)
  PROVE  Marked(img, base, es, m + 1)
<1>1. \A k \in 1 .. m + 1 : Fits(es[k]) => k \in 1 .. m
  OBVIOUS
<1>2. 1 .. m \subseteq 1 .. m + 1
  OBVIOUS
<1>3. ASSUME NEW a
      PROVE  /\ (\E k \in 1 .. m + 1 : Fits(es[k]) /\ es[k] = a)
                   <=> \E k \in 1 .. m : Fits(es[k]) /\ es[k] = a
             /\ (\E k \in 1 .. m + 1 : Fits(es[k]) /\ es[k] + 1 = a)
                   <=> \E k \in 1 .. m : Fits(es[k]) /\ es[k] + 1 = a
  BY <1>1, <1>2
<1> QED BY <1>3 DEF Marked

\* One more ud2.
LEMMA MarkOne ==
  ASSUME NEW base, NEW img, NEW es, NEW m \in Nat, es[m + 1] \in Int,
         Fits(es[m + 1]), Marked(img, base, es, m)
  PROVE  Marked(Ud2(img, es[m + 1]), base, es, m + 1)
<1> DEFINE e == es[m + 1]
           new == Ud2(img, e)
           First(a, j) == \E k \in 1 .. j : Fits(es[k]) /\ es[k] = a
           Second(a, j) == \E k \in 1 .. j : Fits(es[k]) /\ es[k] + 1 = a
<1>1. DOMAIN img = DOMAIN base
  BY DEF Marked
<1>2. new = [a \in DOMAIN base |->
               IF a \in {e, e + 1} THEN Ud2Byte(a - e) ELSE img[a]]
  BY <1>1 DEF Ud2, Ud2Byte
<1>3. \A a : /\ First(a, m + 1) <=> First(a, m) \/ e = a
             /\ Second(a, m + 1) <=> Second(a, m) \/ e + 1 = a
  OBVIOUS
<1>4. ASSUME NEW a \in DOMAIN base
      PROVE  /\ ~First(a, m) /\ ~Second(a, m) => img[a] = base[a]
             /\ First(a, m) /\ ~Second(a, m) => img[a] = Ud2Byte(0)
             /\ Second(a, m) /\ ~First(a, m) => img[a] = Ud2Byte(1)
  BY DEF Marked
<1> HIDE DEF First, Second, new, e
<1>5. ASSUME NEW a \in DOMAIN base
      PROVE  /\ ~First(a, m + 1) /\ ~Second(a, m + 1) => new[a] = base[a]
             /\ First(a, m + 1) /\ ~Second(a, m + 1) => new[a] = Ud2Byte(0)
             /\ Second(a, m + 1) /\ ~First(a, m + 1) => new[a] = Ud2Byte(1)
  <2>1. e \in Int
    BY DEF e
  <2>2. e # e + 1 /\ e - e = 0 /\ (e + 1) - e = 1
    BY <2>1
  <2>3. CASE a = e
    <3>1. new[a] = Ud2Byte(0) /\ First(a, m + 1)
      BY <1>2, <1>3, <2>2, <2>3
    <3> QED BY <3>1
  <2>4. CASE a = e + 1
    <3>1. new[a] = Ud2Byte(1) /\ Second(a, m + 1)
      BY <1>2, <1>3, <2>2, <2>4
    <3> QED BY <3>1
  <2>5. CASE a # e /\ a # e + 1
    <3>1. new[a] = img[a]
      BY <1>2, <2>5
    <3>2. /\ First(a, m + 1) <=> First(a, m)
          /\ Second(a, m + 1) <=> Second(a, m)
      BY <1>3, <2>5
    <3> QED BY <1>4, <3>1, <3>2
  <2> QED BY <2>3, <2>4, <2>5
<1>6. new = [a \in DOMAIN base |-> new[a]]
  BY <1>2
<1>7. Marked(new, base, es, m + 1)
  BY <1>5, <1>6 DEF Marked, First, Second
<1> QED BY <1>7 DEF new, e

\* All the exits are in the image.
LEMMA PaintedIs ==
  ASSUME NEW base, base = [a \in DOMAIN base |-> base[a]], NEW es,
         Len(es) \in Nat, \A k \in 1 .. Len(es) : es[k] \in Int
  PROVE  Marked(Painted(base, es), base, es, Len(es))
<1> DEFINE n == Len(es)
           One(img, k) == IF Fits(es[k]) THEN Ud2(img, es[k]) ELSE img
           Step(g, k) == IF k = 0 THEN base ELSE One(g[k - 1], k)
           Good(m, g) == /\ g = [k \in 0 .. m |-> g[k]]
                         /\ \A k \in 0 .. m : g[k] = Step(g, k)
                         /\ Marked(g[m], base, es, m)
           S == {m \in 0 .. n : \E g : Good(m, g)}
<1>1. 0 \in S
  <2>1. Marked(base, base, es, 0)
    BY DEF Marked
  <2>2. Good(0, [k \in 0 .. 0 |-> base])
    BY <2>1
  <2>3. 0 \in 0 .. n
    OBVIOUS
  <2> HIDE DEF Good
  <2>4. \E g : Good(0, g)
    BY <2>2
  <2> QED BY <2>3, <2>4
<1>2. ASSUME NEW m \in S, m \in Nat, m < n PROVE m + 1 \in S
  <2>1. PICK g : Good(m, g)
    OBVIOUS
  <2>2. g = [k \in 0 .. m |-> g[k]] /\ Marked(g[m], base, es, m)
        /\ \A k \in 0 .. m : g[k] = Step(g, k)
    BY <2>1
  <2> DEFINE h == [k \in 0 .. m + 1 |->
                     IF k <= m THEN g[k] ELSE One(g[m], m + 1)]
  <2>3. es[m + 1] \in Int
    <3>1. m + 1 \in 1 .. n
      BY <1>2
    <3> QED BY <3>1
  <2>4. Marked(One(g[m], m + 1), base, es, m + 1)
    BY <1>2, <2>2, <2>3, MarkOne, MarkNone
  <2>5. h[m + 1] = One(g[m], m + 1) /\ \A k \in 0 .. m : h[k] = g[k]
    BY <1>2
  <2>6. h = [k \in 0 .. m + 1 |-> h[k]]
    OBVIOUS
  <2> HIDE DEF h
  <2>7. ASSUME NEW k \in 0 .. m + 1 PROVE h[k] = Step(h, k)
    <3>1. CASE k = m + 1
      <4>1. k # 0 /\ k - 1 = m /\ m \in 0 .. m
        BY <1>2, <3>1
      <4> QED BY <2>5, <3>1, <4>1
    <3>2. CASE k \in 0 .. m
      <4>1. k = 0 \/ (k - 1 \in 0 .. m)
        BY <1>2, <3>2
      <4> QED BY <2>2, <2>5, <3>2, <4>1
    <3> QED BY <1>2, <3>1, <3>2
  <2>8. Marked(h[m + 1], base, es, m + 1)
    BY <2>4, <2>5
  <2>9. Good(m + 1, h)
    BY <2>6, <2>7, <2>8
  <2>10. m + 1 \in 0 .. n
    BY <1>2
  <2> HIDE DEF Good
  <2> QED BY <2>9, <2>10
<1>3. n \in S
  <2> HIDE DEF S
  <2>1. 0 .. n \subseteq S
    BY <1>1, <1>2, Climb
  <2> QED BY <2>1
<1>4. PICK g : Good(n, g)
  BY <1>3
<1>5. g = [k \in 0 .. n |-> Step(g, k)]
  BY <1>4
<1> DEFINE C == CHOOSE a : a = [k \in 0 .. n |-> Step(a, k)]
<1>6. C = [k \in 0 .. n |-> Step(C, k)]
  BY <1>5
<1>7. Painted(base, es) = C[n]
  BY DEF Painted
<1> HIDE DEF C
<1>8. \A k \in 0 .. n : Marked(C[k], base, es, k)
  <2> DEFINE U == {m \in 0 .. n : Marked(C[m], base, es, m)}
  <2>1. 0 \in U
    <3>1. Marked(base, base, es, 0)
      BY DEF Marked
    <3>2. C[0] = base
      BY <1>6
    <3> QED BY <3>1, <3>2
  <2>2. ASSUME NEW m \in U, m \in Nat, m < n PROVE m + 1 \in U
    <3>1. m + 1 \in 0 .. n /\ m + 1 # 0 /\ (m + 1) - 1 = m
      BY <2>2
    <3>2. C[m + 1] = One(C[m], m + 1)
      BY <1>6, <3>1
    <3>3. es[m + 1] \in Int
      BY <2>2
    <3>4. Marked(C[m + 1], base, es, m + 1)
      BY <2>2, <3>2, <3>3, MarkOne, MarkNone
    <3> QED BY <3>1, <3>4
  <2> HIDE DEF U
  <2>3. 0 .. n \subseteq U
    BY <2>1, <2>2, Climb
  <2> QED BY <2>3 DEF U
<1> QED BY <1>7, <1>8

-----------------------------------------------------------------------------
(* The layout of a region that was not refused.                            *)

Region ==
    /\ TextInv /\ WalkInv /\ work = <<>> /\ ~ExitInside /\ ~Spans
    /\ CanMove /\ image = Image

\* The instructions of the region are the text's.
LEMMA IncludedAre ==
  ASSUME Region, NEW i \in included
  PROVE  i \in Index /\ Fit(i)
BY DEF Region, WalkInv

\* A short site takes the instruction after it along, and no other; every
\* site covers the jump.
LEMMA SiteShape ==
  ASSUME Region, NEW s \in Sites
  PROVE  /\ s \in included /\ s \in Index /\ IsThunk(s)
         /\ Short(s) => /\ s + 1 \in Index /\ SiteEnd(s) = s + 1
                        /\ Taken(s) = {s + 1} /\ Movable(s + 1)
         /\ ~Short(s) => SiteEnd(s) = s
         /\ Addr[SiteEnd(s) + 1] - Addr[s] >= Jump
<1>1. s \in included /\ IsThunk(s) /\ s \in Index /\ TextInv
  BY DEF Sites, Region, WalkInv
<1>2. /\ Len(text) \in Nat /\ Index = 1 .. Len(text) /\ s \in Nat
      /\ s \in 1 .. Len(text) + 1 /\ s + 1 \in 1 .. Len(text) + 1
      /\ Addr[s] \in Nat /\ Addr[s + 1] \in Nat
      /\ Addr[s + 1] = Addr[s] + text[s].len
      /\ text[s].len \in Nat
  BY <1>1, AddrIs
<1>3. text[s].len + 1 >= Jump /\ Jump \in Nat
  BY <1>1, <1>2, TextType, BoundsAssumption DEF TextInv, IsThunk
<1>4. ASSUME ~Short(s)
      PROVE  SiteEnd(s) = s /\ Addr[SiteEnd(s) + 1] - Addr[s] >= Jump
  <2>1. ~(text[s].len < Jump) /\ SiteEnd(s) = s
    BY <1>1, <1>4 DEF Short, SiteEnd
  <2> QED BY <1>2, <1>3, <2>1
<1>5. ASSUME Short(s)
      PROVE  /\ s + 1 \in Index /\ SiteEnd(s) = s + 1
             /\ Taken(s) = {s + 1} /\ Movable(s + 1)
             /\ Addr[SiteEnd(s) + 1] - Addr[s] >= Jump
  <2> DEFINE stops == {m \in s .. Len(text) :
                         \/ Addr[m + 1] - Addr[s] >= Jump
                         \/ m > s /\ IsBranch(m)}
  <2>1. SiteLast(s) = IF stops = {} THEN 0
                      ELSE CHOOSE m \in stops : \A n \in stops : m <= n
    BY DEF SiteLast
  <2>2. SiteLast(s) # 0 /\ \A j \in Taken(s) : Movable(j)
    BY <1>5 DEF Region, CanMove
  <2>3. stops \subseteq Nat /\ stops \subseteq s .. Len(text)
    BY <1>2
  <2>4. s \notin stops
    <3>1. text[s].len < Jump
      BY <1>5 DEF Short
    <3> QED BY <1>2, <1>3, <3>1
  <2>5. ASSUME s + 1 \in Index PROVE Addr[(s + 1) + 1] - Addr[s] >= Jump
    <3>1. /\ Addr[(s + 1) + 1] = Addr[s + 1] + text[s + 1].len
          /\ text[s + 1].len \in Nat /\ text[s + 1].len > 0
      BY <1>1, <2>5, AddrIs
    <3> DEFINE x == Addr[s]
               y == Addr[s + 1]
               z == Addr[(s + 1) + 1]
               k == text[s].len
               l == text[s + 1].len
    <3>2. /\ x \in Nat /\ y \in Nat /\ k \in Nat /\ l \in Nat /\ l > 0
          /\ y = x + k /\ z = y + l /\ k + 1 >= Jump /\ Jump \in Nat
      BY <1>2, <1>3, <3>1
    <3> HIDE DEF x, y, z, k, l
    <3>3. z - x >= Jump
      BY <3>2
    <3> QED BY <3>3 DEF x, z
  <2>12. s + 1 \in Index => s + 1 \in stops
    BY <1>2, <2>5
  <2> HIDE DEF stops
  <2>6. \E m \in stops : \A n \in stops : m <= n
    BY <2>1, <2>2, <2>3, Least
  <2>7. SiteLast(s) \in stops /\ \A n \in stops : SiteLast(s) <= n
    BY <2>1, <2>2, <2>6
  <2>8. SiteLast(s) = s + 1 /\ s + 1 \in Index
    <3>1. SiteLast(s) \in s .. Len(text) /\ SiteLast(s) # s
      BY <2>3, <2>4, <2>7
    <3>2. s + 1 \in Index
      BY <1>2, <3>1
    <3> QED BY <1>2, <2>12, <2>7, <3>1, <3>2
  <2>9. SiteEnd(s) = s + 1 /\ Taken(s) = {s + 1}
    BY <1>2, <1>5, <2>8 DEF SiteEnd, Taken
  <2>10. Addr[(s + 1) + 1] - Addr[s] >= Jump
    BY <2>5, <2>8
  <2>11. Movable(s + 1)
    BY <2>2, <2>9
  <2> QED BY <2>8, <2>9, <2>10, <2>11
<1> QED BY <1>1, <1>4, <1>5

\* What moves into a thunk: the instruction after a short site.
LEMMA SwallowedAre ==
  ASSUME Region
  PROVE  /\ \A j \in Swallowed :
               /\ \E s \in Sites : Short(s) /\ j = s + 1
               /\ j \in included /\ Movable(j) /\ j \notin Sites
         /\ \A s \in Sites : Short(s) => s + 1 \in Swallowed
<1>1. ASSUME NEW j \in Swallowed
      PROVE  /\ \E s \in Sites : Short(s) /\ j = s + 1
             /\ j \in included /\ Movable(j) /\ j \notin Sites
  <2>1. PICK s \in Sites : Short(s) /\ j \in Taken(s)
    BY DEF Swallowed
  <2>2. j = s + 1 /\ Movable(j)
    BY <2>1, SiteShape
  <2> QED BY <2>1, <2>2 DEF Movable, Sites
<1>2. ASSUME NEW s \in Sites, Short(s) PROVE s + 1 \in Swallowed
  <2>1. s + 1 \in Taken(s)
    BY <1>2, SiteShape
  <2> QED BY <1>2, <2>1 DEF Swallowed
<1> QED BY <1>1, <1>2

\* The bytes from site or instruction i on that are its own: up to what its
\* jump covers.
Span(i) == Addr[i] .. (Addr[(IF i \in Sites THEN SiteEnd(i) ELSE i) + 1] - 1)

\* A byte of it belongs to i or to the instruction moved with i.
LEMMA SpanIs ==
  ASSUME Region, NEW i \in included, NEW a \in Span(i)
  PROVE  /\ a \in Nat /\ a < End
         /\ \E o \in Index : /\ Addr[o] <= a /\ a < Addr[o + 1]
                             /\ \/ o = i
                                \/ /\ i \in Sites /\ Short(i) /\ o = i + 1
                                   /\ Addr[i + 1] <= a
<1>1. TextInv /\ i \in Index
  BY IncludedAre DEF Region
<1>2. ASSUME NEW k \in Index PROVE Addr[k + 1] <= End /\ Addr[k + 1] \in Nat
                                   /\ Addr[k] \in Nat
  <2>1. Addr[k] \in 0 .. End /\ Addr[k + 1] \in 0 .. End /\ End \in Nat
    BY <1>1, WhereTo, AddrIs
  <2> QED BY <2>1
<1>3. CASE i \in Sites /\ Short(i)
  <2>1. i + 1 \in Index /\ SiteEnd(i) = i + 1
    BY <1>3, SiteShape
  <2>2. a \in Addr[i] .. (Addr[(i + 1) + 1] - 1)
    BY <1>3, <2>1 DEF Span
  <2>3. /\ Addr[i] \in Nat /\ Addr[(i + 1) + 1] \in Nat /\ Addr[i + 1] \in Nat
        /\ Addr[(i + 1) + 1] <= End /\ End \in Nat
    BY <1>1, <1>2, <2>1, AddrIs
  <2>4. a \in Nat /\ a < End /\ Addr[i] <= a /\ a < Addr[(i + 1) + 1]
    BY <2>2, <2>3
  <2>5. CASE a < Addr[i + 1]
    BY <1>1, <2>4, <2>5
  <2>6. CASE Addr[i + 1] <= a
    BY <1>3, <2>1, <2>4, <2>6
  <2> QED BY <2>3, <2>4, <2>5, <2>6
<1>4. CASE ~(i \in Sites /\ Short(i))
  <2>1. a \in Addr[i] .. (Addr[i + 1] - 1)
    BY <1>4, SiteShape DEF Span
  <2>2. /\ Addr[i] \in Nat /\ Addr[i + 1] \in Nat
        /\ Addr[i + 1] <= End /\ End \in Nat
    BY <1>1, <1>2, AddrIs
  <2>3. a \in Nat /\ a < End /\ Addr[i] <= a /\ a < Addr[i + 1]
    BY <2>1, <2>2
  <2> QED BY <1>1, <2>3
<1> QED BY <1>3, <1>4

\* It is in the region's chunk.
LEMMA SpanInChunk ==
  ASSUME Region, NEW i \in included, NEW a \in Span(i)
  PROVE  InChunk(a)
<1>1. TextInv /\ i \in Index /\ Edge \in Nat
  BY IncludedAre, BoundsAssumption DEF Region
<1>2. PICK o \in Index : /\ a \in Nat /\ Addr[o] <= a /\ a < Addr[o + 1]
                         /\ o = i \/ (i \in Sites /\ Short(i) /\ o = i + 1)
  BY SpanIs
<1>3. o \in included
  BY <1>2, SwallowedAre
<1>4. /\ Addr[o] \in Nat /\ Addr[o + 1] \in Nat
  BY <1>1, AddrIs
<1>5. ~(Addr[o] < Edge /\ Edge < Addr[o + 1])
  BY <1>3 DEF Region, Spans
<1>6. a < Edge <=> Addr[o] < Edge
  BY <1>1, <1>2, <1>4, <1>5
<1> QED BY <1>3, <1>6 DEF InChunk

\* The site that covers a byte.
LEMMA CoveredBy ==
  ASSUME Region, NEW i \in included, i \notin Swallowed, NEW a \in Span(i),
         NEW s \in Sites \ Swallowed,
         Addr[s] <= a, a < Addr[SiteEnd(s) + 1]
  PROVE  s = i
<1>1. TextInv /\ i \in Index /\ s \in Index
  BY IncludedAre, SiteShape DEF Region
<1>2. /\ s \in Nat /\ i \in Nat /\ Addr[s] \in Nat /\ Addr[s + 1] \in Nat
  BY <1>1, AddrIs
<1>3. PICK o \in Index : /\ a \in Nat /\ Addr[o] <= a /\ a < Addr[o + 1]
                         /\ o = i \/ (i \in Sites /\ Short(i) /\ o = i + 1)
  BY SpanIs
<1>4. o = s \/ (Short(s) /\ o = s + 1)
  <2>1. CASE a < Addr[s + 1]
    BY <1>1, <1>3, <2>1, OneOwner
  <2>2. CASE ~(a < Addr[s + 1])
    <3>1. SiteEnd(s) # s
      BY <2>2
    <3>2. Short(s) /\ SiteEnd(s) = s + 1 /\ s + 1 \in Index
      BY <3>1, SiteShape
    <3>3. Addr[s + 1] <= a /\ a < Addr[(s + 1) + 1]
      BY <1>2, <1>3, <2>2, <3>2
    <3> QED BY <1>1, <1>3, <3>2, <3>3, OneOwner
  <2> QED BY <2>1, <2>2
<1>5. o = i + 1 /\ i \in Sites /\ Short(i) => o \in Swallowed
  BY SwallowedAre
<1>6. o = s + 1 /\ Short(s) => o \in Swallowed
  BY SwallowedAre
<1> QED BY <1>2, <1>3, <1>4, <1>5, <1>6

\* What the overlays put in the bytes of an instruction that stays where it
\* is: its own bytes, or the jump of a site.
LEMMA Overlays ==
  ASSUME Region, NEW i \in included, i \notin Swallowed, NEW n \in Nat,
         n < IF i \in Sites THEN Jump ELSE text[i].len
  PROVE  /\ Addr[i] + n \in Span(i)
         /\ Overlaid(Addr[i] + n) =
              [by |-> IF i \in Sites THEN "jump"
                      ELSE IF text[i].kind \in Avx512 THEN "rewrite"
                      ELSE "program",
               of |-> i, n |-> n]
<1> DEFINE a == Addr[i] + n
           site == {s \in Sites \ Swallowed :
                      Addr[s] <= a /\ a < Addr[SiteEnd(s) + 1]}
<1>1. /\ TextInv /\ i \in Index /\ Addr[i] \in Nat
      /\ Addr[i + 1] = Addr[i] + text[i].len /\ text[i].len \in Nat
      /\ Addr[i + 1] \in Nat /\ Jump \in Nat
  BY IncludedAre, AddrIs, BoundsAssumption DEF Region
<1>2. a \in Nat /\ a - Addr[i] = n /\ Addr[i] <= a
  BY <1>1
<1>3. a \in Span(i)
  <2>1. CASE i \in Sites
    <3>1. Addr[SiteEnd(i) + 1] - Addr[i] >= Jump
      BY <2>1, SiteShape
    <3>2. Addr[SiteEnd(i) + 1] \in Nat
      BY <1>1, <2>1, SiteShape, AddrIs
    <3>3. a < Addr[SiteEnd(i) + 1]
      BY <1>1, <2>1, <3>1, <3>2
    <3> QED BY <1>1, <1>2, <2>1, <3>2, <3>3 DEF Span
  <2>2. CASE i \notin Sites
    BY <1>1, <2>2 DEF Span
  <2> QED BY <2>1, <2>2
<1>4. a < End /\ InChunk(a)
  BY <1>3, SpanIs, SpanInChunk
<1>5. \A s \in site : s = i
  BY <1>3, CoveredBy
<1> DEFINE j == CHOOSE j \in Index : Addr[j] <= a /\ a < Addr[j + 1]
           chosen == CHOOSE s \in site : TRUE
<1>6. Overlaid(a) =
        IF a >= End \/ ~InChunk(a) THEN [by |-> "none", of |-> 0, n |-> 0]
        ELSE IF site # {}
        THEN IF a - Addr[chosen] < Jump
             THEN [by |-> "jump", of |-> chosen, n |-> a - Addr[chosen]]
             ELSE [by |-> "nop", of |-> chosen, n |-> 0]
        ELSE [by |-> IF j \in included /\ text[j].kind \in Avx512
                     THEN "rewrite" ELSE "program",
              of |-> j, n |-> a - Addr[j]]
  BY DEF Overlaid
<1>7. CASE i \in Sites
  <2>1. i \in site
    <3>1. a < Addr[SiteEnd(i) + 1]
      <4>1. Addr[SiteEnd(i) + 1] \in Nat
        BY <1>1, <1>7, SiteShape, AddrIs
      <4> QED BY <1>1, <1>2, <1>3, <1>7, <4>1 DEF Span
    <3> QED BY <1>2, <1>7, <3>1
  <2>2. chosen = i /\ site # {}
    BY <1>5, <2>1
  <2> HIDE DEF a, site, chosen, j
  <2>3. ~(a >= End \/ ~InChunk(a)) /\ a - Addr[i] = n /\ n < Jump
    BY <1>1, <1>2, <1>4, <1>7, AddrIs
  <2>4. Overlaid(a) = [by |-> "jump", of |-> i, n |-> n]
    BY <1>6, <2>2, <2>3
  <2> QED BY <1>3, <1>7, <2>4 DEF a
<1>8. CASE i \notin Sites
  <2>1. site = {}
    BY <1>5, <1>8
  <2>2. a < Addr[i + 1] /\ Addr[i] <= a
    BY <1>1, <1>2, <1>8
  <2>3. j = i
    <3>1. \A o \in Index : Addr[o] <= a /\ a < Addr[o + 1] => o = i
      BY <1>1, <1>2, <2>2, OneOwner
    <3> QED BY <1>1, <2>2, <3>1
  <2> HIDE DEF a, site, chosen, j
  <2>4. ~(a >= End \/ ~InChunk(a)) /\ a - Addr[i] = n
    BY <1>1, <1>2, <1>4, AddrIs
  <2>5. Overlaid(a) = [by |-> IF text[i].kind \in Avx512 THEN "rewrite"
                              ELSE "program",
                       of |-> i, n |-> n]
    BY <1>6, <2>1, <2>3, <2>4
  <2> QED BY <1>3, <1>8, <2>5 DEF a
<1> QED BY <1>7, <1>8

-----------------------------------------------------------------------------
(* The code pages of a phase.                                              *)

Phase ==
    /\ Region
    /\ loop \in Loops \cup {NoLoop}
    /\ extra \in {NoAddr, loop.head, loop.exit}

\* Where the phase leaves: the region's exits and its own.
Leaves(a) == Exited(a) \/ (extra # NoAddr /\ a = extra)

\* In a region, control stays within the region and its exits.
LEMMA Closed ==
  ASSUME Region
  PROVE  /\ Seen(Addr[entry])
         /\ \A i \in included : /\ IsBranch(i) => Seen(Target(i))
                                /\ text[i].kind # "jmp" => Seen(Addr[i + 1])
<1>1. \A a : Known(a) => Seen(a)
  BY DEF Known, Region
<1> QED BY <1>1 DEF Region, WalkInv

\* A phase's own exit is the start of an instruction or the end of the text,
\* in the region or an exit of it, and one of a branch's two ways.
LEMMA OwnExit ==
  ASSUME Phase, extra # NoAddr
  PROVE  /\ extra \in 0 .. End /\ Seen(extra)
         /\ extra = loop.head \/ extra = loop.exit
         /\ \E o \in 1 .. Len(text) + 1 : extra = Addr[o]
         /\ \E j \in included :
               /\ text[j].kind \in Conditional
               /\ extra = Target(j) \/ extra = Addr[j + 1]
<1>1. loop # NoLoop
  BY DEF Phase, NoLoop
<1>2. PICK j \in included : /\ IsLoop(j)
                            /\ loop = [head |-> Target(j), exit |-> Addr[j + 1]]
  BY <1>1 DEF Phase, Loops
<1>3. /\ text[j].kind \in Conditional /\ At(Target(j)) \in included
  BY <1>2 DEF IsLoop
<1>4. /\ TextInv /\ j \in Index /\ included \subseteq Index
  BY IncludedAre DEF Phase, Region, WalkInv
<1>5. extra = Target(j) \/ extra = Addr[j + 1]
  BY <1>2 DEF Phase
<1>6. j + 1 \in 1 .. Len(text) + 1
  BY <1>4, AddrIs
<1>7. At(Target(j)) \in 1 .. Len(text) + 1 /\ Addr[At(Target(j))] = Target(j)
  BY <1>3, <1>4, AtIs, AddrIs
<1>8. Seen(Target(j)) /\ Seen(Addr[j + 1])
  <2>1. IsBranch(j) /\ text[j].kind # "jmp"
    BY <1>3 DEF IsBranch, Conditional
  <2> QED BY <2>1, Closed DEF Phase
<1>9. Target(j) \in 0 .. End /\ Addr[j + 1] \in 0 .. End
  BY <1>4, WhereTo
<1> QED BY <1>2, <1>3, <1>5, <1>6, <1>7, <1>8, <1>9

\* The exits are in the text or at its end, and nothing of the region is
\* there.
LEMMA ExitsAre ==
  ASSUME Region, NEW a, Exited(a)
  PROVE  /\ a \in 0 .. End /\ At(a) \notin included
         /\ \A i \in included : ~(Addr[i] < a /\ a < Addr[i + 1])
<1>1. PICK k \in DOMAIN exits : exits[k] = a
  BY DEF Exited
<1>2. exits \in Seq(0 .. End)
  BY DEF Region, WalkInv
<1>3. a \in 0 .. End
  <2> DEFINE Addresses == 0 .. End
  <2> HIDE DEF Addresses
  <2>1. exits \in Seq(Addresses)
    BY <1>2 DEF Addresses
  <2>2. k \in 1 .. Len(exits)
    BY <1>1, <2>1
  <2>3. exits[k] \in Addresses
    BY <2>1, <2>2, ElementOfSeq
  <2> QED BY <1>1, <2>3 DEF Addresses
<1> QED BY <1>1, <1>3 DEF Region, WalkInv, ExitInside

\* Two bytes in a row are in one chunk, unless a chunk ends between them.
LEMMA NextInChunk ==
  ASSUME NEW e \in Nat, e + 1 # Edge
  PROVE  InChunk(e + 1) <=> InChunk(e)
<1>1. e + 1 < Edge <=> e < Edge
  BY BoundsAssumption
<1> QED BY <1>1 DEF InChunk

\* Where the pages differ from the overlays.
LEMMA PagesAre ==
  ASSUME Phase, Apart, NEW a \in 0 .. End + 2, InChunk(a)
  PROVE  /\ ~Leaves(a) /\ ~Leaves(a - 1) => CodePages[a] = Overlaid(a)
         /\ Leaves(a) /\ ~Leaves(a - 1) => CodePages[a] = Ud2Byte(0)
         /\ Leaves(a - 1) /\ ~Leaves(a) => CodePages[a] = Ud2Byte(1)
<1> DEFINE base == [b \in 0 .. End + 2 |-> Overlaid(b)]
           n == Len(exits)
<1>1. exits \in Seq(0 .. End) /\ End \in Nat
  BY AddrIs DEF Phase, Region, WalkInv
<1>2. /\ n \in Nat /\ DOMAIN exits = 1 .. n
      /\ \A k \in 1 .. n : exits[k] \in Int /\ exits[k] \in 0 .. End
  BY <1>1
<1>3. Marked(image, base, exits, n)
  <2>1. base = [b \in DOMAIN base |-> base[b]]
    OBVIOUS
  <2>2. image = Painted(base, exits)
    BY DEF Phase, Region, Image
  <2> HIDE DEF base
  <2> QED BY <1>2, <2>1, <2>2, PaintedIs
<1>4. DOMAIN base = 0 .. End + 2 /\ base[a] = Overlaid(a)
  OBVIOUS
<1> HIDE DEF base
<1>5. a \in Int /\ \A b \in Int : b + 1 = a <=> b = a - 1
  BY <1>1
\* A place where the phase leaves, at this byte or the one before, fits.
<1>6. ASSUME NEW e, Leaves(e), e = a \/ e + 1 = a
      PROVE  Fits(e) /\ e \in Nat
  <2>1. e \in 0 .. End /\ (Exited(e) \/ e = loop.head \/ e = loop.exit)
    BY <1>6, ExitsAre, OwnExit DEF Leaves, Phase
  <2>2. e + 1 # Edge /\ e \in Nat
    BY <1>1, <2>1 DEF Apart
  <2>3. InChunk(e + 1) <=> InChunk(e)
    BY <2>2, NextInChunk
  <2> QED BY <1>6, <2>2, <2>3 DEF Fits
<1>7. CASE extra = NoAddr
  <2>1. CodePages = image
    BY <1>7 DEF CodePages
  <2>2. \A k \in 1 .. n : Leaves(exits[k])
    BY <1>2 DEF Leaves, Exited
  <2>3. /\ Leaves(a) <=> \E k \in 1 .. n : Fits(exits[k]) /\ exits[k] = a
        /\ Leaves(a - 1) <=> \E k \in 1 .. n : Fits(exits[k]) /\ exits[k] + 1 = a
    BY <1>2, <1>5, <1>6, <1>7, <2>2 DEF Leaves, Exited
  <2> QED BY <1>3, <1>4, <2>1, <2>3 DEF Marked
<1>8. CASE extra # NoAddr
  <2> DEFINE es == [k \in 1 .. n + 1 |-> IF k = n + 1 THEN extra ELSE exits[k]]
  <2>1. CodePages = Ud2(image, es[n + 1])
    BY <1>2, <1>8 DEF CodePages
  <2>2. extra \in Int /\ Leaves(extra)
    BY <1>1, <1>8, OwnExit DEF Leaves
  <2>3. /\ \A k \in 1 .. n : es[k] = exits[k]
        /\ es[n + 1] = extra
    BY <1>2
  <2> HIDE DEF es
  <2>4. Marked(image, base, es, n)
    BY <1>3, <2>3 DEF Marked
  <2>5. \E img : Marked(img, base, es, n + 1) /\ CodePages[a] = img[a]
    <3>1. CASE Fits(extra)
      BY <1>2, <2>1, <2>2, <2>3, <2>4, <3>1, MarkOne
    <3>2. CASE ~Fits(extra)
      <4>1. a # extra /\ a # extra + 1
        BY <1>6, <2>2, <3>2
      <4>2. a \in DOMAIN image
        BY <1>3, <1>4 DEF Marked
      <4>3. CodePages[a] = image[a]
        BY <2>1, <2>3, <4>1, <4>2 DEF Ud2
      <4>4. Marked(image, base, es, n + 1)
        BY <1>2, <2>3, <2>4, <3>2, MarkNone
      <4> QED BY <4>3, <4>4
    <3> QED BY <3>1, <3>2
  <2>6. \A k \in 1 .. n + 1 : k \in 1 .. n \/ k = n + 1
    BY <1>2
  <2>7. n + 1 \in 1 .. n + 1 /\ 1 .. n \subseteq 1 .. n + 1
    BY <1>2
  <2>8. \A k \in 1 .. n + 1 : es[k] \in Int /\ Leaves(es[k])
    <3>1. \A k \in 1 .. n : Leaves(exits[k])
      BY <1>2 DEF Leaves, Exited
    <3> QED BY <1>2, <2>2, <2>3, <2>6, <3>1
  <2>9. \A b : Leaves(b) => \E k \in 1 .. n + 1 : es[k] = b
    BY <1>2, <1>8, <2>3, <2>6, <2>7 DEF Leaves, Exited
  <2>10. /\ Leaves(a) <=> \E k \in 1 .. n + 1 : Fits(es[k]) /\ es[k] = a
         /\ Leaves(a - 1) <=> \E k \in 1 .. n + 1 : Fits(es[k]) /\ es[k] + 1 = a
    BY <1>5, <1>6, <2>8, <2>9
  <2> QED BY <1>4, <2>5, <2>10 DEF Marked
<1> QED BY <1>7, <1>8

\* The bytes of an instruction that stays where it is are untouched, unless
\* the phase leaves there.
LEMMA Untouched ==
  ASSUME Phase, Apart, NEW i \in included, i \notin Swallowed,
         ~Leaves(Addr[i]), NEW a \in Span(i)
  PROVE  CodePages[a] = Overlaid(a)
<1>1. Region /\ TextInv /\ i \in Index
  BY IncludedAre DEF Phase, Region
<1>2. /\ i \in Nat /\ Addr[i] \in Nat /\ Addr[i] \in 0 .. End
      /\ i \in 1 .. Len(text) + 1 /\ End \in Nat
  BY <1>1, AddrIs, WhereTo
<1>3. ASSUME NEW b \in Span(i), Leaves(b) PROVE FALSE
  <2>1. PICK o \in Index : /\ b \in Nat /\ Addr[o] <= b /\ b < Addr[o + 1]
                           /\ \/ o = i
                              \/ /\ i \in Sites /\ Short(i) /\ o = i + 1
                                 /\ Addr[i + 1] <= b
    BY <1>1, SpanIs
  <2>2. o \in included
    <3>1. o = i + 1 /\ i \in Sites /\ Short(i) => o \in included
      BY <1>1, SwallowedAre
    <3> QED BY <2>1, <3>1
  <2>3. o \in 1 .. Len(text) + 1 /\ o + 1 \in 1 .. Len(text) + 1 /\ o \in Nat
    BY <1>1, AddrIs
  <2>4. At(Addr[o]) = o /\ Addr[o] \in Nat
    BY <1>1, <2>3, AtIs, AddrIs
  <2>5. ~Exited(b)
    <3>1. SUFFICES ASSUME Exited(b) PROVE FALSE
      OBVIOUS
    <3>2. b = Addr[o]
      BY <1>1, <2>1, <2>2, <2>4, <3>1, ExitsAre
    <3> QED BY <1>1, <2>2, <2>4, <3>1, <3>2, ExitsAre
  <2>6. extra # NoAddr /\ b = extra
    BY <1>3, <2>5 DEF Leaves
  <2>7. b = Addr[o]
    <3>1. PICK p \in 1 .. Len(text) + 1 : b = Addr[p]
      BY <2>6, OwnExit
    <3>2. ~(o < p /\ p < o + 1)
      BY <1>1, <2>3, AddrIs
    <3>3. Addr[o] # b => o < p /\ p < o + 1
      BY <1>1, <2>1, <2>3, <2>4, <3>1, Ordered
    <3> QED BY <3>2, <3>3
  <2>8. o # i
    BY <1>3, <2>7
  <2>9. i \in Sites /\ o = i + 1 /\ Movable(o)
    BY <1>1, <2>1, <2>8, SiteShape
  <2>10. PICK j \in included : /\ text[j].kind \in Conditional
                               /\ b = Target(j) \/ b = Addr[j + 1]
    BY <2>6, OwnExit
  <2>11. b # Target(j)
    <3>1. IsBranch(j) => Target(j) \in Targets
      BY DEF Targets
    <3>2. Addr[o] \notin Targets
      BY <2>9 DEF Movable
    <3> QED BY <2>7, <2>10, <3>1, <3>2 DEF IsBranch
  <2>12. b = Addr[j + 1] => j = i
    <3>1. /\ j \in Index /\ j \in Nat /\ j + 1 \in 1 .. Len(text) + 1
          /\ i + 1 \in 1 .. Len(text) + 1
      BY <1>1, IncludedAre, AddrIs
    <3>2. b = Addr[j + 1] => j + 1 = i + 1
      BY <1>1, <2>7, <2>9, <3>1, Ordered
    <3> QED BY <1>2, <3>1, <3>2
  <2>13. text[i].kind \notin Conditional
    BY <2>9 DEF Sites, IsThunk, Conditional
  <2> QED BY <2>10, <2>11, <2>12, <2>13
<1>4. ~Leaves(a)
  BY <1>3
<1>5. a \in Nat /\ a < End /\ Addr[i] <= a
  <2>1. a \in Nat /\ a < End
    BY <1>1, SpanIs
  <2> QED BY <2>1 DEF Span
<1>6. ~Leaves(a - 1)
  <2>1. CASE a = Addr[i]
    <3>1. SUFFICES ASSUME Leaves(a - 1) PROVE FALSE
      OBVIOUS
    <3>2. a - 1 \in 0 .. End /\ (a - 1) + 1 = a
      <4>1. a - 1 \in 0 .. End
        BY <1>1, <3>1, ExitsAre, OwnExit DEF Leaves
      <4> QED BY <1>2, <1>5, <4>1
    <3>3. \/ Exited(a - 1) \/ a - 1 = loop.head \/ a - 1 = loop.exit
      BY <3>1, OwnExit DEF Leaves
    <3>4. ~Seen((a - 1) + 1)
      BY <3>2, <3>3 DEF Apart, Seen
    <3>5. Seen(a)
      BY <1>1, <2>1, AtIs DEF Seen
    <3> QED BY <3>2, <3>4, <3>5
  <2>2. CASE a # Addr[i]
    <3> DEFINE u == Addr[(IF i \in Sites THEN SiteEnd(i) ELSE i) + 1]
    <3>1. u \in Nat
      <4>1. i \in Sites => SiteEnd(i) \in Index
        BY <1>1, SiteShape
      <4> QED BY <1>1, <4>1, AddrIs
    <3>2. a \in Addr[i] .. (u - 1)
      BY DEF Span
    <3> HIDE DEF u
    <3>3. a - 1 \in Addr[i] .. (u - 1)
      BY <1>2, <1>5, <2>2, <3>1, <3>2
    <3>4. a - 1 \in Span(i)
      BY <3>3 DEF Span, u
    <3> QED BY <1>3, <3>4
  <2> QED BY <2>1, <2>2
<1>7. a \in 0 .. End + 2 /\ InChunk(a)
  BY <1>1, <1>2, <1>5, SpanInChunk
<1> QED BY <1>4, <1>6, <1>7, PagesAre

-----------------------------------------------------------------------------
(* What the card finds.                                                    *)

\* A place where a phase leaves is in the region or an exit of it, and
\* nothing of either is at the byte after it.
LEMMA LeavesAre ==
  ASSUME Phase, Apart, NEW a, Leaves(a)
  PROVE  /\ a \in 0 .. End /\ Seen(a) /\ ~Leaves(a + 1) /\ ~Seen(a + 1)
         /\ a + 1 # Edge
<1>1. ASSUME NEW b, Leaves(b)
      PROVE  /\ b \in 0 .. End /\ Seen(b)
             /\ Exited(b) \/ b = loop.head \/ b = loop.exit
  <2>1. CASE Exited(b)
    BY <2>1, ExitsAre DEF Seen, Phase
  <2>2. CASE extra # NoAddr /\ b = extra
    BY <2>2, OwnExit
  <2> QED BY <1>1, <2>1, <2>2 DEF Leaves
<1>2. ~Seen(a + 1) /\ a + 1 # Edge
  BY <1>1 DEF Apart, Seen
<1> QED BY <1>1, <1>2

\* In the code, at an address the walk has seen, the card finds a ud2, the
\* jump of a site, or the instruction, whole.
LEMMA FetchCode ==
  ASSUME Phase, Apart, at.in # "thunk", at.a = pc, Seen(pc),
         At(pc) \notin Swallowed
  PROVE  /\ Leaves(pc) => Fetch = [does |-> "leave", i |-> 0]
         /\ ~Leaves(pc) => /\ At(pc) \in included /\ Addr[At(pc)] = pc
                           /\ Fetch = [does |-> IF At(pc) \in Sites
                                                THEN "jump" ELSE "run",
                                       i |-> At(pc)]
<1> DEFINE img == CodePages
           b == img[pc]
           leave == \/ ~InChunk(pc)
                    \/ /\ b.by = "ud2" /\ b.n = 0 /\ InChunk(pc + 1)
                       /\ img[pc + 1].by = "ud2" /\ img[pc + 1].n = 1
           jump == /\ b.by = "jump" /\ b.n = 0
                   /\ \A n \in 1 .. Jump - 1 : img[pc + n] = [b EXCEPT !.n = n]
<1>1. Fetch = IF leave THEN [does |-> "leave", i |-> 0]
              ELSE IF jump THEN [does |-> "jump", i |-> b.of]
              ELSE IF Intact(img, At(pc)) THEN [does |-> "run", i |-> At(pc)]
              ELSE [does |-> "junk", i |-> 0]
  BY DEF Fetch
<1>2. Region /\ TextInv /\ End \in Nat
  BY AddrIs DEF Phase, Region
<1>3. ASSUME Leaves(pc) PROVE Fetch = [does |-> "leave", i |-> 0]
  <2>1. pc \in 0 .. End /\ ~Leaves(pc + 1) /\ pc + 1 # Edge
    BY <1>3, LeavesAre
  <2>2. CASE ~InChunk(pc)
    BY <1>1, <2>2
  <2>3. CASE InChunk(pc)
    <3>0. InChunk(pc + 1)
      BY <1>2, <2>1, <2>3, NextInChunk
    <3>1. ~Leaves(pc - 1)
      <4>1. SUFFICES ASSUME Leaves(pc - 1) PROVE FALSE
        OBVIOUS
      <4>2. ~Seen((pc - 1) + 1) /\ (pc - 1) + 1 = pc
        BY <2>1, <4>1, LeavesAre
      <4> QED BY <4>2
    <3>2. /\ pc \in 0 .. End + 2 /\ pc + 1 \in 0 .. End + 2
          /\ (pc + 1) - 1 = pc
      BY <1>2, <2>1
    <3>3. CodePages[pc] = Ud2Byte(0)
      BY <1>3, <2>3, <3>1, <3>2, PagesAre
    <3>4. Leaves((pc + 1) - 1)
      BY <1>3, <3>2
    <3>5. CodePages[pc + 1] = Ud2Byte(1)
      BY <2>1, <3>0, <3>2, <3>4, PagesAre
    <3>6. leave
      BY <3>0, <3>3, <3>5 DEF Ud2Byte
    <3> QED BY <1>1, <3>6
  <2> QED BY <2>2, <2>3
<1>4. ASSUME ~Leaves(pc)
      PROVE  /\ At(pc) \in included /\ Addr[At(pc)] = pc
             /\ Fetch = [does |-> IF At(pc) \in Sites THEN "jump" ELSE "run",
                         i |-> At(pc)]
  <2> DEFINE i == At(pc)
             kept == IF text[i].kind \in Avx512 THEN "rewrite" ELSE "program"
  <2>1. i \in included
    BY <1>4 DEF Seen, Leaves
  <2> HIDE DEF i
  <2>2. i \in Index /\ Fit(i) /\ Addr[i] = pc /\ pc \in Nat
    <3>1. i \in Index /\ Fit(i)
      BY <1>2, <2>1, IncludedAre
    <3>2. Addr[i] = pc
      BY <1>2, <3>1, AtIs DEF i
    <3> QED BY <1>2, <3>1, <3>2, AddrIs
  <2>3. ASSUME NEW n \in Nat, n < IF i \in Sites THEN Jump ELSE text[i].len
        PROVE  img[pc + n] = [by |-> IF i \in Sites THEN "jump" ELSE kept,
                              of |-> i, n |-> n]
    <3>1. i \notin Swallowed /\ ~Leaves(Addr[i])
      BY <1>4, <2>2 DEF i
    <3>2. /\ Addr[i] + n \in Span(i)
          /\ Overlaid(Addr[i] + n) = [by |-> IF i \in Sites THEN "jump" ELSE kept,
                                      of |-> i, n |-> n]
      BY <1>2, <2>1, <2>3, <3>1, Overlays
    <3>3. CodePages[Addr[i] + n] = Overlaid(Addr[i] + n)
      BY <2>1, <3>1, <3>2, Untouched
    <3> QED BY <2>2, <3>2, <3>3
  <2>4. text[i].len \in Nat /\ text[i].len > 0 /\ Jump \in Nat /\ Jump > 0
    BY <1>2, <2>2, AddrIs, BoundsAssumption
  <2>5. b = [by |-> IF i \in Sites THEN "jump" ELSE kept, of |-> i, n |-> 0]
    <3>1. pc + 0 = pc
      BY <2>2
    <3> QED BY <2>3, <2>4, <3>1
  <2>6. b.by = (IF i \in Sites THEN "jump" ELSE kept) /\ b.of = i /\ b.n = 0
    BY <2>5
  <2>7. ~leave
    <3>1. pc + 0 \in Span(i)
      BY <1>2, <1>4, <2>1, <2>2, <2>4, Overlays DEF i
    <3>2. InChunk(pc)
      BY <1>2, <2>1, <2>2, <3>1, SpanInChunk
    <3> QED BY <2>6, <3>2
  <2>8. CASE i \in Sites
    <3>1. ASSUME NEW n \in 1 .. Jump - 1
          PROVE  img[pc + n] = [b EXCEPT !.n = n]
      <4>1. n \in Nat /\ n < Jump
        BY <2>4
      <4>2. img[pc + n] = [by |-> "jump", of |-> i, n |-> n]
        BY <2>3, <2>8, <4>1
      <4> QED BY <2>5, <2>8, <4>2
    <3>2. jump
      BY <2>6, <2>8, <3>1
    <3> QED BY <1>1, <2>1, <2>2, <2>6, <2>7, <2>8, <3>2 DEF i
  <2>9. CASE i \notin Sites
    <3>1. ~jump
      BY <2>6, <2>9
    <3>2. i # 0
      BY <1>2, <2>2, AtIs
    <3>3. \A n \in 0 .. (text[i].len - 1) :
             img[Addr[i] + n] = [by |-> kept, of |-> i, n |-> n]
      <4>1. ASSUME NEW n \in 0 .. (text[i].len - 1)
            PROVE  img[Addr[i] + n] = [by |-> kept, of |-> i, n |-> n]
        <5>1. n \in Nat /\ n < text[i].len
          BY <2>4
        <5> QED BY <2>2, <2>3, <2>9, <5>1
      <4> QED BY <4>1
    <3>4. Intact(img, i)
      BY <2>2, <3>2, <3>3 DEF Intact, Fit
    <3> QED BY <1>1, <2>1, <2>2, <2>7, <2>9, <3>1, <3>4 DEF i
  <2> QED BY <2>8, <2>9
<1> QED BY <1>3, <1>4

\* What the card finds when it is in step with the program.
LEMMA FetchIs ==
  ASSUME Phase, Apart, InStep
  PROVE  \/ Fetch = [does |-> "leave", i |-> 0] /\ at.in = "code" /\ at.a = pc
         \/ \E i \in included :
              /\ Addr[i] = pc
              /\ \/ /\ Fetch = [does |-> "jump", i |-> i]
                    /\ at.in = "code" /\ i \in Sites
                 \/ /\ Fetch = [does |-> "run", i |-> i]
                    /\ at.in = "code" /\ i \notin Sites
                 \/ /\ Fetch = [does |-> "run", i |-> i]
                    /\ at.in = "thunk" /\ at.a = i /\ at.site \in Sites
                    /\ \/ i = at.site
                       \/ Short(at.site) /\ i = at.site + 1
<1>1. CASE /\ at.in = "code" /\ at.a = pc /\ Seen(pc)
           /\ At(pc) \notin Swallowed
  BY <1>1, FetchCode
<1>2. CASE /\ at.in = "thunk" /\ at.site \in Sites
           /\ at.a \in at.site .. SiteEnd(at.site) /\ pc = Addr[at.a]
  <2>1. Region
    BY DEF Phase
  <2>2. at.site \in included /\ at.site \in Nat
    BY <1>2, <2>1, SiteShape, IncludedAre, AddrIs DEF Region
  <2>3. at.a = at.site \/ (Short(at.site) /\ at.a = at.site + 1)
    BY <1>2, <2>1, <2>2, SiteShape
  <2>4. at.a \in included
    BY <1>2, <2>1, <2>2, <2>3, SiteShape DEF Movable
  <2>5. Fetch = [does |-> "run", i |-> at.a]
    BY <1>2 DEF Fetch
  <2> QED BY <1>2, <2>3, <2>4, <2>5
<1> QED BY <1>1, <1>2 DEF InStep

\* The card does what the program does.
LEMMA StepFaithful ==
  ASSUME Inv, Apart, OneFlag
  PROVE  Faithful
<1>1. SUFFICES ASSUME stage = "run"
               PROVE  /\ Fetch.does # "junk"
                      /\ Fetch.does = "run" => Addr[Fetch.i] = pc
                      /\ Fetch.does = "leave" => at.a = pc
  BY DEF Faithful
<1>2. Phase /\ InStep
  BY <1>1 DEF Inv, LaidInv, RunInv, Phase, Region
<1> QED BY <1>2, FetchIs

-----------------------------------------------------------------------------
(* What a step leaves alone.                                               *)

\* The text does not change, nor what is read from it.
LEMMA SameText ==
  ASSUME text' = text
  PROVE  /\ Addr' = Addr /\ End' = End /\ Index' = Index
         /\ \A i : /\ Target(i)' = Target(i)
                   /\ IsBranch(i)' <=> IsBranch(i)
                   /\ IsThunk(i)' <=> IsThunk(i)
                   /\ Short(i)' <=> Short(i)
                   /\ CardCanRun(i)' <=> CardCanRun(i)
                   /\ Rewritten(i)' <=> Rewritten(i)
                   /\ Fit(i)' <=> Fit(i)
                   /\ SiteLast(i)' = SiteLast(i)
                   /\ SiteEnd(i)' = SiteEnd(i)
                   /\ Taken(i)' = Taken(i)
         /\ \A a : At(a)' = At(a)
<1>1. Addr' = Addr
  BY DEF Addr
<1>2. Index' = Index /\ End' = End
  BY <1>1 DEF Index, End
<1>3. \A a : At(a)' = At(a)
  BY <1>1, <1>2 DEF At
<1>4. \A i : /\ Target(i)' = Target(i)
             /\ IsBranch(i)' <=> IsBranch(i)
             /\ IsThunk(i)' <=> IsThunk(i)
             /\ CardCanRun(i)' <=> CardCanRun(i)
  BY <1>1 DEF Target, IsBranch, IsThunk, CardCanRun
<1>5. \A i : Short(i)' <=> Short(i)
  BY <1>4 DEF Short
<1>6. \A i : Rewritten(i)' <=> Rewritten(i)
  BY <1>2 DEF Rewritten, BytecmpPair, FlagKept
<1>7. \A i : Fit(i)' <=> Fit(i)
  BY <1>4, <1>6 DEF Fit
<1>8. ASSUME NEW i PROVE SiteLast(i)' = SiteLast(i)
  <2> DEFINE T == {m \in i..Len(text) :
                     \/ Addr[m + 1] - Addr[i] >= Jump
                     \/ m > i /\ IsBranch(m)}
             U == {m \in i..Len(text') :
                     \/ Addr'[m + 1] - Addr'[i] >= Jump
                     \/ m > i /\ IsBranch(m)'}
  <2>1. U = T
    BY <1>1, <1>4
  <2>2. SiteLast(i) = IF T = {} THEN 0
                      ELSE CHOOSE m \in T : \A n \in T : m <= n
    BY DEF SiteLast
  <2>3. SiteLast(i)' = IF U = {} THEN 0
                       ELSE CHOOSE m \in U : \A n \in U : m <= n
    BY DEF SiteLast
  <2> HIDE DEF T, U
  <2> QED BY <2>1, <2>2, <2>3
<1>9. \A i : SiteEnd(i)' = SiteEnd(i) /\ Taken(i)' = Taken(i)
  BY <1>5, <1>8 DEF SiteEnd, Taken
<1> QED BY <1>1, <1>2, <1>3, <1>4, <1>5, <1>6, <1>7, <1>8, <1>9

\* Nor does the region, once the walk is over.
LEMMA SameRegion ==
  ASSUME text' = text, entry' = entry, included' = included, exits' = exits
  PROVE  /\ TextInv' <=> TextInv
         /\ \A a : (Exited(a)' <=> Exited(a)) /\ (Seen(a)' <=> Seen(a))
         /\ Targets' = Targets /\ Sites' = Sites /\ Swallowed' = Swallowed
         /\ ExitInside' <=> ExitInside
         /\ Spans' <=> Spans
         /\ CanMove' <=> CanMove
         /\ Image' = Image
         /\ Loops' = Loops
<1>1. TextInv' <=> TextInv
  BY SameText DEF TextInv
<1>2. \A a : Exited(a)' <=> Exited(a)
  BY DEF Exited
<1>3. \A a : Seen(a)' <=> Seen(a)
  BY <1>2, SameText DEF Seen
<1>4. Targets' = Targets /\ Sites' = Sites
  BY SameText DEF Targets, Sites
<1>5. Swallowed' = Swallowed
  BY <1>4, SameText DEF Swallowed
<1>6. (ExitInside' <=> ExitInside) /\ (Spans' <=> Spans)
  BY SameText DEF ExitInside, Spans
<1>7. \A j : Movable(j)' <=> Movable(j)
  BY <1>4, SameText DEF Movable
<1>8. CanMove' <=> CanMove
  BY <1>4, <1>7, SameText DEF CanMove
<1>14. \A a : InChunk(a)' <=> InChunk(a)
  BY SameText DEF InChunk
<1>9. ASSUME NEW a PROVE Overlaid(a)' = Overlaid(a)
  <2> DEFINE i == CHOOSE j \in Index : Addr[j] <= a /\ a < Addr[j + 1]
             site == {s \in Sites \ Swallowed :
                        Addr[s] <= a /\ a < Addr[SiteEnd(s) + 1]}
             k == CHOOSE j \in Index' : Addr'[j] <= a /\ a < Addr'[j + 1]
             cite == {s \in Sites' \ Swallowed' :
                        Addr'[s] <= a /\ a < Addr'[SiteEnd(s)' + 1]}
  <2>1. site = cite
    BY <1>4, <1>5, SameText
  <2>2. i = k
    BY SameText
  <2>3. Overlaid(a) =
          IF a >= End \/ ~InChunk(a) THEN [by |-> "none", of |-> 0, n |-> 0]
          ELSE IF site # {}
          THEN LET s == CHOOSE s \in site : TRUE
               IN  IF a - Addr[s] < Jump
                   THEN [by |-> "jump", of |-> s, n |-> a - Addr[s]]
                   ELSE [by |-> "nop", of |-> s, n |-> 0]
          ELSE [by |-> IF i \in included /\ text[i].kind \in Avx512
                       THEN "rewrite" ELSE "program",
                of |-> i, n |-> a - Addr[i]]
    BY DEF Overlaid
  <2>4. Overlaid(a)' =
          IF a >= End' \/ ~InChunk(a)' THEN [by |-> "none", of |-> 0, n |-> 0]
          ELSE IF cite # {}
          THEN LET s == CHOOSE s \in cite : TRUE
               IN  IF a - Addr'[s] < Jump
                   THEN [by |-> "jump", of |-> s, n |-> a - Addr'[s]]
                   ELSE [by |-> "nop", of |-> s, n |-> 0]
          ELSE [by |-> IF k \in included' /\ text'[k].kind \in Avx512
                       THEN "rewrite" ELSE "program",
                of |-> k, n |-> a - Addr'[k]]
    BY DEF Overlaid
  <2> HIDE DEF site, cite, i, k
  <2> QED BY <1>14, <2>1, <2>2, <2>3, <2>4, SameText
<1>10. Image' = Image
  <2> DEFINE base == [a \in 0 .. (End + 2) |-> Overlaid(a)]
             case == [a \in 0 .. (End' + 2) |-> Overlaid(a)']
             In2(a) == \E i \in included' : a < Edge <=> Addr'[i] < Edge
             Fit2(e) == In2(e) /\ In2(e + 1)
             One(g, k) == IF k = 0 THEN base
                          ELSE IF Fits(exits[k]) THEN Ud2(g[k - 1], exits[k])
                          ELSE g[k - 1]
             Two(g, k) == IF k = 0 THEN case
                          ELSE IF Fit2(exits'[k]) THEN Ud2(g[k - 1], exits'[k])
                          ELSE g[k - 1]
             f == CHOOSE g : g = [k \in 0 .. Len(exits) |-> One(g, k)]
             h == CHOOSE g : g = [k \in 0 .. Len(exits') |-> Two(g, k)]
  <2>1. Image = f[Len(exits)]
    BY DEF Image, Painted
  <2>2. Image' = h[Len(exits')]
    BY DEF Image, Painted, Ud2, Fits, InChunk
  <2>3. base = case
    BY <1>9, SameText
  <2>4. \A g, k : One(g, k) = Two(g, k)
    <3>1. \A e : Fit2(e) <=> Fits(e)
      BY SameText DEF Fits, InChunk
    <3> HIDE DEF base, case, Fit2
    <3> QED BY <2>3, <3>1
  <2> HIDE DEF One, Two, base, case
  <2>5. f = h
    BY <2>4
  <2> QED BY <2>1, <2>2, <2>5
<1>11. ASSUME NEW j PROVE IsLoop(j)' <=> IsLoop(j)
  <2> DEFINE in1 == Target(j)..(Addr[j + 1] - 1)
             in2 == Target(j)'..(Addr'[j + 1] - 1)
             body1 == {i \in included : Addr[i] \in in1}
             body2 == {i \in included' : Addr'[i] \in in2}
  <2>1. in2 = in1
    BY SameText
  <2>2. body2 = body1
    BY <2>1, SameText
  <2>3. IsLoop(j) <=>
          /\ text[j].kind \in Conditional
          /\ Target(j) <= Addr[j] /\ At(Target(j)) \in included
          /\ Target(j) < Addr[entry] => Addr[entry] \in in1
          /\ \A a \in in1 : ~Exited(a)
          /\ \A i \in body1 : IsBranch(i) => Target(i) \in in1
          /\ Cardinality(body1) >= 2
    BY DEF IsLoop
  <2>4. IsLoop(j)' <=>
          /\ text'[j].kind \in Conditional
          /\ Target(j)' <= Addr'[j] /\ At(Target(j))' \in included'
          /\ Target(j)' < Addr'[entry'] => Addr'[entry'] \in in2
          /\ \A a \in in2 : ~Exited(a)'
          /\ \A i \in body2 : IsBranch(i)' => Target(i)' \in in2
          /\ Cardinality(body2) >= 2
    BY DEF IsLoop
  <2> HIDE DEF in1, in2, body1, body2
  <2>5. At(Target(j))' = At(Target(j))
    <3>1. At(Target(j)) = IF \E i \in Index : Addr[i] = Target(j)
                          THEN CHOOSE i \in Index : Addr[i] = Target(j)
                          ELSE 0
      BY DEF At
    <3>2. At(Target(j))' = IF \E i \in Index' : Addr'[i] = Target(j)'
                           THEN CHOOSE i \in Index' : Addr'[i] = Target(j)'
                           ELSE 0
      BY DEF At
    <3>3. Index' = Index /\ Addr' = Addr /\ Target(j)' = Target(j)
      BY SameText
    <3> QED BY <3>1, <3>2, <3>3
  <2>6. /\ Addr' = Addr /\ text' = text /\ entry' = entry
        /\ Target(j)' = Target(j)
        /\ \A i : (IsBranch(i)' <=> IsBranch(i)) /\ Target(i)' = Target(i)
    BY SameText
  <2> QED BY <1>2, <2>1, <2>2, <2>3, <2>4, <2>5, <2>6
<1>12. Loops' = Loops
  BY <1>11, SameText DEF Loops
<1> QED BY <1>1, <1>2, <1>3, <1>4, <1>5, <1>6, <1>8, <1>10, <1>12

\* Nor does the walk's state, the region being the same.
LEMMA SameWalk ==
  ASSUME UNCHANGED <<text, entry, work, included, exits>>, WalkInv
  PROVE  WalkInv'
<1>1. \A a : Known(a) => Known(a)'
  BY SameRegion DEF Known
<1>2. /\ End' = End /\ Addr' = Addr /\ Index' = Index
      /\ \A i : /\ Fit(i)' <=> Fit(i)
                /\ IsBranch(i)' <=> IsBranch(i)
                /\ Target(i)' = Target(i)
      /\ \A a : At(a)' = At(a)
  BY SameText
<1>3. Known(Addr[entry])'
  BY <1>1, <1>2 DEF WalkInv, Known, Seen
<1> QED BY <1>1, <1>2, <1>3 DEF WalkInv, Known

-----------------------------------------------------------------------------
(* The walk.                                                               *)

\* The addresses still to visit, without the last.
LEMMA RestIs ==
  ASSUME NEW S, work \in Seq(S), work # <<>>
  PROVE  /\ Top \in S /\ Rest \in Seq(S)
         /\ \A k \in DOMAIN work :
              work[k] = Top \/ \E l \in DOMAIN Rest : Rest[l] = work[k]
<1>1. Len(work) \in Nat /\ Len(work) > 0 /\ DOMAIN work = 1 .. Len(work)
  BY EmptySeq, LenProperties
<1>2. Top \in S
  BY <1>1, ElementOfSeq DEF Top
<1>3. /\ Rest \in Seq(S) /\ Len(Rest) = Len(work) - 1
      /\ \A l \in 1 .. Len(work) - 1 : Rest[l] = work[l]
  BY <1>1 DEF Rest
<1>4. DOMAIN Rest = 1 .. Len(work) - 1
  BY <1>3
<1>5. ASSUME NEW k \in DOMAIN work, work[k] # Top
      PROVE  \E l \in DOMAIN Rest : Rest[l] = work[k]
  <2>1. k \in 1 .. Len(work) - 1
    BY <1>1, <1>5 DEF Top
  <2> QED BY <1>3, <1>4, <2>1
<1> QED BY <1>2, <1>3, <1>5

\* A walk invariant follows from what the new state makes known.
LEMMA WalkOn ==
  ASSUME TextInv, WalkInv, UNCHANGED <<text, entry>>,
         work' \in Seq(0 .. End), exits' \in Seq(0 .. End),
         included' \subseteq Index, \A i \in included' : Fit(i),
         \A k \in DOMAIN exits' : At(exits'[k]) \notin included',
         \A a : Known(a) => Known(a)',
         \A i \in included' \ included :
            /\ IsBranch(i) => Known(Target(i))'
            /\ text[i].kind # "jmp" => Known(Addr[i + 1])'
  PROVE  WalkInv'
<1>1. /\ End' = End /\ Addr' = Addr /\ Index' = Index
      /\ \A i : /\ Fit(i)' <=> Fit(i)
                /\ IsBranch(i)' <=> IsBranch(i)
                /\ Target(i)' = Target(i)
      /\ \A a : At(a)' = At(a)
  BY SameText
<1> QED BY <1>1 DEF WalkInv

\* The steps of the walk.
LEMMA WalkSeenKeeps ==
  ASSUME TextInv, WalkInv, WalkSeen
  PROVE  WalkInv'
<1>1. /\ UNCHANGED <<text, entry, included, exits>> /\ work # <<>>
      /\ work' = Rest /\ Seen(Top)
  BY DEF WalkSeen
<1>2. work \in Seq(0 .. End) /\ exits \in Seq(0 .. End) /\ included \subseteq Index
  BY DEF WalkInv
<1>3. /\ Top \in 0 .. End /\ Rest \in Seq(0 .. End)
      /\ \A k \in DOMAIN work :
            work[k] = Top \/ \E l \in DOMAIN Rest : Rest[l] = work[k]
  BY <1>1, <1>2, RestIs
<1>4. \A a : Seen(a)' <=> Seen(a)
  BY <1>1, SameRegion
<1>5. \A a : Known(a) => Known(a)'
  BY <1>1, <1>3, <1>4 DEF Known
<1> QED BY <1>1, <1>2, <1>3, <1>5, WalkOn DEF WalkInv

LEMMA WalkExitKeeps ==
  ASSUME TextInv, WalkInv, WalkExit
  PROVE  WalkInv'
<1>1. /\ UNCHANGED <<text, entry, included>> /\ work # <<>> /\ ~Seen(Top)
      /\ \/ UNCHANGED <<work, exits>>
         \/ exits' = Append(exits, Top) /\ work' = Rest
  BY DEF WalkExit, regionVars
<1>2. work \in Seq(0 .. End) /\ exits \in Seq(0 .. End) /\ included \subseteq Index
  BY DEF WalkInv
<1>3. /\ Top \in 0 .. End /\ Rest \in Seq(0 .. End)
      /\ \A k \in DOMAIN work :
            work[k] = Top \/ \E l \in DOMAIN Rest : Rest[l] = work[k]
  BY <1>1, <1>2, RestIs
<1>4. CASE UNCHANGED <<work, exits>>
  BY <1>1, <1>4, SameWalk
<1>5. CASE exits' = Append(exits, Top) /\ work' = Rest
  <2>1. /\ exits' \in Seq(0 .. End) /\ Len(exits) \in Nat
        /\ DOMAIN exits = 1 .. Len(exits)
        /\ DOMAIN exits' = 1 .. Len(exits) + 1
        /\ \A k \in DOMAIN exits : exits'[k] = exits[k]
        /\ exits'[Len(exits) + 1] = Top
    <3> DEFINE A == 0 .. End
    <3> HIDE DEF A
    <3>1. exits \in Seq(A) /\ Top \in A
      BY <1>2, <1>3 DEF A
    <3>2. Append(exits, Top) \in Seq(A)
      BY <3>1
    <3> QED BY <1>5, <3>1, <3>2, AppendProperties DEF A
  <2>2. \A k \in DOMAIN exits' : k \in DOMAIN exits \/ k = Len(exits) + 1
    BY <2>1
  <2>3. \A k \in DOMAIN exits' : exits'[k] = Top \/ Exited(exits'[k])
    BY <2>1, <2>2 DEF Exited
  <2>4. \A k \in DOMAIN exits' : At(exits'[k]) \notin included'
    <3>1. At(Top) \notin included
      BY <1>1 DEF Seen
    <3>2. \A a : Exited(a) => At(a) \notin included
      BY DEF WalkInv, Exited
    <3> QED BY <1>1, <2>3, <3>1, <3>2
  <2>5. \A a : Exited(a) \/ a = Top => Exited(a)'
    <3>1. Len(exits) + 1 \in DOMAIN exits' /\ DOMAIN exits \subseteq DOMAIN exits'
      BY <2>1
    <3>2. ASSUME NEW a, Exited(a) PROVE \E k \in DOMAIN exits' : exits'[k] = a
      BY <2>1, <3>1, <3>2 DEF Exited
    <3>3. \E k \in DOMAIN exits' : exits'[k] = Top
      BY <2>1, <3>1
    <3> QED BY <3>2, <3>3 DEF Exited
  <2>6. \A a : Known(a) => Known(a)'
    <3>1. \A a : At(a)' = At(a)
      BY <1>1, SameText
    <3>2. \A a : Seen(a) \/ a = Top => Seen(a)'
      BY <1>1, <2>5, <3>1 DEF Seen
    <3> QED BY <1>3, <1>5, <3>2 DEF Known
  <2> QED BY <1>1, <1>2, <1>3, <1>5, <2>1, <2>4, <2>6, WalkOn DEF WalkInv
<1> QED BY <1>1, <1>4, <1>5

LEMMA WalkIncludeKeeps ==
  ASSUME TextInv, WalkInv, WalkInclude
  PROVE  WalkInv'
<1>0. PICK i : i = At(Top)
  OBVIOUS
<1>1. /\ UNCHANGED <<text, entry, exits>> /\ work # <<>> /\ ~Seen(Top)
      /\ ~EndsRegion(Top)
      /\ work' = Rest \o Successors(i) /\ included' = included \cup {i}
  BY <1>0 DEF WalkInclude
<1>2. work \in Seq(0 .. End) /\ exits \in Seq(0 .. End) /\ included \subseteq Index
  BY DEF WalkInv
<1>3. /\ Top \in 0 .. End /\ Rest \in Seq(0 .. End)
      /\ \A k \in DOMAIN work :
            work[k] = Top \/ \E l \in DOMAIN Rest : Rest[l] = work[k]
  BY <1>1, <1>2, RestIs
<1>4. i \in Index /\ Addr[i] = Top /\ Fit(i)
  <2>1. i # 0
    BY <1>0, <1>1 DEF EndsRegion
  <2>2. i \in Index /\ Addr[i] = Top
    BY <1>0, <2>1, AtIs
  <2> QED BY <1>0, <1>1, <2>1, <2>2 DEF EndsRegion, Fit
<1>5. \A k \in DOMAIN exits' : At(exits'[k]) \notin included'
  <2>1. ASSUME NEW k \in DOMAIN exits PROVE At(exits[k]) # i
    <3>1. SUFFICES ASSUME At(exits[k]) = i PROVE FALSE
      OBVIOUS
    <3>2. exits[k] = Top
      BY <1>4, <3>1, AtIs
    <3> QED BY <1>1, <3>2 DEF Seen, Exited
  <2> QED BY <1>1, <2>1 DEF WalkInv
<1>6. /\ Target(i) \in 0 .. End /\ Addr[i + 1] \in 0 .. End
  BY <1>4, WhereTo
<1> DEFINE A == 0 .. End
           more == Successors(i)
<1> HIDE DEF A
<1>7. /\ more \in Seq(A)
      /\ IsBranch(i) => \E l \in DOMAIN more : more[l] = Target(i)
      /\ text[i].kind # "jmp" => \E l \in DOMAIN more : more[l] = Addr[i + 1]
  <2>1. Target(i) \in A /\ Addr[i + 1] \in A
    BY <1>6 DEF A
  <2>2. CASE text[i].kind = "jmp"
    <3>1. more = <<Target(i)>>
      BY <2>2 DEF Successors
    <3> QED BY <2>1, <2>2, <3>1
  <2>3. CASE text[i].kind \in Conditional
    <3>1. more = <<Target(i), Addr[i + 1]>> /\ text[i].kind # "jmp"
      BY <2>3 DEF Successors, Conditional
    <3> QED BY <2>1, <2>3, <3>1
  <2>4. CASE text[i].kind # "jmp" /\ text[i].kind \notin Conditional
    <3>1. more = <<Addr[i + 1]>> /\ ~IsBranch(i)
      BY <2>4 DEF Successors, IsBranch
    <3> QED BY <2>1, <2>4, <3>1
  <2> QED BY <2>2, <2>3, <2>4
<1> HIDE DEF more
<1>8. Rest \in Seq(A)
  BY <1>3 DEF A
<1>9. /\ work' = Rest \o more /\ work' \in Seq(A)
      /\ \A l \in DOMAIN Rest : \E k \in DOMAIN work' : work'[k] = Rest[l]
      /\ \A l \in DOMAIN more : \E k \in DOMAIN work' : work'[k] = more[l]
  <2>1. work' = Rest \o more
    BY <1>1 DEF more
  <2> DEFINE r == Rest
             w == r \o more
  <2> HIDE DEF r
  <2>2. r \in Seq(A)
    BY <1>8 DEF r
  <2>3. /\ w \in Seq(A) /\ Len(w) = Len(r) + Len(more)
        /\ \A l \in 1 .. Len(r) : w[l] = r[l]
        /\ \A l \in 1 .. Len(more) : w[Len(r) + l] = more[l]
        /\ Len(r) \in Nat /\ Len(more) \in Nat
        /\ DOMAIN r = 1 .. Len(r) /\ DOMAIN more = 1 .. Len(more)
        /\ DOMAIN w = 1 .. Len(w)
    BY <1>7, <2>2
  <2> HIDE DEF w
  <2>4. \A l \in DOMAIN r : l \in DOMAIN w /\ w[l] = r[l]
    BY <2>3
  <2>5. \A l \in DOMAIN more : Len(r) + l \in DOMAIN w /\ w[Len(r) + l] = more[l]
    BY <2>3
  <2>6. work' = w
    BY <2>1 DEF w, r
  <2> QED BY <2>1, <2>3, <2>4, <2>5, <2>6 DEF r
<1>10. \A a : At(a)' = At(a) /\ (Exited(a)' <=> Exited(a))
  BY <1>1, SameText DEF Exited
<1>11. \A a : Seen(a) \/ a = Top => Seen(a)'
  <2>1. \A a : Seen(a) => Seen(a)'
    BY <1>1, <1>10 DEF Seen
  <2>2. At(Top) = i
    BY <1>0
  <2>3. \A a : a = Top => Seen(a)'
    BY <1>1, <1>10, <2>2 DEF Seen
  <2> QED BY <2>1, <2>3
<1>12. \A a : Known(a) => Known(a)'
  BY <1>3, <1>9, <1>11 DEF Known
<1>13. /\ IsBranch(i) => \E k \in DOMAIN work' : work'[k] = Target(i)
       /\ text[i].kind # "jmp" => \E k \in DOMAIN work' : work'[k] = Addr[i + 1]
  <2>1. ASSUME NEW a, \E l \in DOMAIN more : more[l] = a
        PROVE  \E k \in DOMAIN work' : work'[k] = a
    BY <1>9, <2>1
  <2> QED BY <1>7, <2>1
<1>14. /\ IsBranch(i) => Known(Target(i))'
       /\ text[i].kind # "jmp" => Known(Addr[i + 1])'
  <2>1. \A j : Target(j)' = Target(j)
    BY <1>1, SameText
  <2>2. Addr' = Addr
    BY <1>1, SameText
  <2>3. /\ Known(Target(i))' <=>
              \/ Seen(Target(i))'
              \/ \E k \in DOMAIN work' : work'[k] = Target(i)'
        /\ Known(Addr[i + 1])' <=>
              \/ Seen(Addr[i + 1])'
              \/ \E k \in DOMAIN work' : work'[k] = Addr'[i + 1]
    BY DEF Known
  <2> QED BY <1>13, <2>1, <2>2, <2>3
<1>15. /\ included' \subseteq Index /\ \A j \in included' : Fit(j)
       /\ work' \in Seq(0 .. End) /\ exits' \in Seq(0 .. End)
  BY <1>1, <1>2, <1>4, <1>9 DEF WalkInv, A
<1>16. \A j \in included' \ included :
          /\ IsBranch(j) => Known(Target(j))'
          /\ text[j].kind # "jmp" => Known(Addr[j + 1])'
  <2>1. \A j \in included' \ included : j = i
    BY <1>1
  <2> QED BY <1>14, <2>1
<1>17. UNCHANGED <<text, entry>>
  BY <1>1
<1> QED BY <1>5, <1>12, <1>15, <1>16, <1>17, WalkOn

-----------------------------------------------------------------------------
(* The invariant, step by step.                                            *)

\* It holds at first.
LEMMA InvInit ==
  ASSUME Init
  PROVE  Inv
<1>1. TextInv
  BY DEF Init, TextInv
<1>2. Addr[entry] \in 0 .. End
  BY <1>1, WhereTo DEF TextInv
<1>3. work = <<Addr[entry]>> /\ included = {} /\ exits = <<>> /\ stage = "walk"
  BY DEF Init
<1>4. WalkInv
  <2>1. work \in Seq(0 .. End) /\ exits \in Seq(0 .. End)
    BY <1>2, <1>3
  <2>2. Known(Addr[entry])
    <3>1. 1 \in DOMAIN work /\ work[1] = Addr[entry]
      BY <1>3
    <3> QED BY <3>1 DEF Known
  <2>3. DOMAIN exits = {}
    BY <1>3
  <2> QED BY <1>3, <2>1, <2>2, <2>3 DEF WalkInv
<1>5. LaidInv
  BY <1>3 DEF LaidInv
<1>6. RunInv
  <2>1. mask = Same("none") /\ flags = Same([CF |-> FALSE, ZF |-> FALSE])
    BY DEF Init
  <2>2. /\ DOMAIN mask = {"program", "card"} /\ DOMAIN flags = {"program", "card"}
        /\ mask.program = mask.card /\ flags.program = flags.card
    BY <2>1 DEF Same
  <2> QED BY <1>3, <2>2 DEF RunInv
<1> QED BY <1>1, <1>4, <1>5, <1>6 DEF Inv

\* The walk's steps and the layout.
LEMMA InvWalk ==
  ASSUME Inv, WalkSeen \/ WalkExit \/ WalkInclude
  PROVE  Inv'
<1>1. WalkInv'
  BY WalkSeenKeeps, WalkExitKeeps, WalkIncludeKeeps DEF Inv
<1>2. /\ UNCHANGED <<text, entry, mask, flags>>
      /\ stage = "walk" /\ stage' \in {"walk", "error"}
  BY DEF WalkSeen, WalkExit, WalkInclude, cardVars
<1>3. TextInv'
  BY <1>2, SameText DEF TextInv, Inv
<1>4. LaidInv' /\ RunInv'
  BY <1>2 DEF LaidInv, RunInv, Inv
<1> QED BY <1>1, <1>3, <1>4 DEF Inv

LEMMA InvWalkDone ==
  ASSUME Inv, WalkDone
  PROVE  Inv'
<1>1. /\ UNCHANGED <<text, entry, work, included, exits, mask, flags>>
      /\ stage = "walk" /\ work = <<>>
      /\ \/ stage' = "error"
         \/ stage' = "reserve" /\ ~ExitInside /\ ~Spans
  BY DEF WalkDone, cardVars, regionVars
<1>2. WalkInv' /\ TextInv'
  BY <1>1, SameWalk, SameRegion DEF Inv
<1>3. LaidInv'
  BY <1>1, SameRegion DEF LaidInv
<1>4. RunInv'
  BY <1>1 DEF RunInv, Inv
<1> QED BY <1>2, <1>3, <1>4 DEF Inv

LEMMA InvLayout ==
  ASSUME Inv, Layout
  PROVE  Inv'
<1>1. /\ UNCHANGED <<text, entry, work, included, exits, mask, flags>>
      /\ stage = "layout"
      /\ \/ stage' = "error"
         \/ stage' = "ready" /\ image' = Image /\ CanMove
  BY DEF Layout, cardVars, regionVars
<1>2. WalkInv' /\ TextInv'
  BY <1>1, SameWalk, SameRegion DEF Inv
<1>3. LaidInv'
  BY <1>1, SameRegion DEF LaidInv, Inv
<1>4. RunInv'
  BY <1>1 DEF RunInv, Inv
<1> QED BY <1>2, <1>3, <1>4 DEF Inv

\* What stays, once the region is laid out.
LEMMA LaidOn ==
  ASSUME Inv, UNCHANGED <<text, entry, work, included, exits, image>>,
         stage \in {"ready", "run", "left"}
  PROVE  TextInv' /\ WalkInv' /\ LaidInv'
<1>1. TextInv' /\ WalkInv'
  BY SameWalk, SameRegion DEF Inv
<1>2. LaidInv'
  BY SameRegion DEF LaidInv, Inv
<1> QED BY <1>1, <1>2

LEMMA InvReserve ==
  ASSUME Inv, ReserveThunk \/ ProgramMaps
  PROVE  Inv'
<1>1. /\ UNCHANGED <<text, entry, work, included, exits, image, mask, flags>>
      /\ \/ stage = "reserve" /\ stage' \in {"reserve", "layout", "error"}
         \/ stage \in {"reserve", "layout", "ready"} /\ stage' = stage
  BY DEF ReserveThunk, ProgramMaps, cardVars, regionVars
<1>2. TextInv' /\ WalkInv'
  BY <1>1, SameWalk, SameRegion DEF Inv
<1>3. LaidInv'
  BY <1>1, SameRegion DEF LaidInv, Inv
<1>4. RunInv'
  BY <1>1 DEF RunInv, Inv
<1> QED BY <1>2, <1>3, <1>4 DEF Inv

\* Which exits stand apart is a matter of the region and the loop.
LEMMA SameApart ==
  ASSUME UNCHANGED <<text, entry, included, exits, loop>>
  PROVE  Apart' <=> Apart
BY SameText, SameRegion DEF Apart

\* The phases start where the program is.
LEMMA InvDispatch ==
  ASSUME Inv, Dispatch
  PROVE  Inv'
<1>1. /\ UNCHANGED <<text, entry, work, included, exits, image, mask, flags>>
      /\ stage = "ready" /\ stage' = "run"
      /\ loop' \in Loops \cup {NoLoop}
      /\ extra' = ExitOfPhase(loop', Addr[entry], TRUE)
      /\ at' = InCode(Addr[entry]) /\ pc' = Addr[entry]
  BY DEF Dispatch, regionVars
<1>2. TextInv' /\ WalkInv' /\ LaidInv'
  BY <1>1, LaidOn
<1>3. Region
  BY <1>1 DEF Inv, LaidInv, Region
<1>4. loop' \in Loops' \cup {NoLoop}
  BY <1>1, SameRegion
<1>5. extra' \in {NoAddr, loop'.head, loop'.exit}
  BY <1>1 DEF ExitOfPhase
<1>6. Seen(Addr[entry]) /\ At(Addr[entry]) \notin Swallowed
  <2>1. At(Addr[entry]) = entry
    BY AtIs DEF Inv, TextInv
  <2>2. entry \notin Swallowed
    BY <1>3, SwallowedAre DEF Movable
  <2> QED BY <1>3, <2>1, <2>2, Closed
<1>7. InStep'
  <2>1. Seen(pc)' /\ At(pc)' \notin Swallowed'
    <3>1. Swallowed' = Swallowed
      BY <1>1, SameRegion
    <3>2. \A a : (Seen(a)' <=> Seen(a)) /\ At(a)' = At(a)
      BY <1>1, SameRegion, SameText
    <3>3. Seen(pc)'
      BY <1>1, <1>6, <3>2 DEF Seen, Exited
    <3>4. At(pc)' = At(Addr[entry])
      BY <1>1, SameText DEF At
    <3> QED BY <1>6, <3>1, <3>3, <3>4
  <2>2. at'.in = "code" /\ at'.a = pc'
    BY <1>1 DEF InCode
  <2> QED BY <2>1, <2>2 DEF InStep
<1>8. ASSUME OneFlag'
      PROVE  \E c \in {"CF", "ZF"} : Tests(text', c) /\ Agree(c)'
  <2>1. PICK c \in {"CF", "ZF"} : Tests(text, c)
    BY <1>1, <1>8 DEF OneFlag
  <2>2. mask.program = mask.card /\ flags.program = flags.card
    BY <1>1 DEF Inv, RunInv
  <2>3. Agree(c)'
    BY <1>1, <2>2 DEF Agree
  <2> QED BY <1>1, <2>1, <2>3
<1>9. RunInv'
  <2>1. DOMAIN mask' = {"program", "card"} /\ DOMAIN flags' = {"program", "card"}
    BY <1>1 DEF Inv, RunInv
  <2> QED BY <1>1, <1>4, <1>5, <1>7, <1>8, <2>1 DEF RunInv
<1> QED BY <1>2, <1>9 DEF Inv

\* What stays while the card runs.
LEMMA RunOn ==
  ASSUME Inv, stage = "run",
         UNCHANGED <<text, entry, work, included, exits, image, loop>>
  PROVE  /\ TextInv' /\ WalkInv' /\ LaidInv'
         /\ Loops' = Loops /\ (Apart' <=> Apart) /\ (OneFlag' <=> OneFlag) /\ Phase
         /\ \A c : Tests(text, c) => Tests(text', c)
<1>1. TextInv' /\ WalkInv' /\ LaidInv'
  BY LaidOn
<1>2. Loops' = Loops /\ (Apart' <=> Apart) /\ (OneFlag' <=> OneFlag)
  BY SameRegion, SameApart DEF OneFlag
<1>3. Phase
  BY DEF Inv, LaidInv, RunInv, Phase, Region
<1> QED BY <1>1, <1>2, <1>3

LEMMA InvToThunk ==
  ASSUME Inv, ToThunk
  PROVE  Inv'
<1>1. /\ UNCHANGED <<text, entry, work, included, exits, image, loop>>
      /\ UNCHANGED <<stage, extra, pc, mask, flags>>
      /\ stage = "run" /\ Fetch.does = "jump"
      /\ at' = InThunk(Fetch.i, Fetch.i)
  BY DEF ToThunk, regionVars
<1>2. /\ TextInv' /\ WalkInv' /\ LaidInv'
      /\ Loops' = Loops /\ (Apart' <=> Apart) /\ (OneFlag' <=> OneFlag) /\ Phase
      /\ \A c : Tests(text, c) => Tests(text', c)
  BY <1>1, RunOn
<1>3. ASSUME Apart, OneFlag PROVE InStep'
  <2>1. InStep
    BY <1>1, <1>3 DEF Inv, RunInv
  <2>2. PICK i \in included : Addr[i] = pc /\ Fetch.i = i /\ i \in Sites
    BY <1>1, <1>2, <1>3, <2>1, FetchIs
  <2>3. at' = [in |-> "thunk", a |-> i, site |-> i]
    BY <1>1, <2>2 DEF InThunk
  <2>4. i \in i .. SiteEnd(i)
    <3>1. Region
      BY <1>2 DEF Phase
    <3>2. i \in Nat
      BY <2>2, <3>1, IncludedAre, AddrIs DEF Region
    <3>3. SiteEnd(i) = i \/ SiteEnd(i) = i + 1
      BY <2>2, <3>1, SiteShape
    <3> QED BY <3>2, <3>3
  <2>5. Sites' = Sites /\ Addr' = Addr /\ SiteEnd(i)' = SiteEnd(i)
    BY <1>1, SameText, SameRegion
  <2>6. SiteEnd(at.site)' = SiteEnd(i)'
    BY <2>3 DEF SiteEnd, Short, IsThunk, SiteLast
  <2> QED BY <1>1, <2>2, <2>3, <2>4, <2>5, <2>6 DEF InStep
<1>4. RunInv'
  <2>1. \A c : Agree(c)' <=> Agree(c)
    BY <1>1 DEF Agree
  <2> QED BY <1>1, <1>2, <1>3, <2>1 DEF Inv, RunInv
<1> QED BY <1>2, <1>4 DEF Inv

LEMMA InvLeave ==
  ASSUME Inv, Leave
  PROVE  Inv'
<1>1. /\ UNCHANGED <<text, entry, work, included, exits, image, loop>>
      /\ UNCHANGED <<at, pc, mask, flags>> /\ stage = "run"
      /\ \/ stage' = "run" /\ extra' = ExitOfPhase(loop, at.a, FALSE)
         \/ stage' = "left"
  BY DEF Leave, regionVars
<1>2. /\ TextInv' /\ WalkInv' /\ LaidInv'
      /\ Loops' = Loops /\ (Apart' <=> Apart) /\ (OneFlag' <=> OneFlag) /\ Phase
      /\ \A c : Tests(text, c) => Tests(text', c)
  BY <1>1, RunOn
<1>3. stage' = "run" => extra' \in {NoAddr, loop.head, loop.exit}
  BY <1>1 DEF ExitOfPhase
<1>4. InStep => InStep'
  <2>1. /\ Sites' = Sites /\ Swallowed' = Swallowed /\ Addr' = Addr
        /\ \A a : (Seen(a)' <=> Seen(a)) /\ At(a)' = At(a)
        /\ \A i : SiteEnd(i)' = SiteEnd(i)
    BY <1>1, SameText, SameRegion
  <2>2. Seen(pc)' <=> Seen(pc)
    BY <1>1, <2>1 DEF Seen, Exited
  <2>3. At(pc)' = At(pc)
    BY <1>1, SameText DEF At
  <2>4. SiteEnd(at.site)' = SiteEnd(at.site)
    <3>1. PICK s : s = at.site
      OBVIOUS
    <3>2. SiteEnd(at.site)' = SiteEnd(s)'
      BY <1>1, <3>1 DEF SiteEnd, Short, IsThunk, SiteLast
    <3> QED BY <2>1, <3>1, <3>2
  <2> QED BY <1>1, <2>1, <2>2, <2>3, <2>4 DEF InStep
<1>5. RunInv'
  <2>1. \A c : Agree(c)' <=> Agree(c)
    BY <1>1 DEF Agree
  <2> QED BY <1>1, <1>2, <1>3, <1>4, <2>1 DEF Inv, RunInv
<1> QED BY <1>2, <1>5 DEF Inv

\* From an instruction whose successor is not moved away, control comes to
\* an address the walk has seen and whose instruction has not been moved.
LEMMA GoesWell ==
  ASSUME Region, NEW i \in included, NEW to,
         ~(i \in Sites /\ Short(i)),
         \/ IsBranch(i) /\ to = Target(i)
         \/ text[i].kind # "jmp" /\ to = Addr[i + 1]
  PROVE  Seen(to) /\ At(to) \notin Swallowed
<1>1. Seen(to)
  BY Closed
<1>2. SUFFICES ASSUME At(to) \in Swallowed PROVE FALSE
  BY <1>1
<1>3. /\ Movable(At(to)) /\ At(to) \in Index
      /\ \E s \in Sites : Short(s) /\ At(to) = s + 1
  BY <1>2, SwallowedAre, IncludedAre
<1>4. Addr[At(to)] = to
  BY <1>3, AtIs DEF Region
<1>5. CASE IsBranch(i) /\ to = Target(i)
  <2>1. to \in Targets
    BY <1>5 DEF Targets
  <2> QED BY <1>3, <1>4, <2>1 DEF Movable
<1>6. CASE to = Addr[i + 1]
  <2>1. PICK s \in Sites : Short(s) /\ At(to) = s + 1
    BY <1>3
  <2>2. TextInv /\ i \in Index /\ s \in Index
    BY <2>1, IncludedAre, SiteShape DEF Region
  <2>3. /\ i + 1 \in 1 .. Len(text) + 1 /\ s + 1 \in 1 .. Len(text) + 1
        /\ i \in Nat /\ s \in Nat
    BY <2>2, AddrIs
  <2>4. Addr[s + 1] = Addr[i + 1]
    BY <1>4, <1>6, <2>1
  <2>5. s + 1 = i + 1
    BY <2>2, <2>3, <2>4, Ordered
  <2>6. s = i
    BY <2>3, <2>5
  <2> QED BY <2>1, <2>6
<1> QED BY <1>5, <1>6

\* One instruction keeps the flag that matters the same, and so goes the
\* same way for the card as for the program.
LEMMA SameWay ==
  ASSUME TextInv, NEW c \in {"CF", "ZF"}, Tests(text, c), Agree(c),
         NEW i \in Index, NEW other
  PROVE  /\ Takes(i, flags.card, other) = Takes(i, flags.program, other)
         /\ GoesTo(i, flags.card, other) = GoesTo(i, flags.program, other)
<1>1. text[i].kind = "jcc" /\ text[i].cc # "any" => text[i].cc = c
  <2>1. i \in DOMAIN text
    BY AddrIs
  <2> QED BY <2>1 DEF Tests
<1>2. Takes(i, flags.card, other) = Takes(i, flags.program, other)
  <2>1. CASE text[i].kind = "jmp"
    BY <2>1 DEF Takes
  <2>2. CASE text[i].kind = "jcc" /\ text[i].cc # "any"
    <3>1. /\ Takes(i, flags.card, other) = flags.card[c]
          /\ Takes(i, flags.program, other) = flags.program[c]
      BY <1>1, <2>2 DEF Takes
    <3> QED BY <3>1 DEF Agree
  <2>3. CASE /\ text[i].kind # "jmp"
             /\ ~(text[i].kind = "jcc" /\ text[i].cc # "any")
    BY <2>3 DEF Takes
  <2> QED BY <2>1, <2>2, <2>3
<1> QED BY <1>2 DEF GoesTo

\* The two masks and the two sets of flags go on agreeing, on the flag the
\* branches of the text test: the dword compare is let in for it alone.
LEMMA AgreeOn ==
  ASSUME TextInv, NEW c \in {"CF", "ZF"}, Tests(text, c), Agree(c),
         DOMAIN flags = {"program", "card"}, NEW i \in Index, Fit(i),
         \/ UNCHANGED <<mask, flags>>
         \/ /\ text[i].kind \in Compare
            /\ \E m \in Compared(text[i].kind) :
                  mask' = [program |-> m[1], card |-> m[2]]
            /\ UNCHANGED flags
         \/ /\ flags' = [w \in DOMAIN flags |-> Kortest(mask[w])]
            /\ UNCHANGED mask
  PROVE  Agree(c)'
<1>1. CASE UNCHANGED <<mask, flags>>
  BY <1>1 DEF Agree
<1>2. CASE /\ text[i].kind \in Compare
           /\ \E m \in Compared(text[i].kind) :
                 mask' = [program |-> m[1], card |-> m[2]]
           /\ UNCHANGED flags
  <2>1. FlagKept(i, i + 2) /\ i + 2 \in Index
    BY <1>2 DEF Fit, Rewritten, BytecmpPair, Avx512
  <2>2. \/ text[i].kind = "cmpeq" /\ c = "CF"
        \/ text[i].kind = "cmpne" /\ c = "ZF"
    <3>1. i + 2 \in DOMAIN text
      BY <2>1, AddrIs
    <3> QED BY <2>1, <3>1 DEF FlagKept, Tests
  <2>3. PICK m \in Compared(text[i].kind) :
           mask' = [program |-> m[1], card |-> m[2]]
    BY <1>2
  <2>4. mask'.program = m[1] /\ mask'.card = m[2]
    BY <2>3
  <2>5. Keeps(c, m[1]) <=> Keeps(c, m[2])
    BY <2>2 DEF Compared, Keeps
  <2> QED BY <1>2, <2>4, <2>5 DEF Agree
<1>3. CASE /\ flags' = [w \in DOMAIN flags |-> Kortest(mask[w])]
           /\ UNCHANGED mask
  <2>1. /\ flags'.program = Kortest(mask.program)
        /\ flags'.card = Kortest(mask.card)
    BY <1>3
  <2>2. \A m : Kortest(m)[c] = Keeps(c, m)
    BY DEF Kortest, Keeps
  <2>3. Kortest(mask.program)[c] = Kortest(mask.card)[c]
    <3>1. Keeps(c, mask.program) = Keeps(c, mask.card)
      BY DEF Agree, Keeps
    <3> QED BY <2>2, <3>1
  <2> QED BY <1>3, <2>1, <2>3 DEF Agree
<1> QED BY <1>1, <1>2, <1>3

\* One instruction.
LEMMA InvRun ==
  ASSUME Inv, Run
  PROVE  Inv'
<1>1. /\ UNCHANGED <<text, entry, work, included, exits, image, loop>>
      /\ UNCHANGED <<stage, extra>> /\ stage = "run" /\ Fetch.does = "run"
  BY DEF Run, regionVars
<1>2. /\ TextInv' /\ WalkInv' /\ LaidInv'
      /\ Loops' = Loops /\ (Apart' <=> Apart) /\ (OneFlag' <=> OneFlag) /\ Phase
      /\ \A c : Tests(text, c) => Tests(text', c)
  BY <1>1, RunOn
<1>3. PICK i : i = Fetch.i
  OBVIOUS
<1>4. /\ \/ UNCHANGED <<mask, flags>>
         \/ /\ text[i].kind \in Compare
            /\ \E m \in Compared(text[i].kind) :
                  mask' = [program |-> m[1], card |-> m[2]]
            /\ UNCHANGED flags
         \/ /\ flags' = [w \in DOMAIN flags |-> Kortest(mask[w])]
            /\ UNCHANGED mask
      /\ \E other : /\ at' = CardGoesTo(i, other)
                    /\ pc' = GoesTo(i, flags.program, other)
  BY <1>3 DEF Run
<1>5. DOMAIN mask' = {"program", "card"} /\ DOMAIN flags' = {"program", "card"}
  <2>1. DOMAIN mask = {"program", "card"} /\ DOMAIN flags = {"program", "card"}
    BY DEF Inv, RunInv
  <2> QED BY <1>4, <2>1
<1>6. ASSUME Apart, OneFlag
      PROVE  InStep' /\ \E c \in {"CF", "ZF"} : Tests(text', c) /\ Agree(c)'
  <2>1. InStep /\ Region
    BY <1>1, <1>2, <1>6 DEF Inv, RunInv, Phase
  <2>2. PICK c \in {"CF", "ZF"} : Tests(text, c) /\ Agree(c)
    BY <1>1, <1>6 DEF Inv, RunInv
  <2>3. /\ i \in included /\ Addr[i] = pc
        /\ \/ at.in = "code" /\ i \notin Sites
           \/ /\ at.in = "thunk" /\ at.a = i /\ at.site \in Sites
              /\ \/ i = at.site
                 \/ Short(at.site) /\ i = at.site + 1
    BY <1>1, <1>2, <1>3, <1>6, <2>1, FetchIs
  <2>4. i \in Index /\ Fit(i) /\ TextInv /\ i \in Nat
    BY <2>1, <2>3, IncludedAre, AddrIs DEF Region
  <2>5. Agree(c)'
    BY <1>4, <2>2, <2>4, AgreeOn DEF Inv, RunInv
  <2>6. PICK other : /\ at' = CardGoesTo(i, other)
                     /\ pc' = GoesTo(i, flags.program, other)
    BY <1>4
  <2> DEFINE to == GoesTo(i, flags.program, other)
             taken == IsBranch(i) /\ Takes(i, flags.card, other)
  <2>7. at' = IF at.in = "thunk" /\ i < SiteEnd(at.site) /\ ~taken
              THEN InThunk(at.site, i + 1)
              ELSE InCode(to)
    <3>1. GoesTo(i, flags.card, other) = to
      BY <2>2, <2>4, SameWay
    <3> QED BY <2>6, <3>1 DEF CardGoesTo
  <2>8. \/ IsBranch(i) /\ taken /\ to = Target(i)
        \/ text[i].kind # "jmp" /\ ~taken /\ to = Addr[i + 1]
    <3>1. Takes(i, flags.card, other) = Takes(i, flags.program, other)
      BY <2>2, <2>4, SameWay
    <3>2. text[i].kind = "jmp" => taken
      BY DEF Takes, IsBranch
    <3> QED BY <3>1, <3>2 DEF GoesTo
  <2>9. /\ Sites' = Sites /\ Swallowed' = Swallowed /\ Addr' = Addr
        /\ \A a : (Seen(a)' <=> Seen(a)) /\ At(a)' = At(a)
        /\ \A j : SiteEnd(j)' = SiteEnd(j)
    BY <1>1, SameText, SameRegion
  <2>10. CASE i \in Sites /\ Short(i)
    <3>1. at.in = "thunk" /\ at.site = i
      BY <2>1, <2>3, <2>10, SiteShape DEF Movable, Sites
    <3>2. SiteEnd(i) = i + 1 /\ ~IsBranch(i)
      BY <2>1, <2>10, SiteShape DEF IsThunk, IsBranch, Conditional
    <3>3. i < i + 1 /\ i + 1 \in i .. i + 1
      BY <2>4
    <3>4. at' = InThunk(i, i + 1) /\ pc' = Addr[i + 1]
      BY <2>6, <2>7, <2>8, <3>1, <3>2, <3>3
    <3>5. /\ at'.in = "thunk" /\ at'.site = i /\ at'.a = i + 1
          /\ SiteEnd(at.site)' = SiteEnd(i)'
      BY <3>4 DEF InThunk, SiteEnd, Short, IsThunk, SiteLast
    <3>6. InStep'
      BY <2>9, <2>10, <3>2, <3>3, <3>4, <3>5 DEF InStep
    <3> QED BY <1>2, <2>2, <2>5, <3>6
  <2>11. CASE ~(i \in Sites /\ Short(i))
    <3>1. Seen(to) /\ At(to) \notin Swallowed
      BY <2>1, <2>3, <2>8, <2>11, GoesWell
    <3>2. at.in = "thunk" => ~(i < SiteEnd(at.site))
      <4>1. CASE at.site \in Sites /\ i = at.site
        BY <2>1, <2>4, <2>11, <4>1, SiteShape
      <4>2. CASE at.site \in Sites /\ Short(at.site) /\ i = at.site + 1
        BY <2>1, <2>4, <4>2, SiteShape
      <4> QED BY <2>3, <4>1, <4>2
    <3>3. at' = InCode(to) /\ pc' = to
      BY <2>6, <2>7, <3>2
    <3>4. PICK x : x = to
      OBVIOUS
    <3>5. (Seen(pc)' <=> Seen(x)') /\ At(pc)' = At(x)'
      BY <3>3, <3>4 DEF Seen, At, Exited
    <3>6. at'.in = "code" /\ at'.a = pc'
      BY <3>3 DEF InCode
    <3>7. InStep'
      BY <2>9, <3>1, <3>4, <3>5, <3>6 DEF InStep
    <3> QED BY <1>2, <2>2, <2>5, <3>7
  <2> QED BY <2>10, <2>11
<1>7. RunInv'
  BY <1>1, <1>2, <1>5, <1>6 DEF Inv, RunInv, Phase
<1> QED BY <1>2, <1>7 DEF Inv

\* A stuttering step.
LEMMA InvStutter ==
  ASSUME Inv, UNCHANGED vars
  PROVE  Inv'
<1>1. /\ UNCHANGED <<text, entry, stage, work, included, exits, image, loop>>
      /\ UNCHANGED <<extra, at, pc, mask, flags>>
  BY DEF vars
<1>2. TextInv' /\ WalkInv'
  BY <1>1, SameRegion, SameWalk DEF Inv
<1>3. LaidInv'
  BY <1>1, SameRegion DEF LaidInv, Inv
<1>4. InStep => InStep'
  <2>1. /\ Sites' = Sites /\ Swallowed' = Swallowed /\ Addr' = Addr
        /\ \A a : (Seen(a)' <=> Seen(a)) /\ At(a)' = At(a)
        /\ \A i : SiteEnd(i)' = SiteEnd(i)
    BY <1>1, SameText, SameRegion
  <2>2. (Seen(pc)' <=> Seen(pc)) /\ At(pc)' = At(pc)
    BY <1>1, <2>1 DEF Seen, Exited, At
  <2>3. SiteEnd(at.site)' = SiteEnd(at.site)
    <3>1. PICK s : s = at.site
      OBVIOUS
    <3>2. SiteEnd(at.site)' = SiteEnd(s)'
      BY <1>1, <3>1 DEF SiteEnd, Short, IsThunk, SiteLast
    <3> QED BY <2>1, <3>1, <3>2
  <2> QED BY <1>1, <2>1, <2>2, <2>3 DEF InStep
<1>5. RunInv'
  <2>1. \A c : /\ Agree(c)' <=> Agree(c)
               /\ Tests(text, c) => Tests(text', c)
    BY <1>1 DEF Agree
  <2>2. Loops' = Loops /\ (Apart' <=> Apart) /\ (OneFlag' <=> OneFlag)
    BY <1>1, SameRegion, SameApart DEF OneFlag
  <2> QED BY <1>1, <1>4, <2>1, <2>2 DEF Inv, RunInv
<1> QED BY <1>2, <1>3, <1>5 DEF Inv

-----------------------------------------------------------------------------
(* The theorems.                                                           *)

\* Whatever the text, the card follows the program (analyze and the phases
\* of run in offload.rs): it never meets bytes that are not one whole
\* instruction, it runs the instruction the program is at, in the code or in
\* a thunk, and it leaves where the program is, as long as the exits stand
\* apart and the branches of the text test one flag only.
THEOREM RegionFaithful == Spec => []FaithfulApart
<1>1. Init => Inv
  BY InvInit
<1>2. Inv /\ [Next]_vars => Inv'
  <2> SUFFICES ASSUME Inv, [Next]_vars PROVE Inv'
    OBVIOUS
  <2>1. CASE WalkSeen \/ WalkExit \/ WalkInclude
    BY <2>1, InvWalk
  <2>2. CASE WalkDone \/ Layout
    BY <2>2, InvWalkDone, InvLayout
  <2>3. CASE ReserveThunk \/ ProgramMaps
    BY <2>3, InvReserve
  <2>4. CASE Dispatch
    BY <2>4, InvDispatch
  <2>5. CASE ToThunk
    BY <2>5, InvToThunk
  <2>6. CASE Run
    BY <2>6, InvRun
  <2>7. CASE Leave
    BY <2>7, InvLeave
  <2>8. CASE UNCHANGED vars
    BY <2>8, InvStutter
  <2> QED BY <2>1, <2>2, <2>3, <2>4, <2>5, <2>6, <2>7, <2>8
          DEF Next, Analyse, Card
<1>3. Inv => FaithfulApart
  BY StepFaithful DEF FaithfulApart
<1> QED BY <1>1, <1>2, <1>3, PTL DEF Spec

\* The thunk area shares its chunk with nothing of the program, whatever the
\* program's other threads map before and after it is reserved
\* (reserve_thunk_chunk and its MAP_FIXED_NOREPLACE).
THEOREM ThunkStaysAlone == Spec => []ThunkAlone
<1>1. Init => ThunkAlone
  BY DEF Init, ThunkAlone
<1>2. ThunkAlone /\ [Next]_vars => ThunkAlone'
  <2> SUFFICES ASSUME ThunkAlone, [Next]_vars PROVE ThunkAlone'
    OBVIOUS
  <2>1. CASE ReserveThunk
    BY <2>1 DEF ReserveThunk, Reserved, ThunkAlone, thunkVars
  <2>2. CASE ProgramMaps
    BY <2>2 DEF ProgramMaps, ThunkAlone, thunkVars
  <2>3. CASE UNCHANGED <<thunk, mapped>>
    BY <2>3 DEF ThunkAlone
  <2> QED BY <2>1, <2>2, <2>3
          DEF Next, Analyse, Card, WalkSeen, WalkExit, WalkInclude, WalkDone,
              Layout, Dispatch, ToThunk, Run, Leave, vars, thunkVars
<1> QED BY <1>1, <1>2, PTL DEF Spec
=============================================================================
