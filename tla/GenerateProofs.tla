--------------------------- MODULE GenerateProofs ---------------------------
(***************************************************************************)
(* For every vocabulary, every model output, every prompt and every choice *)
(* of the limits, greedy generation with drafts emits the model's own      *)
(* output, keeps the model's context in step with it, can take back what   *)
(* it must, and stays within its bounds.                                   *)
(***************************************************************************)
EXTENDS Generate, SequenceTheorems, WellFoundedInduction, TLAPS

-----------------------------------------------------------------------------
(* Least and greatest elements.                                            *)

\* A set of naturals that is not empty has a least element.
LEMMA Least ==
  ASSUME NEW T, T \subseteq Nat, T # {}
  PROVE  \E x \in T : \A y \in T : x <= y
<1> DEFINE R == OpToRel(<, Nat)
<1>1. IsWellFoundedOn(R, Nat)
  BY NatLessThanWellFounded
<1> HIDE DEF R
<1>2. PICK x \in T : \A y \in T : ~ (<<y, x>> \in R)
  BY <1>1, WFMin
<1>3. \A a, b \in Nat : <<b, a>> \in R <=> b < a
  BY DEF R, OpToRel
<1>4. ASSUME NEW y \in T PROVE x <= y
  <2>1. x \in Nat /\ y \in Nat
    OBVIOUS
  <2>2. ~ (y < x)
    BY <1>2, <1>3, <2>1
  <2> QED BY <2>1, <2>2
<1> QED BY <1>4

\* A set of naturals below n that is not empty has a greatest element.
LEMMA Greatest ==
  ASSUME NEW n \in Nat, NEW T, T \subseteq 0 .. n, T # {}
  PROVE  \E x \in T : \A y \in T : x >= y
<1> DEFINE U == {n - t : t \in T}
<1>1. U \subseteq Nat
  <2>1. ASSUME NEW t \in T PROVE n - t \in Nat
    <3>1. t \in 0 .. n
      OBVIOUS
    <3> QED BY <3>1
  <2> QED BY <2>1
<1>2. U # {}
  <2>1. PICK t \in T : TRUE
    OBVIOUS
  <2>2. n - t \in U
    OBVIOUS
  <2> QED BY <2>2
<1>3. PICK u \in U : \A v \in U : u <= v
  <2> HIDE DEF U
  <2> QED BY <1>1, <1>2, Least
<1>4. PICK t \in T : u = n - t
  OBVIOUS
<1>5. ASSUME NEW y \in T PROVE t >= y
  <2>1. t \in 0 .. n /\ y \in 0 .. n
    OBVIOUS
  <2>2. n - t <= n - y
    BY <1>3, <1>4
  <2> QED BY <2>1, <2>2
<1> QED BY <1>5

LEMMA MinOf ==
  ASSUME NEW T, T \subseteq Nat, T # {}
  PROVE  Min(T) \in T /\ \A y \in T : Min(T) <= y
  BY Least DEF Min

LEMMA MaxOf ==
  ASSUME NEW n \in Nat, NEW T, T \subseteq 0 .. n, T # {}
  PROVE  Max(T) \in T /\ \A y \in T : Max(T) >= y
  BY Greatest DEF Max

LEMMA Min2 ==
  ASSUME NEW a \in Int, NEW b \in Int
  PROVE  Min({a, b}) = IF a <= b THEN a ELSE b
<1>1. \E x \in {a, b} : \A y \in {a, b} : x <= y
  OBVIOUS
<1>2. Min({a, b}) \in {a, b} /\ \A y \in {a, b} : Min({a, b}) <= y
  BY <1>1 DEF Min
<1> QED BY <1>2

LEMMA Max2 ==
  ASSUME NEW a \in Int, NEW b \in Int
  PROVE  Max({a, b}) = IF a >= b THEN a ELSE b
<1>1. \E x \in {a, b} : \A y \in {a, b} : x >= y
  OBVIOUS
<1>2. Max({a, b}) \in {a, b} /\ \A y \in {a, b} : Max({a, b}) >= y
  BY <1>1 DEF Max
<1> QED BY <1>2

LEMMA Max3 ==
  ASSUME NEW a \in Int, NEW b \in Int, NEW c \in Int
  PROVE  /\ Max({a, b, c}) \in {a, b, c}
         /\ \A y \in {a, b, c} : Max({a, b, c}) >= y
<1>1. \E x \in {a, b, c} : \A y \in {a, b, c} : x >= y
  OBVIOUS
<1> QED BY <1>1 DEF Max

-----------------------------------------------------------------------------
(* Prefixes of a sequence.                                                 *)

\* A function on the first m positions is a sequence.
LEMMA FunctionIsSequence ==
  ASSUME NEW S, NEW m \in Nat, NEW g \in [1 .. m -> S]
  PROVE  g \in Seq(S) /\ Len(g) = m
<1>1. g \in Seq(S)
  <2>1. \A i \in 1 .. m : g[i] \in S
    OBVIOUS
  <2>2. g = [i \in 1 .. m |-> g[i]]
    OBVIOUS
  <2> QED BY <2>1, <2>2, IsASeq
<1>2. DOMAIN g = 1 .. m
  OBVIOUS
<1> QED BY <1>1, <1>2, LenProperties

\* What a slice is, element by element.
LEMMA Slice ==
  ASSUME NEW S, NEW f \in Seq(S), NEW a \in Nat, NEW b \in Nat,
         a <= b, b <= Len(f)
  PROVE  /\ SubSeq(f, a + 1, b) \in Seq(S)
         /\ Len(SubSeq(f, a + 1, b)) = b - a
         /\ \A i \in 1 .. b - a : SubSeq(f, a + 1, b)[i] = f[a + i]
<1>1. a + 1 <= b => SubSeq(f, a + 1, b) \in Seq(S)
  BY SubSeqProperties
<1> QED BY SubSeqProperties

\* A slice after the prefix it follows is the longer prefix.
LEMMA Extend ==
  ASSUME NEW S, NEW f \in Seq(S), NEW a \in Nat, NEW b \in Nat,
         a <= b, b <= Len(f)
  PROVE  SubSeq(f, 1, a) \o SubSeq(f, a + 1, b) = SubSeq(f, 1, b)
<1> DEFINE p == SubSeq(f, 1, a)
           q == SubSeq(f, a + 1, b)
           r == SubSeq(f, 1, b)
<1>1. /\ p \in Seq(S) /\ Len(p) = a
      /\ \A i \in 1 .. a : p[i] = f[i]
  BY Slice, 0 + 1 = 1, 0 \in Nat
<1>2. /\ q \in Seq(S) /\ Len(q) = b - a
      /\ \A i \in 1 .. b - a : q[i] = f[a + i]
  BY Slice
<1>3. /\ r \in Seq(S) /\ Len(r) = b
      /\ \A i \in 1 .. b : r[i] = f[i]
  BY Slice, 0 + 1 = 1, 0 \in Nat
<1> HIDE DEF p, q, r
<1>4. /\ p \o q \in Seq(S) /\ Len(p \o q) = b
      /\ \A i \in 1 .. b : (p \o q)[i] = r[i]
  <2>1. /\ p \o q \in Seq(S) /\ Len(p \o q) = b
        /\ \A i \in 1 .. b :
             (p \o q)[i] = IF i <= a THEN p[i] ELSE q[i - a]
    BY <1>1, <1>2, ConcatProperties
  <2>2. ASSUME NEW i \in 1 .. b PROVE (p \o q)[i] = r[i]
    <3>1. CASE i <= a
      BY <1>1, <1>3, <2>1, <3>1
    <3>2. CASE i > a
      <4>1. i - a \in 1 .. b - a /\ a + (i - a) = i
        BY <3>2
      <4>2. q[i - a] = f[i]
        BY <1>2, <4>1
      <4> QED BY <1>3, <2>1, <3>2, <4>2
    <3>3. i <= a \/ i > a
      OBVIOUS
    <3> QED BY <3>1, <3>2, <3>3
  <2> QED BY <2>1, <2>2
<1>5. p \o q = r
  BY <1>3, <1>4, SeqEqual
<1> QED BY <1>5 DEF p, q, r

\* The slice and the element that follows it.
LEMMA Grow ==
  ASSUME NEW S, NEW f \in Seq(S), NEW a \in Nat, NEW b \in Nat,
         a <= b, b < Len(f)
  PROVE  Append(SubSeq(f, a + 1, b), f[b + 1]) = SubSeq(f, a + 1, b + 1)
<1> DEFINE p == SubSeq(f, a + 1, b)
           r == SubSeq(f, a + 1, b + 1)
<1>1. /\ p \in Seq(S) /\ Len(p) = b - a
      /\ \A i \in 1 .. b - a : p[i] = f[a + i]
  BY Slice
<1>2. b + 1 \in Nat /\ a <= b + 1 /\ b + 1 <= Len(f) /\ f[b + 1] \in S
  BY LenProperties
<1>3. /\ r \in Seq(S) /\ Len(r) = b + 1 - a
      /\ \A i \in 1 .. b + 1 - a : r[i] = f[a + i]
  BY <1>2, Slice
<1> HIDE DEF p, r
<1>4. /\ Append(p, f[b + 1]) \in Seq(S) /\ Len(Append(p, f[b + 1])) = b + 1 - a
      /\ \A i \in 1 .. b + 1 - a : Append(p, f[b + 1])[i] = r[i]
  BY <1>1, <1>2, <1>3, AppendProperties
<1>5. Append(p, f[b + 1]) = r
  BY <1>3, <1>4, SeqEqual
<1> QED BY <1>5 DEF p, r

\* A prefix of a prefix followed by anything.
LEMMA PrefixOf ==
  ASSUME NEW S, NEW f \in Seq(S), NEW d \in Seq(S),
         NEW n \in Nat, NEW b \in Nat, b <= n, n <= Len(f)
  PROVE  /\ SubSeq(f, 1, n) \o d \in Seq(S)
         /\ Len(SubSeq(f, 1, n) \o d) = n + Len(d)
         /\ SubSeq(SubSeq(f, 1, n) \o d, 1, b) = SubSeq(f, 1, b)
<1> DEFINE p == SubSeq(f, 1, n)
           q == SubSeq(p \o d, 1, b)
           r == SubSeq(f, 1, b)
<1>1. /\ p \in Seq(S) /\ Len(p) = n /\ Len(d) \in Nat
      /\ \A i \in 1 .. n : p[i] = f[i]
  BY Slice, LenProperties, 0 + 1 = 1, 0 \in Nat
<1>2. /\ r \in Seq(S) /\ Len(r) = b
      /\ \A i \in 1 .. b : r[i] = f[i]
  <2>1. b <= Len(f)
    BY LenProperties
  <2> QED BY <2>1, Slice, 0 + 1 = 1, 0 \in Nat
<1> HIDE DEF p
<1>3. /\ p \o d \in Seq(S) /\ Len(p \o d) = n + Len(d)
      /\ \A i \in 1 .. n : (p \o d)[i] = p[i]
  <2>1. /\ p \o d \in Seq(S) /\ Len(p \o d) = Len(p) + Len(d)
        /\ \A i \in 1 .. Len(p) + Len(d) :
             (p \o d)[i] = IF i <= Len(p) THEN p[i] ELSE d[i - Len(p)]
    <3>1. p \in Seq(S)
      BY <1>1
    <3> QED BY <3>1, ConcatProperties
  <2> QED BY <1>1, <2>1
<1>4. /\ q \in Seq(S) /\ Len(q) = b
      /\ \A i \in 1 .. b : q[i] = (p \o d)[i]
  <2>1. b <= Len(p \o d)
    BY <1>1, <1>3
  <2> QED BY <1>3, <2>1, Slice, 0 + 1 = 1, 0 \in Nat
<1> HIDE DEF q, r
<1>5. q = r
  <2>1. \A i \in 1 .. b : q[i] = r[i]
    BY <1>1, <1>2, <1>3, <1>4
  <2> QED BY <1>2, <1>4, <2>1, SeqEqual
<1> QED BY <1>3, <1>5 DEF p, q, r

\* A slice and as much of what follows it as agrees with the sequence.
LEMMA Agreeing ==
  ASSUME NEW S, NEW f \in Seq(S), NEW d \in Seq(S),
         NEW a \in Nat, NEW n \in Nat, NEW m \in Nat,
         a <= n, n + m <= Len(f), m <= Len(d),
         \A i \in 1 .. m : d[i] = f[n + i]
  PROVE  /\ SubSeq(f, a + 1, n) \o d \in Seq(S)
         /\ Len(SubSeq(f, a + 1, n) \o d) = n - a + Len(d)
         /\ SubSeq(SubSeq(f, a + 1, n) \o d, 1, n - a + m)
              = SubSeq(f, a + 1, n + m)
<1> DEFINE p == SubSeq(f, a + 1, n)
           l == n - a + m
           q == SubSeq(p \o d, 1, l)
           r == SubSeq(f, a + 1, n + m)
<1>1. n <= Len(f) /\ Len(d) \in Nat /\ n + m \in Nat /\ a <= n + m
      /\ n - a \in Nat
  BY LenProperties
<1>2. /\ p \in Seq(S) /\ Len(p) = n - a
      /\ \A i \in 1 .. n - a : p[i] = f[a + i]
  BY <1>1, Slice
<1>3. /\ r \in Seq(S) /\ Len(r) = n + m - a
      /\ \A i \in 1 .. n + m - a : r[i] = f[a + i]
  BY <1>1, Slice
<1> HIDE DEF p, r
<1>4. /\ p \o d \in Seq(S) /\ Len(p \o d) = n - a + Len(d)
      /\ \A i \in 1 .. n - a + Len(d) :
           (p \o d)[i] = IF i <= n - a THEN p[i] ELSE d[i - (n - a)]
  <2>1. /\ p \o d \in Seq(S) /\ Len(p \o d) = Len(p) + Len(d)
        /\ \A i \in 1 .. Len(p) + Len(d) :
             (p \o d)[i] = IF i <= Len(p) THEN p[i] ELSE d[i - Len(p)]
    BY <1>2, ConcatProperties
  <2> QED BY <1>2, <2>1
<1>5. /\ q \in Seq(S) /\ Len(q) = l
      /\ \A i \in 1 .. l : q[i] = (p \o d)[i]
  <2>1. l \in Nat /\ l <= Len(p \o d)
    BY <1>1, <1>4
  <2> HIDE DEF l
  <2> QED BY <1>4, <2>1, Slice, 0 + 1 = 1, 0 \in Nat
<1> HIDE DEF q
<1>6. ASSUME NEW i \in 1 .. l PROVE q[i] = r[i]
  <2>1. q[i] = IF i <= n - a THEN p[i] ELSE d[i - (n - a)]
    <3>1. i \in 1 .. n - a + Len(d)
      BY <1>1
    <3> QED BY <1>4, <1>5, <3>1
  <2>2. r[i] = f[a + i]
    <3>1. i \in 1 .. n + m - a
      BY <1>1
    <3> QED BY <1>3, <3>1
  <2>3. CASE i <= n - a
    BY <1>2, <2>1, <2>2, <2>3
  <2>4. CASE i > n - a
    <3>1. i - (n - a) \in 1 .. m /\ n + (i - (n - a)) = a + i
      BY <1>1, <2>4
    <3>2. d[i - (n - a)] = f[a + i]
      BY <3>1
    <3> QED BY <1>1, <2>1, <2>2, <2>4, <3>2
  <2>5. i <= n - a \/ i > n - a
    BY <1>1
  <2> QED BY <2>3, <2>4, <2>5
<1>7. q = r
  <2>1. Len(r) = l
    BY <1>3
  <2> HIDE DEF l
  <2> QED BY <1>3, <1>5, <1>6, <2>1, SeqEqual
<1> QED BY <1>4, <1>7 DEF p, q, r

\* The same, with the lengths named.
LEMMA AgreeingTo ==
  ASSUME NEW S, NEW f \in Seq(S), NEW d \in Seq(S),
         NEW a \in Nat, NEW n \in Nat, NEW m \in Nat,
         a <= n, n + m <= Len(f), m <= Len(d),
         \A i \in 1 .. m : d[i] = f[n + i],
         NEW e, e = n + m, NEW l, l = n - a + m
  PROVE  /\ SubSeq(f, a + 1, n) \o d \in Seq(S)
         /\ Len(SubSeq(f, a + 1, n) \o d) = n - a + Len(d)
         /\ SubSeq(SubSeq(f, a + 1, n) \o d, 1, l) = SubSeq(f, a + 1, e)
  BY Agreeing

\* The same, from the beginning.
LEMMA AgreeingFirst ==
  ASSUME NEW S, NEW f \in Seq(S), NEW d \in Seq(S),
         NEW n \in Nat, NEW m \in Nat, n + m <= Len(f), m <= Len(d),
         \A i \in 1 .. m : d[i] = f[n + i]
  PROVE  SubSeq(SubSeq(f, 1, n) \o d, 1, n + m) = SubSeq(f, 1, n + m)
<1> DEFINE a == 0
           l == n + m
<1>1. /\ a \in Nat /\ a <= n /\ a + 1 = 1
      /\ l = n + m /\ l = n - a + m
  OBVIOUS
<1> HIDE DEF a, l
<1>2. SubSeq(SubSeq(f, a + 1, n) \o d, 1, l) = SubSeq(f, a + 1, l)
  BY SMTT(30), <1>1, AgreeingTo
<1> QED BY <1>1, <1>2

-----------------------------------------------------------------------------
(* The invariant.                                                          *)

\* The decided tokens up to n, the prompt's and the model's.
Upto(n) == SubSeq(full, 1, n)

\* The output so far is the model's, and short enough.
OutInv ==
  /\ \A i \in 1 .. Len(out) : out[i] = full[PromptLen + i]
  /\ \A i \in 1 .. Len(out) - 1 : out[i] \notin Eog
  /\ Len(out) <= Max({NPredict, 1})
  /\ Len(cells) <= NCtx
  /\ pc # "stuck"

\* While the prompt is decoded the context is a part of it.
PrefillInv ==
  pc = "prefill" =>
    /\ Len(cells) < PromptLen /\ cells = Upto(Len(cells))
    /\ recurrent => state = cells
    /\ pos = PromptLen /\ pending = <<>> /\ out = <<>>

\* The context holds the decided tokens before the carried ones.
Matches ==
  /\ Len(pending) <= pos
  /\ cells = Upto(pos - Len(pending))
  /\ pending = SubSeq(full, pos - Len(pending) + 1, pos)
  /\ recurrent => state = cells
  /\ pending # <<>> => ckpt = cells
  /\ cur = full[pos + 1]

\* Nothing emitted ends the generation.
Open == \A i \in 1 .. Len(out) : out[i] \notin Eog

\* At the head of the loop there is one more token to emit.
EmitInv ==
  pc = "emit" =>
    /\ Matches /\ Open
    /\ pos = PromptLen + Len(out) /\ pos <= NCtx
    /\ Len(out) < Max({NPredict, 1})

\* After it, cur is the last token emitted and there is room for another.
Decoding ==
  /\ Open
  /\ Len(out) >= 1 /\ pos + 1 = PromptLen + Len(out)
  /\ pos + 1 < NCtx /\ Len(out) < NPredict

\* The draft leaves room for the choice after it.
DraftFits ==
  /\ Len(draft) <= NPredict - Len(out) - 1
  /\ Len(draft) <= NCtx - pos - 1
  /\ Len(draft) <= MaxDraft

DraftInv == pc = "draft" => Matches /\ Decoding

DecodeInv ==
  pc = "decode" =>
    /\ Matches /\ Decoding /\ DraftFits
    /\ draft # <<>> /\ pending # <<>> =>
         Len(pending) + 1 + Len(draft) <= foldMax

\* The batch is decoded: the carried tokens and cur are decided, the draft
\* follows them in the cells, and the checkpoint is what the batch followed.
SettleInv ==
  IF pc = "settle"
  THEN LET first == Len(seq) - Len(draft) - 1
           base == pos - first
       IN /\ Decoding /\ DraftFits /\ draft # <<>>
          /\ Len(draft) + 1 <= Len(seq) /\ base \in 0 .. pos
          /\ Len(seq) <= Max({foldMax, MaxDraft + 1})
          /\ seq = SubSeq(full, base + 1, pos + 1) \o draft
          /\ cells = Upto(pos + 1) \o draft
          /\ recurrent => state = cells
          /\ Bounded => ckpt = Upto(base)
          /\ pending = <<>>
          /\ choice \in Choosing(cells, Len(draft) + 1)
  ELSE seq = <<>>

Inv ==
  /\ TypeOK /\ OutInv /\ PrefillInv /\ EmitInv /\ DraftInv /\ DecodeInv
  /\ SettleInv

-----------------------------------------------------------------------------
(* The operators of the model.                                             *)

LEMMA LastIs ==
  /\ Last \in Nat /\ Max({NPredict, 1}) \in Nat /\ Max({NPredict, 1}) >= 1
  /\ Last = PromptLen + Max({NPredict, 1})
  /\ NPredict <= Max({NPredict, 1})
  /\ NPredict < 1 => Max({NPredict, 1}) = 1
  /\ NPredict >= 1 => Max({NPredict, 1}) = NPredict
<1>1. NPredict \in Nat /\ PromptLen \in Nat
  BY GenerateAssumption
<1>2. Max({NPredict, 1}) = IF NPredict >= 1 THEN NPredict ELSE 1
  BY <1>1, Max2
<1> QED BY <1>1, <1>2 DEF Last

LEMMA MaxDraftIs == MaxDraft \in Nat /\ KMax <= MaxDraft /\ CacheK <= MaxDraft
<1>1. KMax \in Nat /\ CacheK \in Nat
  BY GenerateAssumption
<1>2. MaxDraft = IF KMax >= CacheK THEN KMax ELSE CacheK
  BY <1>1, Max2 DEF MaxDraft
<1> QED BY <1>1, <1>2

\* full is a sequence of Last tokens.
LEMMA FullIs ==
  ASSUME full \in [1 .. Last -> Tokens]
  PROVE  full \in Seq(Tokens) /\ Len(full) = Last
  BY LastIs, FunctionIsSequence

LEMMA UptoIs ==
  ASSUME full \in [1 .. Last -> Tokens], NEW n \in Nat, n <= Last
  PROVE  Upto(n) \in Seq(Tokens) /\ Len(Upto(n)) = n
  BY FullIs, Slice, 0 + 1 = 1, 0 \in Nat DEF Upto

\* After a prefix of full the model chooses the token that follows it.
LEMMA NextChosen ==
  ASSUME full \in [1 .. Last -> Tokens], NEW n \in Nat, n < Last,
         NEW c \in Choosing(Upto(n), 1)
  PROVE  c[1] = full[n + 1] /\ c[1] \in Tokens
<1>1. Upto(n) \in Seq(Tokens) /\ Len(Upto(n)) = n
  <2>1. n <= Last
    BY LastIs
  <2> QED BY <2>1, UptoIs
<1>2. SubSeq(Upto(n), 1, n) = Upto(n)
  <2>1. \A s \in Seq(Tokens) : SubSeq(s, 1, Len(s)) = s
    BY SubSeqFull
  <2> QED BY <1>1, <2>1
<1>3. c \in [1 .. 1 -> Tokens]
  BY DEF Choosing
<1>4. LET q == Len(Upto(n)) - 1 + 1
      IN q < Last /\ SubSeq(Upto(n), 1, q) = SubSeq(full, 1, q)
           => c[1] = full[q + 1]
  BY DEF Choosing
<1>5. Len(Upto(n)) - 1 + 1 = n
  BY <1>1
<1> QED BY <1>2, <1>3, <1>4, <1>5 DEF Upto

\* Every batch of the prompt takes it forward.
LEMMA CutsForward ==
  ASSUME NEW a \in Nat, a < PromptLen
  PROVE  CutAfter(a) \in a + 1 .. PromptLen
<1> DEFINE end == Min({a + Batch, PromptLen})
           tail == IF recurrent
                   THEN {PromptLen - r : r \in {Min({Batch, Keep + UBatch}),
                                                Min({Batch, Keep})}}
                   ELSE {}
           inside == {c \in tail : a < c /\ c < end}
<1>1. /\ PromptLen \in Nat /\ Batch \in Nat /\ Batch >= 1 /\ Keep \in Nat
      /\ UBatch \in Nat
  BY GenerateAssumption
<1>2. end \in a + 1 .. PromptLen
  <2>1. end = IF a + Batch <= PromptLen THEN a + Batch ELSE PromptLen
    BY <1>1, Min2
  <2> QED BY <1>1, <2>1
<1>3. \A c \in tail : c \in Int
  <2>1. Min({Batch, Keep + UBatch}) \in Int
    BY <1>1, Min2
  <2>2. Min({Batch, Keep}) \in Int
    BY <1>1, Min2
  <2> QED BY <1>1, <2>1, <2>2
<1>4. CutAfter(a) = IF inside = {} THEN end ELSE Min(inside)
  BY DEF CutAfter
<1> HIDE DEF end, tail
<1>5. CASE inside = {}
  BY <1>2, <1>4, <1>5
<1>6. CASE inside # {}
  <2>1. inside \subseteq Nat
    <3>1. ASSUME NEW c \in inside PROVE c \in Nat
      <4>1. c \in Int /\ a < c
        BY <1>3
      <4> QED BY <4>1
    <3> QED BY <3>1
  <2>2. Min(inside) \in inside
    <3> HIDE DEF inside
    <3> QED BY <1>6, <2>1, MinOf
  <2>3. Min(inside) \in Int /\ a < Min(inside) /\ Min(inside) < end
    BY <1>3, <2>2
  <2> HIDE DEF inside
  <2> QED BY <1>1, <1>2, <1>4, <1>6, <2>3
<1> QED BY <1>5, <1>6

\* A context cut at a length it has.
LEMMA CutIs ==
  ASSUME NEW s \in Seq(Tokens), NEW n \in Nat
  PROVE  /\ Cut(s, n) \in Seq(Tokens)
         /\ Len(s) >= n => Cut(s, n) = SubSeq(s, 1, n)
         /\ Len(Cut(s, n)) <= Len(s)
<1> DEFINE l == Min({n, Len(s)})
<1>1. Len(s) \in Nat
  BY LenProperties
<1>2. l = IF n <= Len(s) THEN n ELSE Len(s)
  BY <1>1, Min2
<1>3. l \in Nat /\ l <= Len(s) /\ (Len(s) >= n => l = n)
  BY <1>1, <1>2
<1>4. Cut(s, n) = SubSeq(s, 1, l)
  BY DEF Cut
<1> HIDE DEF l
<1>5. SubSeq(s, 1, l) \in Seq(Tokens) /\ Len(SubSeq(s, 1, l)) = l
  BY <1>3, Slice, 0 + 1 = 1, 0 \in Nat
<1> QED BY <1>3, <1>4, <1>5

-----------------------------------------------------------------------------
(* The initial states and the steps of the prompt and of the loop.         *)

LEMMA InitInv == Init => Inv
<1> SUFFICES ASSUME Init PROVE Inv
  OBVIOUS
<1> USE GenerateAssumption
<1>1. full \in [1 .. Last -> Tokens] /\ full[1] \in Tokens
  <2>1. full \in [1 .. Last -> Tokens]
    BY DEF Init
  <2>2. 1 \in 1 .. Last
    BY LastIs
  <2> QED BY <2>1, <2>2
<1>2. <<>> \in Seq(Tokens) /\ Len(<<>>) = 0
  BY EmptySeq
<1>3. k \in 0 .. KMax
  <2>1. Max({KMin, 1}) = IF KMin >= 1 THEN KMin ELSE 1
    BY Max2
  <2>2. Max({KMin, 1}) \in Nat
    BY <2>1
  <2>3. Min({Max({KMin, 1}), KMax})
          = IF Max({KMin, 1}) <= KMax THEN Max({KMin, 1}) ELSE KMax
    <3> DEFINE x == Max({KMin, 1})
    <3>1. x \in Int /\ KMax \in Int
      BY <2>2
    <3> HIDE DEF x
    <3>2. Min({x, KMax}) = IF x <= KMax THEN x ELSE KMax
      BY <3>1, Min2
    <3> QED BY <3>2 DEF x
  <2> QED BY <2>2, <2>3 DEF Init
<1>4. TypeOK
  BY <1>1, <1>2, <1>3 DEF Init, TypeOK
<1>5. OutInv
  BY <1>2, LastIs DEF Init, OutInv
<1>6. PrefillInv
  <2>1. Upto(0) = <<>>
    BY SubSeqEmpty DEF Upto
  <2> QED BY <1>2, <2>1 DEF Init, PrefillInv
<1>7. EmitInv /\ DraftInv /\ DecodeInv /\ SettleInv
  BY DEF Init, EmitInv, DraftInv, DecodeInv, SettleInv
<1> QED BY <1>4, <1>5, <1>6, <1>7 DEF Inv

LEMMA PrefillStep == Inv /\ Prefill => Inv'
<1> SUFFICES ASSUME Inv, Prefill PROVE Inv'
  OBVIOUS
<1> DEFINE at == Len(cells)
           end == CutAfter(at)
<1>1. /\ pc = "prefill" /\ at < PromptLen /\ cells = Upto(at)
      /\ recurrent => state = cells
      /\ pos = PromptLen /\ pending = <<>> /\ out = <<>>
      /\ TypeOK /\ seq = <<>>
  BY DEF Inv, PrefillInv, Prefill, SettleInv
<1>2. /\ full \in [1 .. Last -> Tokens] /\ at \in Nat
      /\ PromptLen \in Nat /\ NCtx \in Nat /\ PromptLen < NCtx
      /\ PromptLen < Last
  <2>1. full \in [1 .. Last -> Tokens] /\ cells \in Seq(Tokens)
    BY <1>1 DEF TypeOK
  <2>2. Len(cells) \in Nat
    BY <2>1, LenProperties
  <2>3. PromptLen \in Nat /\ NCtx \in Nat /\ PromptLen < NCtx
    BY GenerateAssumption
  <2>4. PromptLen < Last
    BY <2>3, LastIs
  <2> QED BY <2>1, <2>2, <2>3, <2>4
<1>3. end \in at + 1 .. PromptLen
  <2> HIDE DEF at
  <2> QED BY <1>1, <1>2, CutsForward
<1>4. /\ cells' = Upto(end) /\ cells' \in Seq(Tokens) /\ Len(cells') = end
      /\ state' = (IF recurrent THEN cells' ELSE state)
  <2>1. /\ cells' = cells \o SubSeq(full, at + 1, end)
        /\ state' = IF recurrent THEN state \o SubSeq(full, at + 1, end)
                    ELSE state
    BY DEF Prefill, Decode
  <2> HIDE DEF at, end
  <2>2. full \in Seq(Tokens) /\ Len(full) = Last
    BY <1>2, FullIs
  <2>3. end \in Nat /\ at <= end /\ end <= Last
    BY <1>2, <1>3, LastIs
  <2>4. Upto(at) \o SubSeq(full, at + 1, end) = Upto(end)
    BY <1>2, <2>2, <2>3, Extend DEF Upto
  <2>5. Upto(end) \in Seq(Tokens) /\ Len(Upto(end)) = end
    BY <1>2, <2>3, UptoIs
  <2> QED BY <1>1, <2>1, <2>4, <2>5
<1> HIDE DEF at, end
<1>5. /\ UNCHANGED <<parVars, ckpt, stepVars, pos, pending, k, out>>
      /\ IF end = PromptLen
         THEN \E c \in Choosing(cells', 1) : cur' = c[1] /\ pc' = "emit"
         ELSE UNCHANGED <<cur, pc>>
  BY DEF Prefill, end, at
<1>6. /\ cur' \in Tokens
      /\ end # PromptLen => pc' = "prefill"
      /\ end = PromptLen => pc' = "emit" /\ cur' = full[PromptLen + 1]
  <2>1. CASE end = PromptLen
    <3>1. PICK c \in Choosing(Upto(PromptLen), 1) :
                 cur' = c[1] /\ pc' = "emit"
      BY <1>4, <1>5, <2>1
    <3>2. c[1] = full[PromptLen + 1] /\ c[1] \in Tokens
      BY <1>2, NextChosen
    <3> QED BY <2>1, <3>1, <3>2
  <2>2. CASE end # PromptLen
    BY <1>1, <1>5, <2>2 DEF TypeOK
  <2> QED BY <2>1, <2>2
<1>7. full' = full /\ recurrent' = recurrent /\ rsSeq' = rsSeq
      /\ foldMax' = foldMax /\ adapt' = adapt /\ draft' = draft
      /\ exact' = exact /\ seq' = seq /\ choice' = choice
      /\ ckpt' = ckpt /\ pos' = pos /\ pending' = pending /\ k' = k
      /\ out' = out
  BY <1>5 DEF parVars, stepVars
<1>8. TypeOK'
  BY <1>1, <1>4, <1>6, <1>7 DEF TypeOK
<1>9. OutInv'
  <2>1. Len(<<>>) = 0
    OBVIOUS
  <2> QED BY <1>1, <1>2, <1>3, <1>4, <1>6, <1>7, <2>1, LastIs DEF OutInv
<1>10. PrefillInv'
  BY <1>1, <1>2, <1>3, <1>4, <1>6, <1>7 DEF PrefillInv, Upto
<1>11. EmitInv'
  <2> SUFFICES ASSUME pc' = "emit"
               PROVE  (Matches /\ Open /\ pos = PromptLen + Len(out)
                        /\ pos <= NCtx /\ Len(out) < Max({NPredict, 1}))'
    BY DEF EmitInv
  <2>1. end = PromptLen /\ cur' = full[PromptLen + 1]
    BY <1>6
  <2>2. /\ pos' = PromptLen /\ pending' = <<>> /\ out' = <<>>
        /\ Len(<<>>) = 0
    BY <1>1, <1>7
  <2>3. SubSeq(full, PromptLen + 1, PromptLen) = <<>>
    BY <1>2, SubSeqEmpty
  <2>4. Matches'
    BY <1>2, <1>4, <1>7, <2>1, <2>2, <2>3 DEF Matches, Upto
  <2> QED BY <1>2, <2>2, <2>4, LastIs DEF Open
<1>12. (DraftInv /\ DecodeInv /\ SettleInv)'
  BY <1>1, <1>6, <1>7 DEF DraftInv, DecodeInv, SettleInv
<1> QED BY <1>8, <1>9, <1>10, <1>11, <1>12 DEF Inv

LEMMA EmitStep == Inv /\ Emit => Inv'
<1> SUFFICES ASSUME Inv, Emit PROVE Inv'
  OBVIOUS
<1>1. /\ pc = "emit" /\ TypeOK /\ OutInv /\ Matches /\ Open
      /\ pos = PromptLen + Len(out) /\ pos <= NCtx
      /\ Len(out) < Max({NPredict, 1}) /\ seq = <<>>
  BY DEF Inv, EmitInv, Emit, SettleInv
<1>2. /\ out \in Seq(Tokens) /\ cur \in Tokens /\ Len(out) \in Nat
      /\ PromptLen \in Nat /\ NPredict \in Nat /\ NCtx \in Nat
  BY <1>1, LenProperties, GenerateAssumption DEF TypeOK
<1>3. /\ out' = Append(out, cur) /\ out' \in Seq(Tokens)
      /\ Len(out') = Len(out) + 1
      /\ \A i \in 1 .. Len(out) : out'[i] = out[i]
      /\ out'[Len(out) + 1] = cur
  BY <1>2, AppendProperties DEF Emit
<1>4. /\ full' = full /\ recurrent' = recurrent /\ rsSeq' = rsSeq
      /\ foldMax' = foldMax /\ adapt' = adapt /\ cells' = cells
      /\ state' = state /\ draft' = draft /\ exact' = exact /\ seq' = seq
      /\ choice' = choice /\ cur' = cur /\ ckpt' = ckpt /\ pos' = pos
      /\ pending' = pending /\ k' = k
  BY DEF Emit, parVars, modelVars, stepVars
<1>5. /\ pc' \in {"done", "draft"}
      /\ pc' = "draft" =>
           /\ cur \notin Eog /\ Len(out) + 1 < NPredict /\ pos + 1 < NCtx
  BY <1>1, <1>2 DEF Emit
<1>6. TypeOK'
  BY <1>1, <1>3, <1>4, <1>5 DEF TypeOK
<1>7. OutInv'
  <2>1. ASSUME NEW i \in 1 .. Len(out) + 1
        PROVE  out'[i] = full[PromptLen + i]
    <3>1. CASE i \in 1 .. Len(out)
      BY <1>1, <1>3, <3>1 DEF OutInv
    <3>2. CASE i = Len(out) + 1
      <4>1. cur = full[pos + 1]
        BY <1>1 DEF Matches
      <4>2. pos + 1 = PromptLen + (Len(out) + 1)
        BY <1>1, <1>2
      <4> QED BY <1>3, <3>2, <4>1, <4>2
    <3> QED BY <1>2, <3>1, <3>2
  <2>2. \A i \in 1 .. Len(out) : out'[i] \notin Eog
    BY <1>1, <1>3 DEF Open
  <2>3. /\ Len(out') <= Max({NPredict, 1}) /\ Len(out') - 1 = Len(out)
        /\ 1 .. Len(out') = 1 .. Len(out) + 1
    BY <1>1, <1>2, <1>3, LastIs
  <2>4. Len(cells') <= NCtx /\ pc' # "stuck"
    BY <1>1, <1>4, <1>5 DEF OutInv
  <2> QED BY <1>4, <2>1, <2>2, <2>3, <2>4 DEF OutInv
<1>8. DraftInv'
  <2> SUFFICES ASSUME pc' = "draft" PROVE Matches' /\ Decoding'
    BY DEF DraftInv
  <2>1. Matches'
    BY <1>1, <1>4 DEF Matches, Upto
  <2>2. ASSUME NEW i \in 1 .. Len(out) + 1 PROVE out'[i] \notin Eog
    <3>1. i \in 1 .. Len(out) \/ i = Len(out) + 1
      BY <1>2
    <3> QED BY <1>1, <1>3, <1>5, <3>1 DEF Open
  <2>3. /\ Len(out') >= 1 /\ pos' + 1 = PromptLen + Len(out')
        /\ pos' + 1 < NCtx /\ Len(out') < NPredict
    BY <1>1, <1>2, <1>3, <1>4, <1>5
  <2> QED BY <1>3, <2>1, <2>2, <2>3 DEF Decoding, Open
<1>9. (PrefillInv /\ EmitInv /\ DecodeInv /\ SettleInv)'
  BY <1>1, <1>4, <1>5 DEF PrefillInv, EmitInv, DecodeInv, SettleInv
<1> QED BY <1>6, <1>7, <1>8, <1>9 DEF Inv

\* The carried tokens decoded bring the context to pos.
LEMMA CarriedDecoded ==
  ASSUME TypeOK, Matches, pos <= Last
  PROVE  /\ cells \o pending = Upto(pos)
         /\ Len(pending) \in Nat /\ pos - Len(pending) \in Nat
         /\ Len(cells) = pos - Len(pending)
<1>1. pending \in Seq(Tokens) /\ pos \in Nat /\ full \in [1 .. Last -> Tokens]
  BY DEF TypeOK
<1>2. full \in Seq(Tokens) /\ Len(full) = Last
  BY <1>1, FullIs
<1>3. Len(pending) \in Nat /\ pos - Len(pending) \in Nat
      /\ pos - Len(pending) <= pos
  BY <1>1, LenProperties DEF Matches
<1> DEFINE a == pos - Len(pending)
<1>4. Upto(a) \o SubSeq(full, a + 1, pos) = Upto(pos)
  <2>1. a \in Nat /\ a <= pos
    BY <1>3
  <2> HIDE DEF a
  <2> QED BY <1>1, <1>2, <2>1, Extend DEF Upto
<1>5. Len(Upto(a)) = a
  <2>1. a \in Nat /\ a <= Last
    BY <1>1, <1>3, LastIs
  <2> HIDE DEF a
  <2> QED BY <1>1, <2>1, UptoIs
<1>6. cells = Upto(a) /\ pending = SubSeq(full, a + 1, pos)
  BY DEF Matches
<1> QED BY <1>3, <1>4, <1>5, <1>6

\* The batch without the draft: the carried tokens and cur.
LEMMA BatchDecoded ==
  ASSUME TypeOK, Matches, pos < Last
  PROVE  /\ Append(pending, cur)
              = SubSeq(full, pos - Len(pending) + 1, pos + 1)
         /\ cells \o Append(pending, cur) = Upto(pos + 1)
         /\ Append(pending, cur) \in Seq(Tokens)
         /\ Len(Append(pending, cur)) = Len(pending) + 1
         /\ Len(pending) \in Nat /\ pos - Len(pending) \in Nat
<1>1. /\ pending \in Seq(Tokens) /\ pos \in Nat /\ cur \in Tokens
      /\ full \in [1 .. Last -> Tokens]
  BY DEF TypeOK
<1>2. full \in Seq(Tokens) /\ Len(full) = Last
  BY <1>1, FullIs
<1>3. Len(pending) \in Nat /\ pos - Len(pending) \in Nat
      /\ pos - Len(pending) <= pos
  BY <1>1, LenProperties DEF Matches
<1> DEFINE a == pos - Len(pending)
<1>4. a \in Nat /\ a <= pos
  BY <1>3
<1>5. cells = Upto(a) /\ pending = SubSeq(full, a + 1, pos)
      /\ cur = full[pos + 1]
  BY DEF Matches
<1>6. Append(SubSeq(full, a + 1, pos), full[pos + 1])
        = SubSeq(full, a + 1, pos + 1)
  <2> HIDE DEF a
  <2> QED BY <1>1, <1>2, <1>4, Grow
<1>7. Upto(a) \o SubSeq(full, a + 1, pos + 1) = Upto(pos + 1)
  <2> HIDE DEF a
  <2>1. pos + 1 \in Nat /\ a <= pos + 1 /\ pos + 1 <= Last
    BY <1>1, <1>4, LastIs
  <2> QED BY <1>2, <1>4, <2>1, Extend DEF Upto
<1>8. /\ Append(pending, cur) \in Seq(Tokens)
      /\ Len(Append(pending, cur)) = Len(pending) + 1
  BY <1>1, AppendProperties
<1> QED BY <1>3, <1>5, <1>6, <1>7, <1>8

LEMMA RoomIs ==
  ASSUME TypeOK, Decoding
  PROVE  /\ Room \in Nat /\ Room <= NPredict - Len(out) - 1
         /\ Room <= NCtx - pos - 1
         /\ pos + 1 < Last /\ pos \in Nat /\ Len(out) \in Nat
<1>1. /\ pos \in Nat /\ Len(out) \in Nat
  BY LenProperties DEF TypeOK
<1>2. NPredict \in Nat /\ NCtx \in Nat /\ PromptLen \in Nat
  BY GenerateAssumption
<1> DEFINE a == NPredict - Len(out) - 1
           b == NCtx - pos - 1
<1>3. a \in Nat /\ b \in Nat
  BY <1>1, <1>2 DEF Decoding
<1>4. Room = IF a <= b THEN a ELSE b
  <2>1. Room = Min({a, b})
    BY DEF Room
  <2> HIDE DEF a, b
  <2> QED BY <1>3, <2>1, Min2
<1>5. pos + 1 < Last
  BY <1>1, <1>2, LastIs DEF Decoding
<1> QED BY <1>1, <1>2, <1>3, <1>4, <1>5

LEMMA DraftStep == Inv /\ Draft => Inv'
<1> SUFFICES ASSUME Inv, Draft PROVE Inv'
  OBVIOUS
<1>1. /\ pc = "draft" /\ TypeOK /\ OutInv /\ Matches /\ Decoding
      /\ seq = <<>>
  BY DEF Inv, DraftInv, Draft, SettleInv
<1>2. /\ Room \in Nat /\ Room <= NPredict - Len(out) - 1
      /\ Room <= NCtx - pos - 1
      /\ pos + 1 < Last /\ pos \in Nat /\ Len(out) \in Nat
  BY <1>1, RoomIs
<1>3. NPredict \in Nat /\ NCtx \in Nat /\ KMax \in Nat /\ CacheK \in Nat
  BY GenerateAssumption
<1>4. /\ full' = full /\ recurrent' = recurrent /\ rsSeq' = rsSeq
      /\ foldMax' = foldMax /\ adapt' = adapt /\ ckpt' = ckpt
      /\ seq' = seq /\ choice' = choice /\ cur' = cur /\ pos' = pos
      /\ k' = k /\ out' = out /\ pc' = "decode" /\ exact' \in BOOLEAN
  BY DEF Draft, parVars
<1>5. draft' \in Seq(Tokens) /\ Len(draft') <= Room
      /\ Len(draft') <= MaxDraft /\ Len(draft') \in Nat
  <2> DEFINE most == IF exact' THEN k ELSE CacheK
             longest == IF KMax = 0 THEN 0 ELSE Min({Room, most})
  <2>1. most \in Nat /\ most <= MaxDraft
    BY <1>1, <1>3, MaxDraftIs DEF TypeOK
  <2>2. longest \in Nat /\ longest <= Room /\ longest <= MaxDraft
    <3> HIDE DEF most
    <3>1. Min({Room, most}) = IF Room <= most THEN Room ELSE most
      BY <1>2, <2>1, Min2
    <3> QED BY <1>2, <2>1, <3>1, MaxDraftIs
  <2>3. draft' \in Drafts(longest)
    BY DEF Draft
  <2> HIDE DEF longest
  <2>4. PICK m \in 0 .. longest : draft' \in [1 .. m -> Tokens]
    BY <2>3 DEF Drafts
  <2>5. m \in Nat /\ m <= longest
    BY <2>2
  <2>6. draft' \in Seq(Tokens) /\ Len(draft') = m
    BY <2>4, <2>5, FunctionIsSequence
  <2> QED BY <1>2, <2>2, <2>5, <2>6, MaxDraftIs
<1>6. /\ cells' \in Seq(Tokens) /\ state' \in Seq(Tokens)
      /\ pending' \in Seq(Tokens) /\ Matches' /\ Len(cells') <= NCtx
      /\ draft' # <<>> /\ pending' # <<>> =>
           Len(pending') + 1 + Len(draft') <= foldMax
  <2>1. pos <= Last /\ full \in [1 .. Last -> Tokens]
    <3>1. pos <= Last
      BY <1>2, LastIs
    <3> QED BY <1>1, <3>1 DEF TypeOK
  <2>2. /\ cells \o pending = Upto(pos)
        /\ Len(pending) \in Nat /\ pos - Len(pending) \in Nat
        /\ Len(cells) = pos - Len(pending)
    BY <1>1, <2>1, CarriedDecoded
  <2>3. CASE Overfull(draft')
    <3>1. /\ cells' = Upto(pos) /\ pending' = <<>>
          /\ state' = (IF recurrent THEN Upto(pos) ELSE state)
      BY <1>1, <2>2, <2>3 DEF Draft, Decode, Matches
    <3>2. Upto(pos) \in Seq(Tokens) /\ Len(Upto(pos)) = pos
      BY <1>2, <2>1, UptoIs
    <3>3. SubSeq(full, pos + 1, pos) = <<>>
      BY <1>2, SubSeqEmpty
    <3>4. Len(<<>>) = 0 /\ <<>> \in Seq(Tokens) /\ pos - 0 = pos
      BY <1>2
    <3>5. Matches'
      BY <1>1, <1>2, <1>4, <3>1, <3>3, <3>4 DEF Matches, Upto
    <3>6. state' \in Seq(Tokens)
      BY <1>1, <3>1, <3>2 DEF TypeOK
    <3>7. pos <= NCtx
      BY <1>1, <1>2, <1>3 DEF Decoding
    <3> QED BY <3>1, <3>2, <3>4, <3>5, <3>6, <3>7
  <2>4. CASE ~Overfull(draft')
    <3>1. cells' = cells /\ state' = state /\ pending' = pending
      BY <2>4 DEF Draft
    <3>2. Matches'
      BY <1>1, <1>4, <3>1 DEF Matches, Upto
    <3>3. Len(cells) <= NCtx
      BY <1>1 DEF OutInv
    <3>4. foldMax \in Nat
      BY <1>1, GenerateAssumption DEF TypeOK
    <3>5. draft' # <<>> /\ pending # <<>> =>
            Len(pending) + 1 + Len(draft') <= foldMax
      BY <1>5, <2>2, <2>4, <3>4 DEF Overfull
    <3> QED BY <1>1, <3>1, <3>2, <3>3, <3>5 DEF TypeOK
  <2> QED BY <2>3, <2>4
<1>7. TypeOK'
  BY <1>1, <1>4, <1>5, <1>6 DEF TypeOK
<1>8. OutInv'
  BY <1>1, <1>4, <1>6 DEF OutInv
<1>9. DecodeInv'
  <2>1. Decoding'
    BY <1>1, <1>4 DEF Decoding, Open
  <2>2. DraftFits'
    <3>1. Len(draft') <= NPredict - Len(out) - 1
          /\ Len(draft') <= NCtx - pos - 1
      BY <1>2, <1>3, <1>5
    <3> QED BY <1>4, <1>5, <3>1 DEF DraftFits, MaxDraft
  <2> QED BY <1>4, <1>6, <2>1, <2>2 DEF DecodeInv
<1>10. (PrefillInv /\ EmitInv /\ DraftInv /\ SettleInv)'
  BY <1>1, <1>4 DEF PrefillInv, EmitInv, DraftInv, SettleInv
<1> QED BY <1>7, <1>8, <1>9, <1>10 DEF Inv

LEMMA PlainStep == Inv /\ Plain => Inv'
<1> SUFFICES ASSUME Inv, Plain PROVE Inv'
  OBVIOUS
<1>1. /\ pc = "decode" /\ TypeOK /\ OutInv /\ Matches /\ Decoding
      /\ seq = <<>>
  BY DEF Inv, DecodeInv, Plain, SettleInv
<1>2. /\ pos + 1 < Last /\ pos < Last /\ pos \in Nat /\ Len(out) \in Nat
      /\ pos + 1 \in Nat
  <2>1. pos + 1 < Last /\ pos \in Nat /\ Len(out) \in Nat
    BY <1>1, RoomIs
  <2> QED BY <2>1, LastIs
<1>3. NPredict \in Nat /\ NCtx \in Nat /\ PromptLen \in Nat
  BY GenerateAssumption
<1>4. /\ full' = full /\ recurrent' = recurrent /\ rsSeq' = rsSeq
      /\ foldMax' = foldMax /\ adapt' = adapt /\ ckpt' = ckpt
      /\ draft' = draft /\ exact' = exact /\ seq' = seq
      /\ choice' = choice /\ pos' = pos + 1 /\ pending' = <<>>
      /\ k' = k /\ out' = out /\ pc' = "emit"
  BY DEF Plain, parVars, stepVars
<1>5. /\ cells' = Upto(pos + 1)
      /\ state' = (IF recurrent THEN Upto(pos + 1) ELSE state)
  <2>1. cells \o Append(pending, cur) = Upto(pos + 1)
    BY <1>1, <1>2, BatchDecoded
  <2> QED BY <1>1, <2>1 DEF Plain, Decode, Matches
<1>6. full \in [1 .. Last -> Tokens]
  BY <1>1 DEF TypeOK
<1>7. Upto(pos + 1) \in Seq(Tokens) /\ Len(Upto(pos + 1)) = pos + 1
  <2>1. pos + 1 <= Last
    BY <1>2, LastIs
  <2> QED BY <1>2, <1>6, <2>1, UptoIs
<1>8. cur' = full[pos + 1 + 1] /\ cur' \in Tokens
  <2>1. PICK c \in Choosing(Upto(pos + 1), 1) : cur' = c[1]
    BY <1>5 DEF Plain
  <2> QED BY <1>2, <1>6, <2>1, NextChosen
<1>9. TypeOK'
  BY <1>1, <1>2, <1>4, <1>5, <1>7, <1>8 DEF TypeOK
<1>10. pos + 1 <= NCtx /\ pos + 1 = PromptLen + Len(out)
       /\ Len(out) < Max({NPredict, 1})
  BY <1>1, <1>2, <1>3, LastIs DEF Decoding
<1>11. OutInv'
  BY <1>1, <1>4, <1>5, <1>7, <1>10 DEF OutInv
<1>12. EmitInv'
  <2>1. SubSeq(full, pos + 1 + 1, pos + 1) = <<>>
    BY <1>2, SubSeqEmpty
  <2>2. Len(<<>>) = 0 /\ pos + 1 - 0 = pos + 1 /\ 0 <= pos + 1
    BY <1>2
  <2>3. Matches'
    BY <1>4, <1>5, <1>8, <2>1, <2>2 DEF Matches, Upto
  <2>4. Open'
    BY <1>1, <1>4 DEF Decoding, Open
  <2> QED BY <1>4, <1>10, <2>3, <2>4 DEF EmitInv
<1>13. (PrefillInv /\ DraftInv /\ DecodeInv /\ SettleInv)'
  BY <1>1, <1>4 DEF PrefillInv, DraftInv, DecodeInv, SettleInv
<1> QED BY <1>9, <1>11, <1>12, <1>13 DEF Inv

\* The choices of a batch are tokens, one for each row.
LEMMA ChoiceIs ==
  ASSUME NEW s, NEW m \in Nat, NEW c \in Choosing(s, m)
  PROVE  c \in Seq(Tokens) /\ Len(c) = m /\ \A i \in 1 .. m : c[i] \in Tokens
<1>1. c \in [1 .. m -> Tokens]
  BY DEF Choosing
<1> QED BY <1>1, FunctionIsSequence

LEMMA VerifyStep == Inv /\ Verify => Inv'
<1> SUFFICES ASSUME Inv, Verify PROVE Inv'
  OBVIOUS
<1>1. /\ pc = "decode" /\ TypeOK /\ OutInv /\ Matches /\ Decoding
      /\ DraftFits /\ draft # <<>>
      /\ pending # <<>> => Len(pending) + 1 + Len(draft) <= foldMax
  BY DEF Inv, DecodeInv, Verify
<1>2. /\ pos + 1 < Last /\ pos < Last /\ pos \in Nat /\ Len(out) \in Nat
      /\ pos + 1 \in Nat
  <2>1. pos + 1 < Last /\ pos \in Nat /\ Len(out) \in Nat
    BY <1>1, RoomIs
  <2> QED BY <2>1, LastIs
<1>3. /\ NPredict \in Nat /\ NCtx \in Nat /\ PromptLen \in Nat
      /\ foldMax \in Nat
  BY <1>1, GenerateAssumption DEF TypeOK
<1>4. /\ full' = full /\ recurrent' = recurrent /\ rsSeq' = rsSeq
      /\ foldMax' = foldMax /\ adapt' = adapt
      /\ draft' = draft /\ exact' = exact /\ cur' = cur /\ pos' = pos
      /\ pending' = <<>> /\ k' = k /\ out' = out /\ pc' = "settle"
  BY DEF Verify, parVars
<1> DEFINE a == pos - Len(pending)
           batch == Append(pending, cur)
<1>5. /\ batch = SubSeq(full, a + 1, pos + 1)
      /\ cells \o batch = Upto(pos + 1)
      /\ batch \in Seq(Tokens) /\ Len(batch) = Len(pending) + 1
      /\ Len(pending) \in Nat /\ a \in Nat
  BY <1>1, <1>2, BatchDecoded
<1>6. /\ draft \in Seq(Tokens) /\ Len(draft) \in Nat
      /\ full \in [1 .. Last -> Tokens] /\ cells \in Seq(Tokens)
      /\ ckpt \in Seq(Tokens) /\ state \in Seq(Tokens)
  <2>1. draft \in Seq(Tokens)
    BY <1>1 DEF TypeOK
  <2> QED BY <1>1, <2>1, LenProperties DEF TypeOK
<1> HIDE DEF a, batch
<1>7. /\ seq' = batch \o draft /\ seq' \in Seq(Tokens)
      /\ Len(seq') = Len(pending) + 1 + Len(draft)
  <2>1. seq' = batch \o draft
    BY DEF Verify, batch
  <2>2. batch \o draft \in Seq(Tokens)
        /\ Len(batch \o draft) = Len(batch) + Len(draft)
    BY <1>5, <1>6, ConcatProperties
  <2> QED BY <1>5, <2>1, <2>2
<1>8. /\ Upto(pos + 1) \in Seq(Tokens) /\ Len(Upto(pos + 1)) = pos + 1
  <2>1. pos + 1 <= Last
    BY <1>2, LastIs
  <2> QED BY <1>2, <1>6, <2>1, UptoIs
<1>9. /\ cells' = Upto(pos + 1) \o draft
      /\ state' = (IF recurrent THEN cells' ELSE state)
      /\ cells' \in Seq(Tokens) /\ Len(cells') = pos + 1 + Len(draft)
  <2>1. /\ cells' = cells \o (batch \o draft)
        /\ state' = IF recurrent THEN state \o (batch \o draft) ELSE state
    BY <1>7 DEF Verify, Decode
  <2>2. (cells \o batch) \o draft = cells \o (batch \o draft)
    <3>1. cells \in Seq(Tokens) /\ batch \in Seq(Tokens)
          /\ draft \in Seq(Tokens)
      BY <1>5, <1>6
    <3> QED BY <3>1, ConcatAssociative
  <2>3. Upto(pos + 1) \o draft \in Seq(Tokens)
        /\ Len(Upto(pos + 1) \o draft) = Len(Upto(pos + 1)) + Len(draft)
    BY <1>6, <1>8, ConcatProperties
  <2> QED BY <1>1, <1>5, <1>8, <2>1, <2>2, <2>3 DEF Matches
<1>10. /\ choice' \in Choosing(cells', Len(draft) + 1)
       /\ choice' \in Seq(Tokens)
  <2>1. choice' \in Choosing(cells', Len(draft) + 1)
    BY DEF Verify
  <2>2. Len(draft) + 1 \in Nat
    BY <1>6
  <2> QED BY <2>1, <2>2, ChoiceIs
<1>11. /\ ckpt' \in Seq(Tokens)
       /\ Bounded => ckpt' = Upto(a)
  <2>1. ckpt' = IF Bounded /\ pending = <<>> THEN state ELSE ckpt
    BY DEF Verify, Checkpoint
  <2>2. Bounded => recurrent
    BY DEF Bounded
  <2>3. cells = Upto(a) /\ (recurrent => state = cells)
        /\ (pending # <<>> => ckpt = cells)
    BY <1>1 DEF Matches, a
  <2> QED BY <1>6, <2>1, <2>2, <2>3
<1>12. TypeOK'
  <2>1. state' \in Seq(Tokens) /\ <<>> \in Seq(Tokens)
    BY <1>6, <1>9
  <2> QED BY <1>1, <1>4, <1>7, <1>9, <1>10, <1>11, <2>1 DEF TypeOK
<1>13. OutInv'
  <2>1. Len(cells') <= NCtx
    BY <1>1, <1>2, <1>3, <1>6, <1>9 DEF DraftFits
  <2> QED BY <1>1, <1>4, <2>1 DEF OutInv
<1>14. SettleInv'
  <2> DEFINE first == Len(seq') - Len(draft) - 1
             base == pos - first
  <2>1. first = Len(pending) /\ base = a
    BY <1>2, <1>5, <1>6, <1>7 DEF a
  <2>2. Decoding' /\ DraftFits'
    BY <1>1, <1>4 DEF Decoding, Open, DraftFits, MaxDraft
  <2>3. Len(draft) + 1 <= Len(seq') /\ a \in 0 .. pos
    BY <1>2, <1>5, <1>6, <1>7 DEF a
  <2>4. Len(seq') <= Max({foldMax, MaxDraft + 1})
    <3>1. Max({foldMax, MaxDraft + 1})
            = IF foldMax >= MaxDraft + 1 THEN foldMax ELSE MaxDraft + 1
      <4>1. MaxDraft + 1 \in Int /\ foldMax \in Int
        BY <1>3, MaxDraftIs
      <4> QED BY <4>1, Max2
    <3>2. pending = <<>> => Len(pending) = 0
      OBVIOUS
    <3>3. Len(draft) <= MaxDraft
      BY <1>1 DEF DraftFits
    <3> QED BY SMTT(30), <1>1, <1>3, <1>5, <1>6, <1>7,
              <3>1, <3>2, <3>3, MaxDraftIs
  <2>5. seq' = SubSeq(full, base + 1, pos + 1) \o draft
    BY <1>5, <1>7, <2>1
  <2>6. Bounded => ckpt' = Upto(base)
    BY <1>11, <2>1
  <2>7. base \in 0 .. pos
    BY <2>1, <2>3
  <2>8. choice' \in Choosing(cells, Len(draft) + 1)'
    BY <1>4, <1>10 DEF Choosing, Last
  <2>9. Bounded' <=> Bounded
    BY <1>4 DEF Bounded
  <2> QED
    BY <1>1, <1>4, <1>9, <2>2, <2>3, <2>4, <2>5, <2>6, <2>7, <2>8, <2>9
    DEF SettleInv, Upto, MaxDraft
<1>15. (PrefillInv /\ EmitInv /\ DraftInv /\ DecodeInv)'
  BY <1>4 DEF PrefillInv, EmitInv, DraftInv, DecodeInv
<1> QED BY <1>12, <1>13, <1>14, <1>15 DEF Inv

LEMMA FailStep == Inv /\ Fail => Inv'
<1> SUFFICES ASSUME Inv, Fail PROVE Inv'
  OBVIOUS
<1>1. TypeOK /\ OutInv /\ <<>> \in Seq(Tokens) /\ Len(<<>>) = 0
  BY DEF Inv
<1>2. TypeOK'
  BY <1>1 DEF TypeOK, Fail, parVars, modelVars
<1>3. OutInv'
  BY <1>1, LastIs DEF OutInv, Fail, parVars, modelVars
<1>4. (PrefillInv /\ EmitInv /\ DraftInv /\ DecodeInv /\ SettleInv)'
  BY DEF Fail, PrefillInv, EmitInv, DraftInv, DecodeInv, SettleInv
<1> QED BY <1>2, <1>3, <1>4 DEF Inv

-----------------------------------------------------------------------------
(* The step that settles a draft.                                          *)

\* The number of tokens accepted.
LEMMA AcceptedIs ==
  ASSUME Len(draft) \in Nat
  PROVE  /\ Accepted \in 0 .. Len(draft)
         /\ \A m \in 1 .. Accepted : choice[m] = draft[m]
<1> DEFINE T == {i \in 0 .. Len(draft) :
                   \A m \in 1 .. i : choice[m] = draft[m]}
<1>1. T \subseteq 0 .. Len(draft) /\ 0 \in T
  OBVIOUS
<1>2. Accepted = Max(T)
  BY DEF Accepted
<1>3. Max(T) \in T
  <2> HIDE DEF T
  <2>1. T # {}
    BY <1>1
  <2> QED BY <1>1, <2>1, MaxOf
<1> QED BY <1>2, <1>3

\* A draft the model chose, token after token, is the model's own output:
\* its first token that differs follows a context that is the model's, after
\* which the model chose its own.
LEMMA AcceptedAgree ==
  ASSUME full \in [1 .. Last -> Tokens], NEW n \in Nat,
         NEW d \in Seq(Tokens), n + Len(d) < Last,
         NEW c \in Choosing(Upto(n) \o d, Len(d) + 1),
         NEW j \in 0 .. Len(d), \A m \in 1 .. j : c[m] = d[m]
  PROVE  /\ \A m \in 1 .. j : d[m] = full[n + m]
         /\ c[j + 1] = full[n + j + 1]
<1>1. full \in Seq(Tokens) /\ Len(full) = Last /\ Last \in Nat
  BY FullIs, LastIs
<1>2. Len(d) \in Nat /\ n <= Last
  <2>1. Len(d) \in Nat
    BY LenProperties
  <2> QED BY <1>1, <2>1
<1>3. Len(Upto(n) \o d) = n + Len(d)
  BY <1>1, <1>2, PrefixOf DEF Upto
<1>4. ASSUME NEW m \in 1 .. j + 1,
             \A i \in 1 .. m - 1 : d[i] = full[n + i]
      PROVE  c[m] = full[n + m]
  <2> DEFINE q == Len(Upto(n) \o d) - (Len(d) + 1) + m
  <2>1. m \in 1 .. Len(d) + 1
    BY <1>2
  <2>2. q < Last /\ SubSeq(Upto(n) \o d, 1, q) = SubSeq(full, 1, q)
          => c[m] = full[q + 1]
    BY <2>1 DEF Choosing
  <2>3. q = n + (m - 1) /\ q < Last /\ q + 1 = n + m
    BY <1>1, <1>2, <1>3, <2>1
  <2>4. SubSeq(Upto(n) \o d, 1, n + (m - 1)) = SubSeq(full, 1, n + (m - 1))
    <3> DEFINE l == m - 1
    <3>1. /\ l \in Nat /\ n + l <= Len(full) /\ l <= Len(d)
          /\ \A i \in 1 .. l : d[i] = full[n + i]
      BY <1>1, <1>2, <1>4, <2>1
    <3> HIDE DEF l
    <3>2. full \in Seq(Tokens)
      BY <1>1
    <3>3. SubSeq(SubSeq(full, 1, n) \o d, 1, n + l) = SubSeq(full, 1, n + l)
      BY <3>1, <3>2, AgreeingFirst
    <3>4. SubSeq(Upto(n) \o d, 1, n + l) = SubSeq(full, 1, n + l)
      BY <3>3 DEF Upto
    <3> QED BY <3>4 DEF l
  <2> HIDE DEF q
  <2> QED BY <2>2, <2>3, <2>4
<1>5. \A m \in 1 .. j : d[m] = full[n + m]
  <2> DEFINE T == {m \in 1 .. j : d[m] # full[n + m]}
  <2>1. SUFFICES ASSUME T # {} PROVE FALSE
    OBVIOUS
  <2>2. T \subseteq Nat
    OBVIOUS
  <2>3. PICK m \in T : \A y \in T : m <= y
    <3> HIDE DEF T
    <3> QED BY <2>1, <2>2, Least
  <2>4. m \in 1 .. j /\ d[m] # full[n + m]
    OBVIOUS
  <2>5. \A i \in 1 .. m - 1 : d[i] = full[n + i]
    <3>1. ASSUME NEW i \in 1 .. m - 1, d[i] # full[n + i] PROVE FALSE
      <4>1. i \in 1 .. j
        BY <2>4
      <4>2. m <= i
        BY <2>3, <3>1, <4>1
      <4> QED BY <2>4, <4>2
    <3> QED BY <3>1
  <2>6. m \in 1 .. j + 1
    BY <2>4
  <2>7. c[m] = full[n + m]
    BY <1>4, <2>5, <2>6
  <2> QED BY <2>4, <2>7
<1>6. c[j + 1] = full[n + (j + 1)]
  <2>1. j + 1 \in 1 .. j + 1 /\ j + 1 - 1 = j
    BY <1>2
  <2> QED BY <1>4, <1>5, <2>1
<1> QED BY SMTT(30), <1>2, <1>5, <1>6

\* The part of the draft that joins the output stops at the first token that
\* ends the generation.
LEMMA JoinedIs ==
  ASSUME draft \in Seq(Tokens), NEW j \in Nat, j <= Len(draft)
  PROVE  \E n \in 0 .. j :
           /\ Joined(j) \in Seq(Tokens) /\ Len(Joined(j)) = n
           /\ \A i \in 1 .. n : Joined(j)[i] = draft[i]
           /\ \A i \in 1 .. n - 1 : draft[i] \notin Eog
           /\ ~(\E i \in 1 .. j : draft[i] \in Eog) =>
                n = j /\ \A i \in 1 .. n : draft[i] \notin Eog
<1> DEFINE ends == {i \in 1 .. j : draft[i] \in Eog}
           n == IF ends = {} THEN j ELSE Min(ends)
<1>1. /\ n \in 0 .. j
      /\ \A i \in 1 .. n - 1 : draft[i] \notin Eog
      /\ ends = {} => n = j /\ \A i \in 1 .. n : draft[i] \notin Eog
  <2>1. CASE ends = {}
    <3>1. n = j
      BY <2>1
    <3>2. \A i \in 1 .. j : draft[i] \notin Eog
      BY <2>1
    <3> HIDE DEF n
    <3> QED BY <3>1, <3>2
  <2>2. CASE ends # {}
    <3>1. ends \subseteq Nat
      OBVIOUS
    <3>2. Min(ends) \in ends /\ \A y \in ends : Min(ends) <= y
      <4> HIDE DEF ends
      <4> QED BY <2>2, <3>1, MinOf
    <3>3. n = Min(ends)
      BY <2>2
    <3>4. n \in 1 .. j
      BY <3>2, <3>3
    <3>5. ASSUME NEW i \in 1 .. n - 1 PROVE draft[i] \notin Eog
      <4>1. i \in 1 .. j /\ ~(n <= i)
        <5> HIDE DEF n
        <5> QED BY <3>4
      <4>2. i \notin ends
        BY <3>2, <3>3, <4>1
      <4> QED BY <4>1, <4>2
    <3> HIDE DEF n, ends
    <3> QED BY <2>2, <3>4, <3>5
  <2> QED BY <2>1, <2>2
<1>2. Joined(j) = SubSeq(draft, 1, n)
  BY DEF Joined
<1>3. ~(\E i \in 1 .. j : draft[i] \in Eog) => ends = {}
  OBVIOUS
<1> HIDE DEF n, ends
<1>4. /\ SubSeq(draft, 1, n) \in Seq(Tokens) /\ Len(SubSeq(draft, 1, n)) = n
      /\ \A i \in 1 .. n : SubSeq(draft, 1, n)[i] = draft[i]
  <2>1. n \in Nat /\ n <= Len(draft) /\ 0 <= n /\ n - 0 = n
    BY <1>1, LenProperties
  <2> QED BY <2>1, Slice, 0 + 1 = 1, 0 \in Nat
<1> QED BY <1>1, <1>2, <1>3, <1>4

\* The adapted length stays within k_max.
LEMMA AdaptedIs ==
  ASSUME k \in 0 .. KMax, NEW j \in Nat
  PROVE  Adapted(j) \in 0 .. KMax
<1>1. KMax \in Nat /\ KMin \in Nat
  BY GenerateAssumption
<1> DEFINE y == j + 1
           x == Max({y, KMin, 1})
<1>2. x \in Nat
  <2>1. y \in Nat
    OBVIOUS
  <2> HIDE DEF y
  <2>2. y \in Int /\ KMin \in Int /\ 1 \in Int
    BY <1>1, <2>1
  <2>3. x \in {y, KMin, 1}
    BY <2>2, Max3
  <2> QED BY <1>1, <2>1, <2>3
<1> HIDE DEF x
<1>3. Min({x, KMax}) = IF x <= KMax THEN x ELSE KMax
  BY <1>1, <1>2, Min2
<1>4. 2 * k \in Nat
  BY <1>1
<1>5. Min({2 * k, KMax}) = IF 2 * k <= KMax THEN 2 * k ELSE KMax
  BY <1>1, <1>4, Min2
<1>6. Adapted(j) \in {k, Min({2 * k, KMax}), Min({x, KMax})}
  BY DEF Adapted, x
<1> QED BY <1>1, <1>2, <1>3, <1>4, <1>5, <1>6

LEMMA SettleStep == Inv /\ Settle => Inv'
<1> SUFFICES ASSUME Inv, Settle PROVE Inv'
  OBVIOUS
<1> DEFINE j == Accepted
           first == Len(seq) - Len(draft) - 1
           base == pos - first
           taken == j < Len(draft)
           possible == IF Bounded THEN CanTruncate(base, ckpt)
                       ELSE CanTruncate(pos + 1 + j, state)
           stop == \E i \in 1 .. j : draft[i] \in Eog
<1>1. /\ pc = "settle" /\ TypeOK /\ OutInv
      /\ Decoding /\ DraftFits /\ draft # <<>>
      /\ Len(draft) + 1 <= Len(seq) /\ base \in 0 .. pos
      /\ seq = SubSeq(full, base + 1, pos + 1) \o draft
      /\ cells = Upto(pos + 1) \o draft
      /\ recurrent => state = cells
      /\ Bounded => ckpt = Upto(base)
      /\ pending = <<>>
      /\ choice \in Choosing(cells, Len(draft) + 1)
  BY DEF Inv, SettleInv, Settle
<1>2. /\ full' = full /\ recurrent' = recurrent /\ rsSeq' = rsSeq
      /\ foldMax' = foldMax /\ adapt' = adapt
      /\ draft' = <<>> /\ exact' = TRUE /\ seq' = <<>> /\ choice' = <<>>
  BY DEF Settle, parVars
<1>3. IF taken /\ ~possible
      THEN /\ pc' = "stuck"
           /\ UNCHANGED <<modelVars, pending, out, pos, cur, k>>
      ELSE /\ IF taken THEN TakeBack(j, base, first)
              ELSE UNCHANGED <<cells, state, pending>>
           /\ out' = out \o Joined(j)
           /\ pos' = pos + 1 + j
           /\ cur' = choice[j + 1]
           /\ k' = IF stop THEN k ELSE Adapted(j)
           /\ pc' = IF stop THEN "done"
                    ELSE IF ClampPanics(j) THEN "panicked" ELSE "emit"
           /\ UNCHANGED ckpt
  BY DEF Settle
<1>4. /\ draft \in Seq(Tokens) /\ Len(draft) \in Nat
      /\ seq \in Seq(Tokens) /\ Len(seq) \in Nat
      /\ out \in Seq(Tokens) /\ Len(out) \in Nat
      /\ state \in Seq(Tokens) /\ ckpt \in Seq(Tokens)
      /\ cells \in Seq(Tokens)
      /\ pos \in Nat /\ full \in [1 .. Last -> Tokens]
      /\ k \in 0 .. KMax /\ rsSeq \in Nat
  <2>1. /\ draft \in Seq(Tokens) /\ seq \in Seq(Tokens)
        /\ out \in Seq(Tokens) /\ state \in Seq(Tokens)
        /\ ckpt \in Seq(Tokens) /\ cells \in Seq(Tokens)
        /\ pos \in Nat /\ full \in [1 .. Last -> Tokens]
        /\ k \in 0 .. KMax /\ rsSeq \in Nat
    BY SMTT(30), <1>1, GenerateAssumption DEF TypeOK
  <2> QED BY <2>1, LenProperties
<1>5. NPredict \in Nat /\ NCtx \in Nat /\ PromptLen \in Nat
  BY GenerateAssumption
<1>6. full \in Seq(Tokens) /\ Len(full) = Last /\ Last \in Nat
  BY <1>4, FullIs, LastIs
<1>7. /\ Len(draft) <= NPredict - Len(out) - 1
      /\ Len(draft) <= NCtx - pos - 1
      /\ pos + 1 = PromptLen + Len(out) /\ Len(out) < NPredict
      /\ pos + 1 + Len(draft) < Last
  <2>1. /\ Len(draft) <= NPredict - Len(out) - 1
        /\ Len(draft) <= NCtx - pos - 1
        /\ pos + 1 = PromptLen + Len(out) /\ Len(out) < NPredict
    BY <1>1 DEF DraftFits, Decoding
  <2>2. Last >= PromptLen + NPredict /\ Last \in Nat
    BY <1>5, LastIs
  <2>3. pos + 1 + Len(draft) < Last
    BY <1>4, <1>5, <2>1, <2>2
  <2> QED BY <2>1, <2>3
<1>8. j \in 0 .. Len(draft) /\ \A m \in 1 .. j : choice[m] = draft[m]
  BY <1>4, AcceptedIs
<1>9. base \in Nat /\ base <= pos /\ first = pos - base /\ first \in Nat
  BY <1>1, <1>4
<1> HIDE DEF j, base, first
<1> DEFINE n == pos + 1
           e == n + j
<1>10. /\ n \in Nat /\ n = pos + 1 /\ n <= Last /\ n + Len(draft) < Last
       /\ e \in Nat /\ e = n + j /\ e < Last /\ e <= NCtx
       /\ j \in Nat /\ j <= Len(draft) /\ base <= n /\ base <= e
       /\ n = PromptLen + Len(out)
  BY SMTT(30), <1>4, <1>5, <1>6, <1>7, <1>8, <1>9
<1> HIDE DEF n, e
<1>11. /\ \A m \in 1 .. j : draft[m] = full[n + m]
       /\ choice[j + 1] = full[e + 1]
  <2>1. choice \in Choosing(Upto(n) \o draft, Len(draft) + 1)
    BY <1>1, <1>10
  <2>2. /\ \A m \in 1 .. j : draft[m] = full[n + m]
        /\ choice[j + 1] = full[n + j + 1]
    <3>1. /\ n \in Nat /\ draft \in Seq(Tokens) /\ n + Len(draft) < Last
          /\ full \in [1 .. Last -> Tokens] /\ j \in 0 .. Len(draft)
      BY <1>4, <1>8, <1>10
    <3>2. \A m \in 1 .. j : choice[m] = draft[m]
      BY <1>8
    <3> QED BY <2>1, <3>1, <3>2, AcceptedAgree
  <2> QED BY <1>10, <2>2
<1>12. choice[j + 1] \in Tokens
  <2>1. e + 1 \in 1 .. Last
    BY <1>6, <1>10
  <2> QED BY <1>4, <1>11, <2>1
\* A slice of full, then the draft, cut after the accepted tokens.
<1>13. ASSUME NEW b \in Nat, b <= n
       PROVE  /\ Len(SubSeq(full, b + 1, n) \o draft) = n - b + Len(draft)
              /\ SubSeq(SubSeq(full, b + 1, n) \o draft, 1, e - b)
                   = SubSeq(full, b + 1, e)
  <2>1. /\ full \in Seq(Tokens) /\ draft \in Seq(Tokens) /\ n \in Nat
        /\ j \in Nat /\ n + j <= Len(full) /\ j <= Len(draft)
    BY <1>4, <1>6, <1>10
  <2>2. \A i \in 1 .. j : draft[i] = full[n + i]
    BY <1>11
  <2> DEFINE l == e - b
  <2>3. l = n - b + j /\ e = n + j /\ b <= n
    BY <1>10, <1>13, <2>1
  <2> HIDE DEF l
  <2>4. /\ Len(SubSeq(full, b + 1, n) \o draft) = n - b + Len(draft)
        /\ SubSeq(SubSeq(full, b + 1, n) \o draft, 1, l)
             = SubSeq(full, b + 1, e)
    BY SMTT(30), <2>1, <2>2, <2>3, AgreeingTo
  <2> QED BY <2>4 DEF l
\* The cells hold the accepted tokens, and cut at them nothing else.
<1>14. /\ Len(cells) = n + Len(draft)
       /\ SubSeq(cells, 1, e) = Upto(e)
       /\ SubSeq(cells, 1, base) = Upto(base)
  <2>1. cells = SubSeq(full, 1, n) \o draft
    BY <1>1, <1>10 DEF Upto
  <2>2. /\ Len(SubSeq(full, 0 + 1, n) \o draft) = n - 0 + Len(draft)
        /\ SubSeq(SubSeq(full, 0 + 1, n) \o draft, 1, e - 0)
             = SubSeq(full, 0 + 1, e)
    <3>1. 0 \in Nat /\ 0 <= n
      BY <1>10
    <3> QED BY <1>13, <3>1
  <2>3. n - 0 = n /\ e - 0 = e /\ 0 + 1 = 1
    BY <1>10
  <2>4. SubSeq(SubSeq(full, 1, n) \o draft, 1, base) = SubSeq(full, 1, base)
    BY <1>4, <1>6, <1>9, <1>10, PrefixOf
  <2> QED BY <2>1, <2>2, <2>3, <2>4 DEF Upto
<1>15. Upto(base) \in Seq(Tokens) /\ Len(Upto(base)) = base
  <2>1. base <= Last
    BY <1>6, <1>9, <1>10
  <2> QED BY <1>4, <1>9, <2>1, UptoIs
<1>16. Upto(e) \in Seq(Tokens) /\ Len(Upto(e)) = e
  <2>1. e <= Last
    BY <1>6, <1>10
  <2> QED BY <1>4, <1>10, <2>1, UptoIs
\* The carried part of the batch is decided.
<1>17. SubSeq(seq, 1, first + 1 + j) = SubSeq(full, base + 1, e)
  <2>1. first + 1 + j = e - base
    BY <1>4, <1>9, <1>10
  <2>2. seq = SubSeq(full, base + 1, n) \o draft
    BY <1>1, <1>10 DEF base, first
  <2>3. SubSeq(SubSeq(full, base + 1, n) \o draft, 1, e - base)
          = SubSeq(full, base + 1, e)
    BY <1>9, <1>10, <1>13
  <2> QED BY <2>1, <2>2, <2>3
\* It can be taken back.
<1>18. possible
  <2>1. CASE Bounded
    <3>1. Len(ckpt) = base
      BY <1>1, <1>15, <2>1 DEF base, first
    <3> QED BY <1>9, <2>1, <3>1 DEF CanTruncate
  <2>2. CASE ~Bounded
    <3>1. recurrent => Len(state) - (pos + 1 + j) <= rsSeq
      <4>1. SUFFICES ASSUME recurrent
                     PROVE  Len(state) - (pos + 1 + j) <= rsSeq
        OBVIOUS
      <4>2. Len(draft) <= rsSeq
        BY <1>4, <2>2, <4>1 DEF Bounded
      <4>3. Len(state) = pos + 1 + Len(draft)
        BY <1>1, <1>10, <1>14, <4>1
      <4> QED BY <1>4, <1>10, <4>2, <4>3
    <3> QED BY <2>2, <3>1 DEF CanTruncate
  <2> QED BY <2>1, <2>2
<1>19. /\ out' = out \o Joined(j) /\ pos' = e /\ cur' = choice[j + 1]
       /\ k' = (IF stop THEN k ELSE Adapted(j)) /\ ckpt' = ckpt
       /\ pc' = IF stop THEN "done"
                ELSE IF ClampPanics(j) THEN "panicked" ELSE "emit"
       /\ IF taken THEN TakeBack(j, base, first)
          ELSE UNCHANGED <<cells, state, pending>>
  <2> HIDE DEF stop, taken, possible
  <2> QED BY <1>3, <1>10, <1>18
<1>20. /\ cells' \in Seq(Tokens) /\ state' \in Seq(Tokens)
       /\ pending' \in Seq(Tokens) /\ Len(cells') <= NCtx
       /\ Len(pending') <= e
       /\ cells' = Upto(e - Len(pending'))
       /\ pending' = SubSeq(full, e - Len(pending') + 1, e)
       /\ recurrent => state' = cells'
       /\ pending' # <<>> => ckpt = cells'
  <2>1. /\ SubSeq(full, e + 1, e) = <<>> /\ Len(<<>>) = 0
        /\ e - 0 = e /\ 0 <= e /\ <<>> \in Seq(Tokens)
    <3>1. e \in Nat /\ e + 1 \in Int /\ e < e + 1
      BY <1>10
    <3> QED BY <3>1, SubSeqEmpty
  <2>2. CASE ~taken
    <3>1. j = Len(draft)
      BY <1>4, <1>10, <2>2
    <3>2. cells' = cells /\ state' = state /\ pending' = <<>>
      BY <1>1, <1>19, <2>2
    <3>3. cells = Upto(e)
      <4>1. SubSeq(cells, 1, Len(cells)) = cells
        BY <1>4, SubSeqFull
      <4> QED BY <1>10, <1>14, <3>1, <4>1
    <3>4. Len(cells) <= NCtx
      BY <1>10, <1>14, <3>1
    <3> QED BY <1>1, <1>4, <2>1, <3>2, <3>3, <3>4
  <2>3. CASE taken /\ Bounded
    <3>1. /\ cells' = Cut(cells, base) /\ state' = Cut(ckpt, base)
          /\ pending' = SubSeq(full, base + 1, e)
      BY <1>17, <1>19, <2>3 DEF TakeBack
    <3>2. cells' = Upto(base)
      <4>1. Len(cells) >= base
        BY <1>4, <1>9, <1>10, <1>14
      <4> QED BY <1>4, <1>9, <1>14, <3>1, <4>1, CutIs
    <3>3. state' = Upto(base) /\ ckpt = Upto(base)
      <4>1. ckpt = Upto(base)
        BY <1>1, <2>3 DEF base, first
      <4>2. Len(ckpt) >= base
        BY <1>9, <1>15, <4>1
      <4>3. Cut(ckpt, base) = SubSeq(ckpt, 1, base)
        BY <1>4, <1>9, <4>2, CutIs
      <4>4. SubSeq(Upto(base), 1, Len(Upto(base))) = Upto(base)
        BY <1>15, SubSeqFull
      <4> QED BY <1>15, <3>1, <4>1, <4>3, <4>4
    <3>4. pending' \in Seq(Tokens) /\ Len(pending') = e - base
      <4>1. e <= Len(full)
        BY <1>6, <1>10
      <4>2. e \in Nat /\ base <= e /\ base \in Nat
        BY <1>9, <1>10
      <4>3. full \in Seq(Tokens)
        BY <1>6
      <4> QED BY <3>1, <4>1, <4>2, <4>3, Slice
    <3>5. e - Len(pending') = base /\ Len(pending') <= e /\ base <= NCtx
      <4>1. e \in Nat /\ base \in Nat /\ base <= e /\ e <= NCtx
            /\ NCtx \in Nat
        BY <1>5, <1>9, <1>10
      <4> QED BY <3>4, <4>1
    <3> QED BY <1>15, <3>1, <3>2, <3>3, <3>4, <3>5
  <2>4. CASE taken /\ ~Bounded
    <3>1. /\ cells' = Cut(cells, e) /\ state' = Cut(state, e)
          /\ pending' = <<>>
      BY <1>1, <1>10, <1>19, <2>4 DEF TakeBack
    <3>2. cells' = Upto(e)
      <4>1. Len(cells) >= e
        BY <1>4, <1>10, <1>14
      <4> QED BY <1>4, <1>10, <1>14, <3>1, <4>1, CutIs
    <3>3. state' \in Seq(Tokens) /\ (recurrent => state' = cells')
      BY <1>1, <1>4, <1>10, <3>1, CutIs
    <3> QED BY <1>10, <1>16, <2>1, <3>1, <3>2, <3>3
  <2> QED BY <2>2, <2>3, <2>4
<1>21. PICK l \in 0 .. j :
         /\ Joined(j) \in Seq(Tokens) /\ Len(Joined(j)) = l
         /\ \A i \in 1 .. l : Joined(j)[i] = draft[i]
         /\ \A i \in 1 .. l - 1 : draft[i] \notin Eog
         /\ ~stop => l = j /\ \A i \in 1 .. l : draft[i] \notin Eog
  BY <1>4, <1>10, JoinedIs
<1>22. /\ out' \in Seq(Tokens) /\ Len(out') = Len(out) + l
       /\ \A i \in 1 .. Len(out) + l :
            out'[i] = IF i <= Len(out) THEN out[i] ELSE draft[i - Len(out)]
  <2>1. /\ out' \in Seq(Tokens) /\ Len(out') = Len(out) + l
        /\ \A i \in 1 .. Len(out) + l :
             out'[i] = IF i <= Len(out) THEN out[i]
                       ELSE Joined(j)[i - Len(out)]
    BY <1>4, <1>19, <1>21, ConcatProperties
  <2>2. \A i \in 1 .. Len(out) + l :
          ~(i <= Len(out)) => i - Len(out) \in 1 .. l
    BY <1>4, <1>10
  <2> QED BY <1>21, <2>1, <2>2
<1> HIDE DEF stop, taken, possible
<1>23. /\ pc' \in {"done", "panicked", "emit"}
       /\ pc' = "emit" => ~stop
  BY <1>19
<1>24. TypeOK'
  <2>1. k' \in 0 .. KMax
    BY <1>4, <1>10, <1>19, AdaptedIs
  <2>2. pos' \in Nat /\ <<>> \in Seq(Tokens)
    BY <1>10, <1>19
  <2>3. cur' \in Tokens
    BY <1>12, <1>19
  <2>4. ckpt' \in Seq(Tokens)
    BY <1>4, <1>19
  <2> QED BY <1>1, <1>2, <1>20, <1>22, <1>23, <2>1, <2>2, <2>3, <2>4
      DEF TypeOK
<1>25. l \in Nat /\ l <= j /\ Len(out) + l < NPredict
  BY <1>4, <1>5, <1>7, <1>10
<1>26. OutInv'
  <2>1. ASSUME NEW i \in 1 .. Len(out) + l
        PROVE  out'[i] = full[PromptLen + i]
    <3>1. CASE i <= Len(out)
      <4>1. i \in 1 .. Len(out)
        BY <1>4, <3>1
      <4> QED BY <1>1, <1>22, <3>1, <4>1 DEF OutInv
    <3>2. CASE ~(i <= Len(out))
      <4>1. i - Len(out) \in 1 .. j /\ n + (i - Len(out)) = PromptLen + i
        <5>1. /\ n = PromptLen + Len(out) /\ PromptLen \in Nat
              /\ Len(out) \in Nat /\ j \in Nat
          BY <1>4, <1>5, <1>10
        <5> QED BY <1>25, <3>2, <5>1
      <4>2. draft[i - Len(out)] = full[PromptLen + i]
        BY <1>11, <4>1
      <4> QED BY <1>22, <3>2, <4>2
    <3> QED BY <3>1, <3>2
  <2>2. ASSUME NEW i \in 1 .. Len(out) + l - 1
        PROVE  out'[i] \notin Eog
    <3>0. i \in 1 .. Len(out) + l
      BY <1>4, <1>25
    <3>1. CASE i <= Len(out)
      <4>1. i \in 1 .. Len(out)
        BY <1>4, <3>1
      <4> QED BY <1>1, <1>22, <3>0, <3>1, <4>1 DEF Decoding, Open
    <3>2. CASE ~(i <= Len(out))
      <4>1. i - Len(out) \in 1 .. l - 1
        BY <1>4, <1>25, <3>2
      <4> QED BY <1>21, <1>22, <3>0, <3>2, <4>1
    <3> QED BY <3>1, <3>2
  <2>3. Len(out) + l <= Max({NPredict, 1})
    BY <1>4, <1>5, <1>25, LastIs
  <2> QED BY SMTT(30), <1>2, <1>20, <1>22, <1>23, <2>1, <2>2, <2>3 DEF OutInv
<1>27. EmitInv'
  <2> SUFFICES ASSUME pc' = "emit"
               PROVE  (Matches /\ Open /\ pos = PromptLen + Len(out)
                        /\ pos <= NCtx /\ Len(out) < Max({NPredict, 1}))'
    BY DEF EmitInv
  <2>1. Matches'
    <3>1. cur' = full'[pos' + 1]
      BY <1>2, <1>11, <1>19
    <3> QED BY <1>2, <1>19, <1>20, <3>1 DEF Matches, Upto
  <2>2. ASSUME NEW i \in 1 .. Len(out) + l
        PROVE  out'[i] \notin Eog
    <3>1. CASE i <= Len(out)
      <4>1. i \in 1 .. Len(out)
        BY <1>4, <3>1
      <4> QED BY <1>1, <1>22, <3>1, <4>1 DEF Decoding, Open
    <3>2. CASE ~(i <= Len(out))
      <4>1. i - Len(out) \in 1 .. l
        BY <1>4, <1>25, <3>2
      <4> QED BY <1>21, <1>22, <1>23, <3>2, <4>1
    <3> QED BY <3>1, <3>2
  <2>3. l = j
    BY <1>21, <1>23
  <2>4. pos' = PromptLen + Len(out') /\ pos' <= NCtx
    <3>1. /\ n = PromptLen + Len(out) /\ PromptLen \in Nat
          /\ Len(out) \in Nat /\ j \in Nat /\ e = n + j /\ e <= NCtx
      BY <1>4, <1>5, <1>10
    <3> QED BY <1>19, <1>22, <2>3, <3>1
  <2>5. Len(out') < Max({NPredict, 1})
    BY <1>4, <1>5, <1>22, <1>25, LastIs
  <2> QED BY <1>22, <2>1, <2>2, <2>4, <2>5 DEF Open
<1>28. (PrefillInv /\ DraftInv /\ DecodeInv /\ SettleInv)'
  BY <1>2, <1>23 DEF PrefillInv, DraftInv, DecodeInv, SettleInv
<1> QED BY <1>24, <1>26, <1>27, <1>28 DEF Inv

-----------------------------------------------------------------------------
(* The theorems.                                                           *)

LEMMA NextInv == Inv /\ [Next]_vars => Inv'
<1> SUFFICES ASSUME Inv, [Next]_vars PROVE Inv'
  OBVIOUS
<1>1. CASE UNCHANGED vars
  <2>1. /\ full' = full /\ recurrent' = recurrent /\ rsSeq' = rsSeq
        /\ foldMax' = foldMax /\ adapt' = adapt /\ cells' = cells
        /\ state' = state /\ ckpt' = ckpt /\ pc' = pc /\ cur' = cur
        /\ pos' = pos /\ pending' = pending /\ k' = k /\ draft' = draft
        /\ exact' = exact /\ seq' = seq /\ choice' = choice /\ out' = out
    BY <1>1 DEF vars, parVars, modelVars, stepVars
  <2>2. TypeOK' /\ OutInv' /\ PrefillInv'
    BY <2>1 DEF Inv, TypeOK, OutInv, PrefillInv, Upto
  <2>3. EmitInv' /\ DraftInv' /\ DecodeInv'
    BY <2>1 DEF Inv, EmitInv, DraftInv, DecodeInv, Matches, Open, Decoding,
                DraftFits, Upto
  <2>4. SettleInv'
    <3>1. Choosing(cells, Len(draft) + 1)' = Choosing(cells, Len(draft) + 1)
      BY <2>1 DEF Choosing
    <3>2. (Bounded' <=> Bounded) /\ (Decoding' <=> Decoding)
          /\ (DraftFits' <=> DraftFits)
      BY <2>1 DEF Bounded, Decoding, Open, DraftFits
    <3> QED BY <2>1, <3>1, <3>2 DEF Inv, SettleInv, Upto
  <2> QED BY <2>2, <2>3, <2>4 DEF Inv
<1> QED
  BY <1>1, PrefillStep, EmitStep, DraftStep, PlainStep, VerifyStep,
     SettleStep, FailStep DEF Next, Step

LEMMA Invariance == Spec => []Inv
  BY InitInv, NextInv, PTL DEF Spec

\* The context, the output, the carried tokens, the snapshots and k keep
\* their types and their limits through every round of decode.rs's generate.
THEOREM Typing == Spec => []TypeOK
<1>1. Inv => TypeOK
  BY DEF Inv
<1> QED BY <1>1, Invariance, PTL

\* generate's output is the model's own greedy output, token for token, with
\* nothing after the token that ends it: whatever the drafters propose, the
\* model rejects, the checkpoint restores and the next batch carries.
THEOREM OutputIsGreedy == Spec => []Lossless
<1>1. Inv => Lossless
  BY DEF Inv, OutInv, Lossless
<1> QED BY <1>1, Invariance, PTL

\* At the head of generate's loop the attention cells and the recurrent state
\* hold the decided tokens before the carried ones, and the checkpoint is the
\* state that the carried ones follow.
THEOREM ContextFollows == Spec => []ContextMatches
<1>1. Inv => ContextMatches
  BY DEF Inv, EmitInv, DraftInv, Matches, Upto, ContextMatches
<1> QED BY <1>1, Invariance, PTL

\* Neither the ensure! after a restore nor the bail! after a truncation is
\* reached: the checkpoint or the snapshots always reach back far enough.
THEOREM DraftsTakenBack == Spec => []TakesBack
<1>1. Inv => TakesBack
  BY DEF Inv, OutInv, TakesBack
<1> QED BY <1>1, Invariance, PTL

\* No batch goes past n_ctx, no output past n_predict, and no batch is longer
\* than fold_max unless a draft alone makes it so.
THEOREM Bounds == Spec => []WithinBounds
<1>1. Inv => WithinBounds
  <2> SUFFICES ASSUME Inv PROVE WithinBounds
    OBVIOUS
  <2>1. foldMax \in Nat /\ MaxDraft \in Nat
    BY MaxDraftIs, GenerateAssumption DEF Inv, TypeOK
  <2>2. Max({foldMax, MaxDraft + 1})
          = IF foldMax >= MaxDraft + 1 THEN foldMax ELSE MaxDraft + 1
    <3>1. foldMax \in Int /\ MaxDraft + 1 \in Int
      BY <2>1
    <3> QED BY <3>1, Max2
  <2>3. Len(<<>>) <= Max({foldMax, MaxDraft + 1})
    BY <2>1, <2>2
  <2> QED BY <2>3 DEF Inv, OutInv, SettleInv, WithinBounds
<1> QED BY <1>1, Invariance, PTL
=============================================================================
