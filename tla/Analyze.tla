------------------------------- MODULE Analyze -------------------------------
(***************************************************************************)
(* How the preloaded library finds the region of the program's code that   *)
(* the card runs after a fault (analyze in offload.rs), lays its image out *)
(* (rewrites in place, sites that jump to a thunk, ud2 at the exits), and  *)
(* runs it there in up to three phases (run), compared step by step with   *)
(* what the program would have done.                                       *)
(*                                                                         *)
(* The program's text is a sequence of instructions, each with a kind, a   *)
(* length in bytes, and a target when it is a direct branch.  Lengths are  *)
(* scaled: the jump that replaces a site is Jump bytes long (5 in the      *)
(* code), ud2 is two bytes as in the code.  Bytes are named by what wrote  *)
(* them, so an instruction runs on the card only when all of its own bytes *)
(* are still there.                                                        *)
(***************************************************************************)
EXTENDS Integers, Sequences, FiniteSets

CONSTANTS
    Texts,      \* the program texts considered, sequences of instructions
    Jump,       \* bytes of the jump to a thunk
    MaxInsns,   \* MAX_INSNS: where the walk gives up
    Edge,       \* the address, in the text or past it, where a chunk ends
    MaxThunks,  \* EXEC_THUNK_MAX, in thunks
    Tries,      \* how often a chunk for the thunk area is tried for (64)
    Chunks,     \* the chunks above the code within a rel32's reach, 1..Chunks
    Maps,       \* the sets of those the program may have in use at first
    MaxMaps     \* how many mappings the program's other threads make

Kinds == {"plain", "iprel", "native", "ret", "jmp", "jcc", "jrcxz", "evex",
          "thunk", "mask", "kortest", "refused", "cmpeq", "cmpne", "cmplt"}

\* Instructions have a length; a branch leads `skew' bytes into an
\* instruction of the text or to its end; and an instruction that goes out
\* of line, four bytes at least, is at most one short of the jump.
ASSUME TextsAssumption ==
    \A t \in Texts :
        /\ t \in Seq([kind : Kinds, len : Nat \ {0}, to : Nat, skew : Nat,
                      cc : {"any", "CF", "ZF"}])
        /\ \A i \in DOMAIN t :
              /\ \/ t[i].to \in DOMAIN t /\ t[i].skew <= t[t[i].to].len
                 \/ t[i].to = Len(t) + 1 /\ t[i].skew = 0
              /\ t[i].kind \in {"thunk", "mask", "kortest"}
                    => t[i].len + 1 >= Jump

ASSUME BoundsAssumption ==
    /\ Jump \in Nat \ {0, 1}
    /\ {MaxInsns, Edge, MaxThunks, Tries} \subseteq Nat
    /\ Chunks \in Nat
    /\ Maps \subseteq SUBSET (1..Chunks)
    /\ MaxMaps \in Nat

VARIABLES
    text,       \* the program's instructions
    entry,      \* the index of the one that faulted
    maps,       \* the chunks in use when /proc/self/maps was read
    mapped,     \* the chunks the program has mapped
    stage,      \* how far the handler is, walk to left or error
    work,       \* the addresses still to visit, the last one first
    included,   \* the indices of the region's instructions
    exits,      \* the addresses where the region ends, in the order found
    thunk,      \* the chunk of the thunk area, 0 before it is reserved
    from,       \* where the next try to reserve starts
    tries,      \* the tries that failed
    image,      \* the bytes of the code chunk the card gets
    loop,       \* the loop that is run as a phase of its own
    extra,      \* the exit of this phase alone, or NoAddr
    at,         \* where the card is
    pc,         \* where the program would be
    mask,       \* a mask register as the program and as the card have it
    flags       \* CF and ZF as the program and as the card have them

vars == <<text, entry, maps, mapped, stage, work, included, exits, thunk,
          from, tries, image, loop, extra, at, pc, mask, flags>>
regionVars == <<work, included, exits>>
thunkVars == <<thunk, from, tries>>
cardVars == <<loop, extra, at, pc, mask, flags>>

NoAddr == -1
NoLoop == [head |-> NoAddr, exit |-> NoAddr]

(***************************************************************************)
(* The text.                                                               *)
(***************************************************************************)
Index == 1..Len(text)

\* The address of each instruction, and of the end of the text.
AddrOf(t) ==
    LET a[k \in 1..(Len(t) + 1)] ==
            IF k = 1 THEN 0 ELSE a[k - 1] + t[k - 1].len
    IN  a
Addr == AddrOf(text)
End == Addr[Len(text) + 1]

\* The instruction that starts at an address, 0 when none does: past the
\* end of the text, or a byte in the middle of one.  What is there does not
\* decode: a text has no two instructions that overlap.
At(a) == IF \E i \in Index : Addr[i] = a
         THEN CHOOSE i \in Index : Addr[i] = a
         ELSE 0

\* A direct branch's target: the start of an instruction, or `skew` bytes on.
Target(i) == Addr[text[i].to] + text[i].skew

Conditional == {"jcc", "jrcxz"}
IsBranch(i) == text[i].kind \in {"jmp"} \cup Conditional
Compare == {"cmpeq", "cmpne", "cmplt"}
Avx512 == {"evex", "thunk", "mask", "kortest", "refused"} \cup Compare

(***************************************************************************)
(* What the card can run.                                                  *)
(***************************************************************************)
\* A legacy instruction of the card's subset, outside the segments and
\* without a lock; the calls, returns and indirect jumps pass this test and
\* end the region by their control flow.
CardCanRun(i) == text[i].kind # "native"

\* The dword compare that stands in for a byte compare keeps CF after an
\* equality, ZF after an inequality, and nothing else.
FlagKept(i, branch) ==
    /\ text[branch].kind = "jcc"
    /\ \/ text[i].kind = "cmpeq" /\ text[branch].cc = "CF"
       \/ text[i].kind = "cmpne" /\ text[branch].cc = "ZF"

\* A byte compare, then kortest on its result, then a branch on a flag the
\* dword compare keeps.
BytecmpPair(i) ==
    /\ text[i].kind \in Compare
    /\ i + 2 \in Index
    /\ text[i + 1].kind = "kortest"
    /\ FlagKept(i, i + 2)

\* An AVX-512 instruction the rewriter has a form for.
Rewritten(i) ==
    \/ text[i].kind \in Avx512 \ ({"refused"} \cup Compare)
    \/ BytecmpPair(i)

\* A rewrite that goes out of line, its site a jump.
IsThunk(i) == text[i].kind \in {"thunk", "mask", "kortest"}

(***************************************************************************)
(* The walk from the faulting instruction.                                 *)
(***************************************************************************)
Top == work[Len(work)]
Rest == SubSeq(work, 1, Len(work) - 1)
Exited(a) == \E k \in DOMAIN exits : exits[k] = a

\* Only an exit counts as seen: a bug in the walk's test.
SeenExit(a) == Exited(a)

\* An address the walk has dealt with.
Seen(a) == At(a) \in included \/ Exited(a)

\* The host keeps this address: outside the text, past the limit, not an
\* instruction, one the card cannot run, or one whose control flow leaves.
EndsRegion(a) ==
    At(a) # 0 =>
        \/ Cardinality(included) >= MaxInsns
        \/ text[At(a)].kind \in Avx512 /\ ~Rewritten(At(a))
        \/ ~CardCanRun(At(a))
        \/ text[At(a)].kind = "ret"

\* Where control can go after an instruction, the last pushed visited first.
Successors(i) ==
    IF text[i].kind = "jmp" THEN <<Target(i)>>
    ELSE IF text[i].kind \in Conditional THEN <<Target(i), Addr[i + 1]>>
    ELSE <<Addr[i + 1]>>

\* An address already visited is dropped.
WalkSeen ==
    /\ stage = "walk"
    /\ work # <<>>
    /\ Seen(Top)
    /\ work' = Rest
    /\ UNCHANGED <<text, entry, maps, mapped, stage, included, exits, thunkVars,
                   image, cardVars>>

\* An address that ends the region; the faulting instruction itself, when
\* the rewriter refuses it, is an error.
WalkExit ==
    /\ stage = "walk"
    /\ work # <<>>
    /\ ~Seen(Top)
    /\ EndsRegion(Top)
    /\ IF /\ At(Top) = entry
          /\ Cardinality(included) < MaxInsns
          /\ ~Rewritten(entry)
       THEN stage' = "error" /\ UNCHANGED regionVars
       ELSE /\ exits' = Append(exits, Top)
            /\ work' = Rest
            /\ UNCHANGED <<stage, included>>
    /\ UNCHANGED <<text, entry, maps, mapped, thunkVars, image, cardVars>>

\* An instruction of the region.
WalkInclude ==
    /\ stage = "walk"
    /\ work # <<>>
    /\ ~Seen(Top)
    /\ ~EndsRegion(Top)
    /\ work' = Rest \o Successors(At(Top))
    /\ included' = included \cup {At(Top)}
    /\ UNCHANGED <<text, entry, maps, mapped, stage, exits, thunkVars, image,
                   cardVars>>

(***************************************************************************)
(* The layout.                                                             *)
(***************************************************************************)
\* Some exit lies inside an instruction of the region.
ExitInside ==
    \E k \in DOMAIN exits, i \in included :
        Addr[i] < exits[k] /\ exits[k] < Addr[i + 1]

\* The region spans two chunks.
Spans ==
    \E i, j \in included : Addr[i] < Edge /\ Edge < Addr[j + 1]

\* An address of the region's chunk, the only one whose code is sent.
InChunk(a) == \E i \in included : a < Edge <=> Addr[i] < Edge

\* The walk is over: the region is refused, or a thunk area looked for.
WalkDone ==
    /\ stage = "walk"
    /\ work = <<>>
    /\ stage' = IF included = {} \/ ExitInside \/ Spans
                THEN "error" ELSE "reserve"
    /\ UNCHANGED <<text, entry, maps, mapped, regionVars, thunkVars, image,
                   cardVars>>

Short(i) == IsThunk(i) /\ text[i].len < Jump
Targets == {Target(i) : i \in {j \in included : IsBranch(j)}}

\* The last instruction a short site needs: the first with which it is long
\* enough for the jump, or the first branch after it.  0 when there is none.
SiteLast(i) ==
    LET stops == {m \in i..Len(text) :
                      \/ Addr[m + 1] - Addr[i] >= Jump
                      \/ m > i /\ IsBranch(m)}
    IN  IF stops = {} THEN 0
        ELSE CHOOSE m \in stops : \A n \in stops : m <= n

Taken(i) == (i + 1)..SiteLast(i)

\* A branch into the instruction is not looked for: a bug in the test.
MovableTarget(j) ==
    /\ j \in included
    /\ text[j].kind # "jrcxz"
    /\ j # entry
    /\ text[j].kind # "iprel"
    /\ ~IsThunk(j)

\* An instruction that may move into the thunk of the site before it.
Movable(j) ==
    /\ j \in included
    /\ text[j].kind # "jrcxz"
    /\ Addr[j] \notin Targets
    /\ j # entry
    /\ text[j].kind # "iprel"
    /\ ~IsThunk(j)

Sites == {i \in included : IsThunk(i)}
Swallowed == UNION {Taken(i) : i \in {j \in Sites : Short(j)}}
CanMove == \A i \in Sites :
              Short(i) => SiteLast(i) # 0 /\ \A j \in Taken(i) : Movable(j)

\* The bytes a site's jump and the padding after it cover, and the address
\* the thunk returns to.
SiteEnd(i) == IF Short(i) THEN SiteLast(i) ELSE i

\* Byte a of the chunk with the rewrites and the sites overlaid: whose byte
\* it is, whose rewrite, whose jump, or a NOP.
Overlaid(a) ==
    LET i == CHOOSE j \in Index : Addr[j] <= a /\ a < Addr[j + 1]
        site == {s \in Sites \ Swallowed :
                     Addr[s] <= a /\ a < Addr[SiteEnd(s) + 1]}
    IN  IF a >= End \/ ~InChunk(a) THEN [by |-> "none", of |-> 0, n |-> 0]
        ELSE IF site # {}
        THEN LET s == CHOOSE s \in site : TRUE
             IN  IF a - Addr[s] < Jump
                 THEN [by |-> "jump", of |-> s, n |-> a - Addr[s]]
                 ELSE [by |-> "nop", of |-> s, n |-> 0]
        ELSE [by |-> IF i \in included /\ text[i].kind \in Avx512
                     THEN "rewrite" ELSE "program",
              of |-> i, n |-> a - Addr[i]]

\* ud2 over the two bytes at e.
Ud2(img, e) ==
    [a \in DOMAIN img |->
        IF a \in {e, e + 1} THEN [by |-> "ud2", of |-> 0, n |-> a - e]
        ELSE img[a]]

\* Both bytes of a ud2 at e would be in the chunk.
Fits(e) == InChunk(e) /\ InChunk(e + 1)

\* The image: the overlays, then ud2 at every exit in the chunk, in the
\* order found.
Painted(base, es) ==
    LET img[k \in 0..Len(es)] ==
            IF k = 0 THEN base
            ELSE IF Fits(es[k]) THEN Ud2(img[k - 1], es[k])
            ELSE img[k - 1]
    IN  img[Len(es)]
Image == Painted([a \in 0..(End + 2) |-> Overlaid(a)], exits)

\* The region is refused after all, with its thunk area reserved, or its
\* image is laid out.
Layout ==
    /\ stage = "layout"
    /\ IF ~CanMove \/ Cardinality(Sites \ Swallowed) > MaxThunks
       THEN stage' = "error" /\ UNCHANGED image
       ELSE stage' = "ready" /\ image' = Image
    /\ UNCHANGED <<text, entry, maps, mapped, regionVars, thunkVars, cardVars>>

(***************************************************************************)
(* The thunk area.                                                         *)
(***************************************************************************)
\* The first chunk from `from` on that the maps, as read, leave free.
FreeRange ==
    LET free == {c \in from..Chunks : c \notin maps}
    IN  IF free = {} THEN 0 ELSE CHOOSE c \in free : \A d \in free : c <= d

\* A plain MAP_FIXED takes it in any case: the bug the flag is there for.
ReservedOver(c) == TRUE

\* MAP_FIXED_NOREPLACE takes a chunk only while nothing is mapped there.
Reserved(c) == c \notin mapped

\* One try of reserve_thunk_chunk, which passes over a chunk something took
\* since the maps were read, and gives up after so many.
ReserveThunk ==
    /\ stage = "reserve"
    /\ LET c == FreeRange
       IN  IF tries = Tries \/ c = 0
           THEN stage' = "error" /\ UNCHANGED thunkVars
           ELSE IF Reserved(c)
           THEN thunk' = c /\ stage' = "layout" /\ UNCHANGED <<from, tries>>
           ELSE /\ from' = c + 1 /\ tries' = tries + 1
                /\ UNCHANGED <<stage, thunk>>
    /\ UNCHANGED <<text, entry, maps, mapped, regionVars, image, cardVars>>

\* Another thread of the program maps memory the kernel has free.  (What it
\* maps during the walk it may as well map before the first try.)
ProgramMaps ==
    /\ stage \in {"reserve", "layout", "ready"}
    /\ Cardinality(mapped \ maps) < MaxMaps
    /\ \E c \in 1..Chunks :
          /\ c \notin mapped /\ c # thunk
          /\ mapped' = mapped \cup {c}
    /\ UNCHANGED <<text, entry, maps, stage, regionVars, thunkVars, image,
                   cardVars>>

(***************************************************************************)
(* The phases.                                                             *)
(***************************************************************************)
\* The loops run may split off: a backward conditional branch of the region
\* whose body has no exit, is left by its end alone, and holds the entry or
\* comes after it.  (Which registers count the iterations is Plan's subject.)
IsLoop(j) ==
    LET inside == Target(j)..(Addr[j + 1] - 1)
        body == {i \in included : Addr[i] \in inside}
    IN  /\ text[j].kind \in Conditional
        /\ Target(j) <= Addr[j] /\ At(Target(j)) \in included
        /\ Target(j) < Addr[entry] => Addr[entry] \in inside
        /\ \A a \in inside : ~Exited(a)
        /\ \A i \in body : IsBranch(i) => Target(i) \in inside
        /\ Cardinality(body) >= 2
Loops == {[head |-> Target(j), exit |-> Addr[j + 1]] :
             j \in {i \in included : IsLoop(i)}}

InCode(a) == [in |-> "code", a |-> a, site |-> 0]
InThunk(s, i) == [in |-> "thunk", a |-> i, site |-> s]
Same(v) == [program |-> v, card |-> v]
Flags == [CF : BOOLEAN, ZF : BOOLEAN]

\* The phase that starts at a: the prologue up to the loop's head, the loop
\* up to its exit, or the rest.
ExitOfPhase(lp, a, first) ==
    IF lp = NoLoop THEN NoAddr
    ELSE IF a = lp.head THEN lp.exit
    ELSE IF first THEN lp.head
    ELSE NoAddr

\* The first phase is dispatched.
Dispatch ==
    /\ stage = "ready"
    /\ \E lp \in Loops \cup {NoLoop} :
          /\ loop' = lp
          /\ extra' = ExitOfPhase(lp, Addr[entry], TRUE)
    /\ at' = InCode(Addr[entry])
    /\ pc' = Addr[entry]
    /\ stage' = "run"
    /\ UNCHANGED <<text, entry, maps, mapped, regionVars, thunkVars, image, mask,
                   flags>>

\* What the phase's code pages hold.
CodePages == IF extra = NoAddr THEN image ELSE Ud2(image, extra)

\* Whether instruction i can run from where it stands in the chunk.
Intact(img, i) ==
    /\ i # 0
    /\ LET by == IF text[i].kind \in Avx512 THEN "rewrite" ELSE "program"
       IN  \A n \in 0..(text[i].len - 1) :
              img[Addr[i] + n] = [by |-> by, of |-> i, n |-> n]
    /\ CardCanRun(i) /\ text[i].kind # "ret"

\* What the card finds at its instruction pointer.  A fetch outside the
\* chunk that was sent faults, which is an exit like ud2 (on_segv).
Fetch ==
    IF at.in = "thunk" THEN [does |-> "run", i |-> at.a]
    ELSE LET img == CodePages
             b == img[at.a]
         IN  IF \/ ~InChunk(at.a)
                \/ /\ b.by = "ud2" /\ b.n = 0 /\ InChunk(at.a + 1)
                   /\ img[at.a + 1].by = "ud2" /\ img[at.a + 1].n = 1
             THEN [does |-> "leave", i |-> 0]
             ELSE IF /\ b.by = "jump" /\ b.n = 0
                     /\ \A n \in 1..(Jump - 1) :
                           img[at.a + n] = [b EXCEPT !.n = n]
             THEN [does |-> "jump", i |-> b.of]
             ELSE IF Intact(img, At(at.a))
             THEN [does |-> "run", i |-> At(at.a)]
             ELSE [does |-> "junk", i |-> 0]

\* The jump at a site, to its thunk.
ToThunk ==
    /\ stage = "run"
    /\ Fetch.does = "jump"
    /\ at' = InThunk(Fetch.i, Fetch.i)
    /\ UNCHANGED <<text, entry, maps, mapped, stage, regionVars, thunkVars,
                   image, loop, extra, pc, mask, flags>>

\* What a compare of bytes gives, and what the compare of dwords gives on
\* the same data: every lane, some, or none.
Compared(kind) ==
    IF kind = "cmpeq"
    THEN {<<"all", "all">>, <<"some", "some">>, <<"some", "none">>,
          <<"none", "none">>}
    ELSE {<<"none", "none">>, <<"some", "some">>, <<"some", "all">>,
          <<"all", "all">>}

\* kortest: CF when the mask is all ones, ZF when it is zero.
Kortest(m) == [CF |-> m = "all", ZF |-> m = "none"]

\* Whether a branch is taken; what it tests outside the flags is `other`.
Takes(i, f, other) ==
    CASE text[i].kind = "jmp" -> TRUE
      [] text[i].kind = "jcc" /\ text[i].cc # "any" -> f[text[i].cc]
      [] OTHER -> other

\* Where instruction i goes: its target, or the next one.
GoesTo(i, f, other) ==
    IF IsBranch(i) /\ Takes(i, f, other) THEN Target(i) ELSE Addr[i + 1]

\* Where the card goes, on in the thunk while it has instructions left.
CardGoesTo(i, other) ==
    LET to == GoesTo(i, flags.card, other)
    IN  IF /\ at.in = "thunk"
           /\ i < SiteEnd(at.site)
           /\ ~(IsBranch(i) /\ Takes(i, flags.card, other))
        THEN InThunk(at.site, i + 1)
        ELSE InCode(to)

\* One instruction, on the card and in the program.
Run ==
    /\ stage = "run"
    /\ Fetch.does = "run"
    /\ LET i == Fetch.i
       IN  /\ pc = Addr[i]
           /\ \/ /\ text[i].kind \notin Compare \cup {"kortest"}
                 /\ UNCHANGED <<mask, flags>>
              \/ /\ text[i].kind \in Compare
                 /\ \E m \in Compared(text[i].kind) :
                       mask' = [program |-> m[1], card |-> m[2]]
                 /\ UNCHANGED flags
              \/ /\ text[i].kind = "kortest"
                 /\ flags' = [w \in DOMAIN flags |-> Kortest(mask[w])]
                 /\ UNCHANGED mask
           /\ \E other \in (IF IsBranch(i) THEN BOOLEAN ELSE {FALSE}) :
                 /\ at' = CardGoesTo(i, other)
                 /\ pc' = GoesTo(i, flags.program, other)
    /\ UNCHANGED <<text, entry, maps, mapped, stage, regionVars, thunkVars,
                   image, loop, extra>>

\* The phase is over.  At the loop's head or exit the next phase
\* starts there; anywhere else, and after the last phase, the program
\* resumes on the host.
Leave ==
    /\ stage = "run"
    /\ Fetch.does = "leave"
    /\ IF extra # NoAddr /\ at.a = extra
       THEN extra' = ExitOfPhase(loop, at.a, FALSE) /\ UNCHANGED stage
       ELSE stage' = "left" /\ UNCHANGED extra
    /\ UNCHANGED <<text, entry, maps, mapped, regionVars, thunkVars, image,
                   loop, at, pc, mask, flags>>

-----------------------------------------------------------------------------
Init ==
    /\ text \in Texts
    /\ entry \in {i \in Index : text[i].kind \in Avx512}
    /\ maps \in Maps
    /\ mapped = maps
    /\ stage = "walk"
    /\ work = <<Addr[entry]>>
    /\ included = {}
    /\ exits = <<>>
    /\ thunk = 0
    /\ from = 1
    /\ tries = 0
    /\ image = <<>>
    /\ loop = NoLoop
    /\ extra = NoAddr
    /\ at = InCode(0)
    /\ pc = 0
    /\ mask = Same("none")
    /\ flags = Same([CF |-> FALSE, ZF |-> FALSE])

Analyse ==
    WalkSeen \/ WalkExit \/ WalkInclude \/ WalkDone \/ ReserveThunk \/ Layout
Card == Dispatch \/ ToThunk \/ Run \/ Leave
Next == Analyse \/ Card \/ ProgramMaps

\* The handler runs to its end, on the thread that faulted.
Spec == Init /\ [][Next]_vars /\ WF_vars(Analyse)

-----------------------------------------------------------------------------
\* The types of the variables.
TypeOK ==
    /\ entry \in Index
    /\ maps \subseteq mapped /\ mapped \subseteq 1..Chunks
    /\ stage \in {"walk", "reserve", "layout", "ready", "run", "left", "error"}
    /\ \A k \in DOMAIN work : work[k] \in 0..End
    /\ included \subseteq Index /\ Cardinality(included) <= MaxInsns
    /\ \A k \in DOMAIN exits : exits[k] \in 0..End
    /\ thunk \in 0..Chunks /\ tries \in 0..Tries
    /\ at.in \in {"code", "thunk"}
    /\ pc \in 0..End
    /\ {mask.program, mask.card} \subseteq {"all", "some", "none"}
    /\ {flags.program, flags.card} \subseteq Flags

\* The card follows the program: it never runs bytes that are not one whole
\* instruction it can run, the instruction it runs next is the one the
\* program is at, in the code or in a thunk, and it leaves at the address
\* where the program is, whichever phases the region was cut into.
Faithful ==
    stage = "run" =>
        LET f == Fetch
        IN  /\ f.does # "junk"
            /\ f.does = "run" => Addr[f.i] = pc
            /\ f.does = "leave" => at.a = pc

\* ud2 takes two bytes, and an exit may have one only.  No exit, of the
\* region or of a phase, has the region or another exit at its second byte,
\* and none is the last byte of a chunk.
Apart ==
    \A a \in 0..End :
        Exited(a) \/ a = loop.head \/ a = loop.exit =>
            At(a + 1) \notin included /\ ~Exited(a + 1) /\ a + 1 # Edge

\* The branches that test the flags of a kortest test the same one; the
\* analysis looks at the first of them alone.
Tests(t, c) == \A i \in DOMAIN t : t[i].kind = "jcc" => t[i].cc \in {"any", c}
OneFlag == \E c \in {"CF", "ZF"} : Tests(text, c)

\* The card follows the program through every region whose exits stand apart
\* and whose branches test one flag: what analyze takes for granted of a
\* text, and does not check, when it writes ud2 over two bytes and lets a
\* byte compare through for the branch behind its kortest.
FaithfulApart == Apart /\ OneFlag => Faithful

\* The thunk area shares its chunk with nothing of the program, although
\* other threads map memory between the reading of the maps and the
\* reservation and after it (analyze: "Reserved, nothing of the program can
\* be there, now or later").
ThunkAlone == thunk = 0 \/ thunk \notin mapped

\* A mask register the program gets back is what its own instructions would
\* have put there (bytecmp_pair: "whose result only feeds kortest").
MaskOwn == stage = "left" => mask.program = mask.card

\* The analysis of any text ends, in a region or in a refusal, loops and
\* reservations lost to other threads included.
Settles == <>(stage \in {"ready", "run", "left", "error"})
=============================================================================
