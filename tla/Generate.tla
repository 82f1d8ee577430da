------------------------------ MODULE Generate ------------------------------
(***************************************************************************)
(* Greedy generation with drafts, verified by the model and taken back     *)
(* where it disagrees (host/crates/phi-pld/src/decode.rs generate,         *)
(* prefill, prompt_cuts).                                                  *)
(*                                                                         *)
(* full is the prompt and what the model would say after it, token by      *)
(* token.  The model behind the Model trait (llm.rs over llama.cpp, or     *)
(* sim.rs's Replay) is its attention cells and its recurrent state, each   *)
(* the tokens in it: after a context that is a prefix of full its choice   *)
(* is the next token of full, after any other it is any token.  The        *)
(* drafters (lookup.rs, ngram_cache.rs) are any draft of a legal length.   *)
(***************************************************************************)
EXTENDS Integers, Sequences, FiniteSetsExt

CONSTANTS Tokens, Eog,   \* the vocabulary and its end-of-generation tokens
          Prompted,      \* the tokens the prompt may hold
          PromptLen,     \* how many it holds
          NPredict,      \* n_predict
          NCtx,          \* n_ctx
          Batch, UBatch, \* the model's batch sizes
          Keep,          \* the 4 of prompt_cuts
          KMin, KMax,    \* k_min, k_max
          CacheK,        \* cache_k
          Folds,         \* the values of fold_max
          RsSeqs         \* the values of n_rs_seq of a recurrent model

ASSUME GenerateAssumption ==
  /\ Eog \subseteq Tokens /\ Prompted \subseteq Tokens
  /\ PromptLen \in Nat \ {0} /\ NPredict \in Nat
  /\ NCtx \in Nat /\ NCtx > PromptLen
  /\ Batch \in Nat \ {0} /\ UBatch \in Nat /\ Keep \in Nat \ {0}
  /\ KMin \in Nat /\ KMax \in Nat /\ CacheK \in Nat
  /\ Folds \subseteq Nat /\ RsSeqs \subseteq Nat

VARIABLES
  full,     \* the prompt and the model's own output
  recurrent, rsSeq,  \* the model keeps a recurrent state, its snapshots
  foldMax, adapt,    \* the request's parameters
  cells,    \* the tokens in the attention cells
  state,    \* the tokens in the recurrent state
  ckpt,     \* the checkpoint of the recurrent state
  pc,       \* "prefill", "emit", "draft", "decode", "settle", "done",
            \* "failed" (the model's error), "stuck" (nothing could be taken
            \* back) or "panicked"
  cur,      \* the model's next token, not yet in its context
  pos,      \* the tokens before cur
  pending,  \* the last of them that are not in the context
  k,        \* the length of an exact draft
  draft, exact,  \* the draft, and whether the exact match made it
  seq,      \* the batch decoded
  choice,   \* the model's choice after each of its rows
  out       \* o.tokens

parVars == <<full, recurrent, rsSeq, foldMax, adapt>>
modelVars == <<cells, state, ckpt>>
stepVars == <<draft, exact, seq, choice>>
vars == <<parVars, modelVars, stepVars, pc, cur, pos, pending, k, out>>

Last == PromptLen + Max({NPredict, 1})
MaxDraft == Max({KMax, CacheK})

\* Every variable has its type.
TypeOK ==
  /\ full \in [1 .. Last -> Tokens]
  /\ recurrent \in BOOLEAN /\ rsSeq \in RsSeqs \cup {0}
  /\ foldMax \in Folds /\ adapt \in BOOLEAN
  /\ cells \in Seq(Tokens) /\ state \in Seq(Tokens) /\ ckpt \in Seq(Tokens)
  /\ pc \in {"prefill", "emit", "draft", "decode", "settle", "done", "failed",
             "stuck", "panicked"}
  /\ cur \in Tokens /\ pos \in Nat /\ pending \in Seq(Tokens)
  /\ k \in 0 .. KMax /\ draft \in Seq(Tokens) /\ exact \in BOOLEAN
  /\ seq \in Seq(Tokens) /\ choice \in Seq(Tokens) /\ out \in Seq(Tokens)

Init ==
  /\ full \in [1 .. Last -> Tokens]
  /\ \A i \in 1 .. PromptLen : full[i] \in Prompted
  /\ recurrent \in BOOLEAN /\ rsSeq \in IF recurrent THEN RsSeqs ELSE {0}
  /\ foldMax \in Folds /\ adapt \in BOOLEAN
  /\ cells = <<>> /\ state = <<>> /\ ckpt = <<>>
  /\ pc = "prefill" /\ cur = full[1] /\ pos = PromptLen /\ pending = <<>>
  /\ k = IF adapt THEN Min({Max({KMin, 1}), KMax}) ELSE KMax
  /\ draft = <<>> /\ exact = TRUE /\ seq = <<>> /\ choice = <<>>
  /\ out = <<>>

-----------------------------------------------------------------------------
(* The model.                                                              *)

\* decode: the tokens join the cells and the recurrent state.
Decode(tokens) ==
  /\ cells' = cells \o tokens
  /\ state' = IF recurrent THEN state \o tokens ELSE state

\* The model's choices after the rows of a context's last m tokens.
Choosing(context, m) ==
  {c \in [1 .. m -> Tokens] :
     \A i \in 1 .. m :
       LET q == Len(context) - m + i
       IN q < Last /\ SubSeq(context, 1, q) = SubSeq(full, 1, q)
            => c[i] = full[q + 1]}

\* truncate: false, and nothing done, past the snapshots.
CanTruncate(from, st) ==
  recurrent /\ Len(st) > from => Len(st) - from <= rsSeq

Cut(s, from) == SubSeq(s, 1, Min({from, Len(s)}))

-----------------------------------------------------------------------------
(* The prompt.                                                             *)

\* Mutant: a batch may end at a cut it has reached.
CutAfterAny(at) ==
  LET end == Min({at + Batch, PromptLen})
      tail == IF recurrent
              THEN {PromptLen - r :
                      r \in {Min({Batch, Keep + UBatch}), Min({Batch, Keep})}}
              ELSE {}
      inside == {c \in tail : c < end}
  IN IF inside = {} THEN end ELSE Min(inside)

\* prompt_cuts: where the batch that begins at ends: a whole batch, the
\* prompt's end, or the first of the cuts near the end inside it.
CutAfter(at) ==
  LET end == Min({at + Batch, PromptLen})
      tail == IF recurrent
              THEN {PromptLen - r :
                      r \in {Min({Batch, Keep + UBatch}), Min({Batch, Keep})}}
              ELSE {}
      inside == {c \in tail : at < c /\ c < end}
  IN IF inside = {} THEN end ELSE Min(inside)

\* prefill: one batch of the prompt; the choice after the last is cur.
Prefill ==
  /\ pc = "prefill"
  /\ LET at == Len(cells)
         end == CutAfter(at)
     IN /\ Decode(SubSeq(full, at + 1, end))
        /\ IF end = PromptLen
           THEN \E c \in Choosing(cells', 1) : cur' = c[1] /\ pc' = "emit"
           ELSE UNCHANGED <<cur, pc>>
  /\ UNCHANGED <<parVars, ckpt, stepVars, pos, pending, k, out>>

-----------------------------------------------------------------------------
(* The loop.                                                               *)

\* The head of the loop: cur joins the output; the ends of generation.
Emit ==
  /\ pc = "emit"
  /\ out' = Append(out, cur)
  /\ pc' = IF \/ cur \in Eog
              \/ Len(out) + 1 >= NPredict
              \/ pos + 1 >= NCtx
           THEN "done" ELSE "draft"
  /\ UNCHANGED <<parVars, modelVars, stepVars, cur, pos, pending, k>>

\* Mutant: room for one token too many.
RoomOneMore == Min({NPredict - Len(out), NCtx - pos})

\* Room for the draft: the tokens left to generate after cur's successor,
\* and the context.
Room == Min({NPredict - Len(out) - 1, NCtx - pos - 1})

Drafts(longest) == UNION {[1 .. m -> Tokens] : m \in 0 .. longest}

\* The carried tokens and the draft do not fit one batch.
Overfull(d) ==
  /\ d # <<>> /\ pending # <<>>
  /\ Len(pending) + 1 + Len(d) > foldMax

\* The draft, by the exact match or from the caches; the carried tokens
\* decoded on their own when the batch would be too long.
Draft ==
  /\ pc = "draft"
  /\ exact' \in BOOLEAN
  /\ draft' \in Drafts(IF KMax = 0 THEN 0
                       ELSE Min({Room, IF exact' THEN k ELSE CacheK}))
  /\ IF Overfull(draft')
     THEN Decode(pending) /\ pending' = <<>>
     ELSE UNCHANGED <<cells, state, pending>>
  /\ pc' = "decode"
  /\ UNCHANGED <<parVars, ckpt, seq, choice, cur, pos, k, out>>

\* No draft: the carried tokens and cur, one choice.
Plain ==
  /\ pc = "decode" /\ draft = <<>>
  /\ Decode(Append(pending, cur))
  /\ \E c \in Choosing(cells', 1) : cur' = c[1]
  /\ pos' = pos + 1
  /\ pending' = <<>>
  /\ pc' = "emit"
  /\ UNCHANGED <<parVars, ckpt, stepVars, k, out>>

\* Mutant: one snapshot more than the context keeps.
BoundedLate == recurrent /\ Len(draft) > rsSeq + 1

\* The draft is longer than what truncation takes back.
Bounded == recurrent /\ Len(draft) > rsSeq

\* The state before the batch, unless the carried tokens' own checkpoint
\* holds it.
Checkpoint == ckpt' = IF Bounded /\ pending = <<>> THEN state ELSE ckpt

\* The batch: the carried tokens, cur and the draft, the choice after cur
\* and after each token of the draft.
Verify ==
  /\ pc = "decode" /\ draft # <<>>
  /\ Checkpoint
  /\ seq' = Append(pending, cur) \o draft
  /\ Decode(seq')
  /\ choice' \in Choosing(cells', Len(draft) + 1)
  /\ pending' = <<>>
  /\ pc' = "settle"
  /\ UNCHANGED <<parVars, draft, exact, cur, pos, k, out>>

\* The draft's tokens that the model chose.
Accepted ==
  Max({i \in 0 .. Len(draft) : \A m \in 1 .. i : choice[m] = draft[m]})

\* Mutant: the tokens decided are not carried to the next batch.
TakeBackForgetting(j, base, first) ==
  IF Bounded
  THEN /\ cells' = Cut(cells, base)
       /\ state' = Cut(ckpt, base)
       /\ pending' = <<>>
  ELSE /\ cells' = Cut(cells, pos + 1 + j)
       /\ state' = Cut(state, pos + 1 + j)
       /\ UNCHANGED pending

\* What was not accepted: by the checkpoint, the batch's decided part
\* carried to the next batch, or by truncation.
TakeBack(j, base, first) ==
  IF Bounded
  THEN /\ cells' = Cut(cells, base)
       /\ state' = Cut(ckpt, base)
       /\ pending' = SubSeq(seq, 1, first + 1 + j)
  ELSE /\ cells' = Cut(cells, pos + 1 + j)
       /\ state' = Cut(state, pos + 1 + j)
       /\ UNCHANGED pending

\* Mutant: the output goes on past the token that ends it.
JoinedPast(j) == SubSeq(draft, 1, j)

\* The accepted tokens that join the output: up to the first one that ends
\* the generation.
Joined(j) ==
  LET ends == {i \in 1 .. j : draft[i] \in Eog}
  IN SubSeq(draft, 1, IF ends = {} THEN j ELSE Min(ends))

\* The adaptation of the exact draft's length.
Adapted(j) ==
  IF ~(adapt /\ exact) THEN k
  ELSE IF j = Len(draft) THEN Min({2 * k, KMax})
  ELSE Min({Max({j + 1, KMin, 1}), KMax})

\* usize::clamp panics when its bounds are the wrong way round.
ClampPanics(j) == adapt /\ exact /\ j < Len(draft) /\ Max({KMin, 1}) > KMax

\* The draft compared, what was not accepted taken back, the output and k
\* brought forward; the step's locals end.
Settle ==
  /\ pc = "settle"
  /\ LET j == Accepted
         first == Len(seq) - Len(draft) - 1
         base == pos - first
         taken == j < Len(draft)
         possible == IF Bounded THEN CanTruncate(base, ckpt)
                     ELSE CanTruncate(pos + 1 + j, state)
         stop == \E i \in 1 .. j : draft[i] \in Eog
     IN IF taken /\ ~possible
        THEN /\ pc' = "stuck"
             /\ UNCHANGED <<modelVars, pending, out, pos, cur, k>>
        ELSE /\ IF taken THEN TakeBack(j, base, first)
                ELSE UNCHANGED <<cells, state, pending>>
             /\ out' = out \o Joined(j)
             /\ pos' = pos + 1 + j
             /\ cur' = choice[j + 1]
             /\ k' = IF stop THEN k ELSE Adapted(j)
             /\ pc' = IF stop THEN "done"
                      ELSE IF ClampPanics(j) THEN "panicked" ELSE "emit"
             /\ UNCHANGED ckpt
  /\ draft' = <<>> /\ exact' = TRUE /\ seq' = <<>> /\ choice' = <<>>
  /\ UNCHANGED parVars

\* A call of the model fails; the request ends with its error, and what it
\* had generated is dropped.
Fail ==
  /\ pc \in {"prefill", "draft", "decode", "settle"}
  /\ pc' = "failed"
  /\ draft' = <<>> /\ exact' = TRUE /\ seq' = <<>> /\ choice' = <<>>
  /\ pending' = <<>> /\ out' = <<>>
  /\ UNCHANGED <<parVars, modelVars, cur, pos, k>>

Step == \/ Prefill \/ Emit \/ Draft \/ Plain \/ Verify \/ Settle

Next == Step \/ Fail

\* One thread, which goes on; no call of the model need fail.
Spec == Init /\ [][Next]_vars /\ WF_vars(Step)

-----------------------------------------------------------------------------
(* What must hold.                                                         *)

\* Whatever is drafted, accepted, taken back and carried, the output is what
\* the model says by itself, and nothing after the token that ends it
\* (decode.md: "The output is the model's greedy output").
Lossless ==
  /\ \A i \in 1 .. Len(out) : out[i] = full[PromptLen + i]
  /\ \A i \in 1 .. Len(out) - 1 : out[i] \notin Eog

\* At the head of the loop the cells and the recurrent state hold exactly
\* the decided tokens before the carried ones, a decode continues them (the
\* two checks of sim.rs's Replay), and the checkpoint is the state that the
\* carried tokens follow.
ContextMatches ==
  pc \in {"emit", "draft"} =>
    /\ cells = SubSeq(full, 1, pos - Len(pending))
    /\ pending = SubSeq(full, pos - Len(pending) + 1, pos)
    /\ recurrent => state = cells
    /\ pending # <<>> => ckpt = cells
    /\ cur = full[pos + 1]

\* A rejected draft can always be taken back: neither the ensure! after a
\* restore nor the bail! after a truncation is reached.
TakesBack == pc # "stuck"

\* No batch goes past the context, no output past n_predict, and no batch is
\* longer than fold_max unless a draft alone makes it so.
WithinBounds ==
  /\ Len(cells) <= NCtx
  /\ Len(out) <= Max({NPredict, 1})
  /\ Len(seq) <= Max({foldMax, MaxDraft + 1})

\* The adaptation has a length to choose.
NoPanic == pc # "panicked"

\* Generation ends.
Terminates == <>(pc \in {"done", "failed"})
=============================================================================
