----------------------------- MODULE MCOffload -----------------------------
(***************************************************************************)
(* Regions for module Offload.  Chunks hold three pages: 0 to 2 are the    *)
(* code chunk, 3 to 5 and 6 data, and nothing is mapped at 9.              *)
(***************************************************************************)
EXTENDS Offload

L(p) == [kind |-> "load", page |-> p]
S(p) == [kind |-> "store", page |-> p]
U(p) == [kind |-> "update", page |-> p]
Stray == [kind |-> "stray", page |-> 0]

Reads(lo, hi) == [lo |-> lo, hi |-> hi, write |-> FALSE, dense |-> FALSE]
Writes(lo, hi) == [lo |-> lo, hi |-> hi, write |-> TRUE, dense |-> FALSE]
Dense(lo, hi) == [lo |-> lo, hi |-> hi, write |-> TRUE, dense |-> TRUE]

Demand(role, ops) ==
    [role |-> role, mode |-> "demand", ranges |-> <<>>, ops |-> ops,
     leaves |-> FALSE]
Planned(role, ranges, ops) ==
    [role |-> role, mode |-> "ranges", ranges |-> ranges, ops |-> ops,
     leaves |-> FALSE]
Leaving(phase) == [phase EXCEPT !.leaves = TRUE]

\* No loop: one phase, in either mode.
Whole == <<Demand("region", <<L(3), S(4), U(1)>>)>>
Copy == <<Planned("region", <<Reads(1, 3), Writes(4, 4)>>,
                  <<L(3), U(4)>>)>>
\* A loop that fills three pages, written densely, after a look at them.
Fill == <<Planned("prologue", <<Reads(2, 3)>>, <<L(3)>>),
          Planned("loop", <<Dense(3, 5)>>, <<S(3), S(4), S(5)>>),
          Planned("epilogue", <<Writes(4, 5)>>, <<U(5)>>)>>
\* The planner misses an access of the loop; memory already updated.
Missed == <<Planned("prologue", <<Writes(3, 3)>>, <<U(3)>>),
            Planned("loop", <<Writes(3, 4)>>, <<U(4), U(1)>>),
            Demand("epilogue", <<U(3), L(1)>>)>>
\* A slice leaves the loop by another way; the loop leaves the region.
Early == <<Demand("prologue", <<U(4)>>),
           Leaving(Planned("loop", <<Writes(5, 5)>>,
                           <<U(5), Stray, L(4)>>)),
           Demand("epilogue", <<S(3)>>)>>
\* Nothing follows the loop: more chunks written than there are snapshots;
\* a page that is not mapped.
Wide == <<Demand("loop", <<U(2), U(4), U(6)>>)>>
Beyond == <<Planned("prologue", <<Reads(5, 6)>>, <<L(5)>>),
            Demand("loop", <<U(5), L(9)>>)>>

All == {Whole, Copy, Fill, Missed, Early, Wide, Beyond}

\* A phase with declared ranges between two phases without.
Between == {<<Demand("prologue", <<L(3)>>),
              Planned("loop", <<Writes(4, 4)>>, <<U(4)>>),
              Demand("epilogue", <<U(3)>>)>>}
\* A write-back of two slots.
Long == {<<Planned("region", <<Writes(3, 5)>>, <<U(3), U(4), U(5)>>)>>}
One == {Whole, Copy}
\* A phase that needs its code chunk alone sends one mail.
Single == {<<Demand("region", <<L(1)>>)>>}
\* The same, then one that writes in that page.
Again == Single \cup {<<Demand("region", <<U(1)>>)>>}
=============================================================================
