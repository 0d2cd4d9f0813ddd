----------------------------- MODULE FifoQueue -----------------------------
(***************************************************************************)
(* What circular_queue promises: elements stay in the order in which they  *)
(* were accepted, none is lost, repeated or changed, and each operation    *)
(* takes effect at one moment, whatever the other end does meanwhile.      *)
(* Elements are numbered in the order in which they are accepted.          *)
(***************************************************************************)
EXTENDS Integers, Sequences

CONSTANT Capacity

VARIABLES items,   \* the queue, oldest first
          left,    \* the elements that left it, in the order they did
          pushed   \* how many were ever accepted

Init == items = <<>> /\ left = <<>> /\ pushed = 0

\* k new elements at the end.
Push(k) == /\ k <= Capacity - Len(items)
           /\ items' = items \o [i \in 1..k |-> pushed + i]
           /\ pushed' = pushed + k
           /\ UNCHANGED left

\* The k oldest elements leave, oldest first.
Leave(k) == /\ items' = SubSeq(items, k + 1, Len(items))
             /\ left' = left \o SubSeq(items, 1, k)
             /\ UNCHANGED pushed

\* f ascends and g descends through places of 1..n, and each place is in one of them.
Divides(f, g, k, m, n) ==
  /\ \A p \in 1..n : (\E i \in 1..k : f[i] = p) <=> (\A i \in 1..m : g[i] # p)
  /\ \A i, j \in 1..k : i < j => f[i] < f[j]
  /\ \A i, j \in 1..m : i < j => g[i] > g[j]

\* kept and gone share the elements of old, kept in their order and gone in reverse.
Sifted(kept, gone, old) ==
  \E f \in [1..Len(kept) -> 1..Len(old)], g \in [1..Len(gone) -> 1..Len(old)] :
    /\ Divides(f, g, Len(kept), Len(gone), Len(old))
    /\ \A i \in 1..Len(kept) : kept[i] = old[f[i]]
    /\ \A i \in 1..Len(gone) : gone[i] = old[g[i]]

\* Of the m oldest, some stay as they are; the others leave, youngest first.
Sift(m) ==
  LET kept == SubSeq(items', 1, Len(items') - (Len(items) - m))
      gone == SubSeq(left', Len(left) + 1, Len(left'))
  IN  /\ items' = kept \o SubSeq(items, m + 1, Len(items))
      /\ left' = left \o gone
      /\ Sifted(kept, gone, SubSeq(items, 1, m))
      /\ UNCHANGED pushed

\* The oldest goes to the end.
Rotate == /\ items # <<>>
          /\ items' = Append(Tail(items), Head(items))
          /\ UNCHANGED <<left, pushed>>

Next == \/ \E k \in 1..Capacity : Push(k)
        \/ \E k \in 1..Len(items) : Leave(k)
        \/ \E m \in 1..Len(items) : Sift(m)
        \/ Rotate

Spec == Init /\ [][Next]_<<items, left, pushed>>
=============================================================================
