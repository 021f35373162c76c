---------------------------- MODULE AppendOnlyLog ----------------------------
(***************************************************************************)
(* What an append-only commitment log promises: a sequence of distinct     *)
(* items that grows at its end, one item at a time, and in which nothing   *)
(* is ever removed, replaced or reordered.                                 *)
(***************************************************************************)
EXTENDS Naturals, Sequences

CONSTANT Item

VARIABLE log

Init == log = <<>>

AppendItem(x) ==
  /\ \A i \in 1..Len(log) : log[i] # x
  /\ log' = Append(log, x)

Next == \E x \in Item : AppendItem(x)

Spec == Init /\ [][Next]_log
=============================================================================
