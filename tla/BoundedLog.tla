----------------------------- MODULE BoundedLog -----------------------------
(* What the error log promises (components/error_log/include/error_log.h):  *)
(* entries in the order of their addition, at most Size of them, of which   *)
(* only the oldest is ever forgotten, and only to make room.                *)
EXTENDS Naturals, Sequences

CONSTANTS Entries, Size

VARIABLE log

Init == log = <<>>

Add(e) == Len(log) < Size /\ log' = Append(log, e)

Forget == Len(log) = Size /\ log' = Tail(log)

Next == Forget \/ \E e \in Entries : Add(e)

Spec == Init /\ [][Next]_log
=============================================================================
