----------------------------- MODULE AsyncMutex -----------------------------
(***************************************************************************)
(* async_mutex (src/common/ltsm_async_mutex.h): the lock of the coroutines *)
(* of one thread.  It is a counter (n, queue_) and the waits on a timer    *)
(* (wait), granted in order by cancelling the oldest wait.  A wait that is *)
(* aborted by a stop signal ends in the same way as one that is granted.   *)
(***************************************************************************)
EXTENDS Naturals, Sequences

MutexFree == [n |-> 0, wait |-> <<>>]

(* fetch_add: the first one holds the lock, the others wait on the timer.  *)
MutexEnter(m, c) ==
    [m EXCEPT !.n = @ + 1, !.wait = IF m.n = 0 THEN @ ELSE Append(@, c)]

(* unlock: with more than one in the queue a waiter is expected; when the  *)
(* timer has none, cancel_one is retried for ever.                         *)
MutexLeave(m) ==
    [m EXCEPT !.n = @ - 1, !.wait = IF m.n > 1 /\ @ # <<>> THEN Tail(@) ELSE @]
MutexWoken(m) == IF m.n > 1 /\ m.wait # <<>> THEN {Head(m.wait)} ELSE {}
MutexSpins(m) == m.n > 1 /\ m.wait = <<>>

(* An aborted wait: the timer drops it, the counter stays.                 *)
MutexAbort(m, c) ==
    IF \E i \in 1..Len(m.wait) : m.wait[i] = c
    THEN LET k == CHOOSE i \in 1..Len(m.wait) : m.wait[i] = c
         IN  [m EXCEPT !.wait = [i \in 1..Len(@) - 1 |-> @[IF i < k THEN i ELSE i + 1]]]
    ELSE m
=============================================================================
