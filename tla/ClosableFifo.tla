---------------------------- MODULE ClosableFifo ----------------------------
(***************************************************************************)
(* What a thread-safe hand-over queue promises its users, without mutexes, *)
(* condition variables or waiting threads: accepted items leave in the     *)
(* order in which they were accepted, each to exactly one consumer; a      *)
(* closed queue accepts nothing more but still hands out what it holds; a  *)
(* bounded queue never holds more than its capacity.                       *)
(*                                                                         *)
(* TaskQueue and BlockingQueue are shown to implement this specification.  *)
(***************************************************************************)
EXTENDS Naturals, Sequences

CONSTANTS Items,      \* what can be queued
          Takers,     \* the consumer threads
          Capacity,   \* the greatest number of items held; 0 = unbounded
          None        \* "no item", not a member of Items

VARIABLES items,      \* the queued items, oldest first
          closed,     \* the queue has been shut down
          got         \* got[c]: the item c last took, None before the first

fvars == <<items, closed, got>>

HasRoom == Capacity = 0 \/ Len(items) < Capacity

FInit ==
    /\ items = <<>>
    /\ closed = FALSE
    /\ got = [c \in Takers |-> None]

Put(x) ==
    /\ ~closed
    /\ HasRoom
    /\ items' = Append(items, x)
    /\ UNCHANGED <<closed, got>>

Take(c) ==
    /\ items # <<>>
    /\ items' = Tail(items)
    /\ got' = [got EXCEPT ![c] = Head(items)]
    /\ UNCHANGED closed

Drop ==
    /\ items' = <<>>
    /\ UNCHANGED <<closed, got>>

Close ==
    /\ closed' = TRUE
    /\ UNCHANGED <<items, got>>

FNext ==
    \/ \E x \in Items : Put(x)
    \/ \E c \in Takers : Take(c)
    \/ Drop
    \/ Close

FSpec == FInit /\ [][FNext]_fvars
=============================================================================
