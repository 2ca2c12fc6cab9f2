----------------------------- MODULE RingQueue ------------------------------
(***************************************************************************)
(* RingQueue<T, N> of the simulator (sim/src/main.cpp): one producer and   *)
(* one consumer on different threads, head_ and tail_ atomic.  Each atomic *)
(* access and each access to buf_ is a step.  Loads acquire and stores     *)
(* release, and each index has one writer, so interleaving is faithful.    *)
(* push_blocking and pop_blocking retry after Task::sleep(1).              *)
(* Items are numbered in the order they are pushed.                        *)
(***************************************************************************)
EXTENDS Integers, Sequences

CONSTANTS
    N,          \* size of buf_; N - 1 items fit
    MaxItems    \* bound on the items pushed

ASSUME SizeAssumption == N \in Nat \ {0, 1}
ASSUME ItemsAssumption == MaxItems \in Nat

VARIABLES
    buf_, head_, tail_,
    ppc, h,      \* producer: where it is in try_push, the head_ it loaded
    cpc, t,      \* consumer: where it is in try_pop, the tail_ it loaded
    item,        \* consumer: the value it copied out
    produced,    \* number of items pushed
    consumed     \* the item popped last

vars == <<buf_, head_, tail_, ppc, h, cpc, t, item, produced, consumed>>

\* Mutant of Succ: no wrap around.
SuccUnwrapped(i) == i + 1

Succ(i) == (i + 1) % N

\* try_push.
PushLoadHead ==
    /\ ppc = "start" /\ produced < MaxItems
    /\ h' = head_ /\ ppc' = "check"
    /\ UNCHANGED <<buf_, head_, tail_, cpc, t, item, produced, consumed>>

\* Mutant of PushCheck: a full ring is not noticed.
PushCheckNever ==
    /\ ppc = "check"
    /\ ppc' = "store"
    /\ UNCHANGED <<buf_, head_, tail_, h, cpc, t, item, produced, consumed>>

PushCheck ==
    /\ ppc = "check"
    /\ ppc' = IF Succ(h) = tail_ THEN "start" ELSE "store"
    /\ UNCHANGED <<buf_, head_, tail_, h, cpc, t, item, produced, consumed>>

PushStore ==
    /\ ppc = "store"
    /\ buf_' = [buf_ EXCEPT ![h] = produced + 1]
    /\ ppc' = "publish"
    /\ UNCHANGED <<head_, tail_, h, cpc, t, item, produced, consumed>>

PushPublish ==
    /\ ppc = "publish"
    /\ head_' = Succ(h)
    /\ produced' = produced + 1
    /\ ppc' = "start"
    /\ UNCHANGED <<buf_, tail_, h, cpc, t, item, consumed>>

\* try_pop.
PopLoadTail ==
    /\ cpc = "start"
    /\ t' = tail_ /\ cpc' = "check"
    /\ UNCHANGED <<buf_, head_, tail_, ppc, h, item, produced, consumed>>

\* Mutant of PopCheck: an empty ring is not noticed.
PopCheckNever ==
    /\ cpc = "check"
    /\ cpc' = "copy"
    /\ UNCHANGED <<buf_, head_, tail_, ppc, h, t, item, produced, consumed>>

\* Mutant of PopCheck: the last item is taken for an empty ring.
PopCheckEarly ==
    /\ cpc = "check"
    /\ cpc' = IF head_ \in {t, Succ(t)} THEN "start" ELSE "copy"
    /\ UNCHANGED <<buf_, head_, tail_, ppc, h, t, item, produced, consumed>>

PopCheck ==
    /\ cpc = "check"
    /\ cpc' = IF t = head_ THEN "start" ELSE "copy"
    /\ UNCHANGED <<buf_, head_, tail_, ppc, h, t, item, produced, consumed>>

PopCopy ==
    /\ cpc = "copy"
    /\ item' = buf_[t]
    /\ cpc' = "release"
    /\ UNCHANGED <<buf_, head_, tail_, ppc, h, t, produced, consumed>>

PopRelease ==
    /\ cpc = "release"
    /\ tail_' = Succ(t)
    /\ consumed' = item
    /\ cpc' = "start"
    /\ UNCHANGED <<buf_, head_, ppc, h, t, item, produced>>

Init ==
    /\ buf_ = [i \in 0 .. N - 1 |-> 0] /\ head_ = 0 /\ tail_ = 0
    /\ ppc = "start" /\ h = 0 /\ cpc = "start" /\ t = 0
    /\ item = 0 /\ produced = 0 /\ consumed = 0

Producer == PushLoadHead \/ PushCheck \/ PushStore \/ PushPublish
Consumer == PopLoadTail \/ PopCheck \/ PopCopy \/ PopRelease
Next == Producer \/ Consumer

Spec == Init /\ [][Next]_vars

\* Both tasks are scheduled again and again (HardRT, io thread).
FairSpec == Spec /\ WF_vars(Producer) /\ WF_vars(Consumer)

------------------------------------------------------------------------------
\* Every variable of the queue holds a value of its type; indices stay in buf_.
TypeOK ==
    /\ buf_ \in [0 .. N - 1 -> Nat]
    /\ head_ \in 0 .. N - 1 /\ tail_ \in 0 .. N - 1
    /\ h \in 0 .. N - 1 /\ t \in 0 .. N - 1
    /\ ppc \in {"start", "check", "store", "publish"}
    /\ cpc \in {"start", "check", "copy", "release"}
    /\ item \in Nat /\ produced \in Nat /\ consumed \in Nat

\* buf_ itself is not atomic: the slot being written is never the slot being
\* copied out, and what is copied is the item the consumer expects.
NoDataRace ==
    /\ ~(ppc = "store" /\ cpc \in {"copy", "release"} /\ h = t)
    /\ cpc = "release" => item = consumed + 1

\* Where head_ and tail_ stand follows from the items in the queue, their
\* slots hold them, and the loaded indices are still those of the queue: a
\* check that succeeded stays true, because only the other side can change it,
\* and only for the better.
RingInv ==
    /\ consumed <= produced /\ produced - consumed <= N - 1
    /\ head_ = produced % N /\ tail_ = consumed % N
    /\ \A k \in 1 .. N - 1 :
          consumed + k <= produced => buf_[(consumed + k - 1) % N] = consumed + k
    /\ ppc # "start" => h = head_
    /\ ppc \in {"store", "publish"} => produced - consumed < N - 1
    /\ ppc = "publish" => buf_[h] = produced + 1
    /\ cpc # "start" => t = tail_
    /\ cpc \in {"copy", "release"} => consumed < produced
    /\ cpc = "release" => item = consumed + 1

Fifo == INSTANCE BoundedFifo WITH
    Capacity <- N - 1,
    queue <- [i \in 1 .. (head_ - tail_) % N |-> buf_[(tail_ + i - 1) % N]]

\* The ring is a bounded first-in-first-out queue, at every interleaving of the
\* two sides, full and empty included.
ImplementsFifo == Fifo!FSpec

\* Nothing that was pushed stays in the ring.
Drains == \A n \in 1 .. MaxItems : (produced = n) ~> (consumed >= n)
=============================================================================
