------------------------------- MODULE Timers -------------------------------
(***************************************************************************)
(* The timers every server is driven by (timer.cpp): the binary heap of timer *)
(* ids ordered by their ticks (BHEAP of db.hpp), the list of free ids, and    *)
(* do_timer, which pops what has expired and calls its function.  The function *)
(* may add, move and delete timers, its own among them.                      *)
(***************************************************************************)
EXTENDS Integers, Sequences, FiniteSets, Functions

CONSTANTS
  MaxTimers,  \* bound: timer ids
  MaxTick,    \* bound: the last tick
  Ops,        \* bound: for how many timers there may be at first, how often one
              \* is added, moved or deleted after that
  Late,       \* a timer is late when it is more than this behind: 1000 ms
  None        \* do_timer calls nobody

ASSUME TimersAssumption ==
  /\ {MaxTimers, MaxTick, Late} \subseteq Nat
  /\ DOMAIN Ops \subseteq 0 .. MaxTimers /\ Range(Ops) \subseteq Nat
  /\ None \notin 0 .. MaxTimers

Tid == 0 .. MaxTimers - 1

VARIABLES
  tick, live, kind,  \* timer_data: tick, func # nullptr, type without the flag
  heap,              \* timer_heap
  num,               \* timer_data_num
  free,              \* free_timer_list
  running,           \* the timer whose function do_timer calls, or None
  removed,           \* TIMER_REMOVE_HEAP of that timer
  now,               \* gettick()
  ops,               \* bound: what is left of Ops
  orphan             \* history: timers that their own function deleted

data == <<tick, live, kind>>
vars == <<data, heap, num, free, running, removed, now, ops, orphan>>

----------------------------------------------------------------------------
(* The heap.  The parent of position k is k \div 2; T has the ticks. *)

Swapped(h, i, k) == [h EXCEPT ![i] = h[k], ![k] = h[i]]

\* A heap of these elements, and a position in it
Places(h) == [DOMAIN h -> Range(h)] \X DOMAIN h

\* The loop that takes the element at i up until it fits under its parent
SiftUp(h, i, T) ==
  LET up[at \in Places(h)] ==
        LET g == at[1]
            k == at[2]
        IN  IF k = 1 \/ T[g[k \div 2]] < T[g[k]] THEN at
            ELSE up[<<Swapped(g, k, k \div 2), k \div 2>>]
  IN  up[<<h, i>>]

\* ... and the one that takes it down until it fits over its children
SiftDown(h, i, T) ==
  LET down[at \in Places(h)] ==
        LET g == at[1]
            k == at[2]
            kids == {2 * k, 2 * k + 1} \cap DOMAIN g
            kid  == IF 2 * k + 1 \in kids /\ T[g[2 * k + 1]] < T[g[2 * k]] THEN 2 * k + 1 ELSE 2 * k
        IN  IF \A j \in kids : T[g[k]] <= T[g[j]] THEN at
            ELSE down[<<Swapped(g, k, kid), kid>>]
  IN  down[<<h, i>>][1]

\* BHEAP_PUSH
Push(h, t, T) == SiftUp(Append(h, t), Len(h) + 1, T)[1]

FaultPopIndex(h, i, T) ==
  LET rest == SubSeq(h, 1, Len(h) - 1)
  IN  IF i > Len(rest) THEN rest ELSE SiftDown([rest EXCEPT ![i] = h[Len(h)]], i, T)

\* BHEAP_POPINDEX: the last element takes the place, and goes up or down
PopIndex(h, i, T) ==
  LET rest == SubSeq(h, 1, Len(h) - 1)
      up   == SiftUp([rest EXCEPT ![i] = h[Len(h)]], i, T)
  IN  IF i > Len(rest) THEN rest ELSE SiftDown(up[1], up[2], T)

\* no timer is above one that expires earlier
Ordered(h, T) == \A i \in 2 .. Len(h) : T[h[i \div 2]] <= T[h[i]]

\* Some timers are waiting, the first perhaps with an interval.  Which ids they have
\* depends on the order in which ids were freed, and is of no importance.
Init ==
  \E n \in DOMAIN Ops, k \in {"once", "interval"} :
    /\ tick \in [Tid -> 0 .. MaxTick] /\ \A t \in Tid : t >= n => tick[t] = 0
    /\ heap = [i \in 1 .. n |-> i - 1] /\ Ordered(heap, tick)
    /\ kind = [t \in Tid |-> IF t = 0 /\ t < n THEN k ELSE "once"]
    /\ live = [t \in Tid |-> t < n]
    /\ num = n /\ free = <<>>
    /\ running = None /\ removed = FALSE
    /\ now = 0 /\ ops = Ops[n] /\ orphan = {}

----------------------------------------------------------------------------
(* What the rest of the program does with timers, in a function that do_timer *)
(* calls or between two calls of do_timer.                                  *)

FaultNewId == num
FaultAcquired == IF free # <<>> THEN free[1] ELSE num

\* acquire_timer: the id freed last, or a new one
Acquired == IF free # <<>> THEN free[Len(free)] ELSE num

\* add_timer and add_timer_interval
AddTimer(at, k) ==
  LET t == Acquired
  IN  /\ t \in Tid
      /\ tick' = [tick EXCEPT ![t] = at]
      /\ live' = [live EXCEPT ![t] = TRUE]
      /\ kind' = [kind EXCEPT ![t] = k]
      /\ heap' = Push(heap, t, tick')
      /\ free' = IF free # <<>> THEN SubSeq(free, 1, Len(free) - 1) ELSE free
      /\ num' = IF free # <<>> THEN num ELSE num + 1
      /\ UNCHANGED <<running, removed, orphan>>

\* Callers forget the id of a timer that has expired (their function does), so an
\* id they use is one of the heap or the one that is running.
InUse(t) == t \in Range(heap) \/ t = running

\* delete_timer: it stays in the heap until it expires.  The flag goes with the type.
DeleteTimer(t) ==
  /\ InUse(t) /\ live[t]
  /\ live' = [live EXCEPT ![t] = FALSE]
  /\ kind' = [kind EXCEPT ![t] = "once"]
  /\ removed' = (removed /\ t # running)
  /\ orphan' = IF t = running THEN orphan \cup {t} ELSE orphan
  /\ UNCHANGED <<tick, heap, num, free, running>>

Position(t) == CHOOSE i \in DOMAIN heap : heap[i] = t

\* settick_timer and addtick_timer: popped with its old tick, pushed with the new
Moved(t, T) == Push(PopIndex(heap, Position(t), tick), t, T)
SetTick(t, at) ==
  /\ t \in Range(heap) /\ tick[t] # at
  /\ tick' = [tick EXCEPT ![t] = at]
  /\ heap' = Moved(t, tick')
  /\ UNCHANGED <<live, kind, num, free, running, removed, orphan>>

Program ==
  /\ ops > 0 /\ ops' = ops - 1
  /\ \/ \E at \in 0 .. MaxTick, k \in {"once", "interval"} : AddTimer(at, k)
     \/ \E t \in Tid : DeleteTimer(t)
     \/ \E t \in Tid, at \in 0 .. MaxTick : SetTick(t, at)
  /\ UNCHANGED now

----------------------------------------------------------------------------
(* do_timer *)

Expired == heap # <<>> /\ running = None /\ tick[heap[1]] <= now

\* a timer with a function is popped, and the function called
Call ==
  /\ Expired /\ live[heap[1]]
  /\ heap' = PopIndex(heap, 1, tick)
  /\ running' = heap[1] /\ removed' = TRUE
  /\ UNCHANGED <<data, num, free, now, ops, orphan>>

\* a deleted one is popped and its id is free
Drop ==
  /\ Expired /\ ~live[heap[1]]
  /\ heap' = PopIndex(heap, 1, tick)
  /\ free' = Append(free, heap[1])
  /\ UNCHANGED <<data, num, running, removed, now, ops, orphan>>

FaultRenewed(t) == tick[t]

\* the next tick of a timer with an interval, of 1
Renewed(t) == (IF tick[t] - now < -Late THEN now ELSE tick[t]) + 1

\* The function returned.  "In the case the function didn't change anything": the id
\* is free, or the timer starts again; otherwise nothing happens.
Return ==
  /\ running # None
  /\ running' = None /\ removed' = FALSE
  /\ \/ /\ removed /\ kind[running] = "once"
        /\ free' = Append(free, running)
        /\ UNCHANGED <<tick, heap>>
     \/ /\ removed /\ kind[running] = "interval"
        /\ tick' = [tick EXCEPT ![running] = Renewed(running)]
        /\ heap' = Push(heap, running, tick')
        /\ UNCHANGED free
     \/ ~removed /\ UNCHANGED <<tick, heap, free>>
  /\ UNCHANGED <<live, kind, num, now, ops, orphan>>

DoTimer == Call \/ Drop \/ Return

\* Time passes between two calls of do_timer.
Tick ==
  /\ running = None /\ now < MaxTick
  /\ now' = now + 1
  /\ UNCHANGED <<data, heap, num, free, running, removed, ops, orphan>>

Next == Program \/ DoTimer \/ Tick

Spec == Init /\ [][Next]_vars

\* The main loop calls do_timer for ever, and functions return.
FairSpec == Spec /\ WF_vars(DoTimer)

----------------------------------------------------------------------------
\* timer_data holds timers; the heap and the list, ids that were given out.
TypeOK ==
  /\ tick \in [Tid -> 0 .. MaxTick + 1]
  /\ live \in [Tid -> BOOLEAN]
  /\ kind \in [Tid -> {"once", "interval"}]
  /\ num \in 0 .. MaxTimers
  /\ heap \in Seq(0 .. num - 1) /\ free \in Seq(0 .. num - 1)
  /\ running \in Tid \cup {None}
  /\ removed \in BOOLEAN
  /\ now \in 0 .. MaxTick /\ ops \in Nat

\* However timers are pushed, popped from the middle and moved, no timer is above
\* one that expires earlier (BHEAP_PUSH, BHEAP_POPINDEX): do_timer calls functions in
\* the order of their ticks, and stops at the first that has not expired.
HeapOrdered == Ordered(heap, tick)

Used == IF running = None THEN {} ELSE {running}

\* An id is in the heap, free, or running, and nowhere twice: two timers never share
\* one (acquire_timer, do_timer).  Only a timer that its own function deleted is in
\* none of these: do_timer neither frees its id nor finds it again, although it was
\* marked "for immediate deletion" (delete_timer).
IdsOnce ==
  /\ IsInjective(heap) /\ IsInjective(free)
  /\ Range(heap) \cap Range(free) = {}
  /\ (Used \cup orphan) \cap (Range(heap) \cup Range(free)) = {}
  /\ 0 .. num - 1 = Range(heap) \cup Range(free) \cup Used \cup orphan

\* do_timer comes to an end, however late it is and whatever restarts itself: when
\* timers have expired, there comes a time when none has.
Behind == \E t \in Range(heap) : tick[t] <= now
CatchesUp == Behind ~> ~Behind

=============================================================================
