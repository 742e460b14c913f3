------------------------------ MODULE DeferredBH ------------------------------
(***************************************************************************)
(* Bottom halves that handle one event per run, queued by the top half as  *)
(* a tasklet or on the shared workqueue.                                   *)
(*   "static": one item; scheduling it while it is queued is a no-op, so   *)
(*     runs are lost (s_20/lab2_one_tasklet.c, lab2_one_workqueue.c and    *)
(*     new/lab_platform_interrupt_{tasklet,workqueue}.c).                  *)
(*   "dynamic": the top half allocates an item for every interrupt and the *)
(*     bottom half frees it (s_20/lab3_one_{tasklet,workqueue}_dynamic.c). *)
(*   "all_static", "all_dynamic": the same on every line that can be       *)
(*     shared (s_20/lab4_all_{tasklet,workqueue}.c and                     *)
(*     lab5_all_{tasklet,workqueue}_dynamic.c), where the static item has  *)
(*     one record my_data.irq for all lines.                               *)
(* An item is taken off its queue before its function runs, may be queued  *)
(* again while it runs, and never runs twice at the same time; different   *)
(* items run concurrently.  Tasklets and works differ in one thing: after  *)
(* the function of a tasklet has returned, tasklet_action of a kernel for  *)
(* several CPUs clears the RUN bit in the item.  A worker does not touch a *)
(* work again once it has called its function.                             *)
(***************************************************************************)
EXTENDS Integers, FiniteSets

CONSTANTS Drivers,   \* the drivers a run considers
          MAXIRQS,   \* the lines of the machine (nr_irqs)
          MaxIrq     \* bound: interrupts taken altogether
ASSUME DeferredBHAssumption ==
   /\ Drivers \subseteq {"static", "dynamic", "all_static", "all_dynamic"}
   /\ MAXIRQS \in Nat \ {0} /\ MaxIrq \in Nat \ {0}

Line  == 0..MAXIRQS - 1
Static == <<0, 0>>                             \* the static item
Item  == {Static} \cup (Line \X (1..MaxIrq))   \* <<l, n>>: for the n-th interrupt of l

VARIABLES driver,     \* the one that is loaded
          unlocks,    \* its items are tasklets, and tasklet_unlock is
                      \* more than nothing (CONFIG_SMP, PREEMPT_RT)
          interrupts, \* counter_th of each line; -1 until the line is the driver's
          bhs,        \* counter_bh of each line
          unseen,     \* interrupts of a line that its counter does not show
          irq,        \* my_data.irq, the record the static item reads
          line,       \* "unasked", "asking", "refused", "requested" or "freed"
          next,       \* the loop variable of get_irqs and freeup_irqs
          mod,        \* "loading", "loaded", "unloading", "gone" or "oops"
          data,       \* items that are allocated (the static one always is)
          queued,     \* items with their tasklet or work pending
          running,    \* items whose function has not counted its pass yet
          leaving,    \* items whose function has, and has not returned yet
          unlocking,  \* items whose function has returned, with RUN still set
          top,        \* where my_interrupt is, for each line
          fresh       \* an interrupt was counted since the last run started

admin  == <<line, next, mod>>
counts == <<interrupts, bhs, unseen>>
items  == <<data, queued, running, leaving, unlocking>>
vars   == <<driver, unlocks, counts, irq, admin, items, top, fresh>>

All     == driver \in {"all_static", "all_dynamic"}
Dynamic == driver \in {"dynamic", "all_dynamic"}
Last    == IF All THEN MAXIRQS ELSE 1

(* The interrupts the handler of line l has counted.                       *)
Taken(l)  == interrupts[l] + unseen[l]
ItemOf(l) == IF Dynamic THEN <<l, Taken(l)>> ELSE Static
LineOf(i) == IF Dynamic THEN i[1] ELSE irq

(* The items that are being run, from the first step of their function to  *)
(* the last of what called it.                                             *)
Busy == running \cup leaving \cup unlocking

(* What f adds up to over the lines.                                       *)
SumOver(f) == LET S[Q \in SUBSET Line] == IF Q = {} THEN 0
                     ELSE LET l == CHOOSE k \in Q : TRUE IN f[l] + S[Q \ {l}]
              IN S[Line]

Init == /\ driver \in Drivers /\ irq = 0 /\ next = 0 /\ mod = "loading"
        /\ interrupts = [l \in Line |-> IF All THEN -1 ELSE 0]
        /\ unseen = [l \in Line |-> IF All THEN 1 ELSE 0]
        /\ bhs = [l \in Line |-> 0] /\ line = [l \in Line |-> "unasked"]
        /\ data = (IF Dynamic THEN {} ELSE {Static})
        /\ queued = {} /\ running = {} /\ leaving = {}
        /\ unlocks \in BOOLEAN /\ unlocking = {}
        /\ top = [l \in Line |-> "idle"] /\ fresh = FALSE
-----------------------------------------------------------------------------
(* Plausible bugs, which the properties below must catch.                  *)
TopScheduleOnce(l) ==
   /\ top[l] = "counted" /\ top' = [top EXCEPT ![l] = "idle"]
   /\ queued' = (IF ItemOf(l) \in Busy THEN queued ELSE queued \cup {ItemOf(l)})
   /\ UNCHANGED <<counts, irq, admin, data, running, leaving, unlocking, fresh>>
RunAgain(i)    == /\ i \in queued /\ queued' = queued /\ running' = running \cup {i}
                  /\ fresh' = FALSE /\ UNCHANGED <<counts, irq, admin, data, leaving, unlocking, top>>
ReturnLeaks(i) == /\ i \in leaving /\ leaving' = leaving \ {i}
                  /\ UNCHANGED <<counts, irq, admin, data, queued, running, unlocking, top, fresh>>
CountFrees(i)  == /\ i \in running /\ bhs' = [bhs EXCEPT ![LineOf(i)] = @ + 1]
                  /\ running' = running \ {i} /\ leaving' = leaving \cup {i}
                  /\ data' = (IF Dynamic THEN data \ {i} ELSE data)
                  /\ UNCHANGED <<interrupts, unseen, irq, admin, queued, unlocking, top, fresh>>
FreeIfAbove(l) == /\ mod = "unloading" /\ next = l /\ top[l] = "idle"
                  /\ line' = (IF interrupts[l] > 0 THEN [line EXCEPT ![l] = "freed"] ELSE line)
                  /\ next' = next + 1 /\ UNCHANGED <<counts, irq, mod, items, top, fresh>>
-----------------------------------------------------------------------------
(* The load.  get_irqs asks for every line in turn and goes on when it is  *)
(* refused one; my_generic_init of lab_one_interrupt.h gives up.           *)
Ask(l) == /\ mod = "loading" /\ next = l /\ l < Last /\ line[l] = "unasked"
          /\ \/ /\ line' = [line EXCEPT ![l] = IF All THEN "asking" ELSE "requested"]
                /\ next' = (IF All THEN l ELSE l + 1) /\ mod' = mod
             \/ /\ line' = [line EXCEPT ![l] = "refused"] /\ next' = l + 1
                /\ mod' = (IF All THEN mod ELSE "gone")
          /\ UNCHANGED <<counts, irq, items, top, fresh>>

(* interrupts[irq] is set to 0 when the line is already the driver's: the  *)
(* interrupts it has taken by then are not shown by the counter.           *)
Flag(l) == /\ line[l] = "asking" /\ line' = [line EXCEPT ![l] = "requested"] /\ next' = l + 1
           /\ interrupts' = [interrupts EXCEPT ![l] = 0]
           /\ unseen' = [unseen EXCEPT ![l] = Taken(l)]
           /\ UNCHANGED <<bhs, irq, mod, items, top, fresh>>

Loaded == /\ mod = "loading" /\ next = Last /\ mod' = "loaded"
          /\ UNCHANGED <<counts, irq, line, next, items, top, fresh>>

(* The unload: freeup_irqs waits for each line's handler.  Queued and      *)
(* running items are neither killed nor waited for.                        *)
Unload == /\ mod = "loaded" /\ mod' = "unloading" /\ next' = 0
          /\ UNCHANGED <<counts, irq, line, items, top, fresh>>

Free(l) == /\ mod = "unloading" /\ next = l /\ l < Last /\ top[l] = "idle"
           /\ line' = (IF interrupts[l] >= 0 THEN [line EXCEPT ![l] = "freed"] ELSE line)
           /\ next' = next + 1 /\ UNCHANGED <<counts, irq, mod, items, top, fresh>>

Gone == /\ mod = "unloading" /\ next = Last /\ mod' = "gone"
        /\ UNCHANGED <<counts, irq, line, next, items, top, fresh>>

Admin == Loaded \/ Unload \/ Gone \/ \E l \in Line : Ask(l) \/ Flag(l) \/ Free(l)
-----------------------------------------------------------------------------
CanInterrupt(l) == /\ line[l] \in {"asking", "requested"} /\ mod # "oops"
                   /\ top[l] = "idle"
                   /\ SumOver([k \in Line |-> Taken(k) + (IF top[k] = "recorded" THEN 1 ELSE 0)]) < MaxIrq

(* my_interrupt of the all_static drivers first stores its line.           *)
TopRecord(l) == /\ driver = "all_static" /\ CanInterrupt(l)
                /\ irq' = l /\ top' = [top EXCEPT ![l] = "recorded"]
                /\ UNCHANGED <<counts, admin, items, fresh>>

(* It counts; the dynamic ones have allocated their item, with the result  *)
(* of kmalloc(GFP_ATOMIC) used unchecked.                                  *)
TopCount(l) == /\ IF driver = "all_static" THEN top[l] = "recorded" ELSE CanInterrupt(l)
               /\ interrupts' = [interrupts EXCEPT ![l] = @ + 1] /\ fresh' = TRUE
               /\ data' = (IF Dynamic THEN data \cup {<<l, Taken(l) + 1>>} ELSE data)
               /\ top' = [top EXCEPT ![l] = "counted"]
               /\ UNCHANGED <<bhs, unseen, irq, admin, queued, running, leaving, unlocking>>

AllocFails(l) == /\ Dynamic /\ CanInterrupt(l) /\ mod' = "oops"
                 /\ UNCHANGED <<counts, irq, line, next, items, top, fresh>>

TopSchedule(l) == /\ top[l] = "counted" /\ top' = [top EXCEPT ![l] = "idle"]
                  /\ queued' = queued \cup {ItemOf(l)}
                  /\ UNCHANGED <<counts, irq, admin, data, running, leaving, unlocking, fresh>>

TopFinish(l) == (top[l] = "recorded" /\ TopCount(l)) \/ TopSchedule(l)
TopHalf(l)   == TopRecord(l) \/ TopCount(l) \/ AllocFails(l) \/ TopSchedule(l)
-----------------------------------------------------------------------------
(* A CPU or worker starts the item, unless another one is still running it. *)
Run(i) == /\ i \in queued \ Busy
          /\ queued' = queued \ {i} /\ running' = running \cup {i} /\ fresh' = FALSE
          /\ UNCHANGED <<counts, irq, admin, data, leaving, unlocking, top>>

Count(i) == /\ i \in running /\ bhs' = [bhs EXCEPT ![LineOf(i)] = @ + 1]
            /\ running' = running \ {i} /\ leaving' = leaving \cup {i}
            /\ UNCHANGED <<interrupts, unseen, irq, admin, data, queued, unlocking, top, fresh>>

(* The function returns; the dynamic ones free their item first.           *)
Return(i) == /\ i \in leaving /\ leaving' = leaving \ {i}
             /\ data' = (IF Dynamic THEN data \ {i} ELSE data)
             /\ unlocking' = (IF unlocks THEN unlocking \cup {i} ELSE unlocking)
             /\ UNCHANGED <<counts, irq, admin, queued, running, top, fresh>>

(* tasklet_unlock writes to the item, which the dynamic ones have freed.   *)
Unlock(i) == /\ i \in unlocking /\ unlocking' = unlocking \ {i}
             /\ UNCHANGED <<counts, irq, admin, data, queued, running, leaving, top, fresh>>

(* After the unload the functions' text is gone and their steps undefined. *)
BottomHalf(i) == mod \notin {"gone", "oops"} /\ (Run(i) \/ Count(i) \/ Return(i) \/ Unlock(i))

Next == UNCHANGED <<driver, unlocks>>
        /\ (Admin \/ (\E l \in Line : TopHalf(l)) \/ (\E i \in Item : BottomHalf(i)))

(* A handler that started returns; what is queued is run, and runs to its  *)
(* end.  Load, unload and interrupts are nobody's duty.                    *)
Fairness == /\ \A l \in Line : WF_vars(UNCHANGED <<driver, unlocks>> /\ TopFinish(l))
            /\ \A i \in Item : WF_vars(UNCHANGED <<driver, unlocks>> /\ BottomHalf(i))
Spec == Init /\ [][Next]_vars /\ Fairness
-----------------------------------------------------------------------------
(* An item that is queued or runs is allocated until its function has      *)
(* freed it, however its runs, the next interrupts and those of other      *)
(* lines interleave; and so it is for what called the function, too, with  *)
(* the one exception of the dynamic tasklets on several CPUs.              *)
NoUseAfterFree == /\ queued \cup running \cup leaving \subseteq data
                  /\ ~(Dynamic /\ unlocks) => Busy \subseteq data

(* lab3_one_tasklet_dynamic.c and lab5_all_tasklet_dynamic.c are given as  *)
(* the `dynamic tasklet solution': that needs each tasklet to be there for *)
(* as long as the kernel runs it.                                          *)
ThereWhileRun == Busy \subseteq data

(* With an item per interrupt none is lost and none is leaked: each line's *)
(* halves are called an equal number of times, up to the items in flight   *)
(* and the interrupts that came before get_irqs reset the counter.         *)
EveryItemCounted == Dynamic =>
   /\ \A l \in Line : Taken(l) = bhs[l] + Cardinality({i \in queued \cup running : i[1] = l})
                                 + (IF top[l] = "counted" THEN 1 ELSE 0)
   /\ data \subseteq queued \cup running \cup leaving
                     \cup {ItemOf(l) : l \in {k \in Line : top[k] = "counted"}}

(* The static item may coalesce interrupts, but never drops the last one:  *)
(* an interrupt since the last run started has its item queued.            *)
NoneUnnoticed == fresh => queued # {} \/ \E l \in Line : top[l] # "idle"

(* freeup_irqs tells the lines that are the driver's by their counters: it *)
(* leaves none of them behind.                                             *)
NoLineLeft == mod = "gone" => \A l \in Line : line[l] \notin {"asking", "requested"}

(* All the drivers implement the safety of EventDelivery: they may skip    *)
(* interrupts but never run ahead of them.  The dynamic ones implement all *)
(* of it.                                                                  *)
ED == INSTANCE EventDelivery WITH raised  <- SumOver([l \in Line |-> Taken(l)]),
                                  handled <- SumOver(bhs),
                                  open    <- mod \notin {"gone", "oops"}
ImplementsEventDelivery == ED!ESafety /\ (Dynamic => ED!EFairness)
=============================================================================
