--------------------------- MODULE DriverLifecycle ---------------------------
(***************************************************************************)
(* The life of a driver from its probe (or module init) to its remove (or  *)
(* exit), as a table describes them (see ProbeSteps), and of the calls and *)
(* interrupts that come in through what it has registered.  Managed        *)
(* resources are released by the driver core, in the reverse order, after  *)
(* a probe that failed and after remove.  Removal is that of an rmmod,     *)
(* which an open file of the module prevents (fops.owner).                 *)
(***************************************************************************)
EXTENDS Naturals, SequencesExt

CONSTANTS Tables,    \* a table for each driver
          Drivers    \* the drivers a run considers

Steps  == [get : STRING, managed : BOOLEAN, fails : {"noticed", "unnoticed", "never"}, undo : Seq(STRING)]
Pairs  == SUBSET (STRING \X STRING)
Schema == [probe : Seq(Steps), remove : Seq(STRING), needs : Pairs, pins : BOOLEAN,
           leaks : SUBSET STRING, exposed : Pairs, twice : SUBSET STRING]
ASSUME DriverLifecycleAssumption == \A d \in Drivers : Tables[d] \in Schema

VARIABLES driver,
          phase,   \* "probing", "failing", "bound", "removing" or "unbound"
          step,    \* the step of the probe that is next
          held,    \* what is acquired and not released
          missed,  \* what an unnoticed failure left out
          devres,  \* the managed resources, in the order of acquisition
          todo,    \* the releases that undo or remove still has to make
          calls    \* the registrations with a call or interrupt under way

vars == <<driver, phase, step, held, missed, devres, todo, calls>>

Table   == Tables[driver]
Current == Table.probe[step]

(* Taking a character or UIO device away does not wait for the calls that  *)
(* are under way, nor del_timer for a timer that runs; free_irq,           *)
(* del_timer_sync and the removal of sysfs files do.                       *)
Files    == {"misc", "misc1", "misc2", "cdev", "uio"}
Unwaited == Files \cup {"nosync_a", "nosync_b"}
Waits(r) == r \in calls /\ r \notin Unwaited
Pinned   == Table.pins /\ calls \cap Files # {}

(* The timers whose function adds them again before it returns.            *)
Periodic == {"timer_a", "timer_b", "nosync_a", "nosync_b"}

Init == /\ driver \in Drivers /\ phase = "probing" /\ step = 1
        /\ held = {} /\ missed = {} /\ devres = << >> /\ todo = << >> /\ calls = {}
-----------------------------------------------------------------------------
Probing == phase = "probing" /\ step <= Len(Table.probe)

Acquire == /\ Probing /\ step' = step + 1
           /\ held' = held \cup ({Current.get} \ {""})
           /\ devres' = (IF Current.managed THEN Append(devres, Current.get) ELSE devres)
           /\ UNCHANGED <<phase, missed, todo, calls>>

(* The probe goes on as if it had the resource.                            *)
Miss == /\ Probing /\ Current.fails = "unnoticed" /\ step' = step + 1
        /\ missed' = missed \cup {Current.get}
        /\ UNCHANGED <<phase, held, devres, todo, calls>>

Fail == /\ Probing /\ Current.fails = "noticed"
        /\ phase' = "failing" /\ todo' = Current.undo
        /\ UNCHANGED <<step, held, missed, devres, calls>>

Bind == /\ phase = "probing" /\ step > Len(Table.probe) /\ phase' = "bound"
        /\ UNCHANGED <<step, held, missed, devres, todo, calls>>

MyRemove == /\ phase = "bound" /\ ~Pinned /\ phase' = "removing" /\ todo' = Table.remove
            /\ UNCHANGED <<step, held, missed, devres, calls>>

Leaving == phase \in {"failing", "removing"}

(* One call of undo or remove; that of something missed has no effect      *)
(* here, whatever it does.                                                 *)
Release == /\ Leaving /\ todo # << >> /\ ~Waits(Head(todo))
           /\ held' = held \ {Head(todo)} /\ todo' = Tail(todo)
           /\ UNCHANGED <<phase, step, missed, devres, calls>>

DevresRelease == /\ Leaving /\ todo = << >> /\ devres # << >> /\ ~Waits(Last(devres))
                 /\ held' = held \ {Last(devres)} /\ devres' = Front(devres)
                 /\ UNCHANGED <<phase, step, missed, todo, calls>>

Unbind == /\ Leaving /\ todo = << >> /\ devres = << >> /\ phase' = "unbound"
          /\ UNCHANGED <<step, held, missed, devres, todo, calls>>
-----------------------------------------------------------------------------
Entries == {n[1] : n \in Table.needs}

(* A file of a module that is being removed can no longer be opened.       *)
Open(e)   == e \in held /\ ~(phase = "removing" /\ Table.pins /\ e \in Files)

Enter(e)  == /\ Open(e) /\ e \notin calls /\ calls' = calls \cup {e}
             /\ UNCHANGED <<phase, step, held, missed, devres, todo>>
Return(e) == /\ e \in calls /\ calls' = calls \ {e}
             /\ held' = held \cup ({e} \cap Periodic)
             /\ UNCHANGED <<phase, step, missed, devres, todo>>

Next == /\ UNCHANGED driver
        /\ \/ Acquire \/ Miss \/ Fail \/ Bind \/ MyRemove \/ Release \/ DevresRelease \/ Unbind
           \/ \E e \in Entries : Enter(e) \/ Return(e)

Spec == Init /\ [][Next]_vars
-----------------------------------------------------------------------------
TypeOK == /\ driver \in Drivers /\ phase \in {"probing", "failing", "bound", "removing", "unbound"}
          /\ step \in 1..Len(Table.probe) + 1 /\ calls \subseteq Entries
          /\ held \cap missed = {} /\ ToSet(devres) \subseteq held \cup missed \cup Table.twice

(* Whichever step of the probe fails, and after remove, nothing that was   *)
(* acquired is left behind, but for what the table says of the driver.     *)
NothingLeft == phase = "unbound" => held \subseteq Table.leaks

(* No error path, no remove and not the driver core after them releases    *)
(* what is not held, unless its acquisition failed unnoticed, but for what *)
(* the table says is released twice.                                       *)
ReleasedOnce == Leaving =>
  /\ todo # << >> => Head(todo) \in held \cup missed \cup Table.twice
  /\ todo = << >> /\ devres # << >> => Last(devres) \in held \cup missed \cup Table.twice

(* While calls or interrupts can come in, or are under way, all they use   *)
(* is there, but for the pairs the table says are exposed.                 *)
EntriesReady == \A n \in Table.needs :
  Open(n[1]) \/ n[1] \in calls => n[2] \in held \cup missed \/ n \in Table.exposed
-----------------------------------------------------------------------------
(* What makes the error paths of a table sound, read off its text.  The    *)
(* steps before the i-th have acquired Before(t, i, FALSE) by hand, and    *)
(* Before(t, i, TRUE) for the driver core to release.                      *)
Before(t, i, managed) == {t.probe[j].get : j \in {k \in 1..i - 1 : t.probe[k].managed = managed}} \ {""}

(* The way out after a failure of the i-th step, or after the last.        *)
WayOut(t, i)  == IF i \in DOMAIN t.probe THEN t.probe[i].undo ELSE t.remove
WaysOut(t)    == {i \in DOMAIN t.probe : t.probe[i].fails = "noticed"} \cup {Len(t.probe) + 1}
Once(s, twice) == \A i, j \in DOMAIN s : i # j /\ s[i] = s[j] => s[i] \in twice

Managed(t)    == {i \in DOMAIN t.probe : t.probe[i].managed}
ManagedOnce(t) ==
  /\ \A i \in Managed(t) : t.probe[i].get # ""
  /\ \A i, j \in Managed(t) : i # j /\ t.probe[i].get = t.probe[j].get => t.probe[i].get \in t.twice
  /\ Before(t, Len(t.probe) + 1, TRUE) \cap Before(t, Len(t.probe) + 1, FALSE) \subseteq t.twice

Exact(t, i) == LET out == ToSet(WayOut(t, i)) IN
  /\ Before(t, i, FALSE) \subseteq out \cup t.leaks /\ out \subseteq Before(t, i, FALSE) \cup t.twice
  /\ Once(WayOut(t, i), t.twice)
Paired(t) == /\ \A i \in WaysOut(t) : Exact(t, i)
             /\ ManagedOnce(t)
             /\ {n[1] : n \in t.needs} \cap Periodic \cap Unwaited \subseteq t.leaks

(* Every way out of the driver releases exactly what has been acquired by  *)
(* hand before it, each thing once, but for what the table says.           *)
TablePaired == Paired(Table)
-----------------------------------------------------------------------------
(* What makes the entry points of a table safe, read off its text: all     *)
(* that they use is acquired before the registration they come in through, *)
(* and a way out takes the registration away first and waits for its       *)
(* calls, or leaves what these use in its place.                           *)
Got(t, i) == Before(t, i, TRUE) \cup Before(t, i, FALSE)
AllBefore(t, e, r) == \A j \in DOMAIN t.probe : t.probe[j].get = e =>
  r \in Got(t, j) /\ \A k \in DOMAIN t.probe : t.probe[k].get = r => k < j

(* The remove of a module waits until its files are closed.                *)
ShutOut(t, i, e) == i = Len(t.probe) + 1 /\ t.pins /\ e \in Files \ t.leaks

(* On the i-th way out r stays until e is gone and its calls have returned:*)
(* by hand, or because the driver core releases in the reverse order.      *)
Outlasts(t, i, e, r) ==
  /\ e \notin Unwaited
  /\ \A b \in DOMAIN WayOut(t, i) : WayOut(t, i)[b] = r => \E a \in 1..b - 1 : WayOut(t, i)[a] = e
  /\ r \in Before(t, i, TRUE) =>
       e \in ToSet(WayOut(t, i)) \/ \A j \in DOMAIN t.probe : t.probe[j].get = e => t.probe[j].managed

Ordered(t) == \A n \in t.needs \ t.exposed :
  /\ AllBefore(t, n[1], n[2])
  /\ \A i \in WaysOut(t) : n[1] \in Got(t, i) =>
       \/ ShutOut(t, i, n[1])
       \/ n[2] \notin ToSet(WayOut(t, i)) \cup Before(t, i, TRUE)
       \/ Outlasts(t, i, n[1], n[2])

(* What the entry points of the driver use is acquired before them and     *)
(* released after them, but for the pairs the table exposes.               *)
TableOrdered == Ordered(Table)

(* Every error path and every remove undoes exactly what has been done by  *)
(* hand, each thing once, and in an order in which nothing that an entry   *)
(* point uses goes before it: beside what the table names.  That implies   *)
(* NothingLeft, ReleasedOnce and EntriesReady, whatever the tables are.    *)
TableSound == TablePaired /\ TableOrdered
=============================================================================
