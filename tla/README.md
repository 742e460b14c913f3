# A TLA+ model of linux_kernel_hacks

The repository collects the exercise drivers of three books on Linux device
drivers, ported to an STM32MP1 board: `writing_device_drivers_by_coopj` (labs
`s_02` to `s_35`), `linux_driver_development_by_alberto` (the labs of the first
edition and the drivers of `2nd_edition`) and
`linux_device_drivers_development_by_john_madieu` (`chapter-*`). Nearly every
driver is a separate kernel module. What is hard in them is what happens
between an interrupt handler, its bottom half, the processes inside `read`,
`write` or a sysfs file, and the load and unload. These modules model that.

In this file "the exercise" is the comment at the head of a source file.

## 1. Inventory

| part of the system | state | operations | hard behaviour | what makes it correct |
|---|---|---|---|---|
| one-interrupt drivers, `s_20/lab_one_interrupt.h` and the `lab2_*`, `lab3_*` that include it | `counter_th`, `counter_bh`, `nevents`, `catchup`, `cond`, a tasklet, work or thread | handler, bottom half, `my_generic_init`, `my_generic_exit` | handler and bottom half on two CPUs; an item scheduled while it runs; stopping a thread that sleeps | no event lost, none handled before it was raised, the thread stops |
| all-lines drivers, `s_20/lab_all_interrupt.h`, `lab4_*`, `lab5_*` | per-line counters, one record shared by all lines | `get_irqs`, `freeup_irqs`, handler per line, bottom half | handlers of several lines at once; a line interrupting while it is being set up | every line that was got is freed, no allocated item is lost |
| threaded handler, `s_20/lab6_one_threaded.c` | `nevents`, counters | handler, `thread_fun` | an interrupt while the thread drains | nothing stranded; the drain ends |
| drivers whose reads consume interrupts: `s_20/lab7_uio.c`, `2nd_edition/ltc2422_stm32mp1_trigger.c`, `lab09/LTC2422_dual_trigger_bottom.c` | a count, or `conversion_done` and a mutex | handler, queued work, blocking read | count read, reported and subtracted in separate steps; signals; a mutex held across a wait | every interrupt reported, lost by a fault, or pending; one for each read |
| sleeping drivers, `s_19/lab1_wait_event.c`, `lab1_excl.c`, `lab2_killable.c`, `lab3_poll.c` | `data_ready`, `nsleepers`, a wait queue | read, write, poll, signals | test against wakeup; several readers; signals | a sleeper is served; the count of sleepers is right |
| permits, `s_19/lab1_complete.c`, `lab1_semaphore*.c` | a completion or a semaphore | read, write | overtaking readers, releases without an acquire | permits are conserved and used |
| key driver with a ring, `2nd_edition/int_stm32mp1_key_wait.c`, `lab06/int_key_wait.c` | `hello_keys_buf`, `buf_rd`, `buf_wr` | handler, read | no lock: handler and readers on two CPUs, a ring that wraps and overruns, `buf_rd++` of several readers | indices in the ring and exact, keys in order, no sleep on a key |
| LED class driver, `2nd_edition/keyled_stm32mp1_class.c` | `led_flag`, `task_flag`, `period`, a flashing thread | four sysfs files, two key handlers, remove | writers inside several files at once; one stops a thread that may not have run; a call that overlaps the remove | one LED lit, the thread stopped exactly once, nothing left by remove |
| probe, error paths and remove (init and exit) of the drivers of the three books | what is registered and allocated | probe, each of its error returns, remove, devres; open and release where they acquire | a failure at each step; calls, interrupts and timers before the probe is through, and during the remove | nothing left, nothing released twice, nothing used before it is there |
| RAM-disk character drivers, `lab_char.h` and `lab_miscdev.h` of the sections, `s_02`, `s_04`, `s_17`, `s_18` | `f_pos`, the buffer (one, or one per open file) | read, write, lseek, open, release | a file shared by processes, `pread` and `pwrite` at any position, faults in the middle, boundaries, a buffer that is not there | no call outside the buffer, no byte skipped |
| I2C memory chip, `chapter-07/ee24lc512.c` | one data buffer, `users`, `eep_mutex`, `f_pos` | open, release, read, write, llseek, page transfers | one buffer for all files, transfers that fail, lengths that do not fit their type, the last release | the buffer is the caller's own; transfers stay in a page and in the chip |
| serial mouse, `s_21/lab4_full_mouse_driver.c` | three bytes of a packet, `packet_ready`, `user_pid` | handler, tasklet, open, read, release | the handler against the read, the tasklet against the release, lost bytes | packets are framed, none is read twice |
| DMA copies, `lab08/sdma_*.c`, `2nd_edition/sdma_*.c`, `chapter-12/imx-sdma` | `wbuf`, `rbuf`, a completion, a channel | open, release, write or ioctl, the engine's callback | callback against caller; calls of two processes; memory mapped into a process | a caller gets its own completion and text |
| accelerometer, `lab10/adxl345-spi.c`, `2nd_edition/adxl345_*.c` | the chip's `INT_SOURCE` and `ACT_TAP_STATUS` | threaded handler; sysfs files | taps between two reads, a bus that fails | each tap reported once |
| deferred calls against the exit: timers of `s_11`, tasklets and works of `s_20` and chapter 3 | timer lists, queued items, counters | timer functions, works, init, exit | a callback that re-arms itself or is queued while it runs, against the exit | nothing is called after the module is gone |
| mutual exclusion between modules, `s_12` | a mutex exported by one module | load, unload | - | not modelled |
| netlink, network, block, USB, notifiers (`s_22` to `s_35`) | registrations, buffers | callbacks | - | load and unload modelled, the data paths not |
| register writes of the LED, DAC and expander drivers | registers | one short sequence each | - | not modelled |
| device trees, Makefiles, patches, papers | none | none | none | not modelled |

How the parts meet. A handler passes events to its bottom half through an
atomic counter or flag and an interface of the kernel: `tasklet_schedule`,
`schedule_work`, `wake_up_interruptible`, `IRQ_WAKE_THREAD`. Processes meet the
driver in file operations, on which the kernel takes no lock, and in sysfs
files, which it serialises per file and which it waits for when it removes
them. The load and unload meet everybody: `free_irq` waits for the handler but
not for what the handler has queued; `kthread_stop` waits for the thread.
Modules do not call each other, apart from `s_09` and `s_12`.

## 2. Modules and their correspondence with the code

Everything the kernel does (scheduling a tasklet, queueing a sleeper, devres)
is external to this source and modelled from how the source uses it; the
comments of each module state the rules assumed. One action is one access of a
shared variable or one call of the kernel; printing, `mdelay` and `jiffies` are
left out, and so are the bytes that are copied. In every module actions carry
the names of the functions or of the statement they stand for, and `PROJECT.json`
gives the lines.

| module | models | state in the code |
|---|---|---|
| `EventDelivery` | abstract: what every bottom half promises. Interrupts are raised, each handled at most once and not before it was raised; while the module is loaded each is handled | - |
| `TaskletBH` | `lab3_one_tasklet_improved.c` | `counter_th`, `counter_bh`, `nevents`, `catchup`; `sched` is `TASKLET_STATE_SCHED`; `top` and `bot` are program counters |
| `ThreadBH` | `lab3_one_thread_improved.c` and `lab2_one_thread.c`, selected by `driver` | `cond`, `nevents`, counters; `stop` is `kthread_should_stop()`; `module` is how far `my_init` and `my_exit` have come |
| `DeferredBH` | one event per run: static and allocated tasklets and works, on one line and on all lines | per-line `interrupts` and `bhs`; `line` and `next` are the loops of `get_irqs` and `freeup_irqs`; `data` is what is allocated; `unlocking` are the tasklets whose function has returned and that `tasklet_action` has still to unlock, which a kernel for several CPUs does (`unlocks`) |
| `ThreadedIrqBH` | `lab6_one_threaded.c` and its platform variant | `atomic_t` counters from `-IntMax - 1` to `IntMax`, which wrap; `runthread` is `IRQTF_RUNTHREAD` |
| `SleepLabs` | the four wait-queue drivers of `s_19`, each a record saying in which order it sets and wakes, whom it wakes, what a reader does afterwards | `data_ready`, `nsleepers`, the queue |
| `CountingLabs` | completion, semaphore, read/write semaphore | `count` of the permit, `waiters` |
| `KeyRing` | `hello_keys_isr` and `my_dev_read` of both editions, for any number of readers | the ring and its two indices; `loaded` is the register of `buf_rd++`, whose load, store, test and reset are a step each; `smp` and `storeFirst` are what the CPU and the compiler may do with `buf[buf_wr++] = key` |
| `MCSleepers` | `ThreadBH`, `SleepLabs`, `CountingLabs` and `KeyRing`, for TLC | - |
| `KeyledLeds` | the sysfs files, flashing threads, key handlers and remove of `keyled_stm32mp1_class.c` | `lit` are the pins, `call` the writers inside a store function, `thr` the threads ever started; `crowded` and `raced` tell that two writers have been inside at once, and that two have acted on `task_flag` at once or one was inside during the remove |
| `RamFile` | open, release, read, write and lseek of 22 drivers over a RAM buffer, each a record saying what it tests, whether the position moves, whose the buffer is | `io` is the copy of `f_pos` and the rest of the length that a call works with; its position is that of the file or one of its own (`own`); `wide` is a `size_t` of 64 bits; `covered` are the bytes moved; a buffer is `NoFile` where `kmalloc` has returned none |
| `Eeprom` | `eep_open` to `eep_llseek` and `transacWrite` of `ee24lc512.c` | `data` says whose bytes the one buffer holds and for which purpose; `LenT` stands for the 65536 values of a message's length; `plan` are the transfers of a write that are still to make |
| `MouseLab` | `my_interrupt`, `t_fun`, open, read and release of the mouse driver | `uart` is the FIFO of the UART; a byte is the number of its packet and its place in it |
| `MCDataPaths` | these three, for TLC | - |
| `DeferredExit` | 28 modules with something that is called later, each a record: what queues it, whether it re-arms or frees itself, which calls the exit makes | `queued`, `cb` (where a callback is), `memory`, `exitTodo`; `wild` names what has gone out of bounds |
| `EventReads` | the three drivers whose read consumes interrupts | `pending` is `nevents` or the flag; `epc` are the readers |
| `DmaCopy` | six DMA drivers, each a record saying who compares, when the completion is initialised, who frees | `done` is that of the completion, `chan` the queue of the engine, `callback` where the callback is |
| `Accel` | the tap handlers of three drivers | `source` and `status` are registers of the chip |
| `MCDevices` | these four and `ThreadedIrqBH`, for TLC | - |
| `ProbeSteps`, `SecondEdition`, `FirstEdition`, `ThirdBook`, `ModuleLabs` | the words for, and then one table per driver of: what each step of its probe or init gets, whether the code notices a failure, what that error path releases, what remove or exit releases, what its entry points use | the resources |
| `DriverLifecycle` | the driver core that runs a table: any step fails, devres releases in reverse order, calls, interrupts and timers come in through what is registered | `held`, `devres`, `todo`, `calls` |
| `MCDriverLifecycle` | all the tables together, and `KeyledLeds`, for TLC | - |
| `TaskletBHProofs`, `ThreadBHProofs`, `DeferredBHProofs`, `DriverLifecycleProofs` | theorems about the module of that name | - |
| `SleepersProofs`, `KeyledLedsProofs`, `DataPathsProofs`, `DevicesProofs` | theorems about `SleepLabs`, `CountingLabs` and `KeyRing`; about `KeyledLeds`; and about the modules that `MCDataPaths` and `MCDevices` check | - |

Where an MC module joins several modules, `part` says which one's driver is
loaded. Only that one takes steps; the others have one initial state and stay
in it, so that the run is the sum of the parts and not their product.

`TaskletBH`, `ThreadBH` and `DeferredBH` instantiate `EventDelivery` with a
refinement mapping (`ED == INSTANCE EventDelivery WITH raised <- ..., handled
<- ..., open <- ...`): interrupts counted by the handler are raised, passes of
the bottom half are handled, and the abstract module is open until the line is
freed. `DriverLifecycle` takes the tables as a constant, so that its theorems
are about any tables; `MCDriverLifecycle` gives it those of the repository.

A table also names what its driver does wrong: `leaks` is what some path leaves
behind, `twice` what is released by hand and again, and `exposed` what some
entry point may use before it is there or after it is gone. The invariants
allow exactly these, and each entry is needed: without it the run fails. So the
tables are also the list of such faults:

| driver | left behind or exposed |
|---|---|
| `led_stm32mp1_platform.c`, `led_stm32mp1_UIO_platform.c`, `ledRGB_stm32mp1_class_platform.c` | the clocks stay prepared for ever |
| `ledRGB_stm32mp1_platform.c` | the same; `private` is set after `misc_register` (line 432); an error return leaves the first misc device, over memory that devres frees |
| `keyled_stm32mp1_class.c` | an error leaves the class, the minors and devices: plain returns undo nothing, and line 478 releases `num_leds` minors; device pointers are tested for NULL where errors are error pointers; `private` is set after the files are there |
| `ltc3206_stm32mp1_led_class.c` | the attribute group stays when a LED's memory or name is refused |
| `sdma_stm32mp1_mmap.c`, `sdma_stm32mp1_m2m.c` | the DMA channel stays when `misc_register` fails; the file operations of the latter have no `owner`, so the module can go under a write |
| `ltc2422_stm32mp1_trigger.c` | `conversion_done` is reset after interrupts and reads may come (line 144) |
| `adxl345_stm32mp1.c` | the attributes exist before the driver data they look up (lines 491 and 614) |
| `lab04/helloworld_class_driver.c` | destroys the class that it has just unregistered, and never deletes the cdev |
| `lab05/led_platform.c` | one of three mappings is never undone, none when the device is refused |
| `lab05/led_sysfs_platform.c`, `lab06/led_sysfs_key_platform.c` | the file stays when the device is refused, over memory that devres frees; in the latter the gpios stay too |
| `lab08/sdma_*.c` | the device is registered before its buffers and channel, and stays when these are refused |
| `lab09/LTC2422_dual_trigger_bottom.c` | the work queue is destroyed (line 159) under an interrupt that devres frees later |
| `lab10/adxl345-spi.c` | the attributes exist before the driver data; remove leaves the chip measuring |
| chapters 4 and 5, `*-char.c` | the cdev stays when the device is refused |
| chapters 5 to 22, `*-ins.c` | exit gives back the allocation and never deletes the device |
| `chapter-07/ee24lc512.c` | managed memory is freed by hand too; the character device is never unregistered |
| `chapter-12/imx-sdma/*.c` | a refused buffer leaves what `open` has got so far |
| `chapter-17/input-button.c` | the input device is freed twice, and under an interrupt that still uses it (line 121); error returns leave it, and a gpio |
| `chapter-17/input-polled-button.c`, `chapter-22/fake-eth.c` | an error return leaves the gpio; the net device |
| `s_04/lab6_misc.c`, `s_20/lab_all_interrupt.h` | the ramdisk stays when the device is refused |
| `s_11/lab4_periodic_timers_alt.c`, `new/lab4_periodic_timers_alt_new.c` | `del_timer` does not wait for a timer that runs: its data are freed under it, and it adds itself again |
| `s_14/lab3_proc_solB.c` | the first file stays when the second is refused |
| `s_20/lab2_one_thread.c`, `lab3_one_thread_improved*.c`, `new/lab_platform_interrupt_thread.c` | an error leaves the kernel thread running |
| `s_20/lab_one_interrupt_gpio.h` and the `*_gpio.c` beside it, `t_01/fc_03.c`, `hs_cdsm.c` | a refused interrupt leaves the gpio |
| `s_20/lab7_uio.c` | the interrupt stays when the character device is refused |
| `s_21/lab4_serial.c`, `lab4_full_mouse_driver.c` | error returns leave the interrupt and the ports; exit leaves the cdevs, and the latter gives back its region twice |
| `s_35/lab2_block.c` | both error returns leave the request queue |
| `t_01/hc_sr04.c` | error returns leave the class and the pins; the class files start a measurement before the pins and the interrupt are there, and after |

## 3. Runs

| run | asks | shows |
|---|---|---|
| `tasklet_bh` | does the catch-up tasklet lose, strand or invent events? | `Accounting`, `NoStrandedEvent`, and that it implements `EventDelivery` with its liveness |
| `thread_bh_drain` (violation) | is every event drained? | `EventsDrain` fails: `cond` is cleared at line 63 after the interrupt set it |
| `deferred_bh` | static and allocated items, one line and all | `NoUseAfterFree` and `EveryItemCounted`: an allocated item is not queued or run after its free, nor, of a work or on one CPU, used by the kernel after that, and it is neither lost nor leaked; `NoneUnnoticed`: a static one skips interrupts but not the last; `NoLineLeft`: the unload leaves no line; the safety of `EventDelivery`, and for the dynamic ones its liveness |
| `tasklet_freed` (violation) | is a dynamic tasklet there for as long as the kernel runs it? | `ThereWhileRun` fails: `t_fun` frees the structure that its `tasklet_struct` is part of, and `tasklet_action` of a kernel for several CPUs unlocks it after that |
| `sleepers` | threads, and readers of wait queues, permits and the key ring, with overlapping calls and signals, the load and the unload | of both threads `Accounting`, `NoMissedWake`, `StopTerminates` and the safety of `EventDelivery`; `SleeperDrains`: an interrupt that finds the thread asleep has its events drained; `NsleepersExact`; `WaiterServed`: the driver that sets before it wakes serves its sleepers, the poll driver at the next write; `PermitsConserved`, `PermitUsed`: permits are conserved and not left free under a waiter; `KeysExact`: `buf_wr` is exact always, also after an overrun, `buf_rd` until two readers are past the wait together, it is beyond the ring only while a reader is about to wrap it, and keys keep their order (one CPU, no overrun, no overlap); `KeyServed`: nobody sleeps on a key that the indices show |
| `sleep_lost` (violation) | is a sleeper served? | `SleeperServed` fails for `lab3_poll.c`: it wakes before it sets |
| `data_paths` | two processes in the RAM, chip and mouse drivers, with faults, positioned calls and buffers that could not be allocated | `FileInBounds`: buffers are freed once, and the drivers that test a length stay in theirs, but for a positioned call past the end; `NoByteSkipped`; `EepOwnBuffer`: what a call sends, or has fetched by a transfer of fewer than 65536 bytes that succeeded, is its own; and `EepSegmentsExact` for writes that are not shorter than the rest of their page; `PacketsFramed`: as long as the UART drops nothing, and what still holds when it does |
| `ram_file_end` (violation) | does the test of the length keep every call in the buffer? | `NotOffTheEnd` fails: past the end `maxbytes` is a negative `int`, which is a large number beside the `size_t` `lbuf` |
| `eeprom_end` (violation) | does a write stay in the chip? | `EepNotBeyondEnd` fails: `count - remain_in_page` is unsigned and wraps (line 233) |
| `devices` | callbacks and interrupts against reads, copies and exits | `NoneOutlives`: nothing is called or allocated after an exit that waits for each of its items; `UnloadReturns`: and that exit returns; `EventsAccounted`; `DmaExact`: completions and texts go to their own caller, as long as calls come one at a time; `TapOnce`; for the threaded handler `AccountingModulo`, `NoStrandedEvent` and `RunTerminates` |
| `threaded_irq_ahead` (violation) | does the threaded handler only consume what was produced? | `HandledNotAhead` fails: the thread decrements before it tests |
| `driver_lifecycle` | each of 126 probes and inits, every step failing or not; and the LED class driver between its probe and its remove | `NothingLeft`, `ReleasedOnce`, `EntriesReady`, beside what the tables name; `TableSound`, the hypotheses of the theorems about them. `AtMostOneLit`, until two writers have been inside together; `TaskFlagExact`, until two have acted on `task_flag` at once: no thread is stopped twice; `RemovedIsQuiet`, of a remove that no call overlaps; `StopReturns` |

`thread_bh_drain`, `sleep_lost` and `threaded_irq_ahead` are disagreements between
an exercise and its solution; `tasklet_freed`, `ram_file_end` and `eeprom_end` are
bugs against what the code says of itself. Each finding quotes the line.

Some properties hold only without a race that the driver does not exclude
(`overlap`, `crossed`, `together`, `paired`, `crowded`, `raced`: two calls have been
in the same section). The race itself is in the model, and so is what still holds
after it: `buf_wr`, and a `buf_rd` that comes back into the ring; a store that
`kthread_stop` lets go; an LED that `led_flag` or a thread accounts for; the sum of
the events, the framing of the packets. What it breaks is listed in section 5.

### Bounds

Interrupts (`MaxIrq` 3 to 5, `MaxKeys`, `MaxEvents` 3), writes (`MaxWrites` 4),
reads past a wait (`MaxFetches` 4), DMA copies (`MaxCopies` 3), taps (`MaxTaps`
4), packets (`MaxPackets` 3), failed copies (`MaxMouseFaults` 1) and flashing
threads (`Tasks`) are counters of a history and are bounded in the guards. The
bounds are large enough for the cases of interest:

- Five interrupts let the tasklet be scheduled before, in the middle of and
  after a drain, and a drain take several events, before the next schedule; a
  race in these drivers needs two interrupts and one pass.
- `MAXIRQS = 2` and three interrupts: a handler of one line overwrites the
  record of the other while the tasklet is running; one line can be refused.
- `IntMax = 7` and four interrupts: `nevents` goes below zero and wraps (2^31 - 1
  in the kernel).
- `MAX_KEY_STATES = 2` and two keys: both indices wrap, and the ring is overrun,
  because one with two unread keys looks empty. Two readers both see the same key,
  lose an increment, and go past `buf_wr`.
- Two readers, one poller and two writers in `SleepLabs`, with signals; three
  readers in `CountingLabs`, so that one may overtake the one that was woken
  while another still queues.
- `KeyledLeds` is checked in two parts of `MCDriverLifecycle`. One writer (`Loner`)
  on two LEDs, with two threads: one flashing LED replaced by another; the periods 2
  and 3, which the keys change in steps of 1. And two writers inside together on one
  LED (`Lamp`), with two threads that are started in order, one period, and without
  "set off" and the arguments that are refused; of the two writers, which are alike,
  only the first may be the driver core that removes. The theorems are about all of it.
- `RamSize`, `MaxLen` and `MaxPos` 2, two processes, on one file or two: a call
  starts inside, at the end and is clipped; two calls store positions in either
  order. `Offsets` 1 and 3: a positioned call starts inside or past the end.
  `IntMax = 2`, an `int` from -3 to 2, with a `size_t` as wide and one of twice the
  bits (`wide`).
- `EEP_SIZE = 6` with pages of 3: a write starts on a page or inside one,
  crosses one boundary, or ends at the end of the chip. `SizeT = 15` stands for
  2^32: more than twice the chip, and a multiple of the page, as in the code.
  `LenT = 6`: the length of the whole chip is the first that does not fit.
- `FifoSize = 2` is less than a packet, so the UART drops bytes; three packets
  let the driver lose its place and find it again.
- `MaxItems = 2`: an item is queued, runs and is queued again while another is
  waiting; the timers of `s_11` that have one item have one.
- Two readers and three interrupts in `EventReads`: two reads subtract the same
  count, and a third interrupt comes between. Two copiers and three copies in
  `DmaCopy`: a callback late for one call meets the next.
- Two children per device in the tables: the second fails when the first is
  already registered. Each probe is finite, and each entry point is used by at
  most one call at a time; no other bound is needed.

The systems may stop (no interrupt has to come, nobody has to call), so
deadlock is not checked.

### Fairness

Only what the scheduler owes: a handler that has started returns, a scheduled
tasklet, work, timer or flagged thread is run, a process awake inside a system
call gets the CPU. No interrupt, call, signal, load or unload is ever fair. All
of it is weak fairness but for the steps of an exit in `DeferredExit`
(`ExitSteps`): `del_timer_sync` meets a timer that re-arms itself either in the
list or in its callback, and goes on in the first case only. An exit tries again
and again, and a timer spends all but an instant of its period in the list;
hence strong fairness. `ThreadedIrqBH!RunTerminates` holds because the wrapping counter
comes round, not because the code tests it. In a joint run the fairness of a
part that is not loaded asks nothing, because nobody is in a call there; that of
`DeferredExit`, where init is always under way, is asked only of its own part.

## 4. Proofs

TLAPS proves, for every number of interrupts, keys, packets, taps, calls and
processes, and every size of ring, buffer, chip and counter, the theorems below.
Each module says `Init => Inv`, `Inv /\ [Next]_vars => Inv'`, with one step per
action, and `Inv => ` the property; what follows is what the invariant needs
beside the property, and why.

Bottom halves:

- `TaskletBHProofs`: `TypeCorrect`, `EventsAccounted`, `NoneStranded`,
  `Refinement` (`Spec => ED!ESafety`). The inductive invariant is
  `TypeOK /\ Accounting /\ NoStrandedEvent /\ LoopHasWork`. `Accounting` and
  `NoStrandedEvent` alone are not inductive: `BotDec` decrements `nevents`
  without a test, and it is `LoopHasWork` (inside the loop there is at least one
  event, because only the loop takes events away) that keeps it natural.
- `ThreadBHProofs`: `TypeCorrect`, `EventsAccounted`, `WakeupsKept`,
  `ThreadGone` (the line is freed only after the thread has returned),
  `NotAhead`, and `Refinement` (`Spec => ImplementsEventDelivery`). The
  invariant also has `NothingBeforeRequest`: the counters are reset after the
  thread has been started, which is harmless only because the thread does
  nothing before the line is requested; and, for the thread that has only a
  flag, `BasicCredit`: a pass it still owes because of `cond`, and the passes it
  has made, are covered by interrupts.
- `DeferredBHProofs`: `UsedWhileAllocated`, `EachItemCounted`, `LastIsNoticed`,
  `EveryLineFreed` and `Refinement` (`Spec => ED!ESafety`). Three invariants on
  top of the types: for memory (an item is queued, running or leaving, never two
  of these; what is there is allocated; and it was taken before the count of its
  line), for the loop of the load and unload (which lines are behind `next`, and
  in which state), and for the count. The last says that the interrupts of a line
  are the passes made plus the items in existence, as a cardinality; each action
  moves one item from one set to the other or adds one to both sides. The
  refinement needs a fourth, `Credit`: the passes made, those queued or under
  way and those a handler is about to queue are covered by interrupts. It holds
  of the sum over the lines only: the static item of `lab4_all_tasklet.c` counts
  its pass for whichever line has interrupted last, so that a single line may
  show more passes than interrupts.

  What a tasklet is used for after its function says a part of its own (`UInv`):
  there is such a use only where the kernel unlocks tasklets, and a static item,
  which nobody frees, survives it. `UsedWhileAllocated` excludes the dynamic tasklets
  of such a kernel from that part and from no other; for them it is false
  (`tasklet_freed`).

A step of these drivers maps to a step of `EventDelivery` or to a stutter
(`StepSimulation`): the counting of an interrupt to `Raise`, a pass to `Handle`,
the freeing of the (last) line to `Close`; `Handle`'s guard `handled < raised` is
what `Accounting` and `LoopHasWork`, `BasicCredit`, or `Credit` give.

Drivers whose readers sleep:

- `SleepersProofs`, `SleepersCounted`: the queue holds sleepers only, and each
  once (`QueueAsleep`); otherwise a wakeup could put a reader that has counted
  itself out back before the wait, and `nsleepers` would be one short.
- `PermitsKept`: conservation alone is nearly inductive, but would also hold of a
  reader that takes a permit without a test; so the invariant says of the
  completion that `count` never goes below zero.
- `KeysSentExactly`: `buf_wr` is the number of keys stored, modulo the size of the
  ring and one too far between its increment and its wrap (`WriteInv`); and who has
  stored a `buf_rd` beyond the ring has the wrap still before it (`BeyondInv`). These
  two hold always. What `buf_rd` says of the keys taken holds until two readers have
  been past the wait together, because one alone finds at each step of `buf_rd++`
  what it has left there (`AloneInv`); after that an increment may be lost. While,
  besides, there is one CPU and no overrun, `OneCpuInv` says that the slots from
  `buf_rd` to `buf_wr` hold the keys that nobody has taken, in order.
- `WakeupNotLost` and `WakeUpReachesAll` are what `WaiterServed` needs besides
  fairness: in the drivers that wait by `wait_event`, a reader asleep while
  `data_ready` is set has a writer between its assignment and its wakeup, and a
  wakeup of all leaves nobody asleep. The invariant adds to that of
  `SleepersCounted` that every sleeper is in the queue (`SleepersQueued`); the
  two directions are kept by different steps.
- `PermitNotIdle`, the same for `PermitUsed`: while a reader waits, the completion
  has at most as many permits as readers that have been woken and not yet run, and
  the semaphore has none. A reader woken twice would break the count, so the
  invariant says that the queue holds each waiting reader once (`PermitQueue`).
- `KeyWakeNotLost`, the same for `KeyServed`: a reader asleep beside a key has
  `hello_keys_isr` past the advance of `buf_wr` and before its wakeup. This holds on
  two CPUs and for either order of the stores, as long as the ring has not been
  full and no two readers have been past the wait together: then there are fewer
  unread keys than slots (`NotFull`), and equal indices mean an empty ring
  (`AsleepOnEmpty`).
- `CompletionDelivers` and `KeysDelivered`: the completion driver
  (`PermitED!ESafety`: a write is `Raise`, a read past its wait `Handle`) and the
  ring (`KeyED!ESafety`: a key stored, a key taken out) implement
  `EventDelivery` without its fairness. For the ring that is under `[]Calm`: not
  full, one CPU, one reader past the wait at a time; beyond it two readers send the
  same key (section 5), and no mapping exists. The semaphore does not implement
  it, because `up` hands its permit over in the same step.

- `KeyledLedsProofs`: `OneLedAtATime`, `FlagTellsTheThread`,
  `NothingIsLeftOn`, for any number of writers inside the files together, without a
  hypothesis: what a race breaks is exempt from the moment of that race, which the
  model records (`History`), and nothing else is. The invariant has a part for each
  kind of race. Until two have acted on `task_flag` at once, whoever acts on it knows
  at each place where the thread is (`Busy`), and while nobody does, no thread flashes
  but the one in `task`, and that one exactly while `task_flag` is set (`Calm`); this
  is `TaskInv`. Until two have been inside at once, a thread that flashes owns the
  light, and else every place of a store function says what may be lit (`LightInv`).
  Whatever has overlapped, an LED lit beside a clear `led_flag` has a thread that
  will switch it off or a writer that will set the flag (`FlagInv`), which is why
  `my_remove` may skip its loop when the flag is clear; what that loop has still to
  switch off is `RemoveInv`.
- `StopComesNearer` has no exemption at all: whatever writers do together, who
  waits in `kthread_stop` waits for a thread that was started and told to stop,
  nobody takes that back, and each step of the thread lowers the number of
  statements it is away from returning (`Rank`). It is what `StopReturns` needs
  besides fairness, and shows that the wait ends however `task` and `task_flag`
  have been muddled.

Data paths:

- `DataPathsProofs`, `FilesInBounds` and `NoneSkipped`: a call works with a copy
  of the position, so the invariant speaks about the copy. Its length was clipped
  with the position it started from; a position of the call's own (`pread`,
  `pwrite`) may lie past the end, and then either nothing is copied or the driver is
  one that clips, whose unsigned comparison lets the whole length by (`Fits`). The position
  a call of the file started from was reached, and what it has moved since is covered
  (`Follows`); then storing any call's copy, in any order, keeps both properties.
  `Owned` pairs buffers with files, those that were refused left out.
- `BufferIsOwn`: the number of users is the cardinality of the set of open files
  (`UsersCounted`), so that only the last release frees; a call holds the mutex
  and stays in the chip (`CallSound`). What the buffer holds is said of every write
  about to be sent, and of a read whose transfer succeeded and moved something: one to
  `LenT - 1` bytes.
- `SegmentsCutExactly`: the transfers made and those still planned are together
  those of the whole write (`CallCut`), so the theorem is one about the list:
  where its n-th transfer starts and ends, and that none crosses a page. The
  property says "what is sent before" with an upper end (`SentUpTo`) rather than
  with a sum, which would need induction.
- `PacketsKept`: the bytes in the UART, the next one of the mouse and those in
  `my_state` follow each other (`Ordered`, `Framed`), as long as none is
  dropped; the interrupt is disabled by exactly the reads that copy or have
  failed (`DisableInv`), so the handler is out while one copies; a packet that is
  announced is newer than the one read last (`NewInv`).

Devices and exits:

- `DevicesProofs`, `TapsOnce`: where the handler is, the line and the last report
  are in an order (`Ordered`, `Progress`), and taps are reported, merged or under
  way (`Balanced`).
- `EventsBalance` and `NoEventStranded`: the balance of the counters holds as a
  congruence, which every step keeps, because wrapping changes a counter by whole
  periods.
- `InterruptsAccountedFor`: what the reads have subtracted and not yet reported is
  a sum over the processes, so that the balance holds also where two reads
  subtract the same count and it goes below zero (`Account`); under the mutex each read has an
  interrupt of its own (`Own`, `Mutex`).
- `EventWakesReader`: no process sleeps beside an event. The count of `lab7_uio.c`
  is exempt once two reads have subtracted the same value: then a subtraction of a
  negative number raises it, and nobody is woken.
- `ConversionsDelivered`: the converters implement `EventDelivery` without its
  fairness (`EventED!ESafety`: an interrupt is `Raise`, a read past its wait
  `Handle`), as long as no two reads are past the wait together, which the mutex
  of the second edition ensures. `lab7_uio.c` does not: it reports several
  interrupts in one read.
- `DmaCopiesExactly`: as long as calls have not crossed, a call that waits, or is
  about to, has exactly one signal coming, in the engine, the callback or the
  completion, and otherwise there is none (`Awaited`).
- `NothingOutlivesItsModule`: where the exit waits for all, some wait is still
  before it for each item that is alive (`WaitInv`). Nobody but the item itself
  queues it once the exit has begun: the drivers that wait for all are not those
  that queue from an interrupt, and a wait passes only when the item is neither
  queued nor running. What follows what in an exit (`ExitLeft`), and that the
  drivers that allocate per item free it in the item, are read off the 28 records
  (`DriversOK`).
- `UnloadComesNearer` is what `UnloadReturns` needs besides fairness: the work whose
  condition `init` waits for is queued or about to set it; a counter that exit polls
  is not zero only while an item is queued or before the end of its callback
  (`CountInv`); and while exit drains or polls, nothing is queued again and every
  step of a callback lowers the number of steps left (`Left`). For an exit that
  synchronises with a timer which arms itself again no such number exists: that it
  meets the timer in the list is strong fairness (section 3), and stays with TLC.

Sums over finite sets (`SumOver`, `Total`) are recursive functions on the subsets
of a set. The proofs take a function that satisfies the recursion as a witness,
and show by a least counterexample that it is the only one; that needs no
induction theorem with an operator as parameter.

Assumptions: bounds are natural numbers; the driver is of a kind the module
knows; no process has the name that stands for nobody. Beyond that: readers and
pollers are different processes; the ring has a slot; the chip is a whole number
of pages, and `SizeT` is a multiple of the page and more than twice the chip (so
that a count that has wrapped is told from one that has not); the length
of a message has at least as many values as the chip has bytes; the buffer and the
lengths of calls fit an `int`; a flashing period
plus one step fits its `u32`; `MaxIrq <= IntMax`; the processes of `EventReads`
are finitely many; and `MaxItems >= 2`, because some exits cancel a second item.
TLC evaluates all of them on the runs.

For tables of any drivers:

- `DriverLifecycleProofs`: `PairedLeavesNothing` and `PairedReleasesOnce`. If
  the table of the driver is `Paired`, which is read off its text (each way out
  names what the steps before it have acquired by hand, each thing once, but
  for what the table names), then no failure, call, interrupt or timer makes it
  leave something behind or release it twice. The invariant says what is held in each
  phase: until the way out is taken, what the steps have acquired, less what
  they missed (`RunningExact`); on the way out, what is still to be released
  (`LeavingExact`); and that the calls under way came in through what is held
  or is not waited for (`CallsHeld`). The last is needed because a periodic
  timer that returns puts itself back: harmless under `del_timer_sync`, which
  waits, and a leak under `del_timer`.
- `OrderedIsReady`: if the table is `Ordered` as well, no entry point finds what
  it uses missing. That, too, is read off the text: each thing an entry point
  uses is acquired before the entry point, and on every way out either the files
  are shut, or the thing stays, or it is released after the entry point, by hand
  or by devres in reverse order (`Outlasts`). The invariant (`ReadyInv`) carries
  this order over to what is still to be released (`Ahead`) and to the list of
  the driver core (`CoreOrdered`).
- The assumption is that a table has the fields it should have. That each table of
  the repository is `Paired` and `Ordered` is `TableSound`, a finite computation
  which the run makes. The pairs a table exposes are exactly those that are not
  ordered: the condition is not stronger than it has to be.

Model-checked only: all liveness, for which the provers have no `ENABLED`, and
with it `EventDelivery`'s fairness (of `WaiterServed`, `PermitUsed`, `KeyServed`,
`StopReturns` and `UnloadReturns` the parts that are safety are proved); and
`TableSound`. Every other invariant of
the passing runs is stated by a theorem.

## 5. Known divergences without a run

Most of them are in the model; the properties are stated so that they hold beside
them:

- `lab2_one_thread.c:79`: an interrupt between the end of a pass and the reset
  of `cond` gets no bottom half. The exercise says that bottom halves are lost.
- `lab2_killable.c:59`: `wake_up_interruptible` does not wake a killable
  sleeper; only a fatal signal does.
- `lab1_excl.c:90`: wakes before it sets, like `lab3_poll.c`.
- `lab1_semaphore.c:65`: the first reader does not sleep, the semaphore starts
  at one. `lab1_semaphore_rw.c:82`: releases a lock that was not taken.
- `lab_all_interrupt.h:89`: interrupts before the reset of the counter are
  handled but not counted (`unseen`).
- `lab5_all_tasklet_dynamic.c:39` frees its tasklet as `lab3_one_tasklet_dynamic.c:42`
  does, which the run `tasklet_freed` is about.
- `int_stm32mp1_key_wait.c`: a full ring looks empty. Two readers past the wait send
  the same key, and of their two `buf_rd++` (lines 86 to 88) one may be lost; both may
  store before either tests, and between a store and its wrap another reader sends
  `hello_keys_buf[MAX_KEY_STATES]` or what lies further behind the array. A reader on
  another CPU may see `buf_wr = MAX_KEY_STATES` before it is wrapped, or the index
  before the key.
- `keyled_stm32mp1_class.c`: two overlapping calls of `blink_on_led_store` start two
  threads, of which only the one in `task` can ever be stopped; two that stop (lines
  93, 173 and 490) call `kthread_stop` on a thread that is gone; two writers may light
  two LEDs; and a call that overlaps `my_remove`, which stops the thread before the
  files are gone, leaves a thread behind whose module is freed. Each is in the run,
  where the exemption of its property begins at that race.
- `lab_platform_interrupt_thread.c:105` passes `dev` to a handler that writes
  through it as `struct my_dat`.
- `s_17/lab1_cache.c`: one global pointer for the object of every open file: a
  second open leaks the first object, and two releases free the second twice.
- `lseek` of the RAM-disk drivers: where `size_t` has 64 bits a negative position
  compares as a large one and is clamped to the end, not to zero.
- `s_18/lab2_usermap.c` ignores the position, tests no length, and uses pages
  without looking at what `get_user_pages` returned.
- `ee24lc512.c`: a read whose transfer failed hands over what another call has
  left in the shared buffer; a failed write leaves `f_pos`. A read of the whole chip
  does the same: `msg[1].len` (line 156) is a `__u16`, so that 65536 bytes are none.
- `lab2_priv.c:45`, `lab_char.h:138` and their like do not look at what `kmalloc`
  returned: the open or the load succeeds, and the first read or write oopses.
- Exits that wait for nothing, or not for everything: `del_timer` in
  `lab4_periodic_timers_alt.c`, its `new` version and chapter 3's standard timer;
  chapter 3's wait queue, shared work queue (whose work frees the queue head that
  `init` waits on, and never sets `sleep`) and user invocation; `lab1_tasklet.c`,
  `lab1_workqueue_shared.c` and the one-interrupt drivers of `s_20`; the dynamic work driver with a gpio cancels
  `my_data.work`, which is never queued. `lab1_timer.c` initialises a timer
  that may be pending; the last lines of a callback of the multi-timer lab may
  run after the module that polled their counter is gone.
- `ltc2422_stm32mp1_trigger.c`: a signal leaves the mutex held, and every later
  read waits; a conversion between the transfer and the clearing of the flag is
  lost. `lab7_uio.c`: two readers subtract the same count, which goes below zero.
- The DMA drivers take no lock: a second call initialises the completion under
  the first. A callback that compares after it completes may judge the text of
  the next call; that of the scatter/gather driver does not complete when it
  finds a difference, and its caller waits for ever; a failed submit leaves the
  mappings. `sdma_stm32mp1_mmap.c`: a second ioctl uses buffers that the first
  has freed, an `-EINVAL` leaks them, a second open overwrites them; `lab08/sdma_mmap.c` maps
  `dma_src` before it is set.
- The two input drivers of the accelerometer take a negative error number for
  the register's bits; the IIO driver returns it as an `irqreturn_t`.
- `lab4_full_mouse_driver.c`: a packet can be torn between two; a failed
  `copy_to_user` leaves the interrupt disabled for good; a tasklet scheduled
  between the `tasklet_kill` and the next line of the release signals nobody; two
  opens share `user_pid`.

## 6. Not modelled

What code does after its module is gone, or through a pointer that is no
pointer, is undefined. There the model stops: `module = "failed"`,
`mod = "oops"`, `thr = "error"`. Removing a driver by unbinding it through
sysfs, which an open file does not prevent, is not modelled: `MyRemove` is that
of an `rmmod`. Register accesses, the bytes copied and what is printed are left
out. Without a table are `chapter-11`, `chapter-13/sysfs-poll` and
`chapter-20/dummy-regulator.c`; of `chapter-03` the init and exit are in
`DeferredExit`.

Not modelled, because each operation is a call or a short sequence for one
value, with no state that two steps share: the writes and lists of `s_03`, `s_07`
and `s_08`; the other transfers, mappings and relay files of `s_18`; the ioctl, proc and
probe callbacks of `s_09`, `s_10`, `s_13` and `s_14`; the memory, PCI and DMA labs
of `s_17`, `s_22`, `s_23` and `s_25`, which acquire, print and release; the
register writes of the LED, DAC and expander drivers and the second edition's
list; the samples, rate and calibration of the accelerometer (`Accel` is
partial); the statistics and the one call of the network and netlink labs
(`s_26`, `s_27`). What is hard in the mutexes of `s_12` and in `lab8_uio_api.c` is
the kernel's. `chapter-20/dummy-regulator.c` keeps pointers to the stack of its
probe, and `imx-sdma-scatter-gather` submits a descriptor that it never
initialises: both are undefined from there on. Device trees, Makefiles, patches
and papers have no state.

Not modelled yet: the echo interrupt of `t_01/hc_sr04.c`, which stamps two times
that a reader polls for, and the thread and threaded handler on all lines
(`lab4_all_thread.c`, `lab6_all_threaded.c`), whose loops are in `DeferredBH` and
whose handlers are in `ThreadBH` and `ThreadedIrqBH`, but which share a flag and a
record between lines.

## 7. Plan

What is left, in this order:

1. `lab4_all_thread.c` and `lab6_all_threaded.c`, as further drivers of `ThreadBH`
   and `ThreadedIrqBH`.
2. The echo sensor of `t_01`; `s_12` with a third module that fails to load; the
   block, netlink and network data paths.
3. Proofs: the same theorems for what 1 and 2 add; that the semaphore implements
   an abstract specification in which a permit may be given and used in one step.
