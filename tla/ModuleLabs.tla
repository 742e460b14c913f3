----------------------------- MODULE ModuleLabs -----------------------------
(***************************************************************************)
(* The modules of writing_device_drivers_by_coopj, named after the section *)
(* they belong to; init and exit stand for probe and remove.               *)
(***************************************************************************)
EXTENDS ProbeSteps

(* Character drivers of s_02 and s_04.  cdev_del gives back the allocation *)
(* and the registration of the device; the ramdisk is not tested.          *)
CharAdded(ramdisk) ==
  <<Get("region", << >>), Get("alloc", <<"region">>)>> \o [i \in DOMAIN ramdisk |-> Blind(ramdisk[i])]
    \o <<Get("cdev", <<"alloc", "region">> \o ramdisk)>>
char_s02 == Sound(<<Blind("ramdisk"), Blind("region"), Blind("alloc"), Blind("cdev")>>,
                  <<"cdev", "alloc", "region", "ramdisk">>, {<<"cdev", "ramdisk">>})
char_s04 == Sound(CharAdded(<<"ramdisk">>), <<"cdev", "alloc", "region", "ramdisk">>, {<<"cdev", "ramdisk">>})
seek_s04    == char_s04
dynamic_s04 == char_s04
priv_s04 == Sound(CharAdded(<< >>), <<"cdev", "alloc", "region">>, {})
udev_s04 == Sound(CharAdded(<<"ramdisk">>) \o <<Blind("class"), Blind("device")>>,
                  <<"device", "class", "cdev", "alloc", "region", "ramdisk">>, {<<"cdev", "ramdisk">>})
generic_char == udev_s04

generic_misc == Sound(<<Blind("ramdisk"), Get("misc", <<"ramdisk">>)>>, <<"misc", "ramdisk">>, {<<"misc", "ramdisk">>})
misc_s04     == [generic_misc EXCEPT !.probe = <<@[1], Get("misc", << >>)>>, !.leaks = {"ramdisk"}]

(* Interrupts: s_08, s_20.                                                 *)
OneLine == Sound(<<Get("irq", << >>)>>, <<"irq">>, {})
interrupt_s08 == OneLine
one_line_s20  == OneLine
platform_s08  == Sound(<<Devm("btn", << >>), Try(<< >>), Try(<< >>), Devm("irq", << >>), Get("misc", << >>)>>,
                       <<"misc">>, {<<"irq", "btn">>})

(* The thread is there for the handler and is stopped first; a line that   *)
(* is refused leaves it running.                                           *)
thread_s20 == [Sound(<<Blind("tsk"), Get("irq", << >>)>>, <<"tsk", "irq">>, {}) EXCEPT !.leaks = {"tsk"}]
thread_improved_s20 == thread_s20
OnButton == [Sound(<<Get("gpio", << >>), Try(<< >>), Get("irq", << >>)>>, <<"irq", "gpio">>, {<<"irq", "gpio">>})
             EXCEPT !.leaks = {"gpio"}]
tasklet_gpio_s20   == OnButton
workqueue_gpio_s20 == OnButton
threaded_gpio_s20  == OnButton
thread_gpio_s20 == [OnButton EXCEPT !.probe = <<Blind("tsk")>> \o @, !.remove = <<"tsk">> \o @, !.leaks = {"tsk", "gpio"}]

(* A line that is refused is left out; here two that are shared.           *)
all_lines_s20 ==
  [Sound(<<Blind("ramdisk"), Get("misc", << >>), Blind("nevents"), Blind("irq1"), Blind("irq2")>>,
         <<"irq1", "irq2", "misc", "ramdisk", "nevents">>,
         {"irq1", "irq2"} \X {"ramdisk", "nevents"} \cup {<<"misc", "ramdisk">>})
   EXCEPT !.leaks = {"ramdisk"}]

(* The generic init knows nothing of the line requested before it.         *)
uio_s20 ==
  [Sound(<<Get("irq", << >>)>> \o generic_char.probe, <<"irq">> \o generic_char.remove, generic_char.needs)
   EXCEPT !.leaks = {"irq"}]
uio_api_s20 == Sound(<<Blind("dev"), Blind("registered"), Blind("info"), Get("uio", <<"registered", "dev", "info">>)>>,
                     <<"uio", "registered", "info", "dev">>, {<<"uio", "info">>, <<"uio", "dev">>})

(* Probes, debugfs, timers: s_10, s_11.                                    *)
kprobe_s10  == Sound(<<Get("kprobe", << >>)>>, <<"kprobe">>, {})
jprobe_s10  == Sound(<<Get("kprobe", << >>), Blind("jprobe")>>, <<"jprobe", "kprobe">>, {})
debugfs_s10 == Sound(<<Blind("var32"), Blind("parent"), Blind("filen")>>, <<"filen", "parent", "var32">>, {})

(* Plausible bug: each timer is deleted after the data of its function.    *)
periodic_timersFreeFirst ==
  Sound(<<Blind("data_a"), Blind("data_b"), Sure("timer_a"), Sure("timer_b")>>, <<"data_a", "timer_a", "data_b", "timer_b">>,
        {<<"timer_a", "data_a">>, <<"timer_b", "data_b">>})

periodic_timers_s11 ==
  Sound(<<Blind("data_a"), Blind("data_b"), Sure("timer_a"), Sure("timer_b")>>, <<"timer_a", "timer_b", "data_a", "data_b">>,
        {<<"timer_a", "data_a">>, <<"timer_b", "data_b">>})
hrtimer_s11 == Sound(<<Blind("data_array"), Sure("timer_a"), Sure("timer_b")>>, <<"timer_a", "timer_b", "data_array">>,
                     {"timer_a", "timer_b"} \X {"data_array"})

(* The same with del_timer, which leaves a function that runs to its end:  *)
(* the array is freed under it, and the timer added again.                 *)
periodic_timers_alt_s11 ==
  [Sound(<<Blind("data_array"), Sure("nosync_a"), Sure("nosync_b")>>, <<"nosync_a", "nosync_b", "data_array">>,
         {"nosync_a", "nosync_b"} \X {"data_array"})
   EXCEPT !.leaks = {"nosync_a", "nosync_b"}, !.exposed = {"nosync_a", "nosync_b"} \X {"data_array"}]
periodic_timers_alt_new_s11 == periodic_timers_alt_s11
kprobes_s11 == Sound(<<Get("add", << >>), Get("mod", <<"add">>), Get("del", <<"add", "mod">>),
                       Get("sync", <<"add", "mod", "del">>)>>, <<"mod", "add", "del", "sync">>, {})

(* Proc files, kobjects, firmware: s_14 to s_16.  The first pair of proc   *)
(* files forgets one of them when the second is refused.                   *)
proc_s14 == Sound(<<Get("dir", << >>), Get("proc1", <<"dir">>), Get("proc2", <<"proc1", "dir">>)>>,
                  <<"proc1", "proc2", "dir">>, {})
proc_sig_s14   == proc_s14
proc_pair_s14  == [proc_s14 EXCEPT !.probe[3] = Get("proc2", <<"dir">>), !.leaks = {"proc1"}]
proc_one_s14   == Sound(<<Get("proc1", << >>)>>, <<"proc1">>, {})
kobject_s15    == Sound(<<Get("kobj", << >>), Get("group", <<"kobj">>)>>, <<"group", "kobj">>, {})
kset_s15 == Sound(<<Get("kset", << >>), Get("foo", <<"kset">>), Get("bar", <<"foo", "kset">>), Get("baz", <<"bar", "foo", "kset">>)>>,
                  <<"baz", "bar", "foo", "kset">>, {})
firmware_s16   == Sound(<<Blind("dev"), Get("fw", <<"dev">>)>>, <<"fw", "dev">>, {})

(* A cache for the buffers of the open files: s_17.                        *)
cache_s17 == Sound(<<Try(<< >>), Get("cache", << >>), Get("region", <<"cache">>), Get("alloc", <<"region", "cache">>),
                     Get("cdev", <<"alloc", "region", "cache">>), Blind("class"), Blind("device")>>,
                   <<"device", "class", "cdev", "alloc", "region", "cache">>, {<<"cdev", "cache">>})

(* Ports and the mouse: s_21.  No error path gives back the line and the   *)
(* ports, and no exit deletes the character devices; the mouse driver adds *)
(* one before it has a region, and on its failure gives back none.         *)
ports_s21  == Sound(<<Get("ports", << >>)>>, <<"ports">>, {})
resource_s21 == ports_s21
mapped_s21 == Sound(<<Get("ports", << >>), Blind("mapped")>>, <<"ports", "mapped">>, {})
serial_s21 ==
  [Sound(<<Get("irq", << >>), Blind("ports"), Get("region", << >>), Get("alloc", <<"region">>), Blind("cdev")>>,
         <<"region", "ports", "irq">>, {})
   EXCEPT !.leaks = {"irq", "ports", "alloc", "cdev"}]
mouse_s21 ==
  [Sound(<<Get("irq", << >>), Blind("ports"), Get("alloc1", <<"region">>), Blind("cdev1"), Get("region", << >>),
           Get("alloc2", <<"region">>), Get("cdev2", <<"alloc2", "region">>), Blind("class"), Blind("device")>>,
         <<"device", "class", "region", "ports", "irq">>, {})
   EXCEPT !.leaks = {"irq", "ports", "alloc1", "cdev1", "alloc2", "cdev2"}, !.twice = {"region"}]

(* Network, netlink, notifiers, block: s_24 to s_35.                       *)
NetDevice == Sound(<<Blind("dev"), Get("netdev", <<"dev">>)>>, <<"netdev", "dev">>, {<<"netdev", "dev">>})
network_s24  == NetDevice
transmit_s26 == NetDevice
transmit_simple_s26 == NetDevice
receive_s26  == NetDevice
nl_sender_s27    == Sound(<<Get("sock", << >>), Get("sender", <<"sock">>)>>, <<"sender", "sock">>, {<<"sender", "sock">>})
usb_s28          == Sound(<<Get("driver", << >>)>>, <<"driver">>, {})
usb_notifier_s31 == Sound(<<Sure("notifier")>>, <<"notifier">>, {})
notifier_s31     == Sound(<<Get("notifier", << >>)>>, <<"notifier">>, {})
cpufreq_s32      == Sound(<<Blind("transition"), Blind("policy")>>, <<"transition", "policy">>, {})

(* The request queue is forgotten on both error paths.                     *)
block_s35 ==
  [Sound(<<Get("ramdisk", << >>), Get("queue", <<"ramdisk">>), Get("blkdev", <<"ramdisk">>),
           Get("gd", <<"blkdev", "ramdisk">>), Sure("disk")>>,
         <<"disk", "gd", "blkdev", "queue", "ramdisk">>, {"disk"} \X {"gd", "queue", "ramdisk"})
   EXCEPT !.leaks = {"queue"}]

(* Sensors: t_01.  The attributes of the class start a measurement, which  *)
(* needs the pins and the interrupt; exit frees those first.               *)
fc_03   == OnButton
hs_cdsm == OnButton
hc_sr04 ==
  [Sound(<<Get("class", << >>), Get("trig", << >>), Get("echo", << >>), Try(<< >>), Get("irq", << >>)>>,
         <<"irq", "trig", "echo", "class">>, {"class"} \X {"trig", "echo", "irq"} \cup {<<"irq", "echo">>})
   EXCEPT !.leaks = {"class", "trig", "echo"}, !.exposed = {"class"} \X {"trig", "echo", "irq"}]

ModuleLabsTables ==
  [char_s02 |-> char_s02, char_s04 |-> char_s04, seek_s04 |-> seek_s04, dynamic_s04 |-> dynamic_s04, priv_s04 |-> priv_s04,
   udev_s04 |-> udev_s04, generic_char |-> generic_char, generic_misc |-> generic_misc, misc_s04 |-> misc_s04,
   interrupt_s08 |-> interrupt_s08, one_line_s20 |-> one_line_s20, platform_s08 |-> platform_s08, thread_s20 |-> thread_s20,
   thread_improved_s20 |-> thread_improved_s20, tasklet_gpio_s20 |-> tasklet_gpio_s20, workqueue_gpio_s20 |-> workqueue_gpio_s20,
   threaded_gpio_s20 |-> threaded_gpio_s20, thread_gpio_s20 |-> thread_gpio_s20, all_lines_s20 |-> all_lines_s20,
   uio_s20 |-> uio_s20, uio_api_s20 |-> uio_api_s20, kprobe_s10 |-> kprobe_s10, jprobe_s10 |-> jprobe_s10,
   debugfs_s10 |-> debugfs_s10, periodic_timers_s11 |-> periodic_timers_s11,
   periodic_timers_alt_s11 |-> periodic_timers_alt_s11,
   periodic_timers_alt_new_s11 |-> periodic_timers_alt_new_s11, hrtimer_s11 |-> hrtimer_s11, kprobes_s11 |-> kprobes_s11,
   proc_sig_s14 |-> proc_sig_s14, proc_pair_s14 |-> proc_pair_s14, proc_one_s14 |-> proc_one_s14,
   kobject_s15 |-> kobject_s15, kset_s15 |-> kset_s15, firmware_s16 |-> firmware_s16, cache_s17 |-> cache_s17,
   ports_s21 |-> ports_s21, resource_s21 |-> resource_s21, mapped_s21 |-> mapped_s21, serial_s21 |-> serial_s21,
   mouse_s21 |-> mouse_s21, network_s24 |-> network_s24, transmit_s26 |-> transmit_s26,
   transmit_simple_s26 |-> transmit_simple_s26, receive_s26 |-> receive_s26, nl_sender_s27 |-> nl_sender_s27,
   usb_s28 |-> usb_s28, usb_notifier_s31 |-> usb_notifier_s31, notifier_s31 |-> notifier_s31, cpufreq_s32 |-> cpufreq_s32,
   block_s35 |-> block_s35, fc_03 |-> fc_03, hs_cdsm |-> hs_cdsm, hc_sr04 |-> hc_sr04]
=============================================================================
