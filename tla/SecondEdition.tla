---------------------------- MODULE SecondEdition ----------------------------
(***************************************************************************)
(* The drivers of linux_driver_development_by_alberto/2nd_edition, and     *)
(* the platform drivers of s_20/new.                                       *)
(***************************************************************************)
EXTENDS ProbeSteps

helloworld_char == Sound(<<Get("region", << >>), Get("cdev", <<"region">>)>>, <<"cdev", "region">>, {})

(* Plausible bug: an error path forgets the class.                         *)
helloworld_classForgets ==
  Sound(<<Get("region", << >>), Get("cdev", <<"region">>), Get("class", <<"region", "cdev">>),
          Get("device", <<"cdev", "region">>)>>,
        <<"device", "class", "cdev", "region">>, {})

helloworld_class ==
  Sound(<<Get("region", << >>), Get("cdev", <<"region">>), Get("class", <<"region", "cdev">>),
          Get("device", <<"class", "cdev", "region">>)>>,
        <<"device", "class", "cdev", "region">>, {})

misc_driver == Sound(<<Get("misc", << >>)>>, <<"misc">>, {})
hellokeys   == Sound(<<Get("misc", << >>)>>, <<"misc">>, {})

int_key ==
  Sound(<<Devm("gpio", << >>), Try(<< >>), Try(<< >>), Devm("irq", << >>), Get("misc", << >>)>>,
        <<"misc">>, {})

(* Plausible bug: the wait queue is set up when the device is there.       *)
int_key_waitLate ==
  Sound(<<DevmBlind("priv"), Devm("gpio", << >>), Try(<< >>), Try(<< >>),
          Devm("irq", << >>), Get("misc", << >>), Set("wq")>>,
        <<"misc">>,
        {"irq", "misc"} \X {"priv", "wq"} \cup {<<"irq", "gpio">>})

int_key_wait ==
  Sound(<<DevmBlind("priv"), Set("wq"), Devm("gpio", << >>), Try(<< >>), Try(<< >>),
          Devm("irq", << >>), Get("misc", << >>)>>,
        <<"misc">>,
        {"irq", "misc"} \X {"priv", "wq"} \cup {<<"irq", "gpio">>})

(* The clock stays prepared for ever.                                      *)
led_platform ==
  [Sound(<<Devm("clk", << >>), Get("prepared", << >>), DevmBlind("MODER"), DevmBlind("OTYPER"),
           DevmBlind("PUPDR"), DevmBlind("BSRR")>>, << >>, {}) EXCEPT !.leaks = {"prepared"}]

(* led->private is set after the misc device is registered, and an error   *)
(* return leaves the devices registered so far.                            *)
ledRGB_platform ==
  LET Child(led, misc, private) ==
        <<Devm(led, << >>), Try(<< >>), Get(misc, << >>), Set(private)>>
      Uses(led, misc, private) == {misc} \X {led, private, "leds", "BSRR", "prepared A", "prepared D"}
  IN [Sound(<<Try(<< >>), Devm("leds", << >>), Devm("clk A", << >>), Devm("clk D", << >>),
              Get("prepared A", << >>), Get("prepared D", << >>), DevmBlind("MODER"),
              DevmBlind("OTYPER"), DevmBlind("PUPDR"), DevmBlind("BSRR")>>
            \o Child("led1", "misc1", "private1") \o Child("led2", "misc2", "private2")
            \o <<Set("drvdata")>>,
            <<"misc1", "misc2">>,
            Uses("led1", "misc1", "private1") \cup Uses("led2", "misc2", "private2"))
      EXCEPT !.leaks = {"prepared A", "prepared D", "misc1"},
             !.exposed = {"misc1"} \X {"led1", "private1", "leds", "BSRR"} \cup {<<"misc2", "private2">>}]

(* Plausible bug: an error path frees the interrupt that was refused.      *)
lanternFreesIrq ==
  LET Back == <<"key", "blue", "orange", "red">>
  IN Sound(<<Get("red", << >>), Get("orange", <<"red">>), Get("blue", <<"orange", "red">>),
             Get("key", <<"blue", "orange", "red">>), Try(Back), Get("irq", <<"irq">> \o Back)>>,
           <<"irq">> \o Back, {"irq"} \X {"red", "orange", "blue"})

lantern ==
  LET Back == <<"key", "blue", "orange", "red">>
  IN Sound(<<Get("red", << >>), Get("orange", <<"red">>), Get("blue", <<"orange", "red">>),
             Get("key", <<"blue", "orange", "red">>), Try(Back), Get("irq", Back)>>,
           <<"irq">> \o Back, {"irq"} \X {"red", "orange", "blue"})

(* remove stops the clock of the registers before it takes away the device *)
(* through which they are accessed, which only the pinned module allows;   *)
(* the clock stays prepared.                                               *)
led_UIO_platform ==
  [Sound(<<Devm("clk", << >>), Get("prepared", << >>), Try(<< >>), Devm("gpioa", << >>),
           Sure("clock"), Blind("uio")>>, <<"clock", "uio">>, {<<"uio", "clock">>, <<"uio", "gpioa">>})
   EXCEPT !.leaks = {"prepared"}]

ledRGB_class ==
  LET Child(led, cdev) == <<Devm(led, << >>), Try(<< >>), Devm(cdev, << >>)>>
      Uses(led, cdev)  == {cdev} \X {led, "gpioa", "gpiod", "prepared A", "prepared D"}
  IN [Sound(<<Devm("clk A", << >>), Devm("clk D", << >>), Get("prepared A", << >>), Get("prepared D", << >>),
              Try(<< >>), Try(<< >>), Devm("gpioa", << >>), Devm("gpiod", << >>), Try(<< >>)>>
            \o Child("led1", "cdev1") \o Child("led2", "cdev2"),
            << >>, Uses("led1", "cdev1") \cup Uses("led2", "cdev2"))
      EXCEPT !.leaks = {"prepared A", "prepared D"}]

(* createlist returns nothing, whatever fails in it.                       *)
linkedlist == Sound(<<DevmBlind("list"), Get("misc", << >>)>>, <<"misc">>, {<<"misc", "list">>})
-----------------------------------------------------------------------------
(* class_create and led_device_register return error pointers, and the     *)
(* tests for NULL let them by; in led_device_register the refused memory   *)
(* and the refused device come to the same, and count as one failure, that *)
(* of the device.  The minors are released by number: the release has no   *)
(* effect unless all the LEDs have been counted.  The error paths do not   *)
(* destroy a LED that is not counted yet, and some plain returns undo      *)
(* nothing.  led->private is set after the files are there.                *)
keyled ==
  LET Led(dev, data, private, gpio, undo) ==
        <<Set(data), Blind(dev), Devm(gpio, undo), Set(private)>>
      Back == <<"led1", "led2", "class", "minors">>
      Uses(dev, data, private, gpio) == {dev} \X {data, private, gpio, "priv"}
  IN [Sound(<<Try(<< >>), Devm("priv", << >>), Blind("minors"), Blind("class")>>
            \o Led("led1", "data1", "private1", "gpio1", <<"class">>)
            \o Led("led2", "data2", "private2", "gpio2", <<"led1", "class">>)
            \o <<DevmBlind("key1"), Try(<< >>), Try(<< >>), Devm("irq1", << >>),
                 DevmBlind("key2"), Try(<< >>), Try(<< >>), Devm("irq2", Back), Try(Back), Set("drvdata")>>,
            Back,
            Uses("led1", "data1", "private1", "gpio1") \cup Uses("led2", "data2", "private2", "gpio2")
            \cup {"irq1", "irq2"} \X {"priv"})
      EXCEPT !.leaks = {"led1", "led2", "class", "minors"},
             !.exposed = {"led1"} \X {"data1", "private1", "gpio1", "priv"}
                           \cup {"led2"} \X {"data2", "private2", "gpio2", "priv"}]

(* The group is removed when a LED cannot be registered, but not when its  *)
(* memory or its name is refused.                                          *)
ltc3206 ==
  LET Led(led, cdev) == <<Devm(led, << >>), Try(<< >>), Devm(cdev, <<"group">>)>>
  IN [Sound(<<Try(<< >>), Devm("private", << >>), Devm("gpio", << >>), Get("group", << >>)>>
            \o Led("led1", "cdev1") \o Led("led2", "cdev2"),
            <<"group">>,
            {"group"} \X {"private", "gpio"} \cup {"cdev1"} \X {"led1", "private"} \cup {"cdev2"} \X {"led2", "private"})
      EXCEPT !.leaks = {"group"}, !.exposed = {"group"} \X {"private", "gpio"}]

i2c_accel == Sound(<<DevmBlind("ioaccel"), DevmBlind("polled"), Blind("registered")>>,
                   <<"registered">>, {"registered"} \X {"ioaccel", "polled"})

io_expander == Sound(<<DevmBlind("ioexp"), Get("misc", << >>)>>, <<"misc">>, {<<"misc", "ioexp">>})

(* The channel is not released when the device cannot be registered.       *)
sdma_mmap ==
  [Sound(<<DevmBlind("dma_device"), Get("chan", << >>), Get("misc", << >>), Set("drvdata")>>,
         <<"misc", "chan">>, {"misc"} \X {"dma_device", "chan"}) EXCEPT !.leaks = {"chan"}]

(* The file operations have no owner: an open file does not keep the       *)
(* module, and a write under way loses what it works on.                   *)
sdma_m2m ==
  LET Uses == {"misc"} \X {"dma_device", "wbuf", "rbuf", "chan"}
  IN [Sound(<<DevmBlind("dma_device"), Devm("wbuf", << >>), Devm("rbuf", << >>),
              Get("chan", << >>), Get("misc", << >>), Set("drvdata")>>,
            <<"misc", "chan">>, Uses) EXCEPT !.pins = FALSE, !.leaks = {"chan"}, !.exposed = Uses]

(* conversion_done is reset when interrupts and reads may have come.       *)
ltc2422_trigger ==
  [Sound(<<Devm("indio_dev", << >>), Devm("gpio", << >>), Try(<< >>), Set("wq"), Set("lock"),
           Devm("irq", << >>), Devm("iio", << >>), Set("conversion_done")>>, << >>,
         {"irq"} \X {"indio_dev", "wq", "conversion_done"}
         \cup {"iio"} \X {"indio_dev", "wq", "lock", "conversion_done"})
   EXCEPT !.exposed = {"irq", "iio"} \X {"conversion_done"}]

ltc2422_dual == Sound(<<Devm("indio_dev", << >>), Devm("iio", << >>)>>, << >>, {<<"iio", "indio_dev">>})
ltc2607 == Sound(<<Devm("indio_dev", << >>), Try(<< >>), Devm("iio", << >>)>>, << >>, {<<"iio", "indio_dev">>})

(* The attributes take their device from the driver data, which is set     *)
(* when they are there already.                                            *)
adxl345 ==
  [Sound(<<Devm("ac", << >>), Devm("input_dev", << >>), Try(<< >>), Devm("gpio", << >>), Try(<< >>),
           Devm("irq", << >>), Get("attrs", << >>), Get("input", <<"attrs">>), Sure("measuring"),
           Set("drvdata")>>,
         <<"attrs", "input", "measuring">>,
         {"irq"} \X {"ac", "input_dev"} \cup {"attrs"} \X {"ac", "drvdata"} \cup {"input"} \X {"ac", "input_dev"})
   EXCEPT !.exposed = {<<"attrs", "drvdata">>}]

(* Every error path puts the chip to standby; before it measures that has  *)
(* no effect.                                                              *)
adxl345_iio ==
  LET Stop == <<"measuring">>
  IN Sound(<<Devm("regmap", << >>), Try(<< >>), Try(<< >>), Devm("indio_dev", << >>), Devm("gpio", << >>),
             Try(<< >>), Try(<< >>), Get("measuring", << >>), Devm("irq", Stop), Devm("buffer", Stop),
             Devm("iio", Stop)>>,
           Stop, {"irq", "buffer", "iio"} \X {"indio_dev", "regmap"})

(* The five interrupt drivers of s_20/new; that with a thread leaves it    *)
(* running when a later step fails.                                        *)
platform_bh == Sound(<<Devm("btn", << >>), Try(<< >>), Try(<< >>), Devm("irq", << >>), Get("misc", << >>)>>,
                     <<"misc">>, {})
platform_thread ==
  [Sound(<<Blind("tsk"), Devm("btn", << >>), Try(<< >>), Try(<< >>), Devm("irq", << >>), Get("misc", << >>)>>,
         <<"tsk", "misc">>, {}) EXCEPT !.leaks = {"tsk"}]

SecondEditionTables ==
  [helloworld_char |-> helloworld_char, helloworld_class |-> helloworld_class,
   misc_driver |-> misc_driver, hellokeys |-> hellokeys, int_key |-> int_key,
   int_key_wait |-> int_key_wait, led_platform |-> led_platform, ledRGB_platform |-> ledRGB_platform,
   lantern |-> lantern, led_UIO_platform |-> led_UIO_platform, ledRGB_class |-> ledRGB_class,
   linkedlist |-> linkedlist, keyled |-> keyled, ltc3206 |-> ltc3206, i2c_accel |-> i2c_accel,
   io_expander |-> io_expander, sdma_mmap |-> sdma_mmap, sdma_m2m |-> sdma_m2m,
   ltc2422_trigger |-> ltc2422_trigger, ltc2422_dual |-> ltc2422_dual, ltc2607 |-> ltc2607,
   adxl345 |-> adxl345, adxl345_iio |-> adxl345_iio,
   platform_bh |-> platform_bh, platform_thread |-> platform_thread]
=============================================================================
