---------------------------- MODULE FirstEdition ----------------------------
(***************************************************************************)
(* The drivers of the labs of linux_driver_development_by_alberto.         *)
(***************************************************************************)
EXTENDS ProbeSteps

char_lab04 == Sound(<<Get("region", << >>), Get("cdev", <<"region">>)>>, <<"cdev", "region">>, {})

(* Nothing deletes the cdev, and exit destroys the class that it has just  *)
(* unregistered.                                                           *)
class_lab04 ==
  [Sound(<<Get("region", << >>), Get("cdev", <<"region">>), Get("class", <<"region">>),
           Get("device", <<"class", "region">>)>>,
         <<"device", "class", "class", "region">>, {})
   EXCEPT !.leaks = {"cdev"}, !.twice = {"class"}]

misc_lab04 == Sound(<<Get("misc", << >>)>>, <<"misc">>, {})
keys_lab05 == Sound(<<Get("misc", << >>)>>, <<"misc">>, {})
uio_lab05  == Sound(<<Try(<< >>), Devm("ioremap", << >>), Blind("uio")>>, <<"uio">>, {<<"uio", "ioremap">>})

(* One of the three mappings is never undone, and none when the device     *)
(* cannot be registered.                                                   *)
led_lab05 ==
  [Sound(<<Blind("GPDAT_V"), Blind("GPDIR_V"), Blind("ENET_PAUR_V"), Get("misc", << >>)>>,
         <<"misc", "GPDAT_V", "GPDIR_V">>, {<<"misc", "ENET_PAUR_V">>})
   EXCEPT !.leaks = {"GPDAT_V", "GPDIR_V", "ENET_PAUR_V"}]

led_sysfs_lab05 ==
  [Sound(<<Try(<< >>), Devm("ioremap", << >>), Get("file", << >>), Get("misc", << >>)>>,
         <<"misc", "file">>, {"file", "misc"} \X {"ioremap"})
   EXCEPT !.leaks = {"file"}, !.exposed = {<<"file", "ioremap">>}]

IntKey == Sound(<<Try(<< >>), Try(<< >>), Try(<< >>), Devm("irq", << >>), Get("misc", << >>)>>, <<"misc">>, {})
int_key_lab06      == IntKey
int_key_wait_lab06 == IntKey

(* No error path undoes anything, and the gpios are never freed.           *)
led_key_lab06 ==
  [Sound(<<Try(<< >>), Try(<< >>), Blind("LED"), Blind("LED export"), Blind("Button"), Blind("Button export"),
           Get("file", << >>), Try(<< >>), Devm("irq", << >>), Get("misc", << >>)>>,
         <<"LED export", "Button export", "misc", "file">>,
         {"irq", "file", "misc"} \X {"LED"} \cup {<<"irq", "Button">>})
   EXCEPT !.leaks = {"LED", "LED export", "Button", "Button export", "file"}]

(* createlist reports its failures here.                                   *)
list_lab07 == Sound(<<Devm("list", << >>), Get("misc", << >>)>>, <<"misc">>, {<<"misc", "list">>})

(* The device is there before what its writes use, it has no owner, and    *)
(* the error paths leave it behind.                                        *)
SdmaEarly ==
  LET Uses == {"misc"} \X {"wbuf", "rbuf", "chan"}
  IN [Sound(<<Get("misc", << >>), Get("wbuf", << >>), Get("rbuf", <<"wbuf">>), Get("chan", << >>)>>,
            <<"misc", "chan", "wbuf", "rbuf">>, Uses)
      EXCEPT !.pins = FALSE, !.leaks = {"misc", "wbuf", "rbuf"}, !.exposed = Uses]
sdma_m2m_lab08  == SdmaEarly
sdma_mmap_lab08 == SdmaEarly

sdma_sg_lab08 ==
  LET Uses == {"misc"} \X {"wbuf", "wbuf2", "wbuf3", "rbuf", "rbuf2", "rbuf3", "dst", "src", "chan"}
  IN [Sound(<<Get("misc", << >>), Devm("wbuf", << >>), Devm("wbuf2", << >>), Devm("wbuf3", << >>),
              Devm("rbuf", << >>), Devm("rbuf2", << >>), Devm("rbuf3", << >>),
              Get("dst", << >>), Get("src", <<"dst">>), Get("chan", << >>)>>,
            <<"misc", "chan", "dst", "src">>, Uses)
      EXCEPT !.pins = FALSE, !.leaks = {"misc", "dst", "src"}, !.exposed = Uses]

ltc2422_lab09 == Sound(<<Devm("indio_dev", << >>), Devm("iio", << >>)>>, << >>, {<<"iio", "indio_dev">>})

(* remove flushes the work and destroys the queue, to which the handler,   *)
(* still installed, may send more; the driver core frees the interrupt     *)
(* afterwards.  A probe that fails leaves the work queued, which is part   *)
(* of indio_dev.                                                           *)
ltc2422_bottom_lab09 ==
  [Sound(<<Devm("indio_dev", << >>), Blind("ADC_wq"), Sure("work"), Devm("irq", << >>), Devm("iio", << >>)>>,
         <<"work", "ADC_wq">>, {"irq"} \X {"indio_dev", "ADC_wq"} \cup {"work", "iio"} \X {"indio_dev"})
   EXCEPT !.leaks = {"ADC_wq", "work"}, !.exposed = {<<"irq", "ADC_wq">>, <<"work", "indio_dev">>}]

ltc2607_lab09 ==
  Sound(<<DevmBlind("data"), Devm("indio_dev", << >>), Try(<< >>), Devm("iio", << >>)>>,
        << >>, {"iio"} \X {"data", "indio_dev"})

accel_lab09 ==
  Sound(<<DevmBlind("ioaccel"), Blind("polled"), Blind("registered")>>,
        <<"registered", "polled">>, {"registered"} \X {"ioaccel", "polled"})

wiichuck ==
  Sound(<<Get("wiichuck", << >>), Get("poll_dev", <<"wiichuck">>), Get("registered", <<"poll_dev", "wiichuck">>)>>,
        <<"registered", "poll_dev", "wiichuck">>, {"registered"} \X {"wiichuck", "poll_dev"})

(* The attributes take their device from the driver data, which is set     *)
(* last; remove leaves the chip measuring.                                 *)
adxl345_lab10 ==
  [Sound(<<Devm("ac", << >>), Devm("input_dev", << >>), Try(<< >>), Devm("irq", << >>), Blind("attrs"),
           Get("input", <<"attrs">>), Sure("measuring"), Set("drvdata")>>,
         <<"attrs", "input">>,
         {"irq", "input"} \X {"ac", "input_dev"} \cup {"attrs"} \X {"ac", "drvdata"})
   EXCEPT !.leaks = {"measuring"}, !.exposed = {<<"attrs", "drvdata">>}]

FirstEditionTables ==
  [char_lab04 |-> char_lab04, class_lab04 |-> class_lab04, misc_lab04 |-> misc_lab04,
   keys_lab05 |-> keys_lab05, uio_lab05 |-> uio_lab05, led_lab05 |-> led_lab05,
   led_sysfs_lab05 |-> led_sysfs_lab05, int_key_lab06 |-> int_key_lab06,
   int_key_wait_lab06 |-> int_key_wait_lab06, led_key_lab06 |-> led_key_lab06,
   list_lab07 |-> list_lab07, sdma_m2m_lab08 |-> sdma_m2m_lab08, sdma_mmap_lab08 |-> sdma_mmap_lab08,
   sdma_sg_lab08 |-> sdma_sg_lab08, ltc2422_lab09 |-> ltc2422_lab09,
   ltc2422_bottom_lab09 |-> ltc2422_bottom_lab09, ltc2607_lab09 |-> ltc2607_lab09,
   accel_lab09 |-> accel_lab09, wiichuck |-> wiichuck, adxl345_lab10 |-> adxl345_lab10]
=============================================================================
