------------------------------ MODULE ThirdBook ------------------------------
(***************************************************************************)
(* The drivers of linux_device_drivers_development_by_john_madieu.         *)
(***************************************************************************)
EXTENDS ProbeSteps

(* The cdev is added without a test, and stays when the device is refused. *)
CharWithClass ==
  [Sound(<<Get("region", << >>), Get("class", <<"region">>), Blind("cdev"), Get("device", <<"class", "region">>)>>,
         <<"region", "device", "cdev", "class">>, {}) EXCEPT !.leaks = {"cdev"}]
dummy_char          == CharWithClass
platform_dummy_char == CharWithClass

(* exit gives back the reference of the allocation, and never deletes the  *)
(* device.  Seven more chapters repeat this module.                        *)
platform_ins ==
  [Sound(<<Blind("pdev"), Blind("added")>>, <<"pdev">>, {}) EXCEPT !.leaks = {"added"}]
iio_ins    == platform_ins
gpio_ins   == platform_ins
polled_ins == platform_ins
rtc_ins    == platform_ins
pwm_ins    == platform_ins
reg_ins    == platform_ins
eth_ins    == platform_ins

eeprom_module == Sound(<<Get("class", << >>), Get("driver", <<"class">>)>>, <<"driver", "class">>, {<<"driver", "class">>})

(* The memory is managed, and freed by hand as well; the character device  *)
(* is never unregistered.                                                  *)
ee24lc512 ==
  [Sound(<<Try(<< >>), Try(<< >>), Devm("eeprom", << >>), Get("chrdev", << >>), Get("device", <<"eeprom">>),
           Sure("listed")>>,
         <<"listed", "device", "eeprom">>, {})
   EXCEPT !.leaks = {"chrdev"}, !.twice = {"eeprom"}]

iio_dummy == Sound(<<Devm("indio_dev", << >>), Blind("iio")>>, <<"iio">>, {<<"iio", "indio_dev">>})

SdmaModule == Sound(<<Get("chrdev", << >>), Get("class", <<"chrdev">>), Get("device", <<"class", "chrdev">>)>>,
                    <<"chrdev", "device", "class">>, {})
sdma_single == SdmaModule
sdma_sg     == SdmaModule

(* The life of an open file of these two: release undoes open, but a       *)
(* refused buffer leaves what open has got so far.                         *)
sdma_single_file ==
  [Sound(<<Get("chan", << >>), Get("wbuf", << >>), Get("rbuf", << >>)>>, <<"chan", "wbuf", "rbuf">>, {})
   EXCEPT !.leaks = {"chan", "wbuf"}]

sdma_sg_file ==
  [Sound(<<Get("chan", << >>), Get("wbuf", << >>), Get("wbuf2", << >>), Get("wbuf3", << >>),
           Get("rbuf", << >>), Get("rbuf2", << >>), Get("rbuf3", << >>)>>,
         <<"chan", "wbuf", "wbuf2", "wbuf3", "rbuf", "rbuf2", "rbuf3">>, {})
   EXCEPT !.leaks = {"chan", "wbuf", "wbuf2", "wbuf3", "rbuf", "rbuf2"}]

(* No request is tested.                                                   *)
GpioSample(first, second) ==
  Sound(<<Blind(first), Blind(second), Blind("btn1"), Blind("btn2"), Blind("irq")>>,
        <<"irq", "red", "green", "btn1", "btn2">>, {"irq"} \X {"btn2", "red", "green"})
gpio_descriptor == GpioSample("red", "green")
gpio_legacy     == GpioSample("green", "red")
gpio_legacy_dt  == [GpioSample("green", "red") EXCEPT !.probe = <<Try(<< >>)>> \o @]

fake_gpio_chip == Sound(<<Get("chip", << >>)>>, <<"chip">>, {})
mcp23016       == Sound(<<Try(<< >>), Devm("mcp", << >>), Get("chip", << >>)>>, <<"chip">>, {})

(* remove frees the input device, which unregistering it has freed, and    *)
(* with the interrupt still installed; an error path frees it while it is  *)
(* registered.  (The interrupt number is asked of a descriptor that is not *)
(* set yet: on many kernels the request always fails.)                     *)
input_button ==
  [Sound(<<Devm("priv", << >>), Get("i_dev", << >>), Get("gpiod", << >>), Get("input", <<"i_dev">>),
           Get("irq", <<"gpiod", "i_dev">>), Set("drvdata")>>,
         <<"input", "i_dev", "i_dev", "irq", "gpiod">>,
         {"irq"} \X {"priv", "i_dev", "gpiod"} \cup {<<"input", "i_dev">>})
   EXCEPT !.leaks = {"i_dev", "gpiod", "input"}, !.twice = {"i_dev"},
          !.exposed = {"irq", "input"} \X {"i_dev"}]

input_polled_button ==
  [Sound(<<Devm("priv", << >>), Get("poll_dev", << >>), Blind("gpiod"), Get("input", <<"poll_dev">>), Set("drvdata")>>,
         <<"input", "poll_dev", "gpiod">>, {"input"} \X {"priv", "poll_dev", "gpiod"})
   EXCEPT !.leaks = {"gpiod"}]

fake_rtc == Sound(<<Get("rtc", << >>), Set("drvdata")>>, <<"rtc">>, {})
fake_pwm == Sound(<<Devm("priv", << >>), Set("drvdata"), Get("chip", << >>)>>, <<"chip">>, {<<"chip", "priv">>})

fake_eth ==
  [Sound(<<Devm("priv", << >>), Blind("ndev"), Get("netdev", << >>), Set("drvdata")>>,
         <<"netdev", "ndev">>, {<<"netdev", "ndev">>}) EXCEPT !.leaks = {"ndev"}]

ThirdBookTables ==
  [dummy_char |-> dummy_char, platform_dummy_char |-> platform_dummy_char, platform_ins |-> platform_ins,
   iio_ins |-> iio_ins, gpio_ins |-> gpio_ins, polled_ins |-> polled_ins, rtc_ins |-> rtc_ins,
   pwm_ins |-> pwm_ins, reg_ins |-> reg_ins, eth_ins |-> eth_ins, eeprom_module |-> eeprom_module,
   ee24lc512 |-> ee24lc512, iio_dummy |-> iio_dummy, sdma_single |-> sdma_single, sdma_sg |-> sdma_sg,
   sdma_single_file |-> sdma_single_file, sdma_sg_file |-> sdma_sg_file,
   gpio_descriptor |-> gpio_descriptor, gpio_legacy |-> gpio_legacy, gpio_legacy_dt |-> gpio_legacy_dt,
   fake_gpio_chip |-> fake_gpio_chip, mcp23016 |-> mcp23016, input_button |-> input_button,
   input_polled_button |-> input_polled_button, fake_rtc |-> fake_rtc, fake_pwm |-> fake_pwm,
   fake_eth |-> fake_eth]
=============================================================================
