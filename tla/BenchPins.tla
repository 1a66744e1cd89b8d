----------------------------- MODULE BenchPins -----------------------------
(* The bench tools and the pins they share (main.c, signal_tool.c,         *)
(* spi_tool.c): GPIO, Servo Toy, Scope, I2C, SPI and the signal generator, *)
(* one page at a time, with the cleanup every page change runs             *)
(* (clear_content) and the checks that guard entering a page and           *)
(* restarting.  Scope and I2C are modules of their own, composed here:     *)
(* what they do is given its effect on the pins.                           *)
(*                                                                         *)
(* A pin stands for all pins of the same tools: G0 (GPIO, Servo), G6       *)
(* (GPIO, signals), G18 (GPIO, Scope, SPI and all of SPI's pins) and G54   *)
(* (GPIO, Scope, Servo's light, I2C and its G53).  Its state is how it was *)
(* configured last, by whoever did: drivers do not ask each other.         *)
EXTENDS ScopeSampler, I2cInspector

CONSTANTS
  ScopePins,    \* the pin of every scope channel
  GpioPins,     \* pins the GPIO page is used for (a bound on the runs)
  SpiModes      \* the number of SPI settings (mode and clock)

Pins == {"G0", "G6", "G18", "G54"}

ASSUME BenchAssumption ==
  /\ ScopePins \in [0 .. ScopeChannels - 1 -> {"G18", "G54"}]
  /\ GpioPins \subseteq Pins
  /\ SpiModes \in Nat \ {0}

VARIABLES
  page,        \* the page shown; "notice" says that I2C still holds G53/G54
  pin,         \* how every pin was configured last
  mode,        \* gpio_controls[].mode: 0 untouched, 1 input, 2 low, 3 high
  servo,       \* [ready, running]: servo_pwm_ready and servo_running
  pwm,         \* pwm_running of the signal generator
  spi,         \* what SPI holds: "free", "bus", "device" (and the bus)
  spiMode,     \* [chosen, device]: the settings chosen, and the device's if any
  spiSaved     \* saved_transfer: [label, used], the settings it names and had

benchVars == <<page, pin, mode, servo, pwm, spi, spiMode, spiSaved>>
pinsVars == <<scopeVars, i2cVars, benchVars>>

None == -1
NoTransfer == [label |-> None, used |-> None]

PinsInit ==
  /\ ScopeInit /\ I2cInit
  /\ page = "home"
  /\ pin = [p \in Pins |-> "off"]
  /\ mode = [p \in Pins |-> 0]
  /\ servo = [ready |-> FALSE, running |-> FALSE]
  /\ pwm = FALSE
  /\ spi = "free"
  /\ spiMode = [chosen |-> 0, device |-> None]
  /\ spiSaved = NoTransfer

\* stop_bus: what is held may stay held.
SpiStop ==
  /\ spi' \in StopLeaves(spi)
  /\ spiMode' = [spiMode EXCEPT !.device = IF spi' = "device" THEN @ ELSE None]

-----------------------------------------------------------------------------
(* Leaving and entering pages.                                             *)

\* clear_content on the pins, once the bus is what it is after the stop.
\* SPI and I2C keep theirs when their cleanup failed; the Servo's stop takes
\* G54 unless I2C holds it, and a GPIO pin that was set is reset whoever
\* uses it.
Kept(p) ==
  \/ p = "G18" /\ spi' # "free" /\ mode[p] = 0
  \/ p = "G54" /\ bus' # "free" /\ mode[p] = 0

\* Mutant: the Servo's stop takes G54 even when I2C holds it.
ClearContentTakingG54 ==
  /\ I2cLeave
  /\ SpiStop
  /\ pwm' = FALSE
  /\ servo' = [ready |-> FALSE, running |-> FALSE]
  /\ mode' = [p \in Pins |-> 0]
  /\ pin' = [p \in Pins |-> IF Kept(p) /\ p # "G54" THEN pin[p] ELSE "off"]
  /\ UNCHANGED spiSaved

ClearContent ==
  /\ I2cLeave
  /\ SpiStop
  /\ pwm' = FALSE
  /\ servo' = [ready |-> FALSE, running |-> FALSE]
  /\ mode' = [p \in Pins |-> 0]
  /\ pin' = [p \in Pins |-> IF Kept(p) THEN pin[p] ELSE "off"]
  /\ UNCHANGED spiSaved

\* Home, from any page and from the launcher itself; the Scope waits for its
\* task first.
HomeClicked ==
  /\ page # "scope"
  /\ page' = "home"
  /\ ClearContent
  /\ UNCHANGED scopeVars

HomeFromScope ==
  \/ ScopeLeave /\ UNCHANGED <<i2cVars, benchVars>>
  \/ ScopeReleased /\ page' = "home" /\ ClearContent

\* shared_i2c_pins_available, for the pages that use G53/G54.
Built(there) == IF bus' = "free" THEN there ELSE "notice"

\* The launcher: the content is cleared once more, then the page is built.
AppEntered(there) ==
  /\ page = "home"
  /\ ClearContent
  /\ page' = IF there \in {"gpio", "servo"} THEN Built(there) ELSE there
  /\ UNCHANGED scopeVars

ScopeEntered ==
  /\ page = "home"
  /\ ClearContent
  /\ page' = Built("scope")
  /\ IF page' = "scope" THEN \E started \in BOOLEAN : ShowScope(started)
     ELSE UNCHANGED scopeVars

PageChanges ==
  \/ HomeClicked \/ HomeFromScope \/ ScopeEntered
  \/ \E there \in {"gpio", "servo", "i2c", "spi", "signal"} : AppEntered(there)

-----------------------------------------------------------------------------
(* The pages.  Every call on a driver may fail.                            *)

\* GPIO: input, low, high, input...; a failed configuration keeps the mode.
GpioModeClicked(p) ==
  /\ page = "gpio"
  /\ mode' = [mode EXCEPT ![p] = IF @ = 3 THEN 1 ELSE @ + 1]
  /\ \/ pin' = [pin EXCEPT ![p] = IF mode'[p] = 1 THEN "in" ELSE "out"]
     \/ UNCHANGED pin
  /\ UNCHANGED <<scopeVars, i2cVars, page, servo, pwm, spi, spiMode, spiSaved>>

\* The Servo and its light; a start that fails is stopped.
ServoStarts ==
  /\ page = "servo" /\ ~servo.running
  /\ \/ /\ servo' = [ready |-> TRUE, running |-> TRUE]
        /\ pin' = [pin EXCEPT !["G0"] = "servo", !["G54"] = "led"]
     \/ /\ servo' = [ready |-> FALSE, running |-> FALSE]
        /\ pin' = [pin EXCEPT !["G0"] = "off", !["G54"] = "off"]
  /\ UNCHANGED <<scopeVars, i2cVars, page, mode, pwm, spi, spiMode, spiSaved>>

\* Stop, a change of the motion, or the five-minute deadline.
ServoStops ==
  /\ page = "servo"
  /\ servo' = [ready |-> FALSE, running |-> FALSE]
  /\ pin' = [pin EXCEPT !["G0"] = "off", !["G54"] = IF I2cBusy THEN @ ELSE "off"]
  /\ UNCHANGED <<scopeVars, i2cVars, page, mode, pwm, spi, spiMode, spiSaved>>

\* The signal generator: PWM, which a button or the five-minute timer ends,
\* and single pulses, which end before their handler does.
PwmStarts ==
  /\ page = "signal" /\ ~pwm
  /\ pwm' = TRUE
  /\ pin' = [pin EXCEPT !["G6"] = "pwm"]
  /\ UNCHANGED <<scopeVars, i2cVars, page, mode, servo, spi, spiMode, spiSaved>>

\* Also how a start that fails and a pulse end.
PwmStops ==
  /\ page = "signal"
  /\ pwm' = FALSE
  /\ pin' = [pin EXCEPT !["G6"] = "off"]
  /\ UNCHANGED <<scopeVars, i2cVars, page, mode, servo, spi, spiMode, spiSaved>>

\* SPI: START makes the bus and the device; when the device cannot be added
\* the bus is stopped again.
SpiStarts ==
  /\ page = "spi" /\ spi = "free"
  /\ spi' \in {"device"} \cup StopLeaves("bus")
  /\ spiMode' = [spiMode EXCEPT !.device = IF spi' = "device" THEN spiMode.chosen ELSE None]
  /\ pin' = [pin EXCEPT !["G18"] = IF spi' = "free" THEN "off" ELSE "spi"]
  /\ UNCHANGED <<scopeVars, i2cVars, page, mode, servo, pwm, spiSaved>>

\* STOP, which can be repeated when it fails.
SpiStops ==
  /\ page = "spi" /\ spi # "free"
  /\ SpiStop
  /\ pin' = [pin EXCEPT !["G18"] = IF spi' = "free" THEN "off" ELSE @]
  /\ UNCHANGED <<scopeVars, i2cVars, page, mode, servo, pwm, spiSaved>>

\* The settings of the next START.
SpiSettingClicked ==
  /\ page = "spi" /\ spi = "free"
  /\ spiMode' = [spiMode EXCEPT !.chosen = (@ + 1) % SpiModes]
  /\ UNCHANGED <<scopeVars, i2cVars, page, pin, mode, servo, pwm, spi, spiSaved>>

\* A transfer drops the saved one first; a result is labelled with the
\* settings chosen.  CLEAR RESULT drops it too.
SpiTransfers ==
  /\ page = "spi" /\ spi = "device"
  /\ spiSaved' \in {NoTransfer, [label |-> spiMode.chosen, used |-> spiMode.device]}
  /\ UNCHANGED <<scopeVars, i2cVars, page, pin, mode, servo, pwm, spi, spiMode>>

SpiCleared ==
  /\ page = "spi"
  /\ spiSaved' = NoTransfer
  /\ UNCHANGED <<scopeVars, i2cVars, page, pin, mode, servo, pwm, spi, spiMode>>

\* I2C: a transaction has the pins while the driver holds the bus.
I2cUsed ==
  /\ page = "i2c"
  /\ I2cControls
  /\ pin' = [pin EXCEPT !["G54"] = IF bus' = "free" THEN "off" ELSE "i2c"]
  /\ UNCHANGED <<scopeVars, page, mode, servo, pwm, spi, spiMode, spiSaved>>

\* The Scope: the ADC takes the pin of its channel, which nothing drives then.
ScopeUsed ==
  /\ ScopeControls \/ ScopeTask
  /\ pin' = IF sampler.at = "claimed" /\ sampler'.at = "read"
            THEN [pin EXCEPT ![ScopePins[picked.channel]] = "off"] ELSE pin
  /\ UNCHANGED <<i2cVars, page, mode, servo, pwm, spi, spiMode, spiSaved>>

Outside == ConfirmationAges /\ UNCHANGED <<scopeVars, benchVars>>

PinsNext ==
  \/ PageChanges
  \/ \E p \in GpioPins : GpioModeClicked(p)
  \/ ServoStarts \/ ServoStops \/ PwmStarts \/ PwmStops
  \/ SpiStarts \/ SpiStops \/ SpiSettingClicked \/ SpiTransfers \/ SpiCleared
  \/ I2cUsed \/ ScopeUsed \/ Outside

PinsSpec == PinsInit /\ [][PinsNext]_pinsVars

-----------------------------------------------------------------------------
\* restart_blocker, its lines about the bench.
RestartBlocked ==
  recording \/ I2cBusy \/ pwm \/ spi # "free" \/ scopeOn.sampling \/ servo.running

\* The variables stay in their domains, and the page agrees with the Scope's.
PinsTypes ==
  /\ ScopeTypes /\ I2cTypes
  /\ page \in {"home", "notice", "gpio", "servo", "scope", "i2c", "spi", "signal"}
  /\ (page = "scope") <=> (scopePage # "closed")
  /\ pin \in [Pins -> {"off", "in", "out", "servo", "led", "i2c", "spi", "pwm"}]
  /\ mode \in [Pins -> 0..3]
  /\ servo \in [ready : BOOLEAN, running : BOOLEAN]
  /\ pwm \in BOOLEAN
  /\ spi \in {"free", "bus", "device"}
  /\ spiMode \in [chosen : 0 .. SpiModes - 1, device : None .. SpiModes - 1]

\* Every resource has one owner at a time (docs/architecture.md): while a
\* driver holds a pin, the pin is as that driver configured it, and a pin so
\* configured is held, across failed cleanups, page changes and the sampling
\* task.  What SPI still holds after it was left is not covered: no other
\* page asks whether its stop failed (see SpiKeepsPins).
OneOwner ==
  /\ servo.ready <=> pin["G0"] = "servo"
  /\ servo.ready <=> pin["G54"] = "led"
  /\ I2cBusy <=> pin["G54"] = "i2c"
  /\ pwm <=> pin["G6"] = "pwm"
  /\ pin["G18"] = "spi" => spi # "free"
  /\ sampler.at \in {"read", "converted", "stop"} =>
       pin[ScopePins[sampler.input.channel]] = "off"

\* The same of SPI, which the GPIO and Scope pages can break.
SpiKeepsPins == spi # "free" => pin["G18"] = "spi"

\* Away from the tools every pin is off, but for those whose cleanup failed
\* and is retried; and then, as whenever a tool is at work, a restart is
\* refused (docs/architecture.md, docs/pin-safety.md).
ReleasedAtHome ==
  page \in {"home", "notice"} \/ (~RestartBlocked /\ page # "gpio") =>
    \A p \in Pins : pin[p] # "off" => RestartBlocked /\ pin[p] \in {"i2c", "spi"}

\* The saved SPI transfer names the settings its device really had.
TransferAsLabelled == spiSaved.label = spiSaved.used

\* The bench as a whole: types, nothing sampled behind a closed page, one input
\* per chart, writes and captures as the user drafted them and whole, transfers
\* labelled as made, and nothing driven away from the tools.
BenchInv ==
  /\ PinsTypes /\ QuietWhenClosed /\ OneInput /\ ArmedAsDrafted /\ PublishedWhole
  /\ TransferAsLabelled /\ ReleasedAtHome

\* A pin is only ever used by the tools it is for, and a tool's state says which page is
\* shown: pins set by hand only on the GPIO page, the servo on its own, no page built on
\* the pins of I2C while its cleanup is owed.
PinsByTool ==
  /\ pin["G0"] \in {"off", "in", "out", "servo"} /\ pin["G6"] \in {"off", "in", "out", "pwm"}
  /\ pin["G18"] \in {"off", "in", "out", "spi"} /\ pin["G54"] \in {"off", "in", "out", "led", "i2c"}
  /\ \A p \in Pins : pin[p] \in {"in", "out"} => mode[p] # 0
  /\ \A p \in Pins : mode[p] # 0 => page = "gpio"
  /\ servo.ready => servo.running /\ page = "servo"
  /\ pwm => page = "signal"
  /\ page \in {"gpio", "servo", "scope"} => bus = "free"

\* The device was made with the settings that are chosen: they change only without it.
DeviceAsChosen == spi = "device" => spiMode.device = spiMode.chosen

BenchIInv == BenchInv /\ OneOwner /\ ScopeIInv /\ PinsByTool /\ DeviceAsChosen
=============================================================================
