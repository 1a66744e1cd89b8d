------------------------------ MODULE EnderPrinter ------------------------------
(***************************************************************************)
(* The Ender 3 page (main/ender3_tool.c): a connection task that opens,    *)
(* publishes and closes the printer's serial device, the callbacks of the  *)
(* CDC driver, and the LVGL task with its 50 ms tick, its taps and         *)
(* ender3_tool_stop(), which releases everything in order or keeps what it *)
(* could not release for the next attempt.                                 *)
(*                                                                         *)
(* A connection is a number, 0 is none.  The G-code is left out, but for   *)
(* the setup sent to every new connection; so are the axis settings, the   *)
(* transcript and what the printer answers, but for the fact that it did.  *)
(***************************************************************************)
EXTENDS Naturals

CONSTANTS
    SetupCommands,  \* commands of the setup
    RetryTicks,     \* E3_INIT_RETRY_TICKS
    MaxOpens        \* bound: connections made

ASSUME EnderAssumption == {SetupCommands, RetryTicks, MaxOpens} \subseteq Nat \ {0}

VARIABLES
    connTask,       \* where the connection task is
    opened, hdl,    \* the handle it has open; cdc_hdl
    connected, initPending, stopRequested,
    handle,         \* conn_task_handle is set
    sems, connSem, doneSem,     \* the semaphores exist; the tokens of two of them
    hostStarted, cdcReady, power,
    lvgl,           \* what the LVGL task is doing
    tickTimer, moving, quiet, sinceSetup,  \* tick_timer, move_dir, rx_line_count = retry_base_count
    plugged, lost   \* a printer is at the port; the open one: here, pulled, reported
VARIABLES setup, opens   \* for the properties: the last setup: its connection, the commands delivered
                         \* and the commands whose transfer failed; connections so far

enderTask == <<connTask, opened, hdl, connected>>
owned == <<handle, sems, hostStarted, cdcReady, power>>
port == <<plugged, lost>>
ui == <<tickTimer, moving, quiet, sinceSetup>>
enderVars == <<enderTask, initPending, stopRequested, connSem, doneSem, owned, lvgl, ui, port, setup, opens>>

AtRest == [at |-> "idle", n |-> 0]
Alive == connTask \notin {"none", "ended"}
EnderBusy == handle \/ hostStarted \/ cdcReady \/ connected \/ initPending

NoSetup(h) == [to |-> h, n |-> 0, missed |-> 0]
EnderInit ==
    /\ connTask = "none" /\ opened = 0 /\ hdl = 0
    /\ connected = FALSE /\ initPending = FALSE /\ stopRequested = FALSE
    /\ handle = FALSE /\ sems = FALSE /\ connSem = FALSE /\ doneSem = FALSE
    /\ hostStarted = FALSE /\ cdcReady = FALSE /\ power = FALSE
    /\ lvgl = AtRest /\ tickTimer = FALSE /\ moving = FALSE /\ quiet = TRUE /\ sinceSetup = 0
    /\ plugged \in BOOLEAN /\ lost = "here"
    /\ setup = NoSetup(0) /\ opens = 0

(***************************************************************************)
(* The printer and the CDC driver's callbacks.                             *)
(***************************************************************************)

Plug ==
    /\ ~plugged /\ plugged' = TRUE
    /\ UNCHANGED <<enderTask, initPending, stopRequested, connSem, doneSem, owned, lvgl, ui, lost, setup, opens>>

Unplug ==
    /\ plugged /\ plugged' = FALSE /\ lost' = IF opened # 0 /\ lost = "here" THEN "pulled" ELSE lost
    /\ UNCHANGED <<enderTask, initPending, stopRequested, connSem, doneSem, owned, lvgl, ui, setup, opens>>

\* conn_event_cb(): the driver reports the loss of a device that is open, once.
Disconnected ==
    /\ lost = "pulled" /\ opened # 0
    /\ connSem' = TRUE /\ lost' = "reported"
    /\ UNCHANGED <<enderTask, initPending, stopRequested, doneSem, owned, lvgl, ui, plugged, setup, opens>>

\* conn_rx_cb(): a line of the printer.
PrinterAnswers ==
    /\ opened # 0 /\ plugged /\ lost = "here" /\ quiet
    /\ quiet' = FALSE
    /\ UNCHANGED <<enderTask, initPending, stopRequested, connSem, doneSem, owned, lvgl, tickTimer, moving,
                   sinceSetup, port, setup, opens>>

(***************************************************************************)
(* conn_task().                                                            *)
(***************************************************************************)

TaskOnly == UNCHANGED <<stopRequested, doneSem, owned, lvgl, ui, plugged, setup>>

CheckStop ==
    /\ connTask = "check"
    /\ connTask' = IF stopRequested THEN "last close" ELSE IF connected THEN "wait" ELSE "open"
    /\ UNCHANGED <<opened, hdl, connected, initPending, connSem, lost, opens>> /\ TaskOnly

\* xSemaphoreTake(conn_sem, portMAX_DELAY).
AwaitLoss ==
    /\ connTask = "wait" /\ connSem
    /\ connSem' = FALSE /\ connTask' = "close"
    /\ UNCHANGED <<opened, hdl, connected, initPending, lost, opens>> /\ TaskOnly

CloseLost ==
    /\ connTask = "close"
    /\ opened' = 0 /\ hdl' = 0 /\ lost' = "here" /\ connTask' = "unflag"
    /\ UNCHANGED <<connected, initPending, connSem, opens>> /\ TaskOnly

Unflag ==
    /\ connTask = "unflag"
    /\ connected' = FALSE /\ connTask' = "check"
    /\ UNCHANGED <<opened, hdl, initPending, connSem, lost, opens>> /\ TaskOnly

\* cdc_acm_host_open(): no printer, a refusal, or a device; then the first look at the flag.
OpenPrinter ==
    /\ connTask = "open" /\ connTask' = "opened"
    /\ \/ UNCHANGED <<opened, opens>>
       \/ plugged /\ opens < MaxOpens /\ opens' = opens + 1 /\ opened' = opens + 1
    /\ UNCHANGED <<hdl, connected, initPending, connSem, lost>> /\ TaskOnly

OpenReturned ==
    /\ connTask = "opened"
    /\ IF stopRequested
       THEN connTask' = "last close" /\ opened' = 0 /\ lost' = "here"
       ELSE connTask' = (IF opened # 0 THEN "configure" ELSE "check") /\ UNCHANGED <<opened, lost>>
    /\ UNCHANGED <<hdl, connected, initPending, connSem, opens>> /\ TaskOnly

\* configure_bridge_baud(): control transfers of up to two seconds each, meanwhile the
\* device may be lost; whether they succeed changes nothing here.
ConfigureBridge ==
    /\ connTask = "configure" /\ connTask' = "publish"
    /\ UNCHANGED <<opened, hdl, connected, initPending, connSem, lost, opens>> /\ TaskOnly

\* The handle is published under dev_mutex.
PublishHandle ==
    /\ connTask = "publish"
    /\ hdl' = opened /\ connTask' = "flag"
    /\ UNCHANGED <<opened, connected, initPending, connSem, lost, opens>> /\ TaskOnly

\* connected_flag is raised before init_pending.
RaiseFlags ==
    \/ /\ connTask = "flag" /\ connected' = TRUE /\ connTask' = "pend"
       /\ UNCHANGED <<opened, hdl, initPending, connSem, lost, opens>> /\ TaskOnly
    \/ /\ connTask = "pend" /\ initPending' = TRUE /\ connTask' = "check"
       /\ UNCHANGED <<opened, hdl, connected, connSem, lost, opens>> /\ TaskOnly

\* Faulty end for mutation: the task ends without closing a device that stop found connected.
EndWithoutClosing ==
    /\ connTask = "last close"
    /\ connected' = FALSE /\ initPending' = FALSE
    /\ doneSem' = TRUE /\ connTask' = "ended"
    /\ UNCHANGED <<opened, hdl, stopRequested, connSem, owned, lvgl, ui, port, setup, opens>>

\* The way out of the task: the device is closed, the flags fall, and the joiner is told.
LastClose ==
    /\ connTask = "last close"
    /\ opened' = 0 /\ hdl' = 0 /\ lost' = "here"
    /\ connected' = FALSE /\ initPending' = FALSE
    /\ doneSem' = TRUE /\ connTask' = "ended"
    /\ UNCHANGED <<stopRequested, connSem, owned, lvgl, ui, plugged, setup, opens>>

ConnTask ==
    \/ CheckStop \/ AwaitLoss \/ CloseLost \/ Unflag
    \/ OpenPrinter \/ OpenReturned \/ ConfigureBridge \/ PublishHandle \/ RaiseFlags \/ LastClose

(***************************************************************************)
(* The LVGL task: the tick, the buttons, leaving and entering the page.    *)
(***************************************************************************)

Elsewhere == UNCHANGED <<enderTask, stopRequested, connSem, doneSem, owned, port, opens>>

\* tick_cb(): the flag is read, lowered, and the setup is sent command by command; it is
\* sent again after RetryTicks ticks without a word from the printer.
EnderTick ==
    /\ lvgl = AtRest /\ tickTimer /\ ~stopRequested
    /\ lvgl' = [at |-> IF initPending THEN "lower"
                       ELSE IF connected /\ sinceSetup = RetryTicks /\ quiet THEN "again"
                       ELSE "rest", n |-> 0]
    /\ UNCHANGED <<initPending, ui, setup>> /\ Elsewhere

BeginSetup ==
    /\ lvgl.at \in {"lower", "again"}
    /\ initPending' = IF lvgl.at = "lower" THEN FALSE ELSE initPending
    /\ sinceSetup' = 0 /\ quiet' = TRUE
    /\ setup' = NoSetup(setup.to)
    /\ lvgl' = [at |-> "look", n |-> 0]
    /\ UNCHANGED <<tickTimer, moving>> /\ Elsewhere

\* send_gcode() looks at connected_flag first and takes dev_mutex afterwards.  A transfer
\* that fails on the open handle is only logged: the setup goes on with the next command.
NextCommand(n) == [at |-> IF n = SetupCommands THEN "rest" ELSE "look", n |-> n]
SetupFor(h) == IF h = setup.to THEN setup ELSE NoSetup(h)
SendGcode ==
    /\ \/ /\ lvgl.at = "look" /\ connected /\ cdcReady
          /\ lvgl' = [lvgl EXCEPT !.at = "send"] /\ UNCHANGED setup
       \/ /\ lvgl.at = "look" /\ ~(connected /\ cdcReady)
          /\ lvgl' = NextCommand(lvgl.n + 1) /\ UNCHANGED setup
       \/ /\ lvgl.at = "send"
          /\ lvgl' = NextCommand(lvgl.n + 1)
          /\ \/ hdl = 0 /\ UNCHANGED setup
             \/ hdl # 0 /\ setup' = [SetupFor(hdl) EXCEPT !.n = @ + 1]
             \/ hdl # 0 /\ setup' = [SetupFor(hdl) EXCEPT !.missed = @ + 1]
    /\ UNCHANGED <<initPending, ui>> /\ Elsewhere

\* The rest of the tick: the retry counter, the move of a held button, the poll.
TickEnd ==
    /\ lvgl.at = "rest" /\ lvgl' = AtRest
    /\ sinceSetup' = IF connected /\ sinceSetup < RetryTicks THEN sinceSetup + 1 ELSE sinceSetup
    /\ UNCHANGED <<tickTimer, moving, quiet, initPending, setup>> /\ Elsewhere

\* dir_pressed(), dir_released(), stop_clicked().
HoldOrLetGo == lvgl = AtRest /\ tickTimer /\ moving' = ~moving
         /\ UNCHANGED <<lvgl, tickTimer, quiet, sinceSetup, initPending, setup>> /\ Elsewhere

\* Faulty stop for mutation: the task waiting for a lost printer is not woken.
StopWithoutWaking(purpose) ==
    /\ lvgl = AtRest
    /\ tickTimer' = FALSE /\ moving' = FALSE /\ stopRequested' = TRUE
    /\ lvgl' = [at |-> IF handle THEN "join" ELSE "release", n |-> purpose]
    /\ UNCHANGED <<enderTask, initPending, connSem, doneSem, owned, quiet, sinceSetup, port, setup, opens>>

\* ender3_tool_stop(), called by Home (purpose 0) and by ender3_tool_show() (purpose 1).
StopBegins(purpose) ==
    /\ lvgl = AtRest
    /\ tickTimer' = FALSE /\ moving' = FALSE /\ stopRequested' = TRUE
    /\ connSem' = (connSem \/ (handle /\ sems))
    /\ lvgl' = [at |-> IF handle THEN "join" ELSE "release", n |-> purpose]
    /\ UNCHANGED <<enderTask, initPending, doneSem, owned, quiet, sinceSetup, port, setup, opens>>

EnderStop == StopBegins(0)
EnderShow == StopBegins(1)

JoinTask ==
    /\ lvgl.at = "join" /\ doneSem
    /\ doneSem' = FALSE /\ handle' = FALSE
    /\ lvgl' = [lvgl EXCEPT !.at = "release"]
    /\ UNCHANGED <<enderTask, initPending, stopRequested, connSem, sems, hostStarted, cdcReady, power,
                   ui, port, setup, opens>>

\* Three seconds without an answer: everything stays owned; show() finds it busy.
JoinTimesOut ==
    /\ lvgl.at = "join" /\ ~doneSem
    /\ lvgl' = AtRest
    /\ UNCHANGED <<initPending, ui, setup>> /\ Elsewhere

\* cdc_acm_host_uninstall() and bsp_usb_host_stop(): what fails is kept, with what follows it.
ReleaseFails ==
    /\ lvgl.at = "release" /\ hostStarted
    /\ cdcReady' \in {cdcReady, FALSE}
    /\ lvgl' = AtRest
    /\ UNCHANGED <<enderTask, initPending, stopRequested, connSem, doneSem, handle, sems, hostStarted,
                   power, ui, port, setup, opens>>

EnderReleased ==
    /\ lvgl.at = "release"
    /\ cdcReady' = FALSE /\ hostStarted' = FALSE /\ power' = FALSE
    /\ connected' = FALSE /\ initPending' = FALSE /\ stopRequested' = FALSE
    /\ sems' = FALSE /\ connSem' = FALSE /\ doneSem' = FALSE
    /\ lvgl' = IF lvgl.n = 1 THEN [at |-> "start", n |-> 1] ELSE AtRest
    /\ UNCHANGED <<connTask, opened, hdl, handle, ui, port, setup, opens>>

\* ender3_tool_show() after stop: the memory, the host, the driver or the task may fail,
\* and what was started before stays started.
EnderStart ==
    /\ lvgl.at = "start" /\ lvgl' = AtRest /\ ~EnderBusy
    /\ \E reached \in {"nothing", "page", "host", "driver", "task"} :
         /\ tickTimer' = (reached # "nothing")
         /\ hostStarted' = (reached \in {"host", "driver", "task"}) /\ power' = hostStarted'
         /\ cdcReady' = (reached \in {"driver", "task"})
         /\ handle' = (reached = "task")
         /\ connTask' = IF reached = "task" THEN "check" ELSE connTask
    /\ sems' = TRUE /\ hdl' = 0 /\ quiet' = TRUE /\ sinceSetup' = 0 /\ moving' = FALSE
    /\ UNCHANGED <<opened, connected, initPending, stopRequested, connSem, doneSem, port, setup, opens>>

EnderLvgl ==
    \/ EnderTick \/ BeginSetup \/ SendGcode \/ TickEnd \/ HoldOrLetGo
    \/ EnderStop \/ EnderShow \/ JoinTask \/ JoinTimesOut \/ ReleaseFails \/ EnderReleased \/ EnderStart

EnderNext == Plug \/ Unplug \/ Disconnected \/ PrinterAnswers \/ ConnTask \/ EnderLvgl

(***************************************************************************)
(* Properties.                                                             *)
(***************************************************************************)

EnderTypes ==
    /\ connTask \in {"none", "check", "wait", "close", "unflag", "open", "opened", "configure", "publish",
                     "flag", "pend", "last close", "ended"}
    /\ {opened, hdl, opens, setup.to} \subseteq 0..MaxOpens /\ {setup.n, setup.missed} \subseteq 0..SetupCommands
    /\ {connected, initPending, stopRequested, handle, sems, connSem, doneSem, hostStarted,
        cdcReady, power, tickTimer, moving, quiet, plugged} \subseteq BOOLEAN /\ lost \in {"here", "pulled", "reported"}
    /\ sinceSetup \in 0..RetryTicks
    /\ lvgl.at \in {"idle", "lower", "again", "look", "send", "rest", "join", "release", "start"}

\* What is in use is owned, whatever stop() could release and however often it is tried: a
\* live task and an open device have their semaphores and the driver, the driver has the
\* host and the host the power; and a page that is not busy has let go of all of it.
OwnedInOrder ==
    /\ Alive => handle /\ sems /\ cdcReady
    /\ opened # 0 => sems /\ cdcReady
    /\ cdcReady => hostStarted
    /\ hostStarted <=> power
    /\ ~EnderBusy => ~Alive /\ opened = 0 /\ ~power

\* Every command of the setup was tried once on the very connection that needs no setup any
\* more, although the printer may be pulled out and come back in the middle of the tick that
\* sends it: the printer got all of it but for the transfers that failed, which are only
\* made up for while the printer stays silent.
SetupTriedOnConnection ==
    connected /\ connTask \in {"check", "wait"} /\ ~initPending
        /\ lvgl.at \in {"idle", "rest", "join"}
      => (setup.to = hdl /\ setup.n + setup.missed = SetupCommands) \/ stopRequested

\* A connection ends only because the printer was lost or the page stops: no token of an
\* earlier disconnect is left over for it.
KeptWhileThere == [][opened # 0 /\ opened' = 0 => lost # "here" \/ stopRequested]_enderVars

\* Told to stop, the connection task ends, wherever it is waiting.
TaskEnds == stopRequested ~> ~Alive

\* The console as a whole: types, resources owned in order, and a setup of which every
\* command is tried on the connection it is for.
EnderInv == EnderTypes /\ OwnedInOrder /\ SetupTriedOnConnection

\* What a step may not do and what must happen: a connection is kept while the
\* printer is there, and the task ends when it is told to.
EnderKept == KeptWhileThere /\ TaskEnds
=================================================================================
