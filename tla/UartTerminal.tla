------------------------------ MODULE UartTerminal ------------------------------
(***************************************************************************)
(* The serial terminal (main/uart_tool.c): the UART driver, the transcript *)
(* with its log on the SD card, and the capture window.  All of it runs in *)
(* the LVGL task; bytes arrive in the driver's buffer at any moment, also  *)
(* in the middle of a callback, which therefore is several steps whenever  *)
(* it reads.  A byte is its number on the line, where it may be lost       *)
(* before the driver has it.  What a byte looks like, what the page says,  *)
(* the line settings, drafts and history are left out.                     *)
(***************************************************************************)
EXTENDS Naturals, Sequences

CONSTANTS
    RxBuffer,   \* UART_TOOL_RX_BUFFER
    Chunk,      \* bytes taken in one read
    Passes,     \* reads in one call of receive_available()
    CaptureMax, \* PAYLOAD_CLIPBOARD_MAX_BYTES
    LogNames,   \* suffixes a log can have within a second
    MaxBytes,   \* bound: bytes that come down the line
    MaxSends    \* bound: transmissions

ASSUME UartAssumption ==
    {RxBuffer, Chunk, Passes, CaptureMax, LogNames, MaxBytes, MaxSends} \subseteq Nat \ {0}

VARIABLES
    pageOpen, running,  \* uart_tool_show() was called; driver_running
    fifo, arrived,      \* the driver's buffer; bytes that came down the line
    capture,            \* rx_capture_state with its bytes
    log, logs,          \* the suffix of the open log, or 0; the files with their rows
    doing               \* the callback in progress, and the pass it is in

\* What happened, for the properties only.
VARIABLES
    delivered,      \* the bytes the driver put into its buffer
    window,     \* how many it had when the window began, and when FREEZE or STOP was tapped
    traffic,    \* what was read from the driver and what it accepted
    span,       \* how much of it was before START LOG, and before the log was published
    sends

driver == <<running, fifo, arrived, delivered>>
files == <<log, logs, traffic, span>>
uartVars == <<pageOpen, driver, capture, files, doing, window, sends>>

UartIdle == [step |-> "idle", pass |-> 0]
Nothing == [state |-> "empty", bytes |-> <<>>]
Sent == 0   \* in the traffic: what SEND put out
NoLog == [state |-> "none", rows |-> <<>>]

UartInit ==
    /\ pageOpen = FALSE /\ running = FALSE /\ fifo = <<>> /\ arrived = 0 /\ delivered = <<>>
    /\ capture = Nothing
    /\ log = 0 /\ logs = [n \in 1..LogNames |-> NoLog]
    /\ traffic = <<>> /\ span = [n \in 1..LogNames |-> [from |-> 0, upto |-> 0]]
    /\ doing = UartIdle /\ window = [from |-> 0, upto |-> 0] /\ sends = 0

Head2(s, n) == SubSeq(s, 1, n)
Least(a, b) == IF a < b THEN a ELSE b

\* A byte comes: the interrupt puts it into the driver's buffer, or it is lost there, because
\* the buffer is full, or before, in the hardware's; nobody listens for such an event.
Arrive ==
    /\ running /\ arrived < MaxBytes
    /\ arrived' = arrived + 1
    /\ \/ /\ Len(fifo) < RxBuffer
          /\ fifo' = Append(fifo, arrived + 1) /\ delivered' = Append(delivered, arrived + 1)
       \/ UNCHANGED <<fifo, delivered>>
    /\ UNCHANGED <<pageOpen, running, capture, files, doing, window, sends>>

--------------------------------------------------------------------------------
(* What the callbacks are made of.                                         *)

\* fail_rx_capture()
Failed(c, why) == IF c.state = "active" THEN [state |-> why, bytes |-> <<>>] ELSE c

\* capture_received()
Captured(bytes) ==
    IF capture.state # "active" THEN capture
    ELSE IF Len(bytes) > CaptureMax - Len(capture.bytes) THEN Failed(capture, "overflow")
    ELSE [capture EXCEPT !.bytes = @ \o bytes]

\* Faulty log for mutation: a row that could not be written is passed over.
LogRecordOn(bytes) ==
    \/ log = 0 /\ UNCHANGED <<log, logs>>
    \/ log # 0 /\ logs' = [logs EXCEPT ![log].rows = @ \o bytes] /\ UNCHANGED log
    \/ log # 0 /\ UNCHANGED <<log, logs>>

\* show_bytes() with log_bytes(): a write or a sync that fails closes the log and keeps
\* its TMP.  How much of it a TMP that was given up still has is left out.
LogRecord(bytes) ==
    \/ log = 0 /\ UNCHANGED <<log, logs>>
    \/ log # 0 /\ logs' = [logs EXCEPT ![log].rows = @ \o bytes] /\ UNCHANGED log
    \/ log # 0 /\ log' = 0 /\ logs' = [logs EXCEPT ![log].rows = <<>>]

\* What was read or accepted is shown and logged.
Shown(bytes) == LogRecord(bytes) /\ traffic' = traffic \o bytes /\ UNCHANGED span

\* A callback that reads begins: receive_available() and what follows it.
Begin(step) ==
    /\ pageOpen /\ running /\ doing = UartIdle
    /\ doing' = [step |-> step, pass |-> 1]

\* A pass that finds something: a chunk is read, captured and recorded.
ReadPass ==
    /\ doing.step \in {"tick", "start capture", "freeze", "stop"} /\ doing.pass \in 1..Passes
    /\ fifo # <<>>
    /\ \E n \in {Least(Len(fifo), Chunk)} :
         /\ fifo' = SubSeq(fifo, n + 1, Len(fifo))
         /\ capture' = Captured(Head2(fifo, n))
         /\ Shown(Head2(fifo, n))
    /\ doing' = [doing EXCEPT !.pass = @ + 1]
    /\ UNCHANGED <<pageOpen, running, arrived, delivered, window, sends>>

\* What a callback does when receive_available() has returned.
AfterRead(drained) ==
    CASE doing.step = "tick" ->
           /\ doing' = UartIdle
           /\ capture' = IF drained = "error" THEN Failed(capture, "error") ELSE capture
      [] doing.step = "start capture" ->
           /\ doing' = UartIdle
           /\ capture' = IF drained = "all" THEN [state |-> "active", bytes |-> <<>>] ELSE capture
      [] doing.step \in {"freeze", "stop"} ->
           /\ doing' = IF doing.step = "stop" THEN [doing EXCEPT !.step = "close"] ELSE UartIdle
           /\ capture' = IF drained # "all" THEN Failed(capture, "error")
                         ELSE IF capture.state = "active" THEN [capture EXCEPT !.state = "frozen"]
                         ELSE capture

\* receive_available() returns: all is read, or a call failed, or too much is left.
ReadDone ==
    /\ doing.step \in {"tick", "start capture", "freeze", "stop"}
    /\ \/ fifo = <<>> /\ AfterRead("all")
       \/ AfterRead("error")
       \/ doing.pass > Passes /\ fifo # <<>> /\ AfterRead("more")
    /\ window' = IF capture'.state = "active" /\ doing.step = "start capture"
                 THEN [from |-> Len(delivered), upto |-> 0] ELSE window
    /\ UNCHANGED <<pageOpen, driver, files, sends>>

--------------------------------------------------------------------------------
(* The callbacks.                                                          *)

\* receive_tick()
UartTick == Begin("tick") /\ UNCHANGED <<pageOpen, driver, capture, files, window, sends>>

\* capture_clicked()
UartCapture ==
    /\ Begin(IF capture.state = "active" THEN "freeze" ELSE "start capture")
    /\ window' = IF capture.state = "active" THEN [window EXCEPT !.upto = Len(delivered)]
                 ELSE window
    /\ UNCHANGED <<pageOpen, driver, capture, files, sends>>

\* clear_rx_clicked()
UartClear ==
    /\ pageOpen /\ doing = UartIdle
    /\ capture' = Nothing
    /\ UNCHANGED <<pageOpen, driver, files, doing, window, sends>>

\* start_clicked(): the driver is installed and the pins are routed, or everything is undone.
UartStart ==
    /\ pageOpen /\ ~running /\ doing = UartIdle
    /\ running' = TRUE
    /\ UNCHANGED <<pageOpen, fifo, arrived, delivered, capture, files, doing, window, sends>>

\* stop_driver() for STOP and for Home: an active window is frozen first.
UartStop(home) ==
    /\ pageOpen /\ doing = UartIdle /\ running
    /\ doing' = [step |-> IF capture.state = "active" THEN "stop" ELSE "close", pass |-> 1]
    /\ window' = IF capture.state = "active" THEN [window EXCEPT !.upto = Len(delivered)] ELSE window
    /\ pageOpen' = ~home
    /\ UNCHANGED <<driver, capture, files, sends>>

\* stop_log(): synced, closed and renamed, even if the rename then reports a failure; or the
\* TMP is kept.
PublishLog ==
    /\ log' = 0
    /\ \/ /\ log # 0
          /\ logs' = [logs EXCEPT ![log].state = "csv"]
          /\ span' = [span EXCEPT ![log].upto = Len(traffic)]
       \/ log # 0 /\ logs' = [logs EXCEPT ![log].rows = <<>>] /\ UNCHANGED span
       \/ log = 0 /\ UNCHANGED <<logs, span>>
    /\ UNCHANGED traffic

\* The log is published and the driver goes, with whatever it still holds.
UartClose ==
    /\ doing.step = "close"
    /\ PublishLog
    /\ running' = FALSE /\ fifo' = <<>> /\ doing' = UartIdle
    /\ UNCHANGED <<pageOpen, arrived, delivered, capture, window, sends>>

\* start_log(): the first suffix no file of this second has; a header that cannot be
\* written leaves its TMP.
FreeNames == {n \in 1..LogNames : logs[n].state = "none"}
UartLogStart ==
    /\ pageOpen /\ running /\ doing = UartIdle /\ log = 0
    /\ \E n \in FreeNames, opened \in BOOLEAN :
         /\ \A m \in FreeNames : n <= m
         /\ logs' = [logs EXCEPT ![n].state = "tmp"]
         /\ log' = IF opened THEN n ELSE 0
         /\ span' = [span EXCEPT ![n].from = Len(traffic)]
    /\ UNCHANGED <<pageOpen, driver, capture, traffic, doing, window, sends>>

UartLogStop ==
    /\ pageOpen /\ running /\ doing = UartIdle /\ log # 0
    /\ PublishLog
    /\ UNCHANGED <<pageOpen, driver, capture, doing, window, sends>>

\* send_clicked(): the driver takes all bytes, a part of them, or none; what it took is
\* shown and logged.
UartSend ==
    /\ pageOpen /\ running /\ doing = UartIdle /\ sends < MaxSends
    /\ sends' = sends + 1
    /\ Shown(<<Sent>>)
    /\ UNCHANGED <<pageOpen, driver, capture, doing, window>>

\* uart_tool_show(); uart_tool_stop() when nothing runs.
UartShow ==
    /\ ~pageOpen /\ doing = UartIdle
    /\ pageOpen' = TRUE
    /\ UNCHANGED <<driver, capture, files, doing, window, sends>>
UartLeave ==
    /\ pageOpen /\ ~running /\ doing = UartIdle
    /\ pageOpen' = FALSE
    /\ UNCHANGED <<driver, capture, files, doing, window, sends>>

UartNext ==
    \/ Arrive \/ ReadPass \/ ReadDone \/ UartTick \/ UartCapture \/ UartClear
    \/ UartStart \/ (\E home \in BOOLEAN : UartStop(home)) \/ UartClose
    \/ UartLogStart \/ UartLogStop \/ UartSend \/ UartShow \/ UartLeave

--------------------------------------------------------------------------------
UartTypes ==
    /\ {pageOpen, running} \subseteq BOOLEAN
    /\ Len(fifo) <= RxBuffer /\ arrived \in 0..MaxBytes /\ sends \in 0..MaxSends
    /\ capture.state \in {"empty", "active", "frozen", "overflow", "error"}
    /\ Len(capture.bytes) <= CaptureMax
    /\ log \in 0..LogNames /\ \A n \in 1..LogNames : logs[n].state \in {"none", "tmp", "csv"}

\* A frozen window is every byte the driver had from its start to the tap on FREEZE or
\* STOP, in order, and none from before: neither the backlog of earlier bytes, nor a byte
\* that comes while the callback reads, nor bytes lost on the way make it another.
FrozenIsExact ==
    capture.state = "frozen" =>
        LET end == window.from + Len(capture.bytes) IN
        /\ window.upto <= end /\ end <= Len(delivered)
        /\ capture.bytes = SubSeq(delivered, window.from + 1, end)

\* A log that was published is every byte that was read, and every one the driver
\* accepted, between START LOG and its end, in order: no log that lost a row is published,
\* and none takes what belongs to another.  A stopped terminal has no open log and no
\* window that still collects.
LogIsExact ==
    /\ \A n \in 1..LogNames : logs[n].state = "csv" =>
          logs[n].rows = SubSeq(traffic, span[n].from + 1, span[n].upto)
    /\ log # 0 => /\ logs[log].state = "tmp"
                  /\ logs[log].rows = SubSeq(traffic, span[log].from + 1, Len(traffic))
    /\ ~running => log = 0 /\ capture.state # "active"

\* The terminal as a whole: types, an exact frozen window and exact logs.
UartInv == UartTypes /\ FrozenIsExact /\ LogIsExact
=================================================================================
