-------------------------------- MODULE ModbusTcp --------------------------------
(***************************************************************************)
(* The Modbus TCP client (main/modbus_tool.c): one read of registers, sent *)
(* after a confirmation, or a connection test, which needs none and sends  *)
(* nothing.  A device answers with the values, with an exception, or with  *)
(* a message that is rejected, by its header or as a whole.  The worker    *)
(* looks at the cancel flag once more under the lock that publishes the    *)
(* result.                                                                 *)
(***************************************************************************)
EXTENDS ToolPage

\* > in this tool.
ModbusExpired == age > ConfirmWindow

\* operation_error(), and the calls around it, which may fail.
ModbusError == IF cancelled THEN "cancelled" ELSE IF expired THEN "timeout" ELSE "ok"
ModbusOutcomes == IF ModbusError = "ok" THEN {"ok", "failed"} ELSE {ModbusError}

ModbusGoOn(step) ==
    \E e \in ModbusOutcomes :
      /\ worker' = IF e = "ok" THEN step ELSE "conclude"
      /\ job' = IF e = "ok" THEN job ELSE [job EXCEPT !.status = e]
      /\ Quiet /\ UNCHANGED handed

\* Parse, socket(), connect() with its wait; then a test is done.
ModbusConnect ==
    /\ worker = "setup"
    /\ \/ job.request # Probe /\ ModbusGoOn("send")
       \/ /\ job.request = Probe
          /\ \E e \in ModbusOutcomes :
               job' = IF e = "ok" THEN [job EXCEPT !.got = {"open"}, !.status = "done"]
                      ELSE [job EXCEPT !.status = e]
          /\ worker' = "conclude"
          /\ Quiet /\ UNCHANGED handed

\* transfer() of the request: a part of it may have left when it ends with an error.
ModbusSend ==
    /\ worker = "send" /\ Quiet
    /\ handed' = 1
    /\ \E e \in ModbusOutcomes :
         /\ worker' = IF e = "ok" THEN "header" ELSE "conclude"
         /\ job' = IF e = "ok" THEN [job EXCEPT !.sent = TRUE] ELSE [job EXCEPT !.status = e]

\* transfer() of the six bytes that say how long the response is.
ModbusReceiveHeader ==
    \/ worker = "header" /\ ModbusGoOn("rest")
    \/ /\ worker = "header" /\ Quiet /\ UNCHANGED handed
       /\ job' = [job EXCEPT !.status = "done", !.got = {"rejected"}]
       /\ worker' = "conclude"

ModbusReceiveRest ==
    /\ worker = "rest" /\ Quiet /\ UNCHANGED handed
    /\ worker' = "conclude"
    /\ \E e \in ModbusOutcomes :
         IF e # "ok" THEN job' = [job EXCEPT !.status = e]
         ELSE \E g \in {"values", "exception", "rejected"} :
                job' = [job EXCEPT !.status = "done", !.got = {g}]

\* An error leaves no result: here any cancellation is one.
ModbusVerdict(j) ==
    IF cancelled THEN [j EXCEPT !.status = "cancelled", !.got = {}]
    ELSE IF j.status = "done" THEN j ELSE [j EXCEPT !.got = {}]

ModbusConclude ==
    \/ /\ worker = "conclude"
       /\ job' = ModbusVerdict(job)
       /\ worker' = "publish"
       /\ Quiet /\ UNCHANGED handed
    \/ /\ worker = "publish"
       /\ Publish(ModbusVerdict(job), TRUE)
       /\ worker' = "none" /\ job' = NoJob
       /\ Local /\ UNCHANGED handed

ModbusRefresh == Refresh(ModbusExpired)

\* start_clicked(): the buttons are disabled while a job is shown, and when the page could
\* not get its timer, until STOP draws them again.
ModbusReady == open /\ ~busy /\ ~shown.busy /\ ~shown.blocked
ModbusReview ==
    /\ ModbusReady /\ form # NoRequest
    /\ ~(armed /\ confirmation = form /\ ~ModbusExpired)
    /\ Offer /\ UNCHANGED <<shown, rendered>>
\* Faulty tap for mutation: an expired confirmation still counts.
ModbusConfirmLate ==
    /\ ModbusReady /\ form # NoRequest
    /\ armed /\ confirmation = form
    /\ Take(form)
ModbusConfirm ==
    /\ ModbusReady /\ form # NoRequest
    /\ armed /\ confirmation = form /\ ~ModbusExpired
    /\ Take(form)

ModbusTest == ModbusReady /\ Take(Probe)

\* No Wi-Fi: disarmed.  A form that is refused only shows why.  view_changed() disarms too.
ModbusRefused ==
    /\ open /\ ~busy
    /\ Disarm
    /\ UNCHANGED <<shared, task, expired, page, screen, handed, stopped>>

\* input_event() and function_changed(); stop_clicked(), modbus_tool_stop(), _show()
ModbusEdit == Edit
ModbusStopClicked == Stop
ModbusStop == Leave
ModbusShow == Enter

ModbusWorker ==
    \/ TakeJob \/ ModbusConnect \/ ModbusSend
    \/ ModbusReceiveHeader \/ ModbusReceiveRest \/ ModbusConclude
ModbusNext ==
    \/ ModbusWorker \/ Expire \/ PassTime
    \/ ModbusRefresh \/ ModbusReview \/ ModbusConfirm \/ ModbusTest \/ ModbusRefused
    \/ ModbusEdit \/ ModbusStopClicked \/ ModbusStop \/ ModbusShow

\* STOP or Home, at whatever point they come before the result is published, leave a
\* cancelled job without a result; a job that was not stopped is not called cancelled.  A
\* connection test sends nothing, and values come only from a request that was sent.
ModbusHonest ==
    Ended =>
      /\ published.status = "cancelled" <=> stopped
      /\ published.got # {} <=> published.status = "done"
      /\ published.request = Probe => handed = 0 /\ published.got \subseteq {"open"}
      /\ published.request # Probe => "open" \notin published.got
      /\ published.got # {} /\ published.request # Probe => published.sent

ModbusSpec == Init /\ [][ModbusNext]_vars

\* The invariant behind ModbusHonest: what the worker knows at each of its calls.
ModbusFindings == {"open", "values", "exception", "rejected"}
ModbusStage ==
    /\ handed <= 1
    /\ worker = "start" => handed = 0 /\ ~published.sent /\ published.got = {}
    /\ worker \in {"setup", "send"} => handed = 0 /\ ~job.sent /\ job.got = {}
    /\ worker \in {"send", "header", "rest"} => job.request # Probe
    /\ worker \in {"header", "rest"} => job.sent /\ job.got = {}
    /\ worker \in {"conclude", "publish"} =>
         /\ job.got # {} <=> job.status = "done"
         /\ job.request = Probe => handed = 0 /\ job.got \subseteq {"open"}
         /\ job.request # Probe => "open" \notin job.got
         /\ job.got # {} /\ job.request # Probe => job.sent
         /\ job.status = "cancelled" => stopped
         /\ job.status \in {"done", "cancelled", "timeout", "failed"}
    /\ worker \in {"none", "start", "setup", "send", "header", "rest", "conclude", "publish"}
ModbusIInv == PageIInv(ModbusFindings) /\ ModbusStage /\ ModbusHonest

=================================================================================
