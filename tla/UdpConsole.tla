------------------------------- MODULE UdpConsole -------------------------------
(***************************************************************************)
(* The UDP console (main/udp_tool.c): one datagram to one peer, after a    *)
(* confirmation, and one datagram back.  The socket and the network are    *)
(* reduced to how each call can end; a reply longer than 512 bytes is kept *)
(* as a prefix.  Cancellation, loss of Wi-Fi and the deadline of three     *)
(* seconds are looked at before and after every wait.                      *)
(*                                                                         *)
(* A callback that only moves widgets or shows a message is a stuttering   *)
(* step: keyboard_done(), a refused copy, a click while the job is busy.   *)
(***************************************************************************)
EXTENDS ToolPage

\* Expired confirmations are disarmed by the timer: >= in this tool.
UdpExpired == age >= ConfirmWindow

\* operation_error(): what a look at the flag, Wi-Fi and the clock can yield.
UdpErrors ==
    IF cancelled THEN {"cancelled"}
    ELSE {"netdown", IF expired THEN "timeout" ELSE "ok"}

\* The next calls of the stack may fail where the look found nothing wrong.
UdpOutcomes == IF "ok" \in UdpErrors THEN UdpErrors \cup {"failed"} ELSE UdpErrors

UdpGoOn(step) ==
    \E e \in UdpOutcomes :
      /\ worker' = IF e = "ok" THEN step ELSE "conclude"
      /\ job' = IF e = "ok" THEN job ELSE [job EXCEPT !.status = e]
      /\ Quiet /\ UNCHANGED handed

\* Parse, socket(), bind(), connect(), getsockname(): nothing is sent by any of them.
UdpSetup == worker = "setup" /\ UdpGoOn("wait to send")

\* wait_socket(): it returns without error only after the flag was looked at again.
UdpWait ==
    \/ worker = "wait to send" /\ UdpGoOn("send")
    \/ worker = "wait for reply" /\ UdpGoOn("receive")

UdpFails == worker' = "conclude" /\ job' = [job EXCEPT !.status = "failed"]

\* send(): the whole datagram, not yet, or an error; a part of one is never resent.
UdpSend ==
    /\ worker = "send" /\ Local
    /\ \/ /\ handed' = handed + 1
          /\ job' = [job EXCEPT !.sent = TRUE, !.status = "waiting"]
          /\ Publish(job', FALSE)
          /\ worker' = "wait for reply"
       \/ /\ worker' = "wait to send"
          /\ UNCHANGED <<job, shared, rendered, handed>>
       \/ UdpFails /\ UNCHANGED <<shared, rendered, handed>>

\* recv(): one datagram, nothing yet, or an error.
UdpReceive ==
    /\ worker = "receive" /\ Quiet /\ UNCHANGED handed
    /\ \/ /\ job' \in {[job EXCEPT !.got = {g}] : g \in {"reply", "prefix"}}
          /\ worker' = "conclude"
       \/ worker' = "wait for reply" /\ UNCHANGED job
       \/ UdpFails

\* close(); the status is chosen by what was received, else by the error.
UdpConclude ==
    /\ worker = "conclude"
    /\ Publish(IF job.got # {} THEN [job EXCEPT !.status = "done"] ELSE job, TRUE)
    /\ worker' = "none" /\ job' = NoJob
    /\ Local /\ UNCHANGED handed

UdpRefresh == Refresh(UdpExpired)

\* send_clicked(): a click while busy or without a timer does nothing.
UdpReady == open /\ ~busy /\ timer /\ form # NoRequest
UdpReview ==
    /\ UdpReady
    /\ ~(armed /\ confirmation = form /\ ~UdpExpired)
    /\ Offer /\ Draw(rendered)

UdpConfirm ==
    /\ UdpReady
    /\ armed /\ confirmation = form /\ ~UdpExpired
    /\ Take(form)

\* send_clicked() with a form that is refused or without Wi-Fi; also the copy of a
\* reply, which disarms as well.
UdpRefused == open /\ ~busy /\ DisarmAndDraw

\* input_event(), mode_changed(), paste_clicked().
UdpEdit == Edit

\* cancel_clicked(), udp_tool_stop(), udp_tool_show().
UdpCancel == Cancel
UdpStop == Leave
UdpShow == Enter

UdpWorker ==
    TakeJob \/ UdpSetup \/ UdpWait \/ UdpSend \/ UdpReceive \/ UdpConclude
UdpNext ==
    \/ UdpWorker \/ Expire \/ PassTime
    \/ UdpRefresh \/ UdpReview \/ UdpConfirm \/ UdpRefused \/ UdpEdit \/ UdpCancel
    \/ UdpStop \/ UdpShow

\* The report of a finished exchange agrees with what reached the network: a reply is
\* only reported for a datagram that was sent, and an exchange that was not stopped is
\* not reported as cancelled.
UdpHonest ==
    Ended =>
      /\ SentIsTrue
      /\ published.got # {} <=> published.status = "done"
      /\ published.got # {} => published.sent
      /\ published.status = "cancelled" => stopped

UdpSpec == Init /\ [][UdpNext]_vars

\* The invariant behind UdpHonest: what the worker's copy of the job says at each of its
\* calls, and that a cancellation on record was asked for.
UdpFindings == {"reply", "prefix"}
UdpStage ==
    /\ worker = "start" =>
         /\ handed = 0 /\ ~published.sent /\ published.got = {} /\ published.status = "starting"
    /\ worker \in {"setup", "wait to send", "send"} =>
         handed = 0 /\ ~job.sent /\ job.got = {} /\ job.status = "starting"
    /\ worker \in {"wait for reply", "receive"} =>
         handed = 1 /\ job.sent /\ job.got = {} /\ job.status = "waiting"
    /\ worker = "conclude" =>
         /\ HandedOnce(job)
         /\ job.got # {} => job.sent
         /\ job.got = {} => job.status \in {"cancelled", "netdown", "timeout", "failed"}
         /\ job.got = {} /\ job.status = "cancelled" => stopped
    /\ worker \in {"none", "start", "setup", "wait to send", "send", "wait for reply",
                   "receive", "conclude"}
UdpIInv == PageIInv(UdpFindings) /\ UdpStage /\ UdpHonest

=================================================================================
