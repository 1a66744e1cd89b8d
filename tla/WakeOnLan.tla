-------------------------------- MODULE WakeOnLan --------------------------------
(***************************************************************************)
(* Wake-on-LAN (main/wol_tool.c): one magic packet, after a confirmation;  *)
(* nothing comes back.  Unlike the UDP console it looks at the cancel flag *)
(* and the clock at every step and at Wi-Fi only before it opens the       *)
(* socket and before it sends.                                             *)
(***************************************************************************)
EXTENDS ToolPage

WolExpired == age >= ConfirmWindow

\* Faulty look for mutation: the deadline is forgotten.
WolErrorNoDeadline == IF cancelled THEN "cancelled" ELSE "ok"

\* operation_error()
WolError == IF cancelled THEN "cancelled" ELSE IF expired THEN "timeout" ELSE "ok"

\* The steps that follow may also find no Wi-Fi, or a call of the stack may fail.
WolOutcomes == IF WolError = "ok" THEN {"ok", "netdown", "failed"} ELSE {WolError}

WolGoOn(step) ==
    \E e \in WolOutcomes :
      /\ worker' = IF e = "ok" THEN step ELSE "conclude"
      /\ job' = IF e = "ok" THEN job ELSE [job EXCEPT !.status = e]
      /\ Quiet /\ UNCHANGED handed

\* wol_worker(): the packet and the address, socket() to connect(); wait_writable().
WolSetup == worker = "setup" /\ WolGoOn("wait to send")
WolWait == worker = "wait to send" /\ WolGoOn("send")

\* send(): all of the packet, not yet, or an error.
WolSend ==
    /\ worker = "send" /\ Quiet
    /\ \/ /\ handed' = handed + 1
          /\ job' = [job EXCEPT !.sent = TRUE]
          /\ worker' = "conclude"
       \/ /\ UNCHANGED <<job, handed>>
          /\ worker' = "wait to send"
       \/ /\ job' = [job EXCEPT !.status = "failed"]
          /\ worker' = "conclude"
          /\ UNCHANGED handed

\* What is reported: a packet that was sent is, whatever came after; then a cancellation.
WolVerdict ==
    IF job.sent THEN "done"
    ELSE IF cancelled THEN "cancelled"
    ELSE job.status

\* The verdict is reached before the lock is taken to publish it: a cancellation may
\* come in between.
WolConclude ==
    \/ /\ worker = "conclude"
       /\ job' = [job EXCEPT !.status = WolVerdict]
       /\ worker' = "publish"
       /\ Quiet /\ UNCHANGED handed
    \/ /\ worker = "publish"
       /\ Publish(job, TRUE)
       /\ worker' = "none" /\ job' = NoJob
       /\ Local /\ UNCHANGED handed

WolRefresh == Refresh(WolExpired)

\* send_clicked()
WolReady == open /\ ~busy /\ timer /\ form # NoRequest
WolReview ==
    /\ WolReady
    /\ ~(armed /\ confirmation = form /\ ~WolExpired)
    /\ Offer /\ Draw(rendered)
WolConfirm ==
    /\ WolReady
    /\ armed /\ confirmation = form /\ ~WolExpired
    /\ Take(form)

\* A refused form, or no Wi-Fi.
WolRefused ==
    /\ open /\ ~busy /\ timer
    /\ Disarm
    /\ UNCHANGED <<shared, task, expired, page, screen, handed, stopped>>

\* input_event(), cancel_clicked(), wol_tool_stop(), wol_tool_show()
WolEdit == Edit
WolCancel == Cancel
WolStop == Leave
WolShow == Enter

WolWorker == TakeJob \/ WolSetup \/ WolWait \/ WolSend \/ WolConclude
WolNext ==
    \/ WolWorker \/ Expire \/ PassTime
    \/ WolRefresh \/ WolReview \/ WolConfirm \/ WolRefused \/ WolEdit \/ WolCancel
    \/ WolStop \/ WolShow

\* "Handed to the network" is said of a packet exactly when it was, also when CANCEL came
\* between the send and the report; "cancelled" only after a CANCEL or Home.
WolHonest ==
    Ended =>
      /\ SentIsTrue
      /\ published.status = "done" <=> handed = 1
      /\ published.status = "cancelled" => stopped
      /\ published.status \in {"done", "cancelled", "timeout", "netdown", "failed"}

WolSpec == Init /\ [][WolNext]_vars

\* The invariant behind WolHonest: what the worker knows at each of its calls.
WolStage ==
    /\ worker = "start" => handed = 0 /\ ~published.sent /\ published.status = "starting"
    /\ worker \in {"setup", "wait to send", "send"} => handed = 0 /\ ~job.sent
    /\ worker \in {"conclude", "publish"} => HandedOnce(job)
    /\ worker \in {"conclude", "publish"} /\ ~job.sent =>
         /\ job.status \in {"cancelled", "netdown", "timeout", "failed"}
         /\ job.status = "cancelled" => stopped
    /\ worker = "publish" /\ job.sent => job.status = "done"
    /\ worker \in {"none", "start", "setup", "wait to send", "send", "conclude", "publish"}
WolIInv == PageIInv({}) /\ WolStage /\ WolHonest

=================================================================================
