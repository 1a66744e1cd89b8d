--------------------------- MODULE NetworkOperation ---------------------------
(***************************************************************************)
(* The Network page (main/network_tool.c): lookup, ping and mDNS.  One     *)
(* operation at a time runs in a worker task; five variables under         *)
(* network_lock join it with the callbacks of the LVGL task.               *)
(*                                                                         *)
(* Every critical section of a callback is a step of its own, because the  *)
(* worker may finish between two of them; `ui' says which one is next.  A  *)
(* button that is disabled takes no click (external: LVGL), and which      *)
(* buttons are enabled is therefore part of the protocol.                  *)
(*                                                                         *)
(* An operation is its kind and host together.  What it finds out, and how *)
(* the resolver and the ping work (NetworkResolver, PingRun), is reduced   *)
(* to how it can end.                                                      *)
(*                                                                         *)
(* UpdateControlsWhenShown, AcceptResuming and LaunchSilently are wrong    *)
(* variants for the mutants only.                                          *)
(***************************************************************************)
EXTENDS Naturals, Sequences

CONSTANTS
    Operations,     \* what the user can ask for: a kind with a host
    MaxOperations,  \* bound: operations accepted
    MaxVisits       \* bound: times the page is opened

ASSUME NetAssumption == MaxOperations \in Nat /\ MaxVisits \in Nat

Ids == 1..MaxOperations

\* How network_worker ends: with findings, with an error, or because it was stopped.
Endings == {"findings", "error", "stopped"}

\* operation_result, and the worker's copy of the request with how it ended; each
\* with the number of the operation.
NoOperation == "none"
Results == [id : 0..MaxOperations, op : Operations \cup {NoOperation},
            kind : Endings \cup {"none", "cancelled", "not started"}]
Works == [id : 0..MaxOperations, op : Operations \cup {NoOperation},
          ending : Endings \cup {"none"}]
NoResult == [id |-> 0, op |-> NoOperation, kind |-> "none"]
NoWork == [id |-> 0, op |-> NoOperation, ending |-> "none"]

VARIABLES
    busy, done, cancelRequested,    \* operation_busy, operation_done, operation_cancel_requested
    pending, result,                \* pending_operation and pending_host; operation_result
    worker, work,                   \* the worker task, and its copy of the request
    open, connected,                \* the page exists; network_connected
    startEnabled, cancelEnabled,    \* the buttons' LV_STATE_DISABLED, negated
    label,                          \* the result in result_label, if it shows one
    ui, asked                       \* next critical section of the callback; its operation

\* What happened, for the properties only.
VARIABLES
    visits,     \* how often the page was opened
    accepted,   \* the operations accepted so far, by number
    cancels     \* the numbers that were in flight when Cancel or Home came

request == <<pending, accepted>>
task == <<worker, work>>
screen == <<open, connected, visits>>
buttons == <<startEnabled, cancelEnabled>>
vars == <<busy, done, cancelRequested, result, request, task, screen, buttons,
          label, ui, asked, cancels>>

Newest == Len(accepted)

Init ==
    /\ busy = FALSE /\ done = FALSE /\ cancelRequested = FALSE
    /\ pending \in Operations /\ result = NoResult
    /\ worker = "none" /\ work = NoWork
    /\ open = FALSE /\ connected = FALSE
    /\ startEnabled = FALSE /\ cancelEnabled = FALSE
    /\ label = NoResult /\ ui = "idle" /\ asked \in Operations
    /\ visits = 0 /\ accepted = <<>> /\ cancels = {}

--------------------------------------------------------------------------------
(* The worker.                                                             *)

\* network_worker(), the first critical section: the request is copied.
ReadRequest ==
    /\ worker = "start" /\ worker' = "run"
    /\ work' = [id |-> Newest, op |-> pending, ending |-> "none"]
    /\ UNCHANGED <<busy, done, cancelRequested, result, request, screen, buttons,
                   label, ui, asked, cancels>>

\* ... the operation runs.  The resolver and the ping end early when they see the
\* request for it, mDNS does not, and all may end just before they would see it.
Operate ==
    /\ worker = "run" /\ worker' = "finish"
    /\ \E ending \in Endings :
        /\ ending = "stopped" => cancelRequested
        /\ work' = [work EXCEPT !.ending = ending]
    /\ UNCHANGED <<busy, done, cancelRequested, result, request, screen, buttons,
                   label, ui, asked, cancels>>

\* finish_operation(): a cancellation wins over whatever came out.
Finish ==
    /\ worker = "finish" /\ worker' = "none" /\ work' = NoWork
    /\ result' = IF cancelRequested
                 THEN [id |-> work.id, op |-> pending, kind |-> "cancelled"]
                 ELSE [id |-> work.id, op |-> work.op, kind |-> work.ending]
    /\ busy' = FALSE /\ done' = TRUE
    /\ UNCHANGED <<cancelRequested, request, screen, buttons, label, ui, asked, cancels>>

--------------------------------------------------------------------------------
(* The page: sections that several callbacks share.                        *)

\* show_finished_operation(), when a result waits.
ShowFinished == label' = result /\ done' = FALSE

\* update_controls(): as the last section of a callback it reads the flags and sets
\* the buttons.
Controls ==
    /\ startEnabled' = (~busy /\ connected)
    /\ cancelEnabled' = (busy /\ ~cancelRequested)
UpdateControlsWhenShown ==
    /\ ui = "controls" /\ ui' = "idle"
    /\ startEnabled' = (connected /\ ~done)
    /\ cancelEnabled' = (busy /\ ~cancelRequested)
    /\ UNCHANGED <<busy, done, cancelRequested, result, request, task, screen,
                   label, asked, cancels>>
UpdateControls ==
    /\ ui = "controls" /\ ui' = "idle"
    /\ Controls
    /\ UNCHANGED <<busy, done, cancelRequested, result, request, task, screen,
                   label, asked, cancels>>

\* request_cancel()
RequestCancel ==
    /\ cancelRequested' = (cancelRequested \/ busy)
    /\ cancels' = IF busy THEN cancels \cup {Newest} ELSE cancels

Idle == open /\ ui = "idle"

--------------------------------------------------------------------------------
(* The page: callbacks.                                                    *)

\* network_tool_show(): new widgets; it ends like a tick.
Show ==
    /\ ~open /\ visits < MaxVisits
    /\ open' = TRUE /\ visits' = visits + 1
    /\ connected' \in BOOLEAN
    /\ label' = NoResult
    /\ ui' = "tick"
    /\ UNCHANGED <<busy, done, cancelRequested, result, request, task, buttons, asked, cancels>>

\* network_tool_stop()
Stop ==
    /\ Idle
    /\ RequestCancel
    /\ open' = FALSE /\ connected' = FALSE /\ label' = NoResult
    /\ startEnabled' = FALSE /\ cancelEnabled' = FALSE
    /\ UNCHANGED <<busy, done, result, request, task, visits, ui, asked>>

\* network_tick(), and the end of network_tool_show(): a result is shown once.
TickBegin ==
    /\ Idle /\ ui' = "tick"
    /\ UNCHANGED <<busy, done, cancelRequested, result, request, task, screen, buttons,
                   label, asked, cancels>>
Tick ==
    /\ ui = "tick" /\ ui' = "controls"
    /\ IF done THEN ShowFinished ELSE UNCHANGED <<label, done>>
    /\ UNCHANGED <<busy, cancelRequested, result, request, task, screen, buttons, asked, cancels>>

\* refresh_clicked()
Refresh ==
    /\ Idle /\ ui' = "controls"
    /\ connected' \in BOOLEAN
    /\ UNCHANGED <<busy, done, cancelRequested, result, request, task, open, visits,
                   buttons, label, asked, cancels>>

\* cancel_clicked(), first section: a result that waits is shown instead.
CancelBegin ==
    /\ Idle /\ cancelEnabled
    /\ IF done THEN ShowFinished /\ ui' = "controls"
       ELSE UNCHANGED <<label, done>> /\ ui' = "cancel"
    /\ UNCHANGED <<busy, cancelRequested, result, request, task, screen, buttons, asked, cancels>>

\* ... the request to stop,
CancelAsk ==
    /\ ui = "cancel" /\ ui' = "cancel label"
    /\ RequestCancel
    /\ UNCHANGED <<busy, done, result, request, task, screen, buttons, label, asked>>

\* ... and the text that says so, unless the operation is over by now.
CancelLabel ==
    /\ ui = "cancel label" /\ ui' = "controls"
    /\ label' = IF busy THEN NoResult ELSE label
    /\ UNCHANGED <<busy, done, cancelRequested, result, request, task, screen, buttons,
                   asked, cancels>>

\* start_operation(), first section: a result that waits is shown instead.
StartBegin ==
    /\ Idle /\ startEnabled
    /\ asked' \in Operations
    /\ IF done THEN ShowFinished /\ ui' = "controls"
       ELSE UNCHANGED <<label, done>> /\ ui' = "start"
    /\ UNCHANGED <<busy, cancelRequested, result, request, task, screen, buttons, cancels>>

\* ... nothing is started while an operation runs, without Wi-Fi or for a bad host.
StartRefused ==
    /\ ui = "start" /\ ui' = "idle"
    /\ label' = IF busy THEN label ELSE NoResult
    /\ UNCHANGED <<busy, done, cancelRequested, result, request, task, screen, buttons,
                   asked, cancels>>

\* ... the operation is accepted, with its flags cleared.
Accept(resetCancel) ==
    /\ ui = "start" /\ ui' = "launch"
    /\ ~busy /\ connected /\ Newest < MaxOperations
    /\ pending' = asked /\ accepted' = Append(accepted, asked)
    /\ busy' = TRUE /\ done' = FALSE
    /\ cancelRequested' = (cancelRequested /\ ~resetCancel)
    /\ UNCHANGED <<result, task, screen, buttons, label, asked, cancels>>
AcceptResuming == Accept(FALSE)
StartAccepted == Accept(TRUE)

\* ... and its task is created, or its result says that it was not.
LaunchSilently ==
    /\ ui = "launch"
    /\ worker' = "start" /\ ui' = "idle"
    /\ Controls
    /\ UNCHANGED <<busy, done, cancelRequested, result, request, work, screen, label,
                   asked, cancels>>
Launch ==
    /\ ui = "launch"
    /\ label' = NoResult
    /\ worker' = "start" /\ ui' = "idle"
    /\ Controls
    /\ UNCHANGED <<busy, done, cancelRequested, result, request, work, screen, asked, cancels>>
LaunchFails ==
    /\ ui = "launch" /\ ui' = "controls"
    /\ result' = [id |-> Newest, op |-> pending, kind |-> "not started"]
    /\ label' = result'
    /\ busy' = FALSE /\ done' = FALSE
    /\ UNCHANGED <<cancelRequested, request, task, screen, buttons, asked, cancels>>

Worker == ReadRequest \/ Operate \/ Finish
Start == StartBegin \/ StartRefused \/ StartAccepted \/ Launch \/ LaunchFails
Cancel == CancelBegin \/ CancelAsk \/ CancelLabel
Page == Show \/ Stop \/ TickBegin \/ Tick \/ Refresh \/ UpdateControls
Next == Worker \/ Start \/ Cancel \/ Page

Spec == Init /\ [][Next]_vars

\* A worker ends since all that it waits for has a deadline; the LVGL task finishes
\* its callbacks and runs the timer of an open page again and again.
Callback == StartRefused \/ StartAccepted \/ Launch \/ LaunchFails \/ CancelAsk
            \/ CancelLabel \/ Tick \/ UpdateControls
FairSpec == Spec /\ WF_vars(Worker) /\ WF_vars(Callback) /\ SF_vars(TickBegin)

--------------------------------------------------------------------------------
(* Properties.                                                             *)

\* Types of all variables.
FlagsOK ==
    /\ busy \in BOOLEAN /\ done \in BOOLEAN /\ cancelRequested \in BOOLEAN
    /\ open \in BOOLEAN /\ connected \in BOOLEAN
    /\ startEnabled \in BOOLEAN /\ cancelEnabled \in BOOLEAN
NetTypeOK ==
    /\ FlagsOK
    /\ pending \in Operations /\ asked \in Operations
    /\ result \in Results /\ label \in Results
    /\ worker \in {"none", "start", "run", "finish"}
    /\ work \in Works
    /\ ui \in {"idle", "start", "launch", "cancel", "cancel label", "tick", "controls"}
    /\ visits \in 0..MaxVisits
    /\ accepted \in Seq(Operations) /\ Newest <= MaxOperations
    /\ cancels \subseteq Ids

\* There is one worker at a time, it works on the newest operation, and restarts are
\* blocked until it has finished (network_tool_busy), whatever the page does.
OneWorker ==
    /\ worker # "none" => busy
    /\ ui = "launch" => worker = "none"
    /\ work.id > 0 => work.id = Newest /\ work.op = accepted[Newest]

\* A result that waits goes away only by being shown: no tap starts the next operation
\* over it, although start_operation looks at operation_done in one critical section,
\* clears it in another, and the worker may finish in between.
CompletionShown == [][done /\ ~done' => label' = result]_vars

\* What the page shows as a result is that of the newest operation, under the name
\* with which that was started: no result outlives the start of the next one.
ResultIsNewest ==
    label.id > 0 => \/ label.id = Newest /\ label.op = accepted[Newest]
                    \/ ui = "launch" /\ label.id = Newest - 1

\* After Cancel or Home came while it was in flight, an operation reports nothing but
\* its cancellation; and an operation is reported as cancelled only then.
CancelDecides ==
    result.id > 0 => (result.kind = "cancelled" <=> result.id \in cancels)

\* The inductive invariant behind CompletionShown, OneWorker and CancelDecides.  A tap
\* can not start an operation over another one or over its result since the buttons
\* are enabled only while there is none, up to the moment of the launch.
OneAtATime ==
    /\ busy <=> worker # "none" \/ ui = "launch"
    /\ ui = "launch" => worker = "none"
    /\ busy => ~done
    /\ startEnabled /\ busy => ui = "launch"
    /\ ui = "start" => ~busy /\ ~done
    /\ ~open => ui = "idle"
WorkIsNewest ==
    /\ worker \in {"run", "finish"} <=> work.id > 0
    /\ work.id > 0 => work.id = Newest /\ work.op = accepted[Newest]
    /\ worker = "finish" => work.ending \in Endings
    /\ busy => Newest > 0 /\ pending = accepted[Newest]
CancelsSeen ==
    /\ cancels \subseteq 1..Newest
    /\ busy => (cancelRequested <=> Newest \in cancels)
    /\ ui = "launch" => ~cancelRequested
    /\ result.id <= Newest
    /\ busy => result.id < Newest
NetIInv == NetTypeOK /\ OneAtATime /\ WorkIsNewest /\ CancelsSeen /\ CancelDecides

\* The invariant behind ResultIsNewest: between two operations the result on record is
\* that of the newest one, so whatever show_finished_operation() shows is.
ResultIsCurrent ==
    ~busy /\ Newest > 0 => result.id = Newest /\ result.op = accepted[Newest]

\* A result that waits is shown if the page stays open.
ResultShown == done ~> (~done \/ ~open)
=============================================================================
