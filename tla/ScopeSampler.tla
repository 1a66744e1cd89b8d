---------------------------- MODULE ScopeSampler ----------------------------
(* The oscilloscope (main.c): the sampling task, the page's controls, the  *)
(* chart and its CSV capture.  The task (scope_task) claims the input      *)
(* under scope_lock, samples until the page, the RUN button or the         *)
(* selection changes, and lets the input go; the LVGL task runs every      *)
(* other step, each of them atomic for the sampler but for the shared      *)
(* fields read and written outside the lock.                               *)
(*                                                                         *)
(* A sample is the input it was taken from and the calibration applied to  *)
(* it; its voltage does not matter here.  A frame of the ADC is one        *)
(* sample.  The calibration of a channel (offset and scale together) is a  *)
(* number.  The chart's window into the ring, which the trigger chooses,   *)
(* is any window.                                                          *)
EXTENDS Integers, Sequences, SequencesExt

CONSTANTS
  ScopeChannels,   \* the number of inputs
  ScopeRates,      \* the number of sample rates
  ScopeScales,     \* the number of calibrations of an input
  ChartPoints,     \* SCOPE_CHART_POINTS
  RingPoints       \* SCOPE_RING_POINTS

ASSUME ScopeAssumption ==
  /\ {ScopeChannels, ScopeRates, ScopeScales} \subseteq Nat \ {0}
  /\ ChartPoints \in Nat \ {0} /\ RingPoints \in Nat /\ RingPoints >= ChartPoints

VARIABLES
  scopePage,    \* the page: "closed", "open", or "leaving" (waiting for the task)
  scopeOn,      \* [active, running, sampling]: the flags the two tasks share
  picked,       \* scope_channel_index and scope_rate_index
  scales,       \* the calibration of every channel
  sampler,      \* scope_task: where it is, its input, the calibration it read
  scopeRing,    \* scope_ring, oldest first
  chart,        \* scope_chart_points once scope_chart_ready, or empty
  shot          \* the last capture of this visit named its input: "right", "wrong"

scopeVars == <<scopePage, scopeOn, picked, scales, sampler, scopeRing, chart, shot>>

Inputs == [channel : 0 .. ScopeChannels - 1, rate : 0 .. ScopeRates - 1]
Taken(input, scale) == [input |-> input, scale |-> scale]

ScopeInit ==
  /\ scopePage = "closed"
  /\ scopeOn = [active |-> FALSE, running |-> TRUE, sampling |-> FALSE]
  /\ picked = [channel |-> 0, rate |-> 0]
  /\ scales = [c \in 0 .. ScopeChannels - 1 |-> 0]
  /\ sampler = [at |-> "unbuilt", input |-> picked, scale |-> 0]
  /\ scopeRing = <<>>
  /\ chart = <<>>
  /\ shot = "none"

-----------------------------------------------------------------------------
(* The sampling task.                                                      *)

SamplerGoes(place) == sampler' = [sampler EXCEPT !.at = place]
PageUnchanged == UNCHANGED <<scopePage, picked, scales, chart, shot>>

\* The flags are checked and the input is claimed in one critical section.
Claim ==
  /\ sampler.at = "loop"
  /\ scopeOn.active /\ scopeOn.running
  /\ scopeOn' = [scopeOn EXCEPT !.sampling = TRUE]
  /\ SamplerGoes("claimed")
  /\ PageUnchanged /\ UNCHANGED scopeRing

\* The selection is read once, the ADC is started on it, the ring emptied.
AdcStarts ==
  /\ sampler.at = "claimed"
  /\ sampler' = [sampler EXCEPT !.at = "read", !.input = picked]
  /\ scopeRing' = <<>>
  /\ PageUnchanged /\ UNCHANGED scopeOn

\* The ADC does not start: the input is let go, and tried again.
AdcFails ==
  /\ sampler.at = "claimed"
  /\ SamplerGoes("loop")
  /\ scopeOn' = [scopeOn EXCEPT !.sampling = FALSE]
  /\ PageUnchanged /\ UNCHANGED scopeRing

Sampled == scopeOn.active /\ scopeOn.running /\ sampler.input = picked

\* A frame arrives and the calibration is read under the lock.  (A read that
\* times out changes nothing.)
ReadFrame ==
  /\ sampler.at = "read" /\ Sampled
  /\ sampler' = [sampler EXCEPT !.at = "converted", !.scale = scales[sampler.input.channel]]
  /\ PageUnchanged /\ UNCHANGED <<scopeOn, scopeRing>>

\* The converted samples go to the ring, under the lock again.
StoreFrame ==
  /\ sampler.at = "converted"
  /\ LET grown == Append(scopeRing, Taken(sampler.input, sampler.scale))
     IN scopeRing' = IF Len(grown) > RingPoints THEN Tail(grown) ELSE grown
  /\ SamplerGoes("read")
  /\ PageUnchanged /\ UNCHANGED scopeOn

\* The loop ends, by its condition or by an error of the read.
SamplingEnds ==
  /\ sampler.at = "read"
  /\ SamplerGoes("stop")
  /\ PageUnchanged /\ UNCHANGED <<scopeOn, scopeRing>>

\* The ADC is stopped and removed: the input is free.
LetGo ==
  /\ sampler.at = "stop"
  /\ SamplerGoes("loop")
  /\ scopeOn' = [scopeOn EXCEPT !.sampling = FALSE]
  /\ PageUnchanged /\ UNCHANGED scopeRing

ScopeTask ==
  Claim \/ AdcStarts \/ AdcFails \/ ReadFrame \/ StoreFrame \/ SamplingEnds \/ LetGo

-----------------------------------------------------------------------------
(* The page.                                                               *)

\* The task is created once, when it can be.
Created(started) ==
  IF sampler.at \in {"unbuilt", "none"}
  THEN SamplerGoes(IF started THEN "loop" ELSE "none") ELSE UNCHANGED sampler

\* Memory may be missing for the buffers, until they exist: the page shows
\* that and no more.
ShowScope(started) ==
  /\ scopePage = "closed"
  /\ scopePage' = "open"
  /\ \/ /\ scopeOn' = [scopeOn EXCEPT !.running = TRUE, !.active = TRUE]
        /\ chart' = <<>>
        /\ Created(started)
     \/ sampler.at = "unbuilt" /\ UNCHANGED <<scopeOn, chart, sampler>>
  /\ UNCHANGED <<picked, scales, scopeRing, shot>>

\* scope_release: the page stops the task and waits until the input is free.
ScopeLeave ==
  /\ scopePage = "open"
  /\ scopePage' = "leaving"
  /\ scopeOn' = [scopeOn EXCEPT !.active = FALSE]
  /\ UNCHANGED <<picked, scales, sampler, scopeRing, chart, shot>>

\* Mutant: the wait gives up at its deadline.
ScopeReleasedLate ==
  /\ scopePage = "leaving"
  /\ scopePage' = "closed" /\ shot' = "none"
  /\ UNCHANGED <<scopeOn, picked, scales, sampler, scopeRing, chart>>

\* However long that takes: its deadline only warns.
ScopeReleased ==
  /\ scopePage = "leaving" /\ ~scopeOn.sampling
  /\ scopePage' = "closed" /\ shot' = "none"
  /\ UNCHANGED <<scopeOn, picked, scales, sampler, scopeRing, chart>>

\* The controls exist when the page was built whole.
ScopeShown == scopePage = "open" /\ scopeOn.active

\* scope_tick draws a window of the ring when it holds enough samples.
ScopeTick ==
  /\ ScopeShown
  /\ Len(scopeRing) >= ChartPoints
  /\ \E first \in 1 .. Len(scopeRing) - ChartPoints + 1 :
       chart' = SubSeq(scopeRing, first, first + ChartPoints - 1)
  /\ UNCHANGED <<scopePage, scopeOn, picked, scales, sampler, scopeRing, shot>>

RunClicked ==
  /\ ScopeShown
  /\ scopeOn' = [scopeOn EXCEPT !.running = ~@]
  /\ UNCHANGED <<scopePage, picked, scales, sampler, scopeRing, chart, shot>>

\* Channel and rate: the chart waits to be drawn again; the ring is left to
\* the task.
ChannelClicked ==
  /\ ScopeShown
  /\ picked' = [picked EXCEPT !.channel = (@ + 1) % ScopeChannels]
  /\ chart' = <<>>
  /\ UNCHANGED <<scopePage, scopeOn, scales, sampler, scopeRing, shot>>

RateClicked ==
  /\ ScopeShown
  /\ picked' = [picked EXCEPT !.rate = (@ + 1) % ScopeRates]
  /\ chart' = <<>>
  /\ UNCHANGED <<scopePage, scopeOn, scales, sampler, scopeRing, shot>>

\* Offset, gain and reset: the channel is calibrated anew, the ring emptied.
CalibrationClicked(scale) ==
  /\ ScopeShown
  /\ scales' = [scales EXCEPT ![picked.channel] = scale]
  /\ scopeRing' = <<>>
  /\ chart' = <<>>
  /\ UNCHANGED <<scopePage, scopeOn, picked, sampler, shot>>

\* Save CSV publishes the chart, labelled with what is selected now.  Every
\* failure leaves at most an unpublished TMP, and is reported.
CaptureClicked ==
  /\ ScopeShown /\ chart # <<>>
  /\ shot' = IF \A i \in DOMAIN chart : chart[i].input = picked THEN "right" ELSE "wrong"
  /\ UNCHANGED <<scopePage, scopeOn, picked, scales, sampler, scopeRing, chart>>

ScopeControls ==
  \/ ScopeTick \/ RunClicked \/ ChannelClicked \/ RateClicked \/ CaptureClicked
  \/ \E scale \in 0 .. ScopeScales - 1 : CalibrationClicked(scale)

ScopeNext ==
  \/ ScopeTask \/ ScopeControls
  \/ \E started \in BOOLEAN : ShowScope(started)
  \/ ScopeLeave \/ ScopeReleased

ScopeSpec == ScopeInit /\ [][ScopeNext]_scopeVars

-----------------------------------------------------------------------------
Samples == [input : Inputs, scale : 0 .. ScopeScales - 1]

\* The variables stay in their domains.
ScopeTypes ==
  /\ scopePage \in {"closed", "open", "leaving"}
  /\ scopeOn \in [active : BOOLEAN, running : BOOLEAN, sampling : BOOLEAN]
  /\ picked \in Inputs
  /\ scales \in [0 .. ScopeChannels - 1 -> 0 .. ScopeScales - 1]
  /\ sampler \in [at : {"unbuilt", "none", "loop", "claimed", "read", "converted", "stop"},
                  input : Inputs, scale : 0 .. ScopeScales - 1]
  /\ scopeRing \in Seq(Samples) /\ Len(scopeRing) <= RingPoints
  /\ chart \in Seq(Samples)
  /\ shot \in {"none", "right", "wrong"}

\* The ADC is used only while the page is there to use it: once the page is
\* left the input is free, and stays so until the page is opened again.
QuietWhenClosed == scopePage = "closed" => ~scopeOn.sampling

\* The samples of two inputs never share a chart, whatever is selected, held
\* or reopened while the task is between two frames.
OneInput == \A i, j \in DOMAIN chart : chart[i].input = chart[j].input

\* The page that is open is the one that asks for samples, the task holds the ADC while
\* it says so, and what is in the ring came from the input the task reads.
SamplerKnown ==
  /\ scopeOn.active => scopePage = "open"
  /\ scopeOn.sampling = (sampler.at \in {"claimed", "read", "converted", "stop"})
  /\ \A i \in DOMAIN scopeRing : scopeRing[i].input = sampler.input

ScopeIInv == ScopeTypes /\ QuietWhenClosed /\ OneInput /\ SamplerKnown

\* A saved capture names the input its points were taken from
\* (docs/data-formats.md, the "gpio" and "sample_rate_hz" columns).  It need
\* not: a held scope keeps the ring of the old input when another one is
\* selected, and the next tick makes that chart ready to save.
CaptureOfItsInput == shot # "wrong"
=============================================================================
