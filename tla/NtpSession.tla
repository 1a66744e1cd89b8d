-------------------------------- MODULE NtpSession --------------------------------
(***************************************************************************)
(* NTP Lab (main/ntp_tool.c): a burst of samples, each a request and the   *)
(* reply to it, published as it grows.  The network loses, delays and      *)
(* copies replies, so that one may arrive in the time of a later sample,   *)
(* and the tablet's clock may be set at any time.  What is measured is     *)
(* left out; a sample is valid, rejected, or ends the burst: refused by    *)
(* the server ("kiss") or spoilt by the clock ("bad clock").               *)
(***************************************************************************)
EXTENDS ToolPage

CONSTANTS
    Samples,        \* NTP_SAMPLE_COUNT
    MaxUnmatched    \* replies of another origin that are skipped (16)

ASSUME NtpAssumption == {Samples, MaxUnmatched} \subseteq Nat \ {0}

VARIABLE burst      \* the sample at work, the replies under way, and the worker's locals

ntpVars == <<vars, burst>>
NoBurst == [round |-> 0, replies |-> {}, unmatched |-> 0, verdict |-> "none"]
NtpInit == Init /\ burst = NoBurst

Sample(note, of) == [number |-> burst.round, note |-> note, of |-> of]
Others == {s \in job.got : s.number # burst.round}

\* operation_error() with the session's deadline, or with the sample's, which is earlier
\* or the same.
NtpError == IF cancelled THEN "cancelled" ELSE IF expired THEN "timeout" ELSE "ok"
SampleOutcomes == IF NtpError = "ok" THEN {"ok", "timeout", "failed"} ELSE {NtpError}

\* The copy of the job, the address, socket(), connect().
NtpOpen ==
    /\ worker = "setup" /\ Quiet /\ UNCHANGED <<job, handed>>
    /\ \E e \in IF NtpError = "ok" THEN {"ok", "failed"} ELSE {NtpError} :
         /\ worker' = IF e = "ok" THEN "next" ELSE "conclude"
         /\ burst' = [NoBurst EXCEPT !.verdict = IF e = "ok" THEN "none" ELSE e]

\* The head of the loop, after the wait for the sample's time.  A clock that was set in
\* between ends the burst.
NtpNextSample ==
    /\ worker = "next" /\ Local /\ UNCHANGED handed
    /\ \/ /\ burst.round = Samples \/ NtpError # "ok"
          /\ worker' = "conclude"
          /\ burst' = [burst EXCEPT !.verdict = IF burst.round = Samples THEN "none" ELSE NtpError]
          /\ UNCHANGED <<job, shared, rendered>>
       \/ /\ burst.round < Samples /\ NtpError = "ok"
          /\ worker' = "conclude"
          /\ burst' = [burst EXCEPT !.verdict = "burst over"]
          /\ job' = [job EXCEPT !.status = "burst over"]
          /\ UNCHANGED <<shared, rendered>>
       \/ /\ burst.round < Samples /\ NtpError = "ok"
          /\ worker' = "request"
          /\ burst' = [burst EXCEPT !.round = @ + 1, !.unmatched = 0]
          /\ job' = [job EXCEPT !.got = @ \cup {[number |-> burst.round + 1, note |-> "waiting", of |-> 0]},
                                !.status = "waiting"]
          /\ Publish(job', FALSE)

\* An error is noted with the sample; only a time-out lets the burst go on.
NtpSampleFails(e) ==
    /\ job' = [job EXCEPT !.got = Others \cup {Sample(e, 0)}]
    /\ burst' = [burst EXCEPT !.verdict = IF e = "timeout" THEN @ ELSE e]
    /\ worker' = "record"
    /\ UNCHANGED handed

\* Notes that end the burst (stop_burst), and a note that ends the wait.
BurstEnders == {"kiss", "bad clock"}
SampleNoted(note, of) ==
    /\ job' = [job EXCEPT !.got = Others \cup {Sample(note, of)}]
    /\ worker' = "record"

\* take_sample(), first loop: the request leaves, and is answered or not.  On a clock out
\* of range ntp_build_request() builds none, and nothing is sent.
NtpRequest ==
    /\ worker = "request" /\ Quiet
    /\ \/ \E e \in SampleOutcomes \ {"ok"} : NtpSampleFails(e)
       \/ /\ NtpError = "ok" /\ UNCHANGED handed
          /\ SampleNoted("bad clock", 0)
          /\ burst' = [burst EXCEPT !.verdict = "burst over"]
       \/ /\ NtpError = "ok"
          /\ handed' = handed + 1
          /\ \E lost \in BOOLEAN :
               burst' = [burst EXCEPT !.replies = IF lost THEN @ ELSE @ \cup {burst.round}]
          /\ worker' = "reply" /\ UNCHANGED job

\* Faulty match for mutation: the origin is not compared.
AnyOrigin(r) == TRUE

\* Is this the reply to the sample's own request?  (ntp_parse_response(), the origin)
SameOrigin(r) == r = burst.round

\* ntp_parse_response(): the tablet's clock and then the datagram's shape are judged before
\* its origin, so that any datagram can spoil the sample at work.
Parsed(r) ==
    {"bad clock", "rejected"} \cup IF SameOrigin(r) THEN {"valid", "kiss"} ELSE {"other origin"}

\* take_sample(), second loop: an error, or one datagram: a reply to this or an earlier
\* request, perhaps a copy of it, or one that answers none (0).
NtpReply ==
    /\ worker = "reply" /\ Quiet
    /\ \/ \E e \in SampleOutcomes \ {"ok"} : NtpSampleFails(e)
       \/ \E r \in burst.replies \cup {0}, copied \in BOOLEAN :
            LET left == IF copied THEN burst.replies ELSE burst.replies \ {r} IN
            /\ NtpError = "ok" /\ UNCHANGED handed
            /\ \/ /\ "other origin" \in Parsed(r) /\ burst.unmatched + 1 < MaxUnmatched
                  /\ burst' = [burst EXCEPT !.replies = left, !.unmatched = @ + 1]
                  /\ UNCHANGED <<job, worker>>
               \/ \E note \in Parsed(r) :
                    /\ note = "other origin" => burst.unmatched + 1 >= MaxUnmatched
                    /\ SampleNoted(IF note = "other origin" THEN "rejected" ELSE note,
                                   IF note = "valid" THEN r ELSE 0)
                    /\ burst' = [burst EXCEPT !.replies = left,
                                  !.verdict = IF note \in BurstEnders THEN "burst over" ELSE @]

\* The end of the loop's body.
NtpRecord ==
    /\ worker = "record" /\ Local /\ UNCHANGED <<burst, handed>>
    /\ job' = IF burst.verdict = "burst over" THEN [job EXCEPT !.status = "burst over"] ELSE job
    /\ Publish(job', FALSE)
    /\ worker' = IF burst.verdict = "none" THEN "next" ELSE "conclude"

NtpVerdict ==
    CASE burst.verdict = "none" -> "done"
      [] burst.verdict = "burst over" -> job.status
      [] OTHER -> burst.verdict

\* The report; a cancellation is looked for once more under the lock.
NtpConclude ==
    \/ /\ worker = "conclude"
       /\ job' = [job EXCEPT !.status = NtpVerdict]
       /\ worker' = "publish"
       /\ Quiet /\ UNCHANGED <<burst, handed>>
    \/ /\ worker = "publish"
       /\ Publish(IF cancelled THEN [job EXCEPT !.status = "cancelled"] ELSE job, TRUE)
       /\ worker' = "none" /\ job' = NoJob
       /\ burst' = NoBurst
       /\ Local /\ UNCHANGED handed

\* refresh(), start_clicked(), field_event(), stop_clicked(), ntp_tool_stop(), _show().
\* Nothing is armed on this page, and what is refused only shows why.
NtpRefresh == Refresh(FALSE)
NtpStart == open /\ ~busy /\ ~shown.busy /\ ~shown.blocked /\ form # NoRequest /\ Take(form)
NtpEdit == Edit
NtpStopClicked == Stop
NtpStop == Leave
NtpShow == Enter

NtpTask == NtpOpen \/ NtpNextSample \/ NtpRequest \/ NtpReply \/ NtpRecord \/ NtpConclude
NtpWorker == NtpTask \/ (TakeJob /\ UNCHANGED burst)
NtpNext ==
    \/ NtpWorker
    \/ /\ Expire \/ NtpRefresh \/ NtpStart \/ NtpEdit \/ NtpStopClicked \/ NtpStop \/ NtpShow
       /\ UNCHANGED burst

\* A burst that has ended leaves no sample that still waits; a sample is only called valid
\* for the reply to its own request, although replies to earlier ones arrive in its time;
\* no sample follows one that the server refused or the clock spoilt; the samples that were
\* taken are kept when the burst is stopped, and only then it is called cancelled.
NtpHonest ==
    Ended =>
      /\ \A s \in published.got : s.note # "waiting" /\ (s.note = "valid" => s.of = s.number)
      /\ {s.number : s \in published.got} = 1..Cardinality(published.got)
      /\ \A s \in published.got : s.note \in BurstEnders => s.number = Cardinality(published.got)
      /\ published.status = "cancelled" <=> stopped
      /\ published.status = "done" => Cardinality(published.got) = Samples
      /\ Cardinality(published.got) >= handed

NtpSpec == NtpInit /\ [][NtpNext]_ntpVars

\* The invariant behind NtpHonest: the samples of the worker's copy are numbered without
\* gaps up to the round, and only the sample at work may wait.
NtpFindings ==
    [number : 1..Samples, of : 0..Samples,
     note : {"waiting", "valid", "kiss", "rejected", "bad clock", "timeout", "failed", "cancelled"}]
Numbered(got, n) ==
    /\ IsFiniteSet(got) /\ Cardinality(got) = n
    /\ {s.number : s \in got} = 1..n
    /\ \A s, t \in got : s.number = t.number => s = t
Answered(got) == \A s \in got : s.note # "waiting" /\ (s.note = "valid" => s.of = s.number)
GoesOn(got) == \A s \in got : s.note \notin BurstEnders
Awaiting == {"request", "reply"}
NtpStage ==
    /\ worker = "start" => handed = 0 /\ published.got = {}
    /\ worker \notin {"none", "start"} =>
         /\ Numbered(job.got, burst.round)
         /\ handed <= burst.round
         /\ Answered(IF worker \in Awaiting THEN Others ELSE job.got)
         /\ burst.verdict = "none" => GoesOn(IF worker \in Awaiting THEN Others ELSE job.got)
         /\ \A s \in job.got : s.note \in BurstEnders => s.number = burst.round
         /\ burst.verdict = "cancelled" => stopped
    /\ worker = "setup" => handed = 0
    /\ worker \in Awaiting => burst.round > 0
    /\ worker = "request" => handed < burst.round
    /\ worker \in {"next", "request", "reply"} => burst.verdict = "none"
    /\ burst.verdict = "burst over" /\ worker = "conclude" => job.status = "burst over"
    /\ worker = "conclude" /\ burst.verdict = "none" => burst.round = Samples
    /\ worker = "publish" =>
         /\ job.status = "done" => burst.round = Samples
         /\ job.status = "cancelled" => stopped
    /\ worker \in {"none", "start", "setup"} => burst = NoBurst
    /\ worker \in {"none", "start", "setup", "next", "request", "reply", "record", "conclude", "publish"}
NtpBurstOK ==
    burst \in [round : 0..Samples, replies : SUBSET (1..Samples), unmatched : Nat,
               verdict : {"none", "timeout", "failed", "cancelled", "burst over"}]
NtpIInv == PageIInv(NtpFindings) /\ ~armed /\ NtpBurstOK /\ NtpStage /\ NtpHonest

=================================================================================
