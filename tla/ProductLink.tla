---------------------------- MODULE ProductLink ----------------------------
(* The Bluetooth links of the product profiles (the COLMI ring and the     *)
(* KICKR trainer) in main.c: the flags enabled, connecting, connected,     *)
(* stopping and conn_handle of each profile, kept under its lock by two    *)
(* tasks.  The LVGL task turns a profile on and off (ring_toggle_clicked,  *)
(* kickr_toggle_clicked); the NimBLE host task handles the GAP events      *)
(* (govee_gap_event, kickr_gap_event).  Both restart the scan (ble_scan).  *)
(* The two profiles run the same code on their own copy of the flags.      *)
(*                                                                         *)
(* A step is one critical section or one call of the host stack: between   *)
(* the section that decides and the call that acts, the other task runs.   *)
(* The stack and the controller are external: one connection procedure at  *)
(* a time, shared by the profiles; a completed, failed or cancelled        *)
(* procedure and an ended link each queue one event for the host task.     *)
(* Govee and the generic explorer, which only scan, are left out, and so   *)
(* is what is exchanged over an open link.                                 *)
EXTENDS Integers, Sequences, SequencesExt

CONSTANTS
  Products,        \* the profiles
  Peers,           \* the devices in range
  ProductOf,       \* the profile whose advertisement a peer sends
  NoPeer,          \* no device: an unset handle, no procedure
  DialMayFail,     \* ble_gap_connect may be refused for want of resources
  CloseMayFail,    \* ble_gap_terminate may be refused
  MaxToggles       \* taps on the profiles' switches (a bound on the runs)

ASSUME LinkAssumption ==
  /\ ProductOf \in [Peers -> Products]
  /\ NoPeer \notin Peers
  /\ DialMayFail \in BOOLEAN /\ CloseMayFail \in BOOLEAN
  /\ MaxToggles \in Nat

VARIABLES
  enabled, connecting, connected, stopping,  \* the flags of each profile
  connHandle,      \* conn_handle: the peer of the profile's last CONNECT event
  scanning,    \* ble_gap_disc_active
  procedure,   \* the peer the stack is connecting to
  link,        \* each peer's link: "none", "up", "closing"
  events,      \* GAP events waiting for the host task
  host,        \* where the host task is
  linkUi,          \* where the LVGL task is
  refused,     \* the stack has refused to end a link
  toggles      \* taps so far

linkFlags == <<enabled, connecting, connected, stopping, connHandle>>
stack == <<scanning, procedure, link, events>>
linkVars == <<linkFlags, stack, host, linkUi, refused, toggles>>

GapEvents == [kind : {"connect", "disconnect"}, peer : Peers, ok : BOOLEAN]
HostIdle == [at |-> "idle"]
UiIdle == [at |-> "idle"]
Connect(peer, ok) == [kind |-> "connect", peer |-> peer, ok |-> ok]
Disconnect(peer) == [kind |-> "disconnect", peer |-> peer, ok |-> TRUE]

LinkInit ==
  /\ enabled = [p \in Products |-> FALSE]
  /\ connecting = [p \in Products |-> FALSE]
  /\ connected = [p \in Products |-> FALSE]
  /\ stopping = [p \in Products |-> FALSE]
  /\ connHandle = [p \in Products |-> NoPeer]
  /\ scanning = FALSE
  /\ procedure = NoPeer
  /\ link = [peer \in Peers |-> "none"]
  /\ events = <<>>
  /\ host = HostIdle
  /\ linkUi = UiIdle
  /\ refused = FALSE
  /\ toggles = 0

-----------------------------------------------------------------------------
(* ble_scan, run by either task: read the profiles' switches, then act.    *)

ShouldScan == \E p \in Products : enabled[p]

\* Stop a scan nobody wants, or start one; the stack refuses to start it
\* while it is connecting.
ScanAct(wanted) ==
  scanning' = IF ~wanted THEN FALSE ELSE scanning \/ procedure = NoPeer

\* ble_gap_terminate: the link closes, unless the stack refuses.
Terminate(peer) ==
  \/ /\ link' = [link EXCEPT ![peer] = IF @ = "up" THEN "closing" ELSE @]
     /\ UNCHANGED refused
  \/ CloseMayFail /\ refused' = TRUE /\ UNCHANGED link

-----------------------------------------------------------------------------
(* The LVGL task.                                                          *)

Toggle(p) ==
  /\ linkUi = UiIdle /\ toggles < MaxToggles
  /\ toggles' = toggles + 1
  /\ enabled' = [enabled EXCEPT ![p] = ~@]
  /\ LET off == enabled[p]
         cancel == off /\ connecting[p]
         disconnect == off /\ connected[p]
     IN /\ stopping' = [stopping EXCEPT ![p] =
                          IF off THEN cancel \/ disconnect ELSE @]
        /\ linkUi' = [at |-> "cancel", cancel |-> cancel,
                  disconnect |-> disconnect, peer |-> connHandle[p]]
  /\ UNCHANGED <<connecting, connected, connHandle, stack, host, refused>>

\* Mutant: turning a profile off forgets to end its link.
UiTerminateForgets ==
  /\ linkUi.at = "terminate"
  /\ linkUi' = [at |-> "scanRead"]
  /\ UNCHANGED <<linkFlags, stack, host, refused, toggles>>

\* ble_gap_conn_cancel ends whichever procedure is under way.
UiCancel ==
  /\ linkUi.at = "cancel"
  /\ linkUi' = [linkUi EXCEPT !.at = "terminate"]
  /\ IF linkUi.cancel /\ procedure # NoPeer
     THEN /\ procedure' = NoPeer
          /\ events' = Append(events, Connect(procedure, FALSE))
     ELSE UNCHANGED <<procedure, events>>
  /\ UNCHANGED <<linkFlags, scanning, link, host, refused, toggles>>

UiTerminate ==
  /\ linkUi.at = "terminate"
  /\ linkUi' = [at |-> "scanRead"]
  /\ IF linkUi.disconnect THEN Terminate(linkUi.peer) ELSE UNCHANGED <<link, refused>>
  /\ UNCHANGED <<linkFlags, scanning, procedure, events, host, toggles>>

UiScanRead ==
  /\ linkUi.at = "scanRead"
  /\ linkUi' = [at |-> "scanAct", wanted |-> ShouldScan]
  /\ UNCHANGED <<linkFlags, stack, host, refused, toggles>>

UiScanAct ==
  /\ linkUi.at = "scanAct"
  /\ linkUi' = UiIdle
  /\ ScanAct(linkUi.wanted)
  /\ UNCHANGED <<linkFlags, procedure, link, events, host, refused, toggles>>

UiTail == UiCancel \/ UiTerminate \/ UiScanRead \/ UiScanAct

-----------------------------------------------------------------------------
(* The NimBLE host task.                                                   *)

\* Mutant: a link that came after the profile was turned off is kept.
HandleConnectKeeps ==
  /\ host = HostIdle /\ events # <<>> /\ Head(events).kind = "connect"
  /\ LET event == Head(events)
         p == ProductOf[event.peer]
     IN /\ connecting' = [connecting EXCEPT ![p] = FALSE]
        /\ connected' = [connected EXCEPT ![p] = enabled[p] /\ event.ok]
        /\ stopping' = [stopping EXCEPT ![p] = ~enabled[p] /\ event.ok]
        /\ connHandle' = [connHandle EXCEPT ![p] = event.peer]
        /\ host' = [at |-> "scanRead"]
  /\ events' = Tail(events)
  /\ UNCHANGED <<enabled, scanning, procedure, link, linkUi, refused, toggles>>

\* BLE_GAP_EVENT_CONNECT: the profile may have been turned off meanwhile.
HandleConnect ==
  /\ host = HostIdle /\ events # <<>> /\ Head(events).kind = "connect"
  /\ LET event == Head(events)
         p == ProductOf[event.peer]
     IN /\ connecting' = [connecting EXCEPT ![p] = FALSE]
        /\ connected' = [connected EXCEPT ![p] = enabled[p] /\ event.ok]
        /\ stopping' = [stopping EXCEPT ![p] = ~enabled[p] /\ event.ok]
        /\ connHandle' = [connHandle EXCEPT ![p] = event.peer]
        /\ host' = IF event.ok /\ ~enabled[p]
                   THEN [at |-> "drop", peer |-> event.peer]
                   ELSE [at |-> "scanRead"]
  /\ events' = Tail(events)
  /\ UNCHANGED <<enabled, scanning, procedure, link, linkUi, refused, toggles>>

\* A link nobody wants any more is ended.
HostDrop ==
  /\ host.at = "drop"
  /\ Terminate(host.peer)
  /\ host' = [at |-> "scanRead"]
  /\ UNCHANGED <<linkFlags, scanning, procedure, events, linkUi, toggles>>

\* BLE_GAP_EVENT_DISCONNECT: the event's connection handle is not compared
\* with the profile's.
HandleDisconnect ==
  /\ host = HostIdle /\ events # <<>> /\ Head(events).kind = "disconnect"
  /\ LET p == ProductOf[Head(events).peer]
     IN /\ connected' = [connected EXCEPT ![p] = FALSE]
        /\ connecting' = [connecting EXCEPT ![p] = FALSE]
        /\ stopping' = [stopping EXCEPT ![p] = FALSE]
  /\ events' = Tail(events)
  /\ host' = [at |-> "scanRead"]
  /\ UNCHANGED <<enabled, connHandle, scanning, procedure, link, linkUi, refused, toggles>>

HostScanRead ==
  /\ host.at = "scanRead"
  /\ host' = [at |-> "scanAct", wanted |-> ShouldScan]
  /\ UNCHANGED <<linkFlags, stack, linkUi, refused, toggles>>

HostScanAct ==
  /\ host.at = "scanAct"
  /\ host' = HostIdle
  /\ ScanAct(host.wanted)
  /\ UNCHANGED <<linkFlags, procedure, link, events, linkUi, refused, toggles>>

\* BLE_GAP_EVENT_DISC of an unconnected peer whose profile wants a link.  A
\* connected device does not advertise and the stack reports in order, so
\* the report comes after the end of the device's last link is handled.
HandleAdvertisement(peer) ==
  /\ host = HostIdle /\ scanning /\ link[peer] = "none"
  /\ \A i \in DOMAIN events : events[i].peer # peer
  /\ LET p == ProductOf[peer]
     IN /\ enabled[p] /\ ~connecting[p] /\ ~connected[p]
        /\ connecting' = [connecting EXCEPT ![p] = TRUE]
  /\ host' = [at |-> "stopScan", peer |-> peer]
  /\ UNCHANGED <<enabled, connected, stopping, connHandle, stack, linkUi, refused, toggles>>

HostStopScan ==
  /\ host.at = "stopScan"
  /\ scanning' = FALSE
  /\ host' = [host EXCEPT !.at = "dial"]
  /\ UNCHANGED <<linkFlags, procedure, link, events, linkUi, refused, toggles>>

\* ble_gap_connect is refused while the stack scans or connects.
HostDial ==
  /\ host.at = "dial"
  /\ ~scanning /\ procedure = NoPeer
  /\ procedure' = host.peer
  /\ host' = HostIdle
  /\ UNCHANGED <<linkFlags, scanning, link, events, linkUi, refused, toggles>>

HostDialRefused ==
  /\ host.at = "dial"
  /\ DialMayFail \/ scanning \/ procedure # NoPeer
  /\ connecting' = [connecting EXCEPT ![ProductOf[host.peer]] = FALSE]
  /\ host' = [at |-> "scanRead"]
  /\ UNCHANGED <<enabled, connected, stopping, connHandle, stack, linkUi, refused, toggles>>

HostStep ==
  \/ HandleConnect \/ HostDrop \/ HandleDisconnect
  \/ HostScanRead \/ HostScanAct
  \/ HostStopScan \/ HostDial \/ HostDialRefused

-----------------------------------------------------------------------------
(* The controller and the air.                                             *)

Established ==
  /\ procedure # NoPeer
  /\ link' = [link EXCEPT ![procedure] = "up"]
  /\ events' = Append(events, Connect(procedure, TRUE))
  /\ procedure' = NoPeer
  /\ UNCHANGED <<linkFlags, scanning, host, linkUi, refused, toggles>>

ConnectTimeout ==
  /\ procedure # NoPeer
  /\ events' = Append(events, Connect(procedure, FALSE))
  /\ procedure' = NoPeer
  /\ UNCHANGED <<linkFlags, scanning, link, host, linkUi, refused, toggles>>

\* A link ends because it was asked to, or because the peer is gone.
LinkEnds(peer) ==
  /\ link[peer] # "none"
  /\ link' = [link EXCEPT ![peer] = "none"]
  /\ events' = Append(events, Disconnect(peer))
  /\ UNCHANGED <<linkFlags, scanning, procedure, host, linkUi, refused, toggles>>

LinkNext ==
  \/ \E p \in Products : Toggle(p)
  \/ UiTail
  \/ \E peer \in Peers : HandleAdvertisement(peer)
  \/ HostStep
  \/ Established \/ ConnectTimeout
  \/ \E peer \in Peers : LinkEnds(peer)

LinkSpec == LinkInit /\ [][LinkNext]_linkVars

\* Both tasks go on with what they have begun, a procedure ends, and a link
\* asked to close closes.  The host task takes its events in order, so that
\* advertisements arriving without end do not keep one waiting for ever.
\* Nobody need tap, advertise or go out of range.
LinkFairSpec ==
  /\ LinkSpec
  /\ WF_linkVars(UiTail) /\ WF_linkVars(HostStep)
  /\ SF_linkVars(HandleConnect) /\ SF_linkVars(HandleDisconnect)
  /\ WF_linkVars(Established \/ ConnectTimeout)
  /\ \A peer \in Peers : WF_linkVars(link[peer] = "closing" /\ LinkEnds(peer))

-----------------------------------------------------------------------------
(* What the flags must say.                                                *)

\* The variables stay in their domains, and a connected profile has a handle.
LinkTypeOK ==
  /\ enabled \in [Products -> BOOLEAN] /\ connecting \in [Products -> BOOLEAN]
  /\ connected \in [Products -> BOOLEAN] /\ stopping \in [Products -> BOOLEAN]
  /\ connHandle \in [Products -> Peers \cup {NoPeer}]
  /\ \A p \in Products : connected[p] => connHandle[p] \in Peers
  /\ scanning \in BOOLEAN
  /\ procedure \in Peers \cup {NoPeer}
  /\ link \in [Peers -> {"none", "up", "closing"}]
  /\ events \in Seq(GapEvents)
  /\ host.at \in {"idle", "drop", "scanRead", "scanAct", "stopScan", "dial"}
  /\ linkUi.at \in {"idle", "cancel", "terminate", "scanRead", "scanAct"}
  /\ refused \in BOOLEAN
  /\ toggles \in 0..MaxToggles

Queued(event) == \E i \in DOMAIN events : events[i] = event

\* An open link is never lost sight of: its profile holds its handle, or the
\* event that brings it waits, or the host task is about to end it.  Else
\* nothing in the program could close it again.  Only the stack's refusal to
\* end a link, which the program ignores, leaves one behind.
LinkKnown ==
  ~refused => \A peer \in Peers : link[peer] = "up" =>
    \/ connected[ProductOf[peer]] /\ connHandle[ProductOf[peer]] = peer
    \/ Queued(Connect(peer, TRUE))
    \/ host.at = "drop" /\ host.peer = peer

\* A profile shown as connected has its link, or the event of its end waits:
\* "Connected" does not outlive the link.
ConnectedIsReal ==
  \A p \in Products : connected[p] =>
    \/ link[connHandle[p]] # "none"
    \/ Queued(Disconnect(connHandle[p]))

\* A profile shown as connecting is: its device is being dialled, or the
\* outcome waits.  A flag left behind would keep the profile from ever
\* connecting, as an advertisement is ignored while it is set.
ConnectingIsReal ==
  \A p \in Products : connecting[p] =>
    \/ procedure # NoPeer /\ ProductOf[procedure] = p
    \/ \E i \in DOMAIN events : ProductOf[events[i].peer] = p
    \/ host.at \in {"stopScan", "dial"} /\ ProductOf[host.peer] = p

\* What the flags say is so, refusals included, and no open link is forgotten.
LinkInv == LinkTypeOK /\ ConnectedIsReal /\ ConnectingIsReal /\ LinkKnown

\* The tasks' program counters, with what each carries from step to step.
TasksOK ==
  /\ host \in {HostIdle} \cup [at : {"drop", "stopScan", "dial"}, peer : Peers]
        \cup [at : {"scanRead"}] \cup [at : {"scanAct"}, wanted : BOOLEAN]
  /\ linkUi \in {UiIdle} \cup [at : {"scanRead"}] \cup [at : {"scanAct"}, wanted : BOOLEAN]
        \cup [at : {"cancel", "terminate"}, cancel : BOOLEAN, disconnect : BOOLEAN,
             peer : Peers \cup {NoPeer}]
  /\ linkUi.at \in {"cancel", "terminate"} /\ linkUi.disconnect => linkUi.peer \in Peers

\* A profile's handle is one of its own devices', and the event that brings a
\* link still finds it, or its end comes later in the queue.
HandlesOK ==
  /\ \A p \in Products : connHandle[p] \in Peers => ProductOf[connHandle[p]] = p
  /\ \A i \in DOMAIN events : events[i].kind = "connect" /\ events[i].ok =>
       \/ link[events[i].peer] # "none"
       \/ \E j \in DOMAIN events : j > i /\ events[j] = Disconnect(events[i].peer)

\* The flags are true: what makes ConnectedIsReal and ConnectingIsReal inductive.
FlagsIInv == LinkTypeOK /\ TasksOK /\ HandlesOK /\ ConnectedIsReal /\ ConnectingIsReal

\* A profile has at most one device in range.
OneDeviceEach == \A a, b \in Peers : ProductOf[a] = ProductOf[b] => a = b

\* With one device each, a device being dialled has no link and no event of
\* an earlier one, its profile says so, and a linked device has only the
\* event of its link waiting: no event of the past takes a link from its profile.
Dialling(peer) == host.at \in {"stopScan", "dial"} /\ host.peer = peer
DialsOK ==
  /\ \A peer \in Peers : Dialling(peer) \/ procedure = peer =>
       /\ link[peer] = "none" /\ connecting[ProductOf[peer]]
       /\ \A i \in DOMAIN events : events[i].peer # peer
  /\ \A peer \in Peers : ~(Dialling(peer) /\ procedure = peer)
  /\ \A i \in DOMAIN events : link[events[i].peer] # "none" => events[i] = Connect(events[i].peer, TRUE)
LinkIInv == FlagsIInv /\ DialsOK /\ LinkKnown

\* restart_blocker and ble_products_idle: what the profiles say keeps the
\* tablet from restarting, and the explorer from starting.
ProductsBusy ==
  \E p \in Products : enabled[p] \/ connecting[p] \/ connected[p] \/ stopping[p]

\* docs/architecture.md:72 says that OTA refuses restart while a BLE session
\* is active: an open or closing link keeps the profiles busy.
RestartRefusedWhileLinked ==
  (\E peer \in Peers : link[peer] # "none") => ProductsBusy

\* A profile turned off for good ends up without a link, whatever the host
\* task was doing when the switch was tapped, if the stack refuses nothing.
OffLinksDown ==
  \A p \in Products : <>[](~enabled[p] /\ ~refused) =>
    <>[](\A peer \in Peers : ProductOf[peer] = p => link[peer] = "none")

=============================================================================
