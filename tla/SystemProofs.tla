---------------------------- MODULE SystemProofs ----------------------------
(* Safety of what main.c does behind every page (see MCSystem): of the product
   links, for any profiles and devices, and of the updater, for every set of
   versions and every number of updates and resets. *)
EXTENDS OtaUpdate, ProductLink, TLAPS

(***************************************************************************)
(* The queue of events.                                                    *)
(***************************************************************************)

\* An event appended to the queue comes last, and what was queued stays.
LEMMA EventAppended ==
    ASSUME NEW S, NEW queue \in Seq(S), NEW event \in S
    PROVE /\ Append(queue, event) \in Seq(S)
          /\ \A i \in DOMAIN queue : i \in DOMAIN Append(queue, event) /\ Append(queue, event)[i] = queue[i]
          /\ \E i \in DOMAIN Append(queue, event) :
               /\ Append(queue, event)[i] = event
               /\ \A j \in DOMAIN queue : i > j
          /\ \A i \in DOMAIN Append(queue, event) :
               (i \in DOMAIN queue /\ Append(queue, event)[i] = queue[i]) \/ Append(queue, event)[i] = event
    <1>1. Append(queue, event) \in Seq(S) /\ Len(queue) \in Nat /\ DOMAIN queue = 1 .. Len(queue)
          /\ DOMAIN Append(queue, event) = 1 .. Len(queue) + 1
        OBVIOUS
    <1>2. Append(queue, event)[Len(queue) + 1] = event
        OBVIOUS
    <1>3. \A i \in 1 .. Len(queue) : Append(queue, event)[i] = queue[i]
        OBVIOUS
    <1>4. \A j \in 1 .. Len(queue) : Len(queue) + 1 > j
        BY <1>1
    <1>5. Len(queue) + 1 \in 1 .. Len(queue) + 1 /\ 1 .. Len(queue) \subseteq 1 .. Len(queue) + 1
          /\ \A i \in 1 .. Len(queue) + 1 : i \in 1 .. Len(queue) \/ i = Len(queue) + 1
        BY <1>1
    <1> QED
        BY <1>1, <1>2, <1>3, <1>4, <1>5

\* Taking the first event moves the others up by one.
LEMMA EventTaken ==
    ASSUME NEW S, NEW queue \in Seq(S), queue # <<>>
    PROVE /\ Tail(queue) \in Seq(S) /\ Head(queue) \in S
          /\ 1 \in DOMAIN queue /\ queue[1] = Head(queue)
          /\ \A i \in DOMAIN Tail(queue) : i + 1 \in DOMAIN queue /\ Tail(queue)[i] = queue[i + 1] /\ i \in Nat
          /\ \A i \in DOMAIN queue : i = 1 \/ (i - 1 \in DOMAIN Tail(queue) /\ Tail(queue)[i - 1] = queue[i])
          /\ DOMAIN queue \subseteq Nat \ {0}
    <1>1. /\ Tail(queue) \in Seq(S) /\ Len(queue) \in Nat \ {0} /\ DOMAIN queue = 1 .. Len(queue)
          /\ DOMAIN Tail(queue) = 1 .. Len(queue) - 1
        OBVIOUS
    <1>2. Head(queue) = queue[1] /\ \A i \in 1 .. Len(queue) - 1 : Tail(queue)[i] = queue[i + 1]
        OBVIOUS
    <1>3. /\ 1 \in 1 .. Len(queue)
          /\ \A i \in 1 .. Len(queue) - 1 : i + 1 \in 1 .. Len(queue) /\ i \in Nat
          /\ \A i \in 1 .. Len(queue) : i = 1 \/ (i - 1 \in 1 .. Len(queue) - 1 /\ (i - 1) + 1 = i)
          /\ 1 .. Len(queue) \subseteq Nat \ {0}
        BY <1>1
    <1>4. queue[1] \in S
        BY <1>1, <1>3
    <1> QED
        BY <1>1, <1>2, <1>3, <1>4

\* Ending a link closes it, at most; unless it is refused, it is not open.
LEMMA TerminateEffect ==
    ASSUME NEW peer \in Peers, link \in [Peers -> {"none", "up", "closing"}], refused \in BOOLEAN,
           Terminate(peer)
    PROVE /\ link' \in [Peers -> {"none", "up", "closing"}] /\ refused' \in BOOLEAN
          /\ \A other \in Peers : (link'[other] = "none") = (link[other] = "none")
          /\ \A other \in Peers : link'[other] = "up" => link[other] = "up"
          /\ refused => refused'
          /\ ~refused' => link'[peer] # "up"
    BY DEF Terminate

(***************************************************************************)
(* What the flags say is so.                                               *)
(***************************************************************************)

\* An event put in the queue leaves the flags true, if it says of a link what
\* happened to it.
LEMMA QueueingKeepsFlags ==
    ASSUME FlagsIInv, NEW event \in GapEvents, events' = Append(events, event),
           link' \in [Peers -> {"none", "up", "closing"}],
           \A peer \in Peers : link[peer] # "none" => link'[peer] # "none" \/ event = Disconnect(peer),
           event.kind = "connect" /\ event.ok => link'[event.peer] # "none",
           \/ procedure' = procedure
           \/ procedure' = NoPeer /\ ProductOf[procedure] = ProductOf[event.peer],
           UNCHANGED <<connecting, connected, connHandle, host>>
    PROVE HandlesOK' /\ ConnectedIsReal' /\ ConnectingIsReal'
    <1> USE LinkAssumption
    <1>1. events \in Seq(GapEvents)
        BY DEF FlagsIInv, LinkTypeOK
    <1>2. /\ \A i \in DOMAIN events : i \in DOMAIN events' /\ events'[i] = events[i]
          /\ \E i \in DOMAIN events' : events'[i] = event /\ \A j \in DOMAIN events : i > j
          /\ \A i \in DOMAIN events' : (i \in DOMAIN events /\ events'[i] = events[i]) \/ events'[i] = event
        BY <1>1, EventAppended
    <1>3. \A i \in DOMAIN events : events[i] \in GapEvents
        BY <1>1
    <1>4. HandlesOK'
        <2>1. \A p \in Products : connHandle'[p] \in Peers => ProductOf[connHandle'[p]] = p
            BY DEF FlagsIInv, HandlesOK
        <2>2. ASSUME NEW i \in DOMAIN events', events'[i].kind = "connect", events'[i].ok
              PROVE \/ link'[events'[i].peer] # "none"
                    \/ \E j \in DOMAIN events' : j > i /\ events'[j] = Disconnect(events'[i].peer)
            <3>1. CASE events'[i] = event
                BY <2>2, <3>1
            <3>2. CASE i \in DOMAIN events /\ events'[i] = events[i]
                <4>1. events[i].peer \in Peers
                    BY <1>3, <3>2 DEF GapEvents
                <4>2. CASE link[events[i].peer] # "none"
                    <5>1. link'[events[i].peer] # "none" \/ event = Disconnect(events[i].peer)
                        BY <4>1, <4>2
                    <5> QED
                        BY <5>1, <1>2, <3>2
                <4>3. CASE \E j \in DOMAIN events : j > i /\ events[j] = Disconnect(events[i].peer)
                    BY <4>3, <1>2, <3>2
                <4> QED
                    BY <4>2, <4>3, <2>2, <3>2 DEF FlagsIInv, HandlesOK
            <3> QED
                BY <3>1, <3>2, <1>2
        <2> QED
            BY <2>1, <2>2 DEF HandlesOK
    <1>5. ConnectedIsReal'
        <2>1. SUFFICES ASSUME NEW p \in Products, connected[p]
                       PROVE \/ link'[connHandle[p]] # "none"
                             \/ \E i \in DOMAIN events' : events'[i] = Disconnect(connHandle[p])
            BY DEF ConnectedIsReal, Queued
        <2>2. connHandle[p] \in Peers
            BY <2>1 DEF FlagsIInv, LinkTypeOK
        <2>3. \/ link[connHandle[p]] # "none"
              \/ \E i \in DOMAIN events : events[i] = Disconnect(connHandle[p])
            BY <2>1 DEF FlagsIInv, ConnectedIsReal, Queued
        <2>4. link[connHandle[p]] # "none" => link'[connHandle[p]] # "none" \/ event = Disconnect(connHandle[p])
            BY <2>2
        <2> QED
            BY <2>3, <2>4, <1>2
    <1>6. ConnectingIsReal'
        <2>1. SUFFICES ASSUME NEW p \in Products, connecting[p]
                       PROVE \/ procedure' # NoPeer /\ ProductOf[procedure'] = p
                             \/ \E i \in DOMAIN events' : ProductOf[events'[i].peer] = p
                             \/ host.at \in {"stopScan", "dial"} /\ ProductOf[host.peer] = p
            BY DEF ConnectingIsReal
        <2>2. \/ procedure # NoPeer /\ ProductOf[procedure] = p
              \/ \E i \in DOMAIN events : ProductOf[events[i].peer] = p
              \/ host.at \in {"stopScan", "dial"} /\ ProductOf[host.peer] = p
            BY <2>1 DEF FlagsIInv, ConnectingIsReal
        <2>3. CASE procedure # NoPeer /\ ProductOf[procedure] = p
            <3>1. CASE procedure' = procedure
                BY <3>1, <2>3
            <3>2. CASE procedure' = NoPeer /\ ProductOf[procedure] = ProductOf[event.peer]
                BY <3>2, <2>3, <1>2
            <3> QED
                BY <3>1, <3>2
        <2>4. CASE \E i \in DOMAIN events : ProductOf[events[i].peer] = p
            BY <2>4, <1>2
        <2> QED
            BY <2>2, <2>3, <2>4
    <1> QED
        BY <1>4, <1>5, <1>6

\* An event taken from the queue leaves the flags true, if only a link that
\* came makes its profile connected.
LEMMA TakingKeepsFlags ==
    ASSUME FlagsIInv, events # <<>>, host = HostIdle, events' = Tail(events),
           NEW now \in BOOLEAN,
           now => Head(events).kind = "connect" /\ Head(events).ok,
           connHandle' = connHandle \/ connHandle' = [connHandle EXCEPT ![ProductOf[Head(events).peer]] = Head(events).peer],
           now => connHandle'[ProductOf[Head(events).peer]] = Head(events).peer,
           connecting' = [connecting EXCEPT ![ProductOf[Head(events).peer]] = FALSE],
           connected' = [connected EXCEPT ![ProductOf[Head(events).peer]] = now],
           UNCHANGED <<link, procedure>>
    PROVE HandlesOK' /\ ConnectedIsReal' /\ ConnectingIsReal' /\ events' \in Seq(GapEvents)
          /\ connHandle' \in [Products -> Peers \cup {NoPeer}]
          /\ \A p \in Products : connected'[p] => connHandle'[p] \in Peers
    <1> USE LinkAssumption
    <1> DEFINE head == Head(events)
               q == ProductOf[head.peer]
    <1>1. events \in Seq(GapEvents)
        BY DEF FlagsIInv, LinkTypeOK
    <1>2. /\ events' \in Seq(GapEvents) /\ head \in GapEvents
          /\ 1 \in DOMAIN events /\ events[1] = head
          /\ \A i \in DOMAIN events' : i + 1 \in DOMAIN events /\ events'[i] = events[i + 1] /\ i \in Nat
          /\ \A i \in DOMAIN events : i = 1 \/ (i - 1 \in DOMAIN events' /\ events'[i - 1] = events[i])
          /\ DOMAIN events \subseteq Nat \ {0}
        BY <1>1, EventTaken
    <1>3. head.peer \in Peers /\ q \in Products
        BY <1>2 DEF GapEvents
    <1>4. connHandle \in [Products -> Peers \cup {NoPeer}]
        BY DEF FlagsIInv, LinkTypeOK
    <1>5. /\ connHandle' \in [Products -> Peers \cup {NoPeer}]
          /\ \A p \in Products : p # q => connHandle'[p] = connHandle[p]
          /\ connHandle'[q] = connHandle[q] \/ connHandle'[q] = head.peer
        BY <1>3, <1>4
    <1>6. /\ \A p \in Products : p # q => connected'[p] = connected[p] /\ connecting'[p] = connecting[p]
          /\ connected'[q] = now /\ connecting'[q] = FALSE
        BY <1>3 DEF FlagsIInv, LinkTypeOK
    <1>7. \A p \in Products : connected'[p] => connHandle'[p] \in Peers
        BY <1>3, <1>5, <1>6 DEF FlagsIInv, LinkTypeOK
    <1>8. HandlesOK'
        <2>1. \A p \in Products : connHandle'[p] \in Peers => ProductOf[connHandle'[p]] = p
            BY <1>3, <1>5 DEF FlagsIInv, HandlesOK
        <2>2. ASSUME NEW i \in DOMAIN events', events'[i].kind = "connect", events'[i].ok
              PROVE \/ link'[events'[i].peer] # "none"
                    \/ \E j \in DOMAIN events' : j > i /\ events'[j] = Disconnect(events'[i].peer)
            <3>1. i + 1 \in DOMAIN events /\ events'[i] = events[i + 1] /\ i \in Nat
                BY <1>2
            <3>2. \/ link[events[i + 1].peer] # "none"
                  \/ \E j \in DOMAIN events : j > i + 1 /\ events[j] = Disconnect(events[i + 1].peer)
                BY <2>2, <3>1 DEF FlagsIInv, HandlesOK
            <3>3. CASE \E j \in DOMAIN events : j > i + 1 /\ events[j] = Disconnect(events[i + 1].peer)
                <4>1. PICK j \in DOMAIN events : j > i + 1 /\ events[j] = Disconnect(events[i + 1].peer)
                    BY <3>3
                <4>2. j \in Nat /\ j # 1 /\ j - 1 > i
                    BY <3>1, <4>1, <1>2
                <4>3. j - 1 \in DOMAIN events' /\ events'[j - 1] = events[j]
                    BY <4>2, <1>2
                <4> QED
                    BY <3>1, <4>1, <4>2, <4>3
            <3> QED
                BY <3>1, <3>2, <3>3
        <2> QED
            BY <2>1, <2>2 DEF HandlesOK
    <1>9. ConnectedIsReal'
        <2>1. SUFFICES ASSUME NEW p \in Products, connected'[p]
                       PROVE \/ link[connHandle'[p]] # "none"
                             \/ \E i \in DOMAIN events' : events'[i] = Disconnect(connHandle'[p])
            BY DEF ConnectedIsReal, Queued
        <2>2. CASE p = q
            <3>1. now /\ connHandle'[p] = head.peer
                BY <2>1, <2>2, <1>6
            <3>2. \/ link[head.peer] # "none"
                  \/ \E j \in DOMAIN events : j > 1 /\ events[j] = Disconnect(head.peer)
                BY <3>1, <1>2 DEF FlagsIInv, HandlesOK
            <3>3. CASE \E j \in DOMAIN events : j > 1 /\ events[j] = Disconnect(head.peer)
                <4>1. PICK j \in DOMAIN events : j > 1 /\ events[j] = Disconnect(head.peer)
                    BY <3>3
                <4>2. j # 1
                    BY <4>1, <1>2
                <4>3. j - 1 \in DOMAIN events' /\ events'[j - 1] = events[j]
                    BY <4>2, <1>2
                <4> QED
                    BY <3>1, <4>1, <4>3
            <3> QED
                BY <3>1, <3>2, <3>3
        <2>3. CASE p # q
            <3>1. connected[p] /\ connHandle'[p] = connHandle[p] /\ connHandle[p] \in Peers
                BY <2>1, <2>3, <1>5, <1>6, <1>7
            <3>2. \/ link[connHandle[p]] # "none"
                  \/ \E i \in DOMAIN events : events[i] = Disconnect(connHandle[p])
                BY <3>1 DEF FlagsIInv, ConnectedIsReal, Queued
            <3>3. head.peer # connHandle[p]
                BY <3>1, <2>3 DEF FlagsIInv, HandlesOK
            <3>4. CASE \E i \in DOMAIN events : events[i] = Disconnect(connHandle[p])
                <4>1. PICK i \in DOMAIN events : events[i] = Disconnect(connHandle[p])
                    BY <3>4
                <4>2. i # 1
                    BY <3>3, <4>1, <1>2 DEF Disconnect
                <4>3. i - 1 \in DOMAIN events' /\ events'[i - 1] = events[i]
                    BY <4>2, <1>2
                <4> QED
                    BY <3>1, <4>1, <4>3
            <3> QED
                BY <3>1, <3>2, <3>4
        <2> QED
            BY <2>2, <2>3
    <1>10. ConnectingIsReal'
        <2>1. SUFFICES ASSUME NEW p \in Products, connecting'[p]
                       PROVE \/ procedure # NoPeer /\ ProductOf[procedure] = p
                             \/ \E i \in DOMAIN events' : ProductOf[events'[i].peer] = p
            BY DEF ConnectingIsReal
        <2>2. p # q /\ connecting[p]
            BY <2>1, <1>6
        <2>3. host.at = "idle"
            BY DEF HostIdle
        <2>4. \/ procedure # NoPeer /\ ProductOf[procedure] = p
              \/ \E i \in DOMAIN events : ProductOf[events[i].peer] = p
            BY <2>2, <2>3 DEF FlagsIInv, ConnectingIsReal
        <2>5. CASE \E i \in DOMAIN events : ProductOf[events[i].peer] = p
            <3>1. PICK i \in DOMAIN events : ProductOf[events[i].peer] = p
                BY <2>5
            <3>2. i # 1
                BY <2>2, <3>1, <1>2
            <3>3. i - 1 \in DOMAIN events' /\ events'[i - 1] = events[i]
                BY <3>2, <1>2
            <3> QED
                BY <3>1, <3>3
        <2> QED
            BY <2>4, <2>5
    <1> QED
        BY <1>2, <1>5, <1>7, <1>8, <1>9, <1>10

\* A step that queues nothing, takes nothing and only opens or closes links
\* that are there leaves the handles and the connected flags true.
LEMMA LinksKeepFlags ==
    ASSUME FlagsIInv, link' \in [Peers -> {"none", "up", "closing"}],
           \A peer \in Peers : (link'[peer] = "none") = (link[peer] = "none"),
           UNCHANGED <<events, connected, connHandle>>
    PROVE HandlesOK' /\ ConnectedIsReal'
    <1>1. events \in Seq(GapEvents)
        BY DEF FlagsIInv, LinkTypeOK
    <1>2. \A i \in DOMAIN events : events[i] \in GapEvents
        BY <1>1
    <1>3. \A i \in DOMAIN events : events[i].peer \in Peers
        BY <1>2 DEF GapEvents
    <1>4. HandlesOK'
        BY <1>3 DEF FlagsIInv, HandlesOK
    <1>5. \A p \in Products : connected[p] => connHandle[p] \in Peers
        BY DEF FlagsIInv, LinkTypeOK
    <1>6. ConnectedIsReal'
        BY <1>5 DEF FlagsIInv, ConnectedIsReal, Queued
    <1> QED
        BY <1>4, <1>6

LEMMA FlagsInit == LinkInit => FlagsIInv
    <1> SUFFICES ASSUME LinkInit PROVE FlagsIInv
        OBVIOUS
    <1> USE LinkAssumption
    <1>1. LinkTypeOK
        <2>1. events = <<>> /\ events \in Seq(GapEvents)
            BY DEF LinkInit
        <2>2. /\ enabled \in [Products -> BOOLEAN] /\ connecting \in [Products -> BOOLEAN]
              /\ connected \in [Products -> BOOLEAN] /\ stopping \in [Products -> BOOLEAN]
              /\ connHandle \in [Products -> Peers \cup {NoPeer}]
              /\ \A p \in Products : connected[p] => connHandle[p] \in Peers
            BY DEF LinkInit
        <2>3. /\ scanning \in BOOLEAN /\ procedure \in Peers \cup {NoPeer}
              /\ host.at = "idle" /\ linkUi.at = "idle" /\ refused \in BOOLEAN
            BY DEF LinkInit, HostIdle, UiIdle
        <2>4. link \in [Peers -> {"none", "up", "closing"}] /\ toggles = 0
            BY DEF LinkInit
        <2>5. toggles \in 0 .. MaxToggles
            BY <2>4
        <2> QED
            BY <2>1, <2>2, <2>3, <2>4, <2>5 DEF LinkTypeOK
    <1>2. TasksOK
        BY DEF LinkInit, TasksOK, HostIdle, UiIdle
    <1>3. HandlesOK /\ ConnectedIsReal /\ ConnectingIsReal
        BY DEF LinkInit, HandlesOK, ConnectedIsReal, ConnectingIsReal
    <1> QED
        BY <1>1, <1>2, <1>3 DEF FlagsIInv

\* What the domains say of the event the host task takes next.
LEMMA HeadIsEvent ==
    ASSUME LinkTypeOK, events # <<>>
    PROVE Head(events) \in GapEvents /\ Head(events).peer \in Peers
          /\ ProductOf[Head(events).peer] \in Products
    <1>1. events \in Seq(GapEvents)
        BY DEF LinkTypeOK
    <1>2. Head(events) \in GapEvents
        BY <1>1, EventTaken
    <1> QED
        BY <1>2, LinkAssumption DEF GapEvents

\* The LVGL task keeps the flags true: its cancel queues the end of a
\* procedure, its terminate only closes.
LEMMA UiKeepsFlags ==
    ASSUME FlagsIInv, (\E p \in Products : Toggle(p)) \/ UiTail
    PROVE FlagsIInv'
    <1> USE LinkAssumption
    <1>1. ASSUME NEW p \in Products, Toggle(p) PROVE FlagsIInv'
        <2>1. toggles' \in 0 .. MaxToggles
            BY <1>1 DEF Toggle, FlagsIInv, LinkTypeOK
        <2>2. LinkTypeOK'
            BY <1>1, <2>1 DEF Toggle, FlagsIInv, LinkTypeOK, stack
        <2>3. TasksOK'
            BY <1>1 DEF Toggle, FlagsIInv, LinkTypeOK, TasksOK
        <2>4. HandlesOK' /\ ConnectedIsReal' /\ ConnectingIsReal'
            BY <1>1 DEF Toggle, FlagsIInv, HandlesOK, ConnectedIsReal, ConnectingIsReal, Queued, stack
        <2> QED
            BY <2>2, <2>3, <2>4 DEF FlagsIInv
    <1>2. CASE UiCancel
        <2>1. TasksOK'
            <3>1. linkUi \in [at : {"cancel", "terminate"}, cancel : BOOLEAN, disconnect : BOOLEAN,
                              peer : Peers \cup {NoPeer}]
                  /\ (linkUi.disconnect => linkUi.peer \in Peers)
                BY <1>2 DEF UiCancel, FlagsIInv, TasksOK, UiIdle
            <3>2. linkUi' = [linkUi EXCEPT !.at = "terminate"] /\ host' = host
                BY <1>2 DEF UiCancel
            <3>3. linkUi' \in [at : {"cancel", "terminate"}, cancel : BOOLEAN, disconnect : BOOLEAN,
                               peer : Peers \cup {NoPeer}]
                  /\ (linkUi'.disconnect => linkUi'.peer \in Peers)
                BY <3>1, <3>2
            <3> QED
                BY <3>2, <3>3 DEF FlagsIInv, TasksOK
        <2>2. CASE linkUi.cancel /\ procedure # NoPeer
            <3>1. procedure \in Peers /\ Connect(procedure, FALSE) \in GapEvents
                BY <2>2 DEF FlagsIInv, LinkTypeOK, Connect, GapEvents
            <3>2. events' = Append(events, Connect(procedure, FALSE)) /\ procedure' = NoPeer
                  /\ UNCHANGED <<linkFlags, scanning, link, host, refused, toggles>>
                BY <1>2, <2>2 DEF UiCancel
            <3>3. events' \in Seq(GapEvents)
                BY <3>1, <3>2, EventAppended DEF FlagsIInv, LinkTypeOK
            <3>4. linkUi'.at = "terminate"
                BY <1>2 DEF UiCancel, FlagsIInv, TasksOK, UiIdle
            <3>5. LinkTypeOK'
                BY <3>2, <3>3, <3>4 DEF FlagsIInv, LinkTypeOK, linkFlags, GapEvents
            <3>6. Connect(procedure, FALSE).peer = procedure /\ ~Connect(procedure, FALSE).ok
                BY DEF Connect
            <3>7. link' \in [Peers -> {"none", "up", "closing"}] /\ link' = link
                  /\ UNCHANGED <<connecting, connected, connHandle, host>>
                BY <3>2 DEF linkFlags, FlagsIInv, LinkTypeOK
            <3>8. HandlesOK' /\ ConnectedIsReal' /\ ConnectingIsReal'
                BY <3>1, <3>2, <3>6, <3>7, QueueingKeepsFlags
            <3> QED
                BY <2>1, <3>5, <3>8 DEF FlagsIInv
        <2>3. CASE ~(linkUi.cancel /\ procedure # NoPeer)
            <3>1. UNCHANGED <<events, procedure, linkFlags, scanning, link, host, refused, toggles>>
                BY <1>2, <2>3 DEF UiCancel
            <3>2. LinkTypeOK'
                BY <1>2, <3>1 DEF UiCancel, FlagsIInv, LinkTypeOK, linkFlags
            <3>3. HandlesOK' /\ ConnectedIsReal' /\ ConnectingIsReal'
                BY <3>1 DEF FlagsIInv, HandlesOK, ConnectedIsReal, ConnectingIsReal, Queued, linkFlags
            <3> QED
                BY <2>1, <3>2, <3>3 DEF FlagsIInv
        <2> QED
            BY <2>2, <2>3
    <1>3. CASE UiTerminate
        <2>1. TasksOK'
            BY <1>3 DEF UiTerminate, FlagsIInv, TasksOK
        <2>2. /\ link' \in [Peers -> {"none", "up", "closing"}] /\ refused' \in BOOLEAN
              /\ \A peer \in Peers : (link'[peer] = "none") = (link[peer] = "none")
            <3>1. CASE linkUi.disconnect
                <4>1. linkUi.peer \in Peers /\ Terminate(linkUi.peer)
                    BY <1>3, <3>1 DEF UiTerminate, FlagsIInv, TasksOK
                <4> QED
                    BY <4>1, TerminateEffect DEF FlagsIInv, LinkTypeOK
            <3>2. CASE ~linkUi.disconnect
                BY <1>3, <3>2 DEF UiTerminate, FlagsIInv, LinkTypeOK
            <3> QED
                BY <3>1, <3>2
        <2>3. LinkTypeOK'
            BY <1>3, <2>2 DEF UiTerminate, FlagsIInv, LinkTypeOK, linkFlags
        <2>4. HandlesOK' /\ ConnectedIsReal'
            BY <1>3, <2>2, LinksKeepFlags DEF UiTerminate, linkFlags
        <2>5. ConnectingIsReal'
            BY <1>3 DEF UiTerminate, FlagsIInv, ConnectingIsReal, linkFlags
        <2> QED
            BY <2>1, <2>3, <2>4, <2>5 DEF FlagsIInv
    <1>4. CASE UiScanRead \/ UiScanAct
        <2>1. TasksOK'
            <3>1. ShouldScan \in BOOLEAN
                BY DEF ShouldScan
            <3>2. linkUi' \in {UiIdle} \cup [at : {"scanAct"}, wanted : BOOLEAN] /\ host' = host
                BY <1>4, <3>1 DEF UiScanRead, UiScanAct
            <3> QED
                BY <3>2 DEF FlagsIInv, TasksOK, UiIdle
        <2>2. LinkTypeOK'
            <3>1. scanning' \in BOOLEAN
                BY <1>4 DEF UiScanRead, UiScanAct, ScanAct, stack, FlagsIInv, LinkTypeOK
            <3>2. linkUi'.at \in {"idle", "scanAct"}
                BY <1>4 DEF UiScanRead, UiScanAct, UiIdle
            <3>3. UNCHANGED <<linkFlags, procedure, link, events, host, refused, toggles>>
                BY <1>4 DEF UiScanRead, UiScanAct, stack
            <3> QED
                BY <3>1, <3>2, <3>3 DEF FlagsIInv, LinkTypeOK, linkFlags
        <2>3. UNCHANGED <<linkFlags, events, link, procedure, host>>
            BY <1>4 DEF UiScanRead, UiScanAct, stack
        <2>4. HandlesOK' /\ ConnectedIsReal' /\ ConnectingIsReal'
            BY <2>3 DEF FlagsIInv, HandlesOK, ConnectedIsReal, ConnectingIsReal, Queued, linkFlags
        <2> QED
            BY <2>1, <2>2, <2>4 DEF FlagsIInv
    <1> QED
        BY <1>1, <1>2, <1>3, <1>4 DEF UiTail

\* The host task keeps the flags true.
LEMMA HostKeepsFlags ==
    ASSUME FlagsIInv, HostStep \/ \E peer \in Peers : HandleAdvertisement(peer)
    PROVE FlagsIInv'
    <1> USE LinkAssumption
    <1>1. CASE HandleConnect
        <2> DEFINE head == Head(events)
                   q == ProductOf[head.peer]
                   now == enabled[q] /\ head.ok
        <2>1. head \in GapEvents /\ head.peer \in Peers /\ q \in Products
            BY <1>1, HeadIsEvent DEF HandleConnect, FlagsIInv
        <2>2. head.ok \in BOOLEAN /\ enabled[q] \in BOOLEAN
            BY <2>1 DEF GapEvents, FlagsIInv, LinkTypeOK
        <2>3. /\ events # <<>> /\ host = HostIdle /\ head.kind = "connect"
              /\ connecting' = [connecting EXCEPT ![q] = FALSE]
              /\ connected' = [connected EXCEPT ![q] = now]
              /\ stopping' = [stopping EXCEPT ![q] = ~enabled[q] /\ head.ok]
              /\ connHandle' = [connHandle EXCEPT ![q] = head.peer]
              /\ events' = Tail(events)
              /\ UNCHANGED <<enabled, scanning, procedure, link, linkUi, refused, toggles>>
            BY <1>1 DEF HandleConnect
        <2>4. host' \in [at : {"drop"}, peer : Peers] \cup [at : {"scanRead"}]
            BY <1>1, <2>1 DEF HandleConnect
        <2>5. now \in BOOLEAN /\ (now => head.kind = "connect" /\ head.ok)
              /\ (now => connHandle'[q] = head.peer)
            BY <2>1, <2>2, <2>3 DEF FlagsIInv, LinkTypeOK
        <2>6. /\ HandlesOK' /\ ConnectedIsReal' /\ ConnectingIsReal' /\ events' \in Seq(GapEvents)
              /\ connHandle' \in [Products -> Peers \cup {NoPeer}]
              /\ \A p \in Products : connected'[p] => connHandle'[p] \in Peers
            BY <2>3, <2>5, TakingKeepsFlags
        <2>7. /\ connecting' \in [Products -> BOOLEAN] /\ connected' \in [Products -> BOOLEAN]
              /\ stopping' \in [Products -> BOOLEAN]
            BY <2>2, <2>3 DEF FlagsIInv, LinkTypeOK
        <2>8. LinkTypeOK'
            BY <2>3, <2>4, <2>6, <2>7 DEF FlagsIInv, LinkTypeOK
        <2>9. TasksOK'
            BY <2>3, <2>4 DEF FlagsIInv, TasksOK
        <2> QED
            BY <2>6, <2>8, <2>9 DEF FlagsIInv
    <1>2. CASE HandleDisconnect
        <2> DEFINE head == Head(events)
                   q == ProductOf[head.peer]
        <2>1. head \in GapEvents /\ head.peer \in Peers /\ q \in Products
            BY <1>2, HeadIsEvent DEF HandleDisconnect, FlagsIInv
        <2>2. /\ events # <<>> /\ host = HostIdle /\ host' = [at |-> "scanRead"]
              /\ connecting' = [connecting EXCEPT ![q] = FALSE]
              /\ connected' = [connected EXCEPT ![q] = FALSE]
              /\ stopping' = [stopping EXCEPT ![q] = FALSE]
              /\ connHandle' = connHandle
              /\ events' = Tail(events)
              /\ UNCHANGED <<enabled, scanning, procedure, link, linkUi, refused, toggles>>
            BY <1>2 DEF HandleDisconnect
        <2>3. /\ HandlesOK' /\ ConnectedIsReal' /\ ConnectingIsReal' /\ events' \in Seq(GapEvents)
              /\ connHandle' \in [Products -> Peers \cup {NoPeer}]
              /\ \A p \in Products : connected'[p] => connHandle'[p] \in Peers
            BY <2>2, TakingKeepsFlags
        <2>4. /\ connecting' \in [Products -> BOOLEAN] /\ connected' \in [Products -> BOOLEAN]
              /\ stopping' \in [Products -> BOOLEAN]
            BY <2>2 DEF FlagsIInv, LinkTypeOK
        <2>5. LinkTypeOK'
            BY <2>2, <2>3, <2>4 DEF FlagsIInv, LinkTypeOK
        <2>6. TasksOK'
            BY <2>2 DEF FlagsIInv, TasksOK
        <2> QED
            BY <2>3, <2>5, <2>6 DEF FlagsIInv
    <1>3. CASE HostDrop
        <2>1. host.peer \in Peers /\ Terminate(host.peer)
            BY <1>3 DEF HostDrop, FlagsIInv, TasksOK, HostIdle
        <2>2. /\ link' \in [Peers -> {"none", "up", "closing"}] /\ refused' \in BOOLEAN
              /\ \A peer \in Peers : (link'[peer] = "none") = (link[peer] = "none")
            BY <2>1, TerminateEffect DEF FlagsIInv, LinkTypeOK
        <2>3. host.at = "drop" /\ host' = [at |-> "scanRead"]
              /\ UNCHANGED <<linkFlags, scanning, procedure, events, linkUi, toggles>>
            BY <1>3 DEF HostDrop
        <2>4. LinkTypeOK'
            BY <2>2, <2>3 DEF FlagsIInv, LinkTypeOK, linkFlags
        <2>5. TasksOK'
            BY <2>3 DEF FlagsIInv, TasksOK
        <2>6. HandlesOK' /\ ConnectedIsReal'
            BY <2>2, <2>3, LinksKeepFlags DEF linkFlags
        <2>7. ConnectingIsReal'
            BY <2>3 DEF FlagsIInv, ConnectingIsReal, linkFlags
        <2> QED
            BY <2>4, <2>5, <2>6, <2>7 DEF FlagsIInv
    <1>4. CASE HostScanRead \/ HostScanAct
        <2>1. ShouldScan \in BOOLEAN
            BY DEF ShouldScan
        <2>2. /\ host.at \in {"scanRead", "scanAct"}
              /\ host' \in {HostIdle} \cup [at : {"scanAct"}, wanted : BOOLEAN]
              /\ UNCHANGED <<linkFlags, procedure, link, events, linkUi, refused, toggles>>
            BY <1>4, <2>1 DEF HostScanRead, HostScanAct, stack
        <2>3. scanning' \in BOOLEAN
            BY <1>4 DEF HostScanRead, HostScanAct, ScanAct, stack, FlagsIInv, LinkTypeOK
        <2>4. host'.at \in {"idle", "scanAct"}
            BY <2>2 DEF HostIdle
        <2>5. LinkTypeOK'
            BY <2>2, <2>3, <2>4 DEF FlagsIInv, LinkTypeOK, linkFlags
        <2>6. TasksOK'
            BY <2>2 DEF FlagsIInv, TasksOK
        <2>7. HandlesOK' /\ ConnectedIsReal' /\ ConnectingIsReal'
            BY <2>2 DEF FlagsIInv, HandlesOK, ConnectedIsReal, ConnectingIsReal, Queued, linkFlags
        <2> QED
            BY <2>5, <2>6, <2>7 DEF FlagsIInv
    <1>5. CASE HostStopScan
        <2>1. host \in [at : {"stopScan"}, peer : Peers]
            BY <1>5 DEF HostStopScan, FlagsIInv, TasksOK, HostIdle
        <2>2. host' = [at |-> "dial", peer |-> host.peer] /\ scanning' = FALSE
              /\ UNCHANGED <<linkFlags, procedure, link, events, linkUi, refused, toggles>>
            BY <1>5, <2>1 DEF HostStopScan
        <2>3. LinkTypeOK'
            BY <2>2 DEF FlagsIInv, LinkTypeOK, linkFlags
        <2>4. TasksOK'
            BY <2>1, <2>2 DEF FlagsIInv, TasksOK
        <2>5. HandlesOK' /\ ConnectedIsReal' /\ ConnectingIsReal'
            BY <2>1, <2>2 DEF FlagsIInv, HandlesOK, ConnectedIsReal, ConnectingIsReal, Queued, linkFlags
        <2> QED
            BY <2>3, <2>4, <2>5 DEF FlagsIInv
    <1>6. CASE HostDial
        <2>1. host.peer \in Peers
            BY <1>6 DEF HostDial, FlagsIInv, TasksOK, HostIdle
        <2>2. /\ host.at = "dial" /\ host' = HostIdle /\ procedure = NoPeer /\ procedure' = host.peer
              /\ UNCHANGED <<linkFlags, scanning, link, events, linkUi, refused, toggles>>
            BY <1>6 DEF HostDial
        <2>3. LinkTypeOK'
            BY <2>1, <2>2 DEF FlagsIInv, LinkTypeOK, linkFlags, HostIdle
        <2>4. TasksOK'
            BY <2>2 DEF FlagsIInv, TasksOK
        <2>5. HandlesOK' /\ ConnectedIsReal'
            BY <2>2 DEF FlagsIInv, HandlesOK, ConnectedIsReal, Queued, linkFlags
        <2>6. ConnectingIsReal'
            BY <2>1, <2>2 DEF FlagsIInv, ConnectingIsReal, linkFlags
        <2> QED
            BY <2>3, <2>4, <2>5, <2>6 DEF FlagsIInv
    <1>7. CASE HostDialRefused
        <2>1. host.peer \in Peers /\ ProductOf[host.peer] \in Products
            BY <1>7 DEF HostDialRefused, FlagsIInv, TasksOK, HostIdle
        <2>2. /\ host.at = "dial" /\ host' = [at |-> "scanRead"]
              /\ connecting' = [connecting EXCEPT ![ProductOf[host.peer]] = FALSE]
              /\ UNCHANGED <<enabled, connected, stopping, connHandle, stack, linkUi, refused, toggles>>
            BY <1>7 DEF HostDialRefused
        <2>3. LinkTypeOK'
            BY <2>1, <2>2 DEF FlagsIInv, LinkTypeOK, stack
        <2>4. TasksOK'
            BY <2>2 DEF FlagsIInv, TasksOK
        <2>5. HandlesOK' /\ ConnectedIsReal'
            BY <2>2 DEF FlagsIInv, HandlesOK, ConnectedIsReal, Queued, stack
        <2>6. \A p \in Products : connecting'[p] => connecting[p] /\ p # ProductOf[host.peer]
            BY <2>1, <2>2 DEF FlagsIInv, LinkTypeOK
        <2>7. ConnectingIsReal'
            BY <2>2, <2>6 DEF FlagsIInv, ConnectingIsReal, stack
        <2> QED
            BY <2>3, <2>4, <2>5, <2>7 DEF FlagsIInv
    <1>8. ASSUME NEW peer \in Peers, HandleAdvertisement(peer) PROVE FlagsIInv'
        <2>1. /\ host = HostIdle /\ host' = [at |-> "stopScan", peer |-> peer]
              /\ connecting' = [connecting EXCEPT ![ProductOf[peer]] = TRUE]
              /\ UNCHANGED <<enabled, connected, stopping, connHandle, stack, linkUi, refused, toggles>>
            BY <1>8 DEF HandleAdvertisement
        <2>2. LinkTypeOK'
            BY <2>1 DEF FlagsIInv, LinkTypeOK, stack
        <2>3. TasksOK'
            BY <2>1 DEF FlagsIInv, TasksOK
        <2>4. HandlesOK' /\ ConnectedIsReal'
            BY <2>1 DEF FlagsIInv, HandlesOK, ConnectedIsReal, Queued, stack
        <2>5. \A p \in Products : connecting'[p] => connecting[p] \/ p = ProductOf[peer]
            BY <2>1 DEF FlagsIInv, LinkTypeOK
        <2>6. host.at = "idle" /\ host'.at = "stopScan" /\ host'.peer = peer
            BY <2>1 DEF HostIdle
        <2>7. ConnectingIsReal'
            BY <2>1, <2>5, <2>6 DEF FlagsIInv, ConnectingIsReal, stack
        <2> QED
            BY <2>2, <2>3, <2>4, <2>7 DEF FlagsIInv
    <1> QED
        BY <1>1, <1>2, <1>3, <1>4, <1>5, <1>6, <1>7, <1>8 DEF HostStep

\* The controller keeps the flags true: what it does to a link it reports.
LEMMA AirKeepsFlags ==
    ASSUME FlagsIInv, Established \/ ConnectTimeout \/ \E peer \in Peers : LinkEnds(peer)
    PROVE FlagsIInv'
    <1> USE LinkAssumption
    <1>1. ASSUME NEW event \in GapEvents, events' = Append(events, event),
                 link' \in [Peers -> {"none", "up", "closing"}],
                 procedure' \in Peers \cup {NoPeer},
                 UNCHANGED <<linkFlags, scanning, host, linkUi, refused, toggles>>
          PROVE LinkTypeOK' /\ TasksOK' /\ UNCHANGED <<connecting, connected, connHandle, host>>
        <2>1. events' \in Seq(GapEvents)
            BY <1>1, EventAppended DEF FlagsIInv, LinkTypeOK
        <2> QED
            BY <1>1, <2>1 DEF FlagsIInv, LinkTypeOK, TasksOK, linkFlags, GapEvents
    <1>2. CASE Established
        <2>1. procedure \in Peers /\ Connect(procedure, TRUE) \in GapEvents
            BY <1>2 DEF Established, FlagsIInv, LinkTypeOK, Connect, GapEvents
        <2>2. /\ link' = [link EXCEPT ![procedure] = "up"] /\ procedure' = NoPeer
              /\ events' = Append(events, Connect(procedure, TRUE))
              /\ UNCHANGED <<linkFlags, scanning, host, linkUi, refused, toggles>>
            BY <1>2 DEF Established
        <2>3. /\ link' \in [Peers -> {"none", "up", "closing"}]
              /\ \A peer \in Peers : link[peer] # "none" => link'[peer] # "none"
              /\ link'[procedure] # "none"
            BY <2>1, <2>2 DEF FlagsIInv, LinkTypeOK
        <2>4. Connect(procedure, TRUE).peer = procedure
            BY DEF Connect
        <2>5. LinkTypeOK' /\ TasksOK' /\ UNCHANGED <<connecting, connected, connHandle, host>>
            BY <1>1, <2>1, <2>2, <2>3
        <2>6. HandlesOK' /\ ConnectedIsReal' /\ ConnectingIsReal'
            BY <2>1, <2>2, <2>3, <2>4, <2>5, QueueingKeepsFlags
        <2> QED
            BY <2>5, <2>6 DEF FlagsIInv
    <1>3. CASE ConnectTimeout
        <2>1. procedure \in Peers /\ Connect(procedure, FALSE) \in GapEvents
            BY <1>3 DEF ConnectTimeout, FlagsIInv, LinkTypeOK, Connect, GapEvents
        <2>2. /\ procedure' = NoPeer /\ events' = Append(events, Connect(procedure, FALSE))
              /\ UNCHANGED <<linkFlags, scanning, link, host, linkUi, refused, toggles>>
            BY <1>3 DEF ConnectTimeout
        <2>3. link' \in [Peers -> {"none", "up", "closing"}] /\ link' = link
            BY <2>2 DEF FlagsIInv, LinkTypeOK
        <2>4. Connect(procedure, FALSE).peer = procedure /\ ~Connect(procedure, FALSE).ok
            BY DEF Connect
        <2>5. LinkTypeOK' /\ TasksOK' /\ UNCHANGED <<connecting, connected, connHandle, host>>
            BY <1>1, <2>1, <2>2, <2>3
        <2>6. HandlesOK' /\ ConnectedIsReal' /\ ConnectingIsReal'
            BY <2>1, <2>2, <2>3, <2>4, <2>5, QueueingKeepsFlags
        <2> QED
            BY <2>5, <2>6 DEF FlagsIInv
    <1>4. ASSUME NEW peer \in Peers, LinkEnds(peer) PROVE FlagsIInv'
        <2>1. Disconnect(peer) \in GapEvents /\ Disconnect(peer).kind # "connect"
            BY DEF Disconnect, GapEvents
        <2>2. /\ link' = [link EXCEPT ![peer] = "none"] /\ procedure' = procedure
              /\ events' = Append(events, Disconnect(peer))
              /\ UNCHANGED <<linkFlags, scanning, host, linkUi, refused, toggles>>
            BY <1>4 DEF LinkEnds
        <2>3. /\ link' \in [Peers -> {"none", "up", "closing"}]
              /\ \A other \in Peers : link[other] # "none" => link'[other] # "none" \/ other = peer
              /\ procedure' \in Peers \cup {NoPeer}
            BY <2>2 DEF FlagsIInv, LinkTypeOK
        <2>4. LinkTypeOK' /\ TasksOK' /\ UNCHANGED <<connecting, connected, connHandle, host>>
            BY <1>1, <2>1, <2>2, <2>3
        <2>5. HandlesOK' /\ ConnectedIsReal' /\ ConnectingIsReal'
            BY <2>1, <2>2, <2>3, <2>4, QueueingKeepsFlags
        <2> QED
            BY <2>4, <2>5 DEF FlagsIInv
    <1> QED
        BY <1>2, <1>3, <1>4

LEMMA FlagsStep == FlagsIInv /\ [LinkNext]_linkVars => FlagsIInv'
    <1>1. CASE LinkNext
        BY <1>1, UiKeepsFlags, HostKeepsFlags, AirKeepsFlags DEF LinkNext
    <1>2. ASSUME FlagsIInv, UNCHANGED linkVars PROVE FlagsIInv'
        BY <1>2 DEF linkVars, linkFlags, stack, FlagsIInv, LinkTypeOK, TasksOK, HandlesOK,
                    ConnectedIsReal, ConnectingIsReal, Queued
    <1> QED
        BY <1>1, <1>2

\* A profile shown as connected has its link, or the event of its end waits,
\* and one shown as connecting is: for any profiles and any devices in range.
THEOREM LinkFlagsTrue == LinkSpec => [](LinkTypeOK /\ ConnectedIsReal /\ ConnectingIsReal)
    <1>1. FlagsIInv => LinkTypeOK /\ ConnectedIsReal /\ ConnectingIsReal
        BY DEF FlagsIInv
    <1> QED
        BY <1>1, FlagsInit, FlagsStep, PTL DEF LinkSpec

(***************************************************************************)
(* No open link is lost sight of, with one device for each profile.        *)
(***************************************************************************)

LEMMA LinkInitially == LinkInit => LinkIInv
    <1> SUFFICES ASSUME LinkInit PROVE LinkIInv
        OBVIOUS
    <1>1. DialsOK
        BY LinkAssumption DEF LinkInit, DialsOK, Dialling, HostIdle
    <1>2. LinkKnown
        BY DEF LinkInit, LinkKnown
    <1> QED
        BY <1>1, <1>2, FlagsInit DEF LinkIInv

\* A step that leaves the queue, the dialling and the connecting flags alone,
\* and takes no link away, keeps what is said of the devices being dialled.
LEMMA DialsKept ==
    ASSUME LinkIInv, UNCHANGED <<events, procedure, connecting>>,
           \A peer \in Peers : Dialling(peer)' => Dialling(peer),
           \A peer \in Peers : (link'[peer] = "none") = (link[peer] = "none")
    PROVE DialsOK'
    <1>1. events \in Seq(GapEvents)
        BY DEF LinkIInv, FlagsIInv, LinkTypeOK
    <1>2. \A i \in DOMAIN events : events[i] \in GapEvents
        BY <1>1
    <1>3. \A i \in DOMAIN events : events[i].peer \in Peers
        BY <1>2 DEF GapEvents
    <1> QED
        BY <1>3 DEF LinkIInv, DialsOK

\* A step that leaves the flags and the queue alone, and the host task where it
\* was about to end a link, keeps every open link known.
LEMMA KnownKept ==
    ASSUME LinkIInv, UNCHANGED <<events, connected, connHandle>>,
           \A peer \in Peers : link'[peer] = "up" => link[peer] = "up",
           refused => refused',
           \A peer \in Peers : host.at = "drop" /\ host.peer = peer =>
             (host'.at = "drop" /\ host'.peer = peer) \/ link'[peer] # "up" \/ refused'
    PROVE LinkKnown'
    <1>1. LinkKnown
        BY DEF LinkIInv
    <1>2. refused' \in {TRUE} \/ ~refused'
        OBVIOUS
    <1> QED
        BY <1>1, <1>2 DEF LinkKnown, Queued

\* The same of the queue, for the events of the model.
LEMMA EventQueued ==
    ASSUME events \in Seq(GapEvents), NEW event \in GapEvents, events' = Append(events, event)
    PROVE /\ \A i \in DOMAIN events : i \in DOMAIN events' /\ events'[i] = events[i]
          /\ \E i \in DOMAIN events' : events'[i] = event
          /\ \A i \in DOMAIN events' : (i \in DOMAIN events /\ events'[i] = events[i]) \/ events'[i] = event
    BY EventAppended

\* A procedure that ends without a link takes its device out of those being
\* dialled, which have none.
LEMMA ProcedureGivenUp ==
    ASSUME LinkIInv, procedure # NoPeer, procedure' = NoPeer,
           events' = Append(events, Connect(procedure, FALSE)),
           UNCHANGED <<connecting, connected, connHandle, link, host, refused>>
    PROVE DialsOK' /\ LinkKnown'
    <1> USE LinkAssumption
    <1>1. events \in Seq(GapEvents) /\ procedure \in Peers
        BY DEF LinkIInv, FlagsIInv, LinkTypeOK
    <1>2. Connect(procedure, FALSE) \in GapEvents /\ Connect(procedure, FALSE).peer = procedure
        BY <1>1 DEF Connect, GapEvents
    <1>3. /\ \A i \in DOMAIN events : i \in DOMAIN events' /\ events'[i] = events[i]
          /\ \A i \in DOMAIN events' : (i \in DOMAIN events /\ events'[i] = events[i])
                                      \/ events'[i] = Connect(procedure, FALSE)
        BY <1>1, <1>2, EventQueued
    <1>4. \A peer \in Peers : Dialling(peer)' = Dialling(peer)
        BY DEF Dialling
    <1>5. ASSUME NEW peer \in Peers, Dialling(peer)' \/ procedure' = peer
          PROVE /\ link'[peer] = "none" /\ connecting'[ProductOf[peer]]
                /\ \A i \in DOMAIN events' : events'[i].peer # peer
        <2>1. Dialling(peer) /\ procedure # peer
            BY <1>4, <1>5 DEF LinkIInv, DialsOK
        <2>2. link[peer] = "none" /\ connecting[ProductOf[peer]] /\ \A i \in DOMAIN events : events[i].peer # peer
            BY <2>1 DEF LinkIInv, DialsOK
        <2> QED
            BY <2>1, <2>2, <1>2, <1>3
    <1>6. link[procedure] = "none"
        BY <1>1 DEF LinkIInv, DialsOK
    <1>7. ASSUME NEW i \in DOMAIN events', link'[events'[i].peer] # "none"
          PROVE events'[i] = Connect(events'[i].peer, TRUE)
        BY <1>2, <1>3, <1>6, <1>7 DEF LinkIInv, DialsOK
    <1>8. \A peer \in Peers : ~(Dialling(peer)' /\ procedure' = peer)
        OBVIOUS
    <1>9. DialsOK'
        BY <1>5, <1>7, <1>8 DEF DialsOK
    <1>10. LinkKnown'
        BY <1>3, ZenonT(60) DEF LinkIInv, LinkKnown, Queued
    <1> QED
        BY <1>9, <1>10

LEMMA UiKeepsLinks ==
    ASSUME LinkIInv, FlagsIInv', OneDeviceEach, (\E p \in Products : Toggle(p)) \/ UiTail
    PROVE DialsOK' /\ LinkKnown'
    <1> USE LinkAssumption
    <1>1. CASE (\E p \in Products : Toggle(p)) \/ UiScanRead \/ UiScanAct
        <2>1. UNCHANGED <<events, procedure, connecting, connected, connHandle, link, host, refused>>
            BY <1>1 DEF Toggle, UiScanRead, UiScanAct, stack, linkFlags
        <2>2. DialsOK'
            BY <2>1, DialsKept DEF Dialling
        <2>3. LinkKnown'
            BY <2>1, KnownKept
        <2> QED
            BY <2>2, <2>3
    <1>2. CASE UiCancel
        <2>1. CASE ~(linkUi.cancel /\ procedure # NoPeer)
            <3>1. UNCHANGED <<events, procedure, connecting, connected, connHandle, link, host, refused>>
                BY <1>2, <2>1 DEF UiCancel, linkFlags
            <3>2. DialsOK'
                BY <3>1, DialsKept DEF Dialling
            <3>3. LinkKnown'
                BY <3>1, KnownKept
            <3> QED
                BY <3>2, <3>3
        <2>2. CASE linkUi.cancel /\ procedure # NoPeer
            <3>1. /\ procedure' = NoPeer /\ events' = Append(events, Connect(procedure, FALSE))
                  /\ UNCHANGED <<connecting, connected, connHandle, link, host, refused>>
                BY <1>2, <2>2 DEF UiCancel, linkFlags
            <3> QED
                BY <2>2, <3>1, ProcedureGivenUp
        <2> QED
            BY <2>1, <2>2
    <1>3. CASE UiTerminate
        <2>1. UNCHANGED <<events, procedure, connecting, connected, connHandle, host>>
            BY <1>3 DEF UiTerminate, linkFlags
        <2>2. /\ \A peer \in Peers : (link'[peer] = "none") = (link[peer] = "none")
              /\ \A peer \in Peers : link'[peer] = "up" => link[peer] = "up"
              /\ refused => refused'
            <3>1. CASE linkUi.disconnect
                <4>1. linkUi.peer \in Peers /\ Terminate(linkUi.peer)
                    BY <1>3, <3>1 DEF UiTerminate, LinkIInv, FlagsIInv, TasksOK
                <4> QED
                    BY <4>1, TerminateEffect DEF LinkIInv, FlagsIInv, LinkTypeOK
            <3>2. CASE ~linkUi.disconnect
                BY <1>3, <3>2 DEF UiTerminate
            <3> QED
                BY <3>1, <3>2
        <2>3. DialsOK'
            BY <2>1, <2>2, DialsKept DEF Dialling
        <2>4. LinkKnown'
            BY <2>1, <2>2, KnownKept
        <2> QED
            BY <2>3, <2>4
    <1> QED
        BY <1>1, <1>2, <1>3 DEF UiTail

\* With one device each, an event taken from the queue is not of a device
\* being dialled, nor the end of a link that is there.
LEMMA TakenIsSettled ==
    ASSUME LinkIInv, OneDeviceEach, events # <<>>, host = HostIdle, events' = Tail(events),
           UNCHANGED <<link, procedure>>, ~\E peer \in Peers : Dialling(peer)',
           connecting' = [connecting EXCEPT ![ProductOf[Head(events).peer]] = FALSE]
    PROVE /\ DialsOK'
          /\ link[Head(events).peer] # "none" => Head(events) = Connect(Head(events).peer, TRUE)
          /\ \A event : Queued(event) => Queued(event)' \/ event = Head(events)
    <1> USE LinkAssumption
    <1> DEFINE head == Head(events)
               q == ProductOf[head.peer]
    <1>1. events \in Seq(GapEvents)
        BY DEF LinkIInv, FlagsIInv, LinkTypeOK
    <1>2. /\ head \in GapEvents
          /\ 1 \in DOMAIN events /\ events[1] = head
          /\ \A i \in DOMAIN events' : i + 1 \in DOMAIN events /\ events'[i] = events[i + 1]
          /\ \A i \in DOMAIN events : i = 1 \/ (i - 1 \in DOMAIN events' /\ events'[i - 1] = events[i])
        BY <1>1, EventTaken
    <1>3. head.peer \in Peers /\ q \in Products
        BY <1>2 DEF GapEvents
    <1>4. ASSUME NEW peer \in Peers, procedure' = peer
          PROVE /\ link'[peer] = "none" /\ connecting'[ProductOf[peer]]
                /\ \A i \in DOMAIN events' : events'[i].peer # peer
        <2>1. link[peer] = "none" /\ connecting[ProductOf[peer]] /\ \A i \in DOMAIN events : events[i].peer # peer
            BY <1>4 DEF LinkIInv, DialsOK
        <2>2. head.peer # peer
            BY <2>1, <1>2
        <2>3. ProductOf[peer] # q /\ ProductOf[peer] \in Products
            BY <2>2, <1>3 DEF OneDeviceEach
        <2>4. connecting'[ProductOf[peer]] = connecting[ProductOf[peer]]
            BY <2>3 DEF LinkIInv, FlagsIInv, LinkTypeOK
        <2>5. \A i \in DOMAIN events' : events'[i].peer # peer
            BY <2>1, <1>2
        <2> QED
            BY <2>1, <2>4, <2>5
    <1>5. ASSUME NEW i \in DOMAIN events', link'[events'[i].peer] # "none"
          PROVE events'[i] = Connect(events'[i].peer, TRUE)
        <2>1. i + 1 \in DOMAIN events /\ events'[i] = events[i + 1]
            BY <1>2
        <2>2. link[events[i + 1].peer] # "none" => events[i + 1] = Connect(events[i + 1].peer, TRUE)
            BY <2>1 DEF LinkIInv, DialsOK
        <2> QED
            BY <2>1, <2>2, <1>5
    <1>6. DialsOK'
        BY <1>4, <1>5 DEF DialsOK
    <1>7. link[head.peer] # "none" => head = Connect(head.peer, TRUE)
        <2>1. link[events[1].peer] # "none" => events[1] = Connect(events[1].peer, TRUE)
            BY <1>2 DEF LinkIInv, DialsOK
        <2> QED
            BY <2>1, <1>2
    <1>8. ASSUME NEW event, Queued(event) PROVE Queued(event)' \/ event = head
        <2>1. PICK i \in DOMAIN events : events[i] = event
            BY <1>8 DEF Queued
        <2> QED
            BY <2>1, <1>2 DEF Queued
    <1> QED
        BY <1>6, <1>7, <1>8

LEMMA HostKeepsLinks ==
    ASSUME LinkIInv, FlagsIInv', OneDeviceEach, HostStep \/ \E peer \in Peers : HandleAdvertisement(peer)
    PROVE DialsOK' /\ LinkKnown'
    <1> USE LinkAssumption
    <1>1. CASE HandleConnect
        <2> DEFINE head == Head(events)
                   q == ProductOf[head.peer]
        <2>1. head \in GapEvents /\ head.peer \in Peers /\ q \in Products
            BY <1>1, HeadIsEvent DEF HandleConnect, LinkIInv, FlagsIInv
        <2>2. /\ events # <<>> /\ host = HostIdle
              /\ connecting' = [connecting EXCEPT ![q] = FALSE]
              /\ connected' = [connected EXCEPT ![q] = enabled[q] /\ head.ok]
              /\ connHandle' = [connHandle EXCEPT ![q] = head.peer]
              /\ host' = IF head.ok /\ ~enabled[q] THEN [at |-> "drop", peer |-> head.peer] ELSE [at |-> "scanRead"]
              /\ events' = Tail(events)
              /\ UNCHANGED <<link, procedure, refused>>
            BY <1>1 DEF HandleConnect
        <2>3. ~\E peer \in Peers : Dialling(peer)'
            BY <2>2 DEF Dialling
        <2>4. /\ DialsOK'
              /\ link[head.peer] # "none" => head = Connect(head.peer, TRUE)
              /\ \A event : Queued(event) => Queued(event)' \/ event = head
            BY <2>2, <2>3, TakenIsSettled
        <2>5. ASSUME ~refused', NEW peer \in Peers, link'[peer] = "up"
              PROVE \/ connected'[ProductOf[peer]] /\ connHandle'[ProductOf[peer]] = peer
                    \/ Queued(Connect(peer, TRUE))'
                    \/ host'.at = "drop" /\ host'.peer = peer
            <3>1. CASE peer = head.peer
                <4>1. head.ok
                    BY <3>1, <2>2, <2>4, <2>5 DEF Connect
                <4>2. CASE enabled[q]
                    BY <3>1, <4>1, <4>2, <2>1, <2>2 DEF LinkIInv, FlagsIInv, LinkTypeOK
                <4>3. CASE ~enabled[q]
                    <5>1. host' = [at |-> "drop", peer |-> head.peer]
                        BY <4>1, <4>3, <2>2
                    <5>2. host'.at = "drop" /\ host'.peer = head.peer
                        BY <5>1
                    <5> QED
                        BY <3>1, <5>2
                <4> QED
                    BY <4>2, <4>3
            <3>2. CASE peer # head.peer
                <4>1. ProductOf[peer] # q /\ ProductOf[peer] \in Products
                    BY <3>2, <2>1 DEF OneDeviceEach
                <4>2. connected'[ProductOf[peer]] = connected[ProductOf[peer]]
                      /\ connHandle'[ProductOf[peer]] = connHandle[ProductOf[peer]]
                    BY <4>1, <2>2 DEF LinkIInv, FlagsIInv, LinkTypeOK
                <4>3. host.at = "idle"
                    BY <2>2 DEF HostIdle
                <4>4. \/ connected[ProductOf[peer]] /\ connHandle[ProductOf[peer]] = peer
                      \/ Queued(Connect(peer, TRUE))
                    BY <2>2, <2>5, <4>3 DEF LinkIInv, LinkKnown
                <4>5. Connect(peer, TRUE) # head
                    BY <3>2 DEF Connect
                <4> QED
                    BY <4>2, <4>4, <4>5, <2>4
            <3> QED
                BY <3>1, <3>2
        <2> QED
            BY <2>4, <2>5 DEF LinkKnown
    <1>2. CASE HandleDisconnect
        <2> DEFINE head == Head(events)
                   q == ProductOf[head.peer]
        <2>1. head \in GapEvents /\ head.peer \in Peers /\ q \in Products
            BY <1>2, HeadIsEvent DEF HandleDisconnect, LinkIInv, FlagsIInv
        <2>2. /\ events # <<>> /\ host = HostIdle /\ head.kind = "disconnect"
              /\ connecting' = [connecting EXCEPT ![q] = FALSE]
              /\ connected' = [connected EXCEPT ![q] = FALSE]
              /\ connHandle' = connHandle /\ host' = [at |-> "scanRead"]
              /\ events' = Tail(events)
              /\ UNCHANGED <<link, procedure, refused>>
            BY <1>2 DEF HandleDisconnect
        <2>3. ~\E peer \in Peers : Dialling(peer)'
            BY <2>2 DEF Dialling
        <2>4. /\ DialsOK'
              /\ link[head.peer] # "none" => head = Connect(head.peer, TRUE)
              /\ \A event : Queued(event) => Queued(event)' \/ event = head
            BY <2>2, <2>3, TakenIsSettled
        <2>5. link[head.peer] = "none"
            BY <2>2, <2>4 DEF Connect
        <2>6. ASSUME ~refused', NEW peer \in Peers, link'[peer] = "up"
              PROVE \/ connected'[ProductOf[peer]] /\ connHandle'[ProductOf[peer]] = peer
                    \/ Queued(Connect(peer, TRUE))'
            <3>1. peer # head.peer
                BY <2>2, <2>5, <2>6
            <3>2. ProductOf[peer] # q /\ ProductOf[peer] \in Products
                BY <3>1, <2>1 DEF OneDeviceEach
            <3>3. connected'[ProductOf[peer]] = connected[ProductOf[peer]]
                BY <3>2, <2>2 DEF LinkIInv, FlagsIInv, LinkTypeOK
            <3>4. host.at = "idle"
                BY <2>2 DEF HostIdle
            <3>5. \/ connected[ProductOf[peer]] /\ connHandle[ProductOf[peer]] = peer
                  \/ Queued(Connect(peer, TRUE))
                BY <2>2, <2>6, <3>4 DEF LinkIInv, LinkKnown
            <3>6. Connect(peer, TRUE) # head
                BY <3>1 DEF Connect
            <3> QED
                BY <3>3, <3>5, <3>6, <2>2, <2>4
        <2> QED
            BY <2>4, <2>6 DEF LinkKnown
    <1>3. CASE HostDrop
        <2>1. host.peer \in Peers /\ Terminate(host.peer)
            BY <1>3 DEF HostDrop, LinkIInv, FlagsIInv, TasksOK, HostIdle
        <2>2. /\ \A peer \in Peers : (link'[peer] = "none") = (link[peer] = "none")
              /\ \A peer \in Peers : link'[peer] = "up" => link[peer] = "up"
              /\ refused => refused'
              /\ ~refused' => link'[host.peer] # "up"
            BY <2>1, TerminateEffect DEF LinkIInv, FlagsIInv, LinkTypeOK
        <2>3. host.at = "drop" /\ host' = [at |-> "scanRead"]
              /\ UNCHANGED <<events, procedure, connecting, connected, connHandle>>
            BY <1>3 DEF HostDrop, linkFlags
        <2>4. DialsOK'
            BY <2>2, <2>3, DialsKept DEF Dialling
        <2>5. LinkKnown'
            BY <2>2, <2>3, KnownKept
        <2> QED
            BY <2>4, <2>5
    <1>4. CASE HostScanRead \/ HostScanAct
        <2>1. /\ host.at \in {"scanRead", "scanAct"} /\ host'.at \in {"idle", "scanAct"}
              /\ UNCHANGED <<events, procedure, connecting, connected, connHandle, link, refused>>
            BY <1>4 DEF HostScanRead, HostScanAct, stack, linkFlags, HostIdle
        <2>2. DialsOK'
            BY <2>1, DialsKept DEF Dialling
        <2>3. LinkKnown'
            BY <2>1, KnownKept
        <2> QED
            BY <2>2, <2>3
    <1>5. CASE HostStopScan
        <2>1. host \in [at : {"stopScan"}, peer : Peers]
            BY <1>5 DEF HostStopScan, LinkIInv, FlagsIInv, TasksOK, HostIdle
        <2>2. /\ host.at = "stopScan" /\ host' = [at |-> "dial", peer |-> host.peer]
              /\ UNCHANGED <<events, procedure, connecting, connected, connHandle, link, refused>>
            BY <1>5, <2>1 DEF HostStopScan, linkFlags
        <2>3. DialsOK'
            BY <2>2, DialsKept DEF Dialling
        <2>4. LinkKnown'
            BY <2>2, KnownKept
        <2> QED
            BY <2>3, <2>4
    <1>6. CASE HostDial
        <2>1. host.peer \in Peers
            BY <1>6 DEF HostDial, LinkIInv, FlagsIInv, TasksOK, HostIdle
        <2>2. /\ host.at = "dial" /\ host' = HostIdle /\ procedure' = host.peer
              /\ UNCHANGED <<events, connecting, connected, connHandle, link, refused>>
            BY <1>6 DEF HostDial, linkFlags
        <2>3. Dialling(host.peer) /\ ~\E peer \in Peers : Dialling(peer)'
            BY <2>2 DEF Dialling, HostIdle
        <2>4. DialsOK'
            BY <2>1, <2>2, <2>3 DEF LinkIInv, DialsOK
        <2>5. LinkKnown'
            BY <2>2, KnownKept
        <2> QED
            BY <2>4, <2>5
    <1>7. CASE HostDialRefused
        <2>1. host.peer \in Peers /\ ProductOf[host.peer] \in Products
            BY <1>7 DEF HostDialRefused, LinkIInv, FlagsIInv, TasksOK, HostIdle
        <2>2. /\ host.at = "dial" /\ host' = [at |-> "scanRead"]
              /\ connecting' = [connecting EXCEPT ![ProductOf[host.peer]] = FALSE]
              /\ UNCHANGED <<events, procedure, connected, connHandle, link, refused>>
            BY <1>7 DEF HostDialRefused, stack
        <2>3. Dialling(host.peer) /\ ~\E peer \in Peers : Dialling(peer)'
            BY <2>2 DEF Dialling
        <2>4. \A peer \in Peers : procedure = peer =>
                ProductOf[peer] # ProductOf[host.peer] /\ ProductOf[peer] \in Products
            BY <2>1, <2>3 DEF LinkIInv, DialsOK, OneDeviceEach
        <2>5. \A p \in Products : p # ProductOf[host.peer] => connecting'[p] = connecting[p]
            BY <2>2 DEF LinkIInv, FlagsIInv, LinkTypeOK
        <2>6. DialsOK'
            BY <2>2, <2>3, <2>4, <2>5, ZenonT(60) DEF LinkIInv, DialsOK
        <2>7. LinkKnown'
            BY <2>2, KnownKept
        <2> QED
            BY <2>6, <2>7
    <1>8. ASSUME NEW peer \in Peers, HandleAdvertisement(peer) PROVE DialsOK' /\ LinkKnown'
        <2>1. /\ host = HostIdle /\ host' = [at |-> "stopScan", peer |-> peer]
              /\ link[peer] = "none" /\ ~connecting[ProductOf[peer]]
              /\ \A i \in DOMAIN events : events[i].peer # peer
              /\ connecting' = [connecting EXCEPT ![ProductOf[peer]] = TRUE]
              /\ UNCHANGED <<events, procedure, connected, connHandle, link, refused>>
            BY <1>8 DEF HandleAdvertisement, stack
        <2>2. \A other \in Peers : Dialling(other)' => other = peer
            BY <2>1 DEF Dialling
        <2>3. procedure # peer
            BY <2>1 DEF LinkIInv, DialsOK
        <2>4. ProductOf[peer] \in Products /\ connecting'[ProductOf[peer]]
              /\ \A p \in Products : connecting[p] => connecting'[p]
            BY <2>1 DEF LinkIInv, FlagsIInv, LinkTypeOK
        <2>5. \A other \in Peers : ProductOf[other] \in Products
            OBVIOUS
        <2>6. DialsOK'
            BY <2>1, <2>2, <2>3, <2>4, <2>5 DEF LinkIInv, DialsOK
        <2>7. LinkKnown'
            BY <2>1, KnownKept DEF HostIdle
        <2> QED
            BY <2>6, <2>7
    <1> QED
        BY <1>1, <1>2, <1>3, <1>4, <1>5, <1>6, <1>7, <1>8 DEF HostStep

LEMMA AirKeepsLinks ==
    ASSUME LinkIInv, FlagsIInv', OneDeviceEach,
           Established \/ ConnectTimeout \/ \E peer \in Peers : LinkEnds(peer)
    PROVE DialsOK' /\ LinkKnown'
    <1> USE LinkAssumption
    <1>1. events \in Seq(GapEvents)
        BY DEF LinkIInv, FlagsIInv, LinkTypeOK
    <1>2. CASE Established
        <2>1. procedure \in Peers /\ Connect(procedure, TRUE) \in GapEvents /\ Connect(procedure, TRUE).peer = procedure
            BY <1>2 DEF Established, LinkIInv, FlagsIInv, LinkTypeOK, Connect, GapEvents
        <2>2. /\ link' = [link EXCEPT ![procedure] = "up"] /\ procedure' = NoPeer
              /\ events' = Append(events, Connect(procedure, TRUE))
              /\ UNCHANGED <<connecting, connected, connHandle, host, refused>>
            BY <1>2 DEF Established, linkFlags
        <2>3. /\ \A i \in DOMAIN events : i \in DOMAIN events' /\ events'[i] = events[i]
              /\ \E i \in DOMAIN events' : events'[i] = Connect(procedure, TRUE)
              /\ \A i \in DOMAIN events' : (i \in DOMAIN events /\ events'[i] = events[i])
                                          \/ events'[i] = Connect(procedure, TRUE)
            BY <1>1, <2>1, <2>2, EventQueued
        <2>4. \A peer \in Peers : peer # procedure => link'[peer] = link[peer]
            BY <2>1, <2>2 DEF LinkIInv, FlagsIInv, LinkTypeOK
        <2>5. \A peer \in Peers : Dialling(peer)' => Dialling(peer) /\ peer # procedure
            BY <2>2 DEF Dialling, LinkIInv, DialsOK
        <2>6. ASSUME NEW peer \in Peers, Dialling(peer)' \/ procedure' = peer
              PROVE /\ link'[peer] = "none" /\ connecting'[ProductOf[peer]]
                    /\ \A i \in DOMAIN events' : events'[i].peer # peer
            <3>1. Dialling(peer) /\ peer # procedure
                BY <2>2, <2>5, <2>6
            <3>2. link[peer] = "none" /\ connecting[ProductOf[peer]] /\ \A i \in DOMAIN events : events[i].peer # peer
                BY <3>1 DEF LinkIInv, DialsOK
            <3> QED
                BY <3>1, <3>2, <2>1, <2>2, <2>3, <2>4
        <2>7. \A i \in DOMAIN events : events[i].peer # procedure /\ events[i].peer \in Peers
            <3>1. \A i \in DOMAIN events : events[i] \in GapEvents
                BY <1>1
            <3> QED
                BY <3>1, <2>1 DEF LinkIInv, DialsOK, GapEvents
        <2>8. ASSUME NEW i \in DOMAIN events', link'[events'[i].peer] # "none"
              PROVE events'[i] = Connect(events'[i].peer, TRUE)
            <3>1. CASE i \in DOMAIN events /\ events'[i] = events[i]
                BY <3>1, <2>4, <2>7, <2>8, ZenonT(60) DEF LinkIInv, DialsOK
            <3>2. CASE events'[i] = Connect(procedure, TRUE)
                BY <3>2, <2>1
            <3> QED
                BY <3>1, <3>2, <2>3
        <2>9. DialsOK'
            BY <2>2, <2>6, <2>8 DEF DialsOK
        <2>10. ASSUME ~refused', NEW peer \in Peers, link'[peer] = "up"
               PROVE \/ connected'[ProductOf[peer]] /\ connHandle'[ProductOf[peer]] = peer
                     \/ Queued(Connect(peer, TRUE))'
                     \/ host'.at = "drop" /\ host'.peer = peer
            <3>1. CASE peer = procedure
                BY <3>1, <2>3 DEF Queued
            <3>2. CASE peer # procedure
                <4>1. \/ connected[ProductOf[peer]] /\ connHandle[ProductOf[peer]] = peer
                      \/ Queued(Connect(peer, TRUE))
                      \/ host.at = "drop" /\ host.peer = peer
                    BY <3>2, <2>2, <2>4, <2>10 DEF LinkIInv, LinkKnown
                <4>2. Queued(Connect(peer, TRUE)) => Queued(Connect(peer, TRUE))'
                    BY <2>3 DEF Queued
                <4> QED
                    BY <4>1, <4>2, <2>2
            <3> QED
                BY <3>1, <3>2
        <2>11. LinkKnown'
            BY <2>10 DEF LinkKnown
        <2> QED
            BY <2>9, <2>11
    <1>3. CASE ConnectTimeout
        <2>1. /\ procedure # NoPeer /\ procedure' = NoPeer
              /\ events' = Append(events, Connect(procedure, FALSE))
              /\ UNCHANGED <<connecting, connected, connHandle, link, host, refused>>
            BY <1>3 DEF ConnectTimeout, linkFlags
        <2> QED
            BY <2>1, ProcedureGivenUp
    <1>4. ASSUME NEW peer \in Peers, LinkEnds(peer) PROVE DialsOK' /\ LinkKnown'
        <2>1. Disconnect(peer) \in GapEvents /\ Disconnect(peer).peer = peer
            BY DEF Disconnect, GapEvents
        <2>2. /\ link[peer] # "none" /\ link' = [link EXCEPT ![peer] = "none"]
              /\ events' = Append(events, Disconnect(peer))
              /\ UNCHANGED <<procedure, connecting, connected, connHandle, host, refused>>
            BY <1>4 DEF LinkEnds, linkFlags
        <2>3. /\ \A i \in DOMAIN events : i \in DOMAIN events' /\ events'[i] = events[i]
              /\ \A i \in DOMAIN events' : (i \in DOMAIN events /\ events'[i] = events[i])
                                          \/ events'[i] = Disconnect(peer)
            BY <1>1, <2>1, <2>2, EventQueued
        <2>4. /\ \A other \in Peers : other # peer => link'[other] = link[other]
              /\ link'[peer] = "none"
            BY <2>2 DEF LinkIInv, FlagsIInv, LinkTypeOK
        <2>5. \A other \in Peers : Dialling(other)' = Dialling(other)
            BY <2>2 DEF Dialling
        <2>6. ASSUME NEW other \in Peers, Dialling(other)' \/ procedure' = other
              PROVE /\ link'[other] = "none" /\ connecting'[ProductOf[other]]
                    /\ \A i \in DOMAIN events' : events'[i].peer # other
            <3>1. Dialling(other) \/ procedure = other
                BY <2>2, <2>5, <2>6
            <3>2. link[other] = "none" /\ connecting[ProductOf[other]] /\ \A i \in DOMAIN events : events[i].peer # other
                BY <3>1 DEF LinkIInv, DialsOK
            <3> QED
                BY <3>2, <2>1, <2>2, <2>3, <2>4
        <2>7. \A i \in DOMAIN events : events[i].peer \in Peers
            <3>1. \A i \in DOMAIN events : events[i] \in GapEvents
                BY <1>1
            <3> QED
                BY <3>1 DEF GapEvents
        <2>8. ASSUME NEW i \in DOMAIN events', link'[events'[i].peer] # "none"
              PROVE events'[i] = Connect(events'[i].peer, TRUE)
            <3>1. i \in DOMAIN events /\ events'[i] = events[i]
                BY <2>1, <2>3, <2>4, <2>8
            <3>2. link[events[i].peer] # "none"
                BY <3>1, <2>2, <2>4, <2>7, <2>8
            <3>3. events[i] = Connect(events[i].peer, TRUE)
                BY <3>1, <3>2 DEF LinkIInv, DialsOK
            <3> QED
                BY <3>1, <3>3
        <2>9. \A other \in Peers : ~(Dialling(other)' /\ procedure' = other)
            BY <2>2, <2>5 DEF LinkIInv, DialsOK
        <2>10. DialsOK'
            BY <2>6, <2>8, <2>9 DEF DialsOK
        <2>11. ASSUME ~refused', NEW other \in Peers, link'[other] = "up"
               PROVE \/ connected'[ProductOf[other]] /\ connHandle'[ProductOf[other]] = other
                     \/ Queued(Connect(other, TRUE))'
                     \/ host'.at = "drop" /\ host'.peer = other
            <3>1. link[other] = "up"
                BY <2>4, <2>11
            <3>2. \/ connected[ProductOf[other]] /\ connHandle[ProductOf[other]] = other
                  \/ Queued(Connect(other, TRUE))
                  \/ host.at = "drop" /\ host.peer = other
                BY <3>1, <2>2, <2>11 DEF LinkIInv, LinkKnown
            <3>3. Queued(Connect(other, TRUE)) => Queued(Connect(other, TRUE))'
                BY <2>3 DEF Queued
            <3> QED
                BY <3>2, <3>3, <2>2
        <2>12. LinkKnown'
            BY <2>11 DEF LinkKnown
        <2> QED
            BY <2>10, <2>12
    <1> QED
        BY <1>2, <1>3, <1>4

LEMMA LinkStep == OneDeviceEach /\ LinkIInv /\ [LinkNext]_linkVars => LinkIInv'
    <1>1. LinkIInv /\ [LinkNext]_linkVars => FlagsIInv'
        BY FlagsStep DEF LinkIInv
    <1>2. ASSUME OneDeviceEach, LinkIInv, LinkNext PROVE DialsOK' /\ LinkKnown'
        BY <1>1, <1>2, UiKeepsLinks, HostKeepsLinks, AirKeepsLinks DEF LinkNext
    <1>3. ASSUME LinkIInv, UNCHANGED linkVars PROVE DialsOK' /\ LinkKnown'
        BY <1>3 DEF linkVars, linkFlags, stack, LinkIInv, DialsOK, Dialling, LinkKnown, Queued
    <1> QED
        BY <1>1, <1>2, <1>3 DEF LinkIInv

\* With one device in range for each profile, the flags are true and no open
\* link is ever lost sight of, unless the stack refused to end one.
THEOREM LinksKnown == ASSUME OneDeviceEach PROVE LinkSpec => []LinkInv
    <1>1. LinkIInv => LinkInv
        BY DEF LinkIInv, FlagsIInv, LinkInv
    <1>2. LinkIInv /\ [LinkNext]_linkVars => LinkIInv'
        BY LinkStep
    <1> QED
        BY <1>1, <1>2, LinkInitially, PTL DEF LinkSpec

(***************************************************************************)
(* The updater.                                                            *)
(***************************************************************************)

USE OtaConstants, ResultConstant

\* The two slots are each other's other.
LEMMA SlotFacts ==
    \A s \in Slots : Other(s) \in Slots /\ Other(s) # s /\ Other(Other(s)) = s
BY DEF Slots, Other

\* A device fresh from the cable satisfies the invariant.
LEMMA InitIInv == Init => IInv
<1> SUFFICES ASSUME Init PROVE IInv
  OBVIOUS
<1> USE DEF Init, Slots, Other
<1>1. OtaTypeOK
  <2>1. FlashType
    BY DEF FlashType, ImageStates
  <2>2. RecordType
    BY DEF RecordType
  <2>3. UiType
    BY DEF UiType
  <2>4. runs \in 0..MaxRuns /\ resets \in 0..MaxResets
    BY OtaConstants
  <2>5. worker = "none" /\ success = FALSE /\ target = NoVersion /\ notified = 0
    OBVIOUS
  <2>6. 0 \in 0..1
    OBVIOUS
  <2>7. TaskType
    <3> HIDE DEF Init
    <3> QED
      BY <2>4, <2>5, <2>6 DEF TaskType
  <2> QED
    BY <2>1, <2>2, <2>3, <2>7 DEF OtaTypeOK
<1>2. WorkerInv /\ FlashInv /\ FallbackKept
  BY DEF WorkerInv, FlashInv, FallbackKept, Installed
<1>3. ConfirmedInv /\ PendingInv
  BY DEF ConfirmedInv, PendingInv, OnTrial
<1>4. UiInv /\ StatusTruthful /\ RestartInterruptsNothing /\ ResultsTruthful
  BY DEF UiInv, StatusTruthful, RestartInterruptsNothing, ResultsTruthful
<1> QED
  BY <1>1, <1>2, <1>3, <1>4 DEF IInv

\* Saving the result, in whatever way NVS answers, keeps the invariant.
LEMMA SaveResultStep == IInv /\ SaveResult => IInv'
<1> SUFFICES ASSUME IInv, SaveResult PROVE IInv'
  OBVIOUS
<1> USE SlotFacts DEF IInv, OtaTypeOK
<1>1. FlashType'
  BY DEF SaveResult, FlashType, FlashInv, WorkerInv, Installed, ImageStates, flash, nvs, boot,
     recorder, ui, flags, task, history, bounds
<1>2. RecordType'
  BY DEF SaveResult, RecordType, FlashType, TaskType, WorkerInv, Installed, Results, flash,
     nvs, boot, recorder, ui, flags, task, history, bounds
<1>3. UiType'
  BY DEF SaveResult, UiType, TaskType, flash, nvs, boot, recorder, ui, flags, task, history,
     bounds
<1>4. TaskType'
  BY DEF SaveResult, TaskType, UiType, WorkerInv, FlashInv, flash, nvs, boot, recorder, ui,
     flags, task, history, bounds
<1>5. WorkerInv'
  BY DEF SaveResult, FlashType, TaskType, RecordType, UiType, WorkerInv, FlashInv, Installed,
     Slots, Other, flash, nvs, boot, recorder, ui, flags, task, history, bounds
<1>6. FlashInv'
  BY DEF SaveResult, FlashType, TaskType, RecordType, UiType, WorkerInv, FlashInv, Installed,
     Slots, Other, flash, nvs, boot, recorder, ui, flags, task, history, bounds
<1>7. FallbackKept'
  BY DEF SaveResult, FlashType, TaskType, RecordType, UiType, WorkerInv, FlashInv,
     FallbackKept, Installed, Slots, Other, flash, nvs, boot, recorder, ui, flags, task,
     history, bounds
<1>8. ConfirmedInv'
  BY DEF SaveResult, FlashType, TaskType, RecordType, UiType, WorkerInv, FlashInv,
     FallbackKept, ConfirmedInv, Installed, OnTrial, Slots, Other, flash, nvs, boot, recorder,
     ui, flags, task, history, bounds
<1>9. PendingInv'
  BY DEF SaveResult, FlashType, TaskType, RecordType, UiType, WorkerInv, FlashInv, PendingInv,
     Installed, OnTrial, UiFree, Slots, Other, flash, nvs, boot, recorder, ui, flags, task,
     history, bounds
<1>10. UiInv'
  BY DEF SaveResult, FlashType, TaskType, RecordType, UiType, WorkerInv, UiInv, Installed,
     UiFree, flash, nvs, boot, recorder, ui, flags, task, history, bounds
<1>11. StatusTruthful'
  BY DEF SaveResult, FlashType, TaskType, RecordType, UiType, WorkerInv, UiInv,
     StatusTruthful, Installed, flash, nvs, boot, recorder, ui, flags, task, history, bounds
<1>12. RestartInterruptsNothing'
  BY DEF SaveResult, FlashType, TaskType, RecordType, UiType, WorkerInv, UiInv,
     RestartInterruptsNothing, flash, nvs, boot, recorder, ui, flags, task, history, bounds
<1>13. ResultsTruthful'
  BY DEF SaveResult, FlashType, RecordType, TaskType, FlashInv, WorkerInv, Installed,
     PendingInv, ResultsTruthful, ToldTruth, flash, nvs, boot, recorder, ui, flags, task,
     history, bounds
<1> QED
  BY <1>1, <1>2, <1>3, <1>4, <1>5, <1>6, <1>7, <1>8, <1>9, <1>10, <1>11, <1>12, <1>13

\* Erasing the pending version, or failing to, keeps the invariant.
LEMMA ErasePendingStep == IInv /\ ErasePending => IInv'
<1> SUFFICES ASSUME IInv, ErasePending PROVE IInv'
  OBVIOUS
<1> USE SlotFacts DEF IInv, OtaTypeOK
<1>1. FlashType'
  BY DEF ErasePending, FlashType, FlashInv, WorkerInv, Installed, ImageStates, flash, nvs,
     boot, recorder, ui, flags, task, history, bounds
<1>2. RecordType'
  BY DEF ErasePending, RecordType, FlashType, TaskType, WorkerInv, Installed, Results, flash,
     nvs, boot, recorder, ui, flags, task, history, bounds
<1>3. UiType'
  BY DEF ErasePending, UiType, TaskType, flash, nvs, boot, recorder, ui, flags, task, history,
     bounds
<1>4. TaskType'
  BY DEF ErasePending, TaskType, UiType, WorkerInv, FlashInv, flash, nvs, boot, recorder, ui,
     flags, task, history, bounds
<1>5. WorkerInv'
  BY DEF ErasePending, FlashType, TaskType, RecordType, UiType, WorkerInv, FlashInv,
     Installed, Slots, Other, flash, nvs, boot, recorder, ui, flags, task, history, bounds
<1>6. FlashInv'
  BY DEF ErasePending, FlashType, TaskType, RecordType, UiType, WorkerInv, FlashInv,
     Installed, Slots, Other, flash, nvs, boot, recorder, ui, flags, task, history, bounds
<1>7. FallbackKept'
  BY DEF ErasePending, FlashType, TaskType, RecordType, UiType, WorkerInv, FlashInv,
     FallbackKept, Installed, Slots, Other, flash, nvs, boot, recorder, ui, flags, task,
     history, bounds
<1>8. ConfirmedInv'
  BY DEF ErasePending, FlashType, TaskType, RecordType, UiType, WorkerInv, FlashInv,
     FallbackKept, ConfirmedInv, Installed, OnTrial, Slots, Other, flash, nvs, boot, recorder,
     ui, flags, task, history, bounds
<1>9. PendingInv'
  BY DEF ErasePending, FlashType, TaskType, RecordType, UiType, WorkerInv, FlashInv,
     PendingInv, Installed, OnTrial, UiFree, Slots, Other, flash, nvs, boot, recorder, ui,
     flags, task, history, bounds
<1>10. UiInv'
  BY DEF ErasePending, FlashType, TaskType, RecordType, UiType, WorkerInv, UiInv, Installed,
     UiFree, flash, nvs, boot, recorder, ui, flags, task, history, bounds
<1>11. StatusTruthful'
  BY DEF ErasePending, FlashType, TaskType, RecordType, UiType, WorkerInv, UiInv,
     StatusTruthful, Installed, flash, nvs, boot, recorder, ui, flags, task, history, bounds
<1>12. RestartInterruptsNothing'
  BY DEF ErasePending, FlashType, TaskType, RecordType, UiType, WorkerInv, UiInv,
     RestartInterruptsNothing, flash, nvs, boot, recorder, ui, flags, task, history, bounds
<1>13. ResultsTruthful'
  BY DEF ErasePending, FlashType, RecordType, TaskType, FlashInv, WorkerInv, Installed,
     PendingInv, ResultsTruthful, ToldTruth, flash, nvs, boot, recorder, ui, flags, task,
     history, bounds
<1> QED
  BY <1>1, <1>2, <1>3, <1>4, <1>5, <1>6, <1>7, <1>8, <1>9, <1>10, <1>11, <1>12, <1>13

\* Opening the System page rebuilds button and status from ota_busy.
LEMMA OpenSystemStep == IInv /\ OpenSystem => IInv'
<1> SUFFICES ASSUME IInv, OpenSystem PROVE IInv'
  OBVIOUS
<1> USE SlotFacts DEF IInv, OtaTypeOK
<1>1. FlashType'
  BY DEF OpenSystem, FlashType, FlashInv, WorkerInv, Installed, ImageStates, flash, nvs, boot,
     recorder, ui, flags, task, history, bounds
<1>2. RecordType'
  BY DEF OpenSystem, RecordType, FlashType, TaskType, WorkerInv, Installed, Results, flash,
     nvs, boot, recorder, ui, flags, task, history, bounds
<1>3. UiType'
  BY DEF OpenSystem, UiType, TaskType, flash, nvs, boot, recorder, ui, flags, task, history,
     bounds
<1>4. TaskType'
  BY DEF OpenSystem, TaskType, UiType, WorkerInv, FlashInv, flash, nvs, boot, recorder, ui,
     flags, task, history, bounds
<1>5. WorkerInv'
  BY DEF OpenSystem, FlashType, TaskType, RecordType, UiType, WorkerInv, FlashInv, Installed,
     Slots, Other, flash, nvs, boot, recorder, ui, flags, task, history, bounds
<1>6. FlashInv'
  BY DEF OpenSystem, FlashType, TaskType, RecordType, UiType, WorkerInv, FlashInv, Installed,
     Slots, Other, flash, nvs, boot, recorder, ui, flags, task, history, bounds
<1>7. FallbackKept'
  BY DEF OpenSystem, FlashType, TaskType, RecordType, UiType, WorkerInv, FlashInv,
     FallbackKept, Installed, Slots, Other, flash, nvs, boot, recorder, ui, flags, task,
     history, bounds
<1>8. ConfirmedInv'
  BY DEF OpenSystem, FlashType, TaskType, RecordType, UiType, WorkerInv, FlashInv,
     FallbackKept, ConfirmedInv, Installed, OnTrial, Slots, Other, flash, nvs, boot, recorder,
     ui, flags, task, history, bounds
<1>9. PendingInv'
  BY DEF OpenSystem, FlashType, TaskType, RecordType, UiType, WorkerInv, FlashInv, PendingInv,
     Installed, OnTrial, UiFree, Slots, Other, flash, nvs, boot, recorder, ui, flags, task,
     history, bounds
<1>10. UiInv'
  BY DEF OpenSystem, FlashType, TaskType, RecordType, UiType, WorkerInv, UiInv, Installed,
     UiFree, flash, nvs, boot, recorder, ui, flags, task, history, bounds
<1>11. StatusTruthful'
  BY DEF OpenSystem, FlashType, TaskType, RecordType, UiType, WorkerInv, UiInv,
     StatusTruthful, Installed, flash, nvs, boot, recorder, ui, flags, task, history, bounds
<1>12. RestartInterruptsNothing'
  BY DEF OpenSystem, FlashType, TaskType, RecordType, UiType, WorkerInv, UiInv,
     RestartInterruptsNothing, flash, nvs, boot, recorder, ui, flags, task, history, bounds
<1>13. ResultsTruthful'
  BY DEF OpenSystem, FlashType, RecordType, TaskType, FlashInv, WorkerInv, Installed,
     PendingInv, ResultsTruthful, ToldTruth, flash, nvs, boot, recorder, ui, flags, task,
     history, bounds
<1> QED
  BY <1>1, <1>2, <1>3, <1>4, <1>5, <1>6, <1>7, <1>8, <1>9, <1>10, <1>11, <1>12, <1>13

\* Home leaves the System page only when no update is in progress.
LEMMA HomeClickedStep == IInv /\ HomeClicked => IInv'
<1> SUFFICES ASSUME IInv, HomeClicked PROVE IInv'
  OBVIOUS
<1> USE SlotFacts DEF IInv, OtaTypeOK
<1>1. FlashType'
  BY DEF HomeClicked, LeavePage, FlashType, FlashInv, WorkerInv, Installed, ImageStates,
     flash, nvs, boot, recorder, ui, flags, task, history, bounds
<1>2. RecordType'
  BY DEF HomeClicked, LeavePage, RecordType, FlashType, TaskType, WorkerInv, Installed,
     Results, flash, nvs, boot, recorder, ui, flags, task, history, bounds
<1>3. UiType'
  BY DEF HomeClicked, LeavePage, UiType, TaskType, flash, nvs, boot, recorder, ui, flags,
     task, history, bounds
<1>4. TaskType'
  BY DEF HomeClicked, LeavePage, TaskType, UiType, WorkerInv, FlashInv, flash, nvs, boot,
     recorder, ui, flags, task, history, bounds
<1>5. WorkerInv'
  BY DEF HomeClicked, LeavePage, FlashType, TaskType, RecordType, UiType, WorkerInv, FlashInv,
     Installed, Slots, Other, flash, nvs, boot, recorder, ui, flags, task, history, bounds
<1>6. FlashInv'
  BY DEF HomeClicked, LeavePage, FlashType, TaskType, RecordType, UiType, WorkerInv, FlashInv,
     Installed, Slots, Other, flash, nvs, boot, recorder, ui, flags, task, history, bounds
<1>7. FallbackKept'
  BY DEF HomeClicked, LeavePage, FlashType, TaskType, RecordType, UiType, WorkerInv, FlashInv,
     FallbackKept, Installed, Slots, Other, flash, nvs, boot, recorder, ui, flags, task,
     history, bounds
<1>8. ConfirmedInv'
  BY DEF HomeClicked, LeavePage, FlashType, TaskType, RecordType, UiType, WorkerInv, FlashInv,
     FallbackKept, ConfirmedInv, Installed, OnTrial, Slots, Other, flash, nvs, boot, recorder,
     ui, flags, task, history, bounds
<1>9. PendingInv'
  BY DEF HomeClicked, LeavePage, FlashType, TaskType, RecordType, UiType, WorkerInv, FlashInv,
     PendingInv, Installed, OnTrial, UiFree, Slots, Other, flash, nvs, boot, recorder, ui,
     flags, task, history, bounds
<1>10. UiInv'
  BY DEF HomeClicked, LeavePage, FlashType, TaskType, RecordType, UiType, WorkerInv, UiInv,
     Installed, UiFree, flash, nvs, boot, recorder, ui, flags, task, history, bounds
<1>11. StatusTruthful'
  BY DEF HomeClicked, LeavePage, FlashType, TaskType, RecordType, UiType, WorkerInv, UiInv,
     StatusTruthful, Installed, flash, nvs, boot, recorder, ui, flags, task, history, bounds
<1>12. RestartInterruptsNothing'
  BY DEF HomeClicked, LeavePage, FlashType, TaskType, RecordType, UiType, WorkerInv, UiInv,
     RestartInterruptsNothing, flash, nvs, boot, recorder, ui, flags, task, history, bounds
<1>13. ResultsTruthful'
  BY DEF HomeClicked, LeavePage, FlashType, RecordType, TaskType, FlashInv, WorkerInv,
     Installed, PendingInv, ResultsTruthful, ToldTruth, flash, nvs, boot, recorder, ui, flags,
     task, history, bounds
<1> QED
  BY <1>1, <1>2, <1>3, <1>4, <1>5, <1>6, <1>7, <1>8, <1>9, <1>10, <1>11, <1>12, <1>13

\* Work starts from another page, so never under an update.
LEMMA StartWorkStep == IInv /\ StartWork => IInv'
<1> SUFFICES ASSUME IInv, StartWork PROVE IInv'
  OBVIOUS
<1> USE SlotFacts DEF IInv, OtaTypeOK
<1>1. FlashType'
  BY DEF StartWork, FlashType, FlashInv, WorkerInv, Installed, ImageStates, flash, nvs, boot,
     recorder, ui, flags, task, history, bounds
<1>2. RecordType'
  BY DEF StartWork, RecordType, FlashType, TaskType, WorkerInv, Installed, Results, flash,
     nvs, boot, recorder, ui, flags, task, history, bounds
<1>3. UiType'
  BY DEF StartWork, UiType, TaskType, flash, nvs, boot, recorder, ui, flags, task, history,
     bounds
<1>4. TaskType'
  BY DEF StartWork, TaskType, UiType, WorkerInv, FlashInv, flash, nvs, boot, recorder, ui,
     flags, task, history, bounds
<1>5. WorkerInv'
  BY DEF StartWork, FlashType, TaskType, RecordType, UiType, WorkerInv, FlashInv, Installed,
     Slots, Other, flash, nvs, boot, recorder, ui, flags, task, history, bounds
<1>6. FlashInv'
  BY DEF StartWork, FlashType, TaskType, RecordType, UiType, WorkerInv, FlashInv, Installed,
     Slots, Other, flash, nvs, boot, recorder, ui, flags, task, history, bounds
<1>7. FallbackKept'
  BY DEF StartWork, FlashType, TaskType, RecordType, UiType, WorkerInv, FlashInv,
     FallbackKept, Installed, Slots, Other, flash, nvs, boot, recorder, ui, flags, task,
     history, bounds
<1>8. ConfirmedInv'
  BY DEF StartWork, FlashType, TaskType, RecordType, UiType, WorkerInv, FlashInv,
     FallbackKept, ConfirmedInv, Installed, OnTrial, Slots, Other, flash, nvs, boot, recorder,
     ui, flags, task, history, bounds
<1>9. PendingInv'
  BY DEF StartWork, FlashType, TaskType, RecordType, UiType, WorkerInv, FlashInv, PendingInv,
     Installed, OnTrial, UiFree, Slots, Other, flash, nvs, boot, recorder, ui, flags, task,
     history, bounds
<1>10. UiInv'
  BY DEF StartWork, FlashType, TaskType, RecordType, UiType, WorkerInv, UiInv, Installed,
     UiFree, flash, nvs, boot, recorder, ui, flags, task, history, bounds
<1>11. StatusTruthful'
  BY DEF StartWork, FlashType, TaskType, RecordType, UiType, WorkerInv, UiInv, StatusTruthful,
     Installed, flash, nvs, boot, recorder, ui, flags, task, history, bounds
<1>12. RestartInterruptsNothing'
  BY DEF StartWork, FlashType, TaskType, RecordType, UiType, WorkerInv, UiInv,
     RestartInterruptsNothing, flash, nvs, boot, recorder, ui, flags, task, history, bounds
<1>13. ResultsTruthful'
  BY DEF StartWork, FlashType, RecordType, TaskType, FlashInv, WorkerInv, Installed,
     PendingInv, ResultsTruthful, ToldTruth, flash, nvs, boot, recorder, ui, flags, task,
     history, bounds
<1> QED
  BY <1>1, <1>2, <1>3, <1>4, <1>5, <1>6, <1>7, <1>8, <1>9, <1>10, <1>11, <1>12, <1>13

\* The end of an application keeps the invariant.
LEMMA WorkEndsStep == IInv /\ WorkEnds => IInv'
<1> SUFFICES ASSUME IInv, WorkEnds PROVE IInv'
  OBVIOUS
<1> USE SlotFacts DEF IInv, OtaTypeOK
<1>1. FlashType'
  BY DEF WorkEnds, FlashType, FlashInv, WorkerInv, Installed, ImageStates, flash, nvs, boot,
     recorder, ui, flags, task, history, bounds
<1>2. RecordType'
  BY DEF WorkEnds, RecordType, FlashType, TaskType, WorkerInv, Installed, Results, flash, nvs,
     boot, recorder, ui, flags, task, history, bounds
<1>3. UiType'
  BY DEF WorkEnds, UiType, TaskType, flash, nvs, boot, recorder, ui, flags, task, history,
     bounds
<1>4. TaskType'
  BY DEF WorkEnds, TaskType, UiType, WorkerInv, FlashInv, flash, nvs, boot, recorder, ui,
     flags, task, history, bounds
<1>5. WorkerInv'
  BY DEF WorkEnds, FlashType, TaskType, RecordType, UiType, WorkerInv, FlashInv, Installed,
     Slots, Other, flash, nvs, boot, recorder, ui, flags, task, history, bounds
<1>6. FlashInv'
  BY DEF WorkEnds, FlashType, TaskType, RecordType, UiType, WorkerInv, FlashInv, Installed,
     Slots, Other, flash, nvs, boot, recorder, ui, flags, task, history, bounds
<1>7. FallbackKept'
  BY DEF WorkEnds, FlashType, TaskType, RecordType, UiType, WorkerInv, FlashInv, FallbackKept,
     Installed, Slots, Other, flash, nvs, boot, recorder, ui, flags, task, history, bounds
<1>8. ConfirmedInv'
  BY DEF WorkEnds, FlashType, TaskType, RecordType, UiType, WorkerInv, FlashInv, FallbackKept,
     ConfirmedInv, Installed, OnTrial, Slots, Other, flash, nvs, boot, recorder, ui, flags,
     task, history, bounds
<1>9. PendingInv'
  BY DEF WorkEnds, FlashType, TaskType, RecordType, UiType, WorkerInv, FlashInv, PendingInv,
     Installed, OnTrial, UiFree, Slots, Other, flash, nvs, boot, recorder, ui, flags, task,
     history, bounds
<1>10. UiInv'
  BY DEF WorkEnds, FlashType, TaskType, RecordType, UiType, WorkerInv, UiInv, Installed,
     UiFree, flash, nvs, boot, recorder, ui, flags, task, history, bounds
<1>11. StatusTruthful'
  BY DEF WorkEnds, FlashType, TaskType, RecordType, UiType, WorkerInv, UiInv, StatusTruthful,
     Installed, flash, nvs, boot, recorder, ui, flags, task, history, bounds
<1>12. RestartInterruptsNothing'
  BY DEF WorkEnds, FlashType, TaskType, RecordType, UiType, WorkerInv, UiInv,
     RestartInterruptsNothing, flash, nvs, boot, recorder, ui, flags, task, history, bounds
<1>13. ResultsTruthful'
  BY DEF WorkEnds, FlashType, RecordType, TaskType, FlashInv, WorkerInv, Installed,
     PendingInv, ResultsTruthful, ToldTruth, flash, nvs, boot, recorder, ui, flags, task,
     history, bounds
<1> QED
  BY <1>1, <1>2, <1>3, <1>4, <1>5, <1>6, <1>7, <1>8, <1>9, <1>10, <1>11, <1>12, <1>13

\* The Update button starts or wakes the worker with fresh flags.
LEMMA StartUpdateStep == IInv /\ StartUpdate => IInv'
<1> SUFFICES ASSUME IInv, StartUpdate PROVE IInv'
  OBVIOUS
<1> USE SlotFacts DEF IInv, OtaTypeOK
<1>1. FlashType'
  BY DEF StartUpdate, FlashType, FlashInv, WorkerInv, Installed, ImageStates, flash, nvs,
     boot, recorder, ui, flags, task, history, bounds
<1>2. RecordType'
  BY DEF StartUpdate, RecordType, FlashType, TaskType, WorkerInv, Installed, Results, flash,
     nvs, boot, recorder, ui, flags, task, history, bounds
<1>3. UiType'
  BY DEF StartUpdate, UiType, TaskType, flash, nvs, boot, recorder, ui, flags, task, history,
     bounds
<1>4. TaskType'
  BY DEF StartUpdate, TaskType, UiType, WorkerInv, FlashInv, flash, nvs, boot, recorder, ui,
     flags, task, history, bounds
<1>5. WorkerInv'
  BY DEF StartUpdate, FlashType, TaskType, RecordType, UiType, WorkerInv, FlashInv, Installed,
     Slots, Other, flash, nvs, boot, recorder, ui, flags, task, history, bounds
<1>6. FlashInv'
  BY DEF StartUpdate, FlashType, TaskType, RecordType, UiType, WorkerInv, FlashInv, Installed,
     Slots, Other, flash, nvs, boot, recorder, ui, flags, task, history, bounds
<1>7. FallbackKept'
  BY DEF StartUpdate, FlashType, TaskType, RecordType, UiType, WorkerInv, FlashInv,
     FallbackKept, Installed, Slots, Other, flash, nvs, boot, recorder, ui, flags, task,
     history, bounds
<1>8. ConfirmedInv'
  BY DEF StartUpdate, FlashType, TaskType, RecordType, UiType, WorkerInv, FlashInv,
     FallbackKept, ConfirmedInv, Installed, OnTrial, Slots, Other, flash, nvs, boot, recorder,
     ui, flags, task, history, bounds
<1>9. PendingInv'
  BY DEF StartUpdate, FlashType, TaskType, RecordType, UiType, WorkerInv, FlashInv,
     PendingInv, Installed, OnTrial, UiFree, Slots, Other, flash, nvs, boot, recorder, ui,
     flags, task, history, bounds
<1>10. UiInv'
  BY DEF StartUpdate, FlashType, TaskType, RecordType, UiType, WorkerInv, UiInv, Installed,
     UiFree, flash, nvs, boot, recorder, ui, flags, task, history, bounds
<1>11. StatusTruthful'
  BY DEF StartUpdate, FlashType, TaskType, RecordType, UiType, WorkerInv, UiInv,
     StatusTruthful, Installed, flash, nvs, boot, recorder, ui, flags, task, history, bounds
<1>12. RestartInterruptsNothing'
  BY DEF StartUpdate, FlashType, TaskType, RecordType, UiType, WorkerInv, UiInv,
     RestartInterruptsNothing, flash, nvs, boot, recorder, ui, flags, task, history, bounds
<1>13. ResultsTruthful'
  BY DEF StartUpdate, FlashType, RecordType, TaskType, FlashInv, WorkerInv, Installed,
     PendingInv, ResultsTruthful, ToldTruth, flash, nvs, boot, recorder, ui, flags, task,
     history, bounds
<1> QED
  BY <1>1, <1>2, <1>3, <1>4, <1>5, <1>6, <1>7, <1>8, <1>9, <1>10, <1>11, <1>12, <1>13

\* A refused update changes the status line only.
LEMMA UpdateRefusedStep == IInv /\ UpdateRefused => IInv'
<1> SUFFICES ASSUME IInv, UpdateRefused PROVE IInv'
  OBVIOUS
<1> USE SlotFacts DEF IInv, OtaTypeOK
<1>1. FlashType'
  BY DEF UpdateRefused, FlashType, FlashInv, WorkerInv, Installed, ImageStates, flash, nvs,
     boot, recorder, ui, flags, task, history, bounds
<1>2. RecordType'
  BY DEF UpdateRefused, RecordType, FlashType, TaskType, WorkerInv, Installed, Results, flash,
     nvs, boot, recorder, ui, flags, task, history, bounds
<1>3. UiType'
  BY DEF UpdateRefused, UiType, TaskType, flash, nvs, boot, recorder, ui, flags, task,
     history, bounds
<1>4. TaskType'
  BY DEF UpdateRefused, TaskType, UiType, WorkerInv, FlashInv, flash, nvs, boot, recorder, ui,
     flags, task, history, bounds
<1>5. WorkerInv'
  BY DEF UpdateRefused, FlashType, TaskType, RecordType, UiType, WorkerInv, FlashInv,
     Installed, Slots, Other, flash, nvs, boot, recorder, ui, flags, task, history, bounds
<1>6. FlashInv'
  BY DEF UpdateRefused, FlashType, TaskType, RecordType, UiType, WorkerInv, FlashInv,
     Installed, Slots, Other, flash, nvs, boot, recorder, ui, flags, task, history, bounds
<1>7. FallbackKept'
  BY DEF UpdateRefused, FlashType, TaskType, RecordType, UiType, WorkerInv, FlashInv,
     FallbackKept, Installed, Slots, Other, flash, nvs, boot, recorder, ui, flags, task,
     history, bounds
<1>8. ConfirmedInv'
  BY DEF UpdateRefused, FlashType, TaskType, RecordType, UiType, WorkerInv, FlashInv,
     FallbackKept, ConfirmedInv, Installed, OnTrial, Slots, Other, flash, nvs, boot, recorder,
     ui, flags, task, history, bounds
<1>9. PendingInv'
  BY DEF UpdateRefused, FlashType, TaskType, RecordType, UiType, WorkerInv, FlashInv,
     PendingInv, Installed, OnTrial, UiFree, Slots, Other, flash, nvs, boot, recorder, ui,
     flags, task, history, bounds
<1>10. UiInv'
  BY DEF UpdateRefused, FlashType, TaskType, RecordType, UiType, WorkerInv, UiInv, Installed,
     UiFree, flash, nvs, boot, recorder, ui, flags, task, history, bounds
<1>11. StatusTruthful'
  BY DEF UpdateRefused, FlashType, TaskType, RecordType, UiType, WorkerInv, UiInv,
     StatusTruthful, Installed, flash, nvs, boot, recorder, ui, flags, task, history, bounds
<1>12. RestartInterruptsNothing'
  BY DEF UpdateRefused, FlashType, TaskType, RecordType, UiType, WorkerInv, UiInv,
     RestartInterruptsNothing, flash, nvs, boot, recorder, ui, flags, task, history, bounds
<1>13. ResultsTruthful'
  BY DEF UpdateRefused, FlashType, RecordType, TaskType, FlashInv, WorkerInv, Installed,
     PendingInv, ResultsTruthful, ToldTruth, flash, nvs, boot, recorder, ui, flags, task,
     history, bounds
<1> QED
  BY <1>1, <1>2, <1>3, <1>4, <1>5, <1>6, <1>7, <1>8, <1>9, <1>10, <1>11, <1>12, <1>13

\* A worker that cannot be created leaves the updater free.
LEMMA CreateFailsStep == IInv /\ CreateFails => IInv'
<1> SUFFICES ASSUME IInv, CreateFails PROVE IInv'
  OBVIOUS
<1> USE SlotFacts DEF IInv, OtaTypeOK
<1>1. FlashType'
  BY DEF CreateFails, FlashType, FlashInv, WorkerInv, Installed, ImageStates, flash, nvs,
     boot, recorder, ui, flags, task, history, bounds
<1>2. RecordType'
  BY DEF CreateFails, RecordType, FlashType, TaskType, WorkerInv, Installed, Results, flash,
     nvs, boot, recorder, ui, flags, task, history, bounds
<1>3. UiType'
  BY DEF CreateFails, UiType, TaskType, flash, nvs, boot, recorder, ui, flags, task, history,
     bounds
<1>4. TaskType'
  BY DEF CreateFails, TaskType, UiType, WorkerInv, FlashInv, flash, nvs, boot, recorder, ui,
     flags, task, history, bounds
<1>5. WorkerInv'
  BY DEF CreateFails, FlashType, TaskType, RecordType, UiType, WorkerInv, FlashInv, Installed,
     Slots, Other, flash, nvs, boot, recorder, ui, flags, task, history, bounds
<1>6. FlashInv'
  BY DEF CreateFails, FlashType, TaskType, RecordType, UiType, WorkerInv, FlashInv, Installed,
     Slots, Other, flash, nvs, boot, recorder, ui, flags, task, history, bounds
<1>7. FallbackKept'
  BY DEF CreateFails, FlashType, TaskType, RecordType, UiType, WorkerInv, FlashInv,
     FallbackKept, Installed, Slots, Other, flash, nvs, boot, recorder, ui, flags, task,
     history, bounds
<1>8. ConfirmedInv'
  BY DEF CreateFails, FlashType, TaskType, RecordType, UiType, WorkerInv, FlashInv,
     FallbackKept, ConfirmedInv, Installed, OnTrial, Slots, Other, flash, nvs, boot, recorder,
     ui, flags, task, history, bounds
<1>9. PendingInv'
  BY DEF CreateFails, FlashType, TaskType, RecordType, UiType, WorkerInv, FlashInv,
     PendingInv, Installed, OnTrial, UiFree, Slots, Other, flash, nvs, boot, recorder, ui,
     flags, task, history, bounds
<1>10. UiInv'
  BY DEF CreateFails, FlashType, TaskType, RecordType, UiType, WorkerInv, UiInv, Installed,
     UiFree, flash, nvs, boot, recorder, ui, flags, task, history, bounds
<1>11. StatusTruthful'
  BY DEF CreateFails, FlashType, TaskType, RecordType, UiType, WorkerInv, UiInv,
     StatusTruthful, Installed, flash, nvs, boot, recorder, ui, flags, task, history, bounds
<1>12. RestartInterruptsNothing'
  BY DEF CreateFails, FlashType, TaskType, RecordType, UiType, WorkerInv, UiInv,
     RestartInterruptsNothing, flash, nvs, boot, recorder, ui, flags, task, history, bounds
<1>13. ResultsTruthful'
  BY DEF CreateFails, FlashType, RecordType, TaskType, FlashInv, WorkerInv, Installed,
     PendingInv, ResultsTruthful, ToldTruth, flash, nvs, boot, recorder, ui, flags, task,
     history, bounds
<1> QED
  BY <1>1, <1>2, <1>3, <1>4, <1>5, <1>6, <1>7, <1>8, <1>9, <1>10, <1>11, <1>12, <1>13

\* ota_tick() reports what the worker has finished.
LEMMA TickStep == IInv /\ Tick => IInv'
<1> SUFFICES ASSUME IInv, Tick PROVE IInv'
  OBVIOUS
<1> USE SlotFacts DEF IInv, OtaTypeOK
<1>1. FlashType'
  BY DEF Tick, ShowCompletion, FlashType, FlashInv, WorkerInv, Installed, ImageStates, flash,
     nvs, boot, recorder, ui, flags, task, history, bounds
<1>2. RecordType'
  BY DEF Tick, ShowCompletion, RecordType, FlashType, TaskType, WorkerInv, Installed, Results,
     flash, nvs, boot, recorder, ui, flags, task, history, bounds
<1>3. UiType'
  BY DEF Tick, ShowCompletion, UiType, TaskType, flash, nvs, boot, recorder, ui, flags, task,
     history, bounds
<1>4. TaskType'
  BY DEF Tick, ShowCompletion, TaskType, UiType, WorkerInv, FlashInv, flash, nvs, boot,
     recorder, ui, flags, task, history, bounds
<1>5. WorkerInv'
  BY DEF Tick, ShowCompletion, FlashType, TaskType, RecordType, UiType, WorkerInv, FlashInv,
     Installed, Slots, Other, flash, nvs, boot, recorder, ui, flags, task, history, bounds
<1>6. FlashInv'
  BY DEF Tick, ShowCompletion, FlashType, TaskType, RecordType, UiType, WorkerInv, FlashInv,
     Installed, Slots, Other, flash, nvs, boot, recorder, ui, flags, task, history, bounds
<1>7. FallbackKept'
  BY DEF Tick, ShowCompletion, FlashType, TaskType, RecordType, UiType, WorkerInv, FlashInv,
     FallbackKept, Installed, Slots, Other, flash, nvs, boot, recorder, ui, flags, task,
     history, bounds
<1>8. ConfirmedInv'
  BY DEF Tick, ShowCompletion, FlashType, TaskType, RecordType, UiType, WorkerInv, FlashInv,
     FallbackKept, ConfirmedInv, Installed, OnTrial, Slots, Other, flash, nvs, boot, recorder,
     ui, flags, task, history, bounds
<1>9. PendingInv'
  BY DEF Tick, ShowCompletion, FlashType, TaskType, RecordType, UiType, WorkerInv, FlashInv,
     PendingInv, Installed, OnTrial, UiFree, Slots, Other, flash, nvs, boot, recorder, ui,
     flags, task, history, bounds
<1>10. UiInv'
  BY DEF Tick, ShowCompletion, FlashType, TaskType, RecordType, UiType, WorkerInv, UiInv,
     Installed, UiFree, flash, nvs, boot, recorder, ui, flags, task, history, bounds
<1>11. StatusTruthful'
  BY DEF Tick, ShowCompletion, FlashType, TaskType, RecordType, UiType, WorkerInv, UiInv,
     StatusTruthful, Installed, flash, nvs, boot, recorder, ui, flags, task, history, bounds
<1>12. RestartInterruptsNothing'
  BY DEF Tick, ShowCompletion, FlashType, TaskType, RecordType, UiType, WorkerInv, UiInv,
     RestartInterruptsNothing, flash, nvs, boot, recorder, ui, flags, task, history, bounds
<1>13. ResultsTruthful'
  BY DEF Tick, ShowCompletion, FlashType, RecordType, TaskType, FlashInv, WorkerInv,
     Installed, PendingInv, ResultsTruthful, ToldTruth, flash, nvs, boot, recorder, ui, flags,
     task, history, bounds
<1> QED
  BY <1>1, <1>2, <1>3, <1>4, <1>5, <1>6, <1>7, <1>8, <1>9, <1>10, <1>11, <1>12, <1>13

\* The manifest names a newer version, or the update ends in failure.
LEMMA FetchStep == IInv /\ Fetch => IInv'
<1> SUFFICES ASSUME IInv, Fetch PROVE IInv'
  OBVIOUS
<1> USE SlotFacts DEF IInv, OtaTypeOK
<1>1. FlashType'
  BY DEF Fetch, Finish, Eligible, WorkerUnchanged, FlashType, FlashInv, WorkerInv, Installed,
     ImageStates, flash, nvs, boot, recorder, ui, flags, task, history, bounds
<1>2. RecordType'
  BY DEF Fetch, Finish, Eligible, WorkerUnchanged, RecordType, FlashType, TaskType, WorkerInv,
     Installed, Results, flash, nvs, boot, recorder, ui, flags, task, history, bounds
<1>3. UiType'
  BY DEF Fetch, Finish, Eligible, WorkerUnchanged, UiType, TaskType, flash, nvs, boot,
     recorder, ui, flags, task, history, bounds
<1>4. TaskType'
  BY DEF Fetch, Finish, Eligible, WorkerUnchanged, TaskType, UiType, WorkerInv, FlashInv,
     flash, nvs, boot, recorder, ui, flags, task, history, bounds
<1>5. WorkerInv'
  BY DEF Fetch, Finish, Eligible, WorkerUnchanged, FlashType, TaskType, RecordType, UiType,
     WorkerInv, FlashInv, Installed, Slots, Other, flash, nvs, boot, recorder, ui, flags,
     task, history, bounds
<1>6. FlashInv'
  BY DEF Fetch, Finish, Eligible, WorkerUnchanged, FlashType, TaskType, RecordType, UiType,
     WorkerInv, FlashInv, Installed, Slots, Other, flash, nvs, boot, recorder, ui, flags,
     task, history, bounds
<1>7. FallbackKept'
  BY DEF Fetch, Finish, Eligible, WorkerUnchanged, FlashType, TaskType, RecordType, UiType,
     WorkerInv, FlashInv, FallbackKept, Installed, Slots, Other, flash, nvs, boot, recorder,
     ui, flags, task, history, bounds
<1>8. ConfirmedInv'
  BY DEF Fetch, Finish, Eligible, WorkerUnchanged, FlashType, TaskType, RecordType, UiType,
     WorkerInv, FlashInv, FallbackKept, ConfirmedInv, Installed, OnTrial, Slots, Other, flash,
     nvs, boot, recorder, ui, flags, task, history, bounds
<1>9. PendingInv'
  BY DEF Fetch, Finish, Eligible, WorkerUnchanged, FlashType, TaskType, RecordType, UiType,
     WorkerInv, FlashInv, PendingInv, Installed, OnTrial, UiFree, Slots, Other, flash, nvs,
     boot, recorder, ui, flags, task, history, bounds
<1>10. UiInv'
  BY DEF Fetch, Finish, Eligible, WorkerUnchanged, FlashType, TaskType, RecordType, UiType,
     WorkerInv, UiInv, Installed, UiFree, flash, nvs, boot, recorder, ui, flags, task,
     history, bounds
<1>11. StatusTruthful'
  BY DEF Fetch, Finish, Eligible, WorkerUnchanged, FlashType, TaskType, RecordType, UiType,
     WorkerInv, UiInv, StatusTruthful, Installed, flash, nvs, boot, recorder, ui, flags, task,
     history, bounds
<1>12. RestartInterruptsNothing'
  BY DEF Fetch, Finish, Eligible, WorkerUnchanged, FlashType, TaskType, RecordType, UiType,
     WorkerInv, UiInv, RestartInterruptsNothing, flash, nvs, boot, recorder, ui, flags, task,
     history, bounds
<1>13. ResultsTruthful'
  BY DEF Fetch, Finish, Eligible, WorkerUnchanged, FlashType, RecordType, TaskType, FlashInv,
     WorkerInv, Installed, PendingInv, ResultsTruthful, ToldTruth, flash, nvs, boot, recorder,
     ui, flags, task, history, bounds
<1> QED
  BY <1>1, <1>2, <1>3, <1>4, <1>5, <1>6, <1>7, <1>8, <1>9, <1>10, <1>11, <1>12, <1>13

\* The download erases a slot only under a confirmed running image.
LEMMA BeginStep == IInv /\ Begin => IInv'
<1> SUFFICES ASSUME IInv, Begin PROVE IInv'
  OBVIOUS
<1> USE SlotFacts DEF IInv, OtaTypeOK
<1>1. FlashType'
  BY DEF Begin, Finish, WorkerUnchanged, FlashType, FlashInv, WorkerInv, Installed,
     ImageStates, flash, nvs, boot, recorder, ui, flags, task, history, bounds
<1>2. RecordType'
  BY DEF Begin, Finish, WorkerUnchanged, RecordType, FlashType, TaskType, WorkerInv,
     Installed, Results, flash, nvs, boot, recorder, ui, flags, task, history, bounds
<1>3. UiType'
  BY DEF Begin, Finish, WorkerUnchanged, UiType, TaskType, flash, nvs, boot, recorder, ui,
     flags, task, history, bounds
<1>4. TaskType'
  BY DEF Begin, Finish, WorkerUnchanged, TaskType, UiType, WorkerInv, FlashInv, flash, nvs,
     boot, recorder, ui, flags, task, history, bounds
<1>5. WorkerInv'
  BY DEF Begin, Finish, WorkerUnchanged, FlashType, TaskType, RecordType, UiType, WorkerInv,
     FlashInv, Installed, Slots, Other, flash, nvs, boot, recorder, ui, flags, task, history,
     bounds
<1>6. FlashInv'
  BY DEF Begin, Finish, WorkerUnchanged, FlashType, TaskType, RecordType, UiType, WorkerInv,
     FlashInv, Installed, Slots, Other, flash, nvs, boot, recorder, ui, flags, task, history,
     bounds
<1>7. FallbackKept'
  BY DEF Begin, Finish, WorkerUnchanged, FlashType, TaskType, RecordType, UiType, WorkerInv,
     FlashInv, FallbackKept, Installed, Slots, Other, flash, nvs, boot, recorder, ui, flags,
     task, history, bounds
<1>8. ConfirmedInv'
  BY DEF Begin, Finish, WorkerUnchanged, FlashType, TaskType, RecordType, UiType, WorkerInv,
     FlashInv, FallbackKept, ConfirmedInv, Installed, OnTrial, Slots, Other, flash, nvs, boot,
     recorder, ui, flags, task, history, bounds
<1>9. PendingInv'
  BY DEF Begin, Finish, WorkerUnchanged, FlashType, TaskType, RecordType, UiType, WorkerInv,
     FlashInv, PendingInv, Installed, OnTrial, UiFree, Slots, Other, flash, nvs, boot,
     recorder, ui, flags, task, history, bounds
<1>10. UiInv'
  BY DEF Begin, Finish, WorkerUnchanged, FlashType, TaskType, RecordType, UiType, WorkerInv,
     UiInv, Installed, UiFree, flash, nvs, boot, recorder, ui, flags, task, history, bounds
<1>11. StatusTruthful'
  BY DEF Begin, Finish, WorkerUnchanged, FlashType, TaskType, RecordType, UiType, WorkerInv,
     UiInv, StatusTruthful, Installed, flash, nvs, boot, recorder, ui, flags, task, history,
     bounds
<1>12. RestartInterruptsNothing'
  BY DEF Begin, Finish, WorkerUnchanged, FlashType, TaskType, RecordType, UiType, WorkerInv,
     UiInv, RestartInterruptsNothing, flash, nvs, boot, recorder, ui, flags, task, history,
     bounds
<1>13. ResultsTruthful'
  BY DEF Begin, Finish, WorkerUnchanged, FlashType, RecordType, TaskType, FlashInv, WorkerInv,
     Installed, PendingInv, ResultsTruthful, ToldTruth, flash, nvs, boot, recorder, ui, flags,
     task, history, bounds
<1> QED
  BY <1>1, <1>2, <1>3, <1>4, <1>5, <1>6, <1>7, <1>8, <1>9, <1>10, <1>11, <1>12, <1>13

\* A verified image becomes the one on trial; the running one its fallback.
LEMMA InstallStep == IInv /\ Install => IInv'
<1> SUFFICES ASSUME IInv, Install PROVE IInv'
  OBVIOUS
<1> USE SlotFacts DEF IInv, OtaTypeOK
<1>1. FlashType'
  BY DEF Install, Finish, WorkerUnchanged, FlashType, FlashInv, WorkerInv, Installed,
     ImageStates, flash, nvs, boot, recorder, ui, flags, task, history, bounds
<1>2. RecordType'
  BY DEF Install, Finish, WorkerUnchanged, RecordType, FlashType, TaskType, WorkerInv,
     Installed, Results, flash, nvs, boot, recorder, ui, flags, task, history, bounds
<1>3. UiType'
  BY DEF Install, Finish, WorkerUnchanged, UiType, TaskType, flash, nvs, boot, recorder, ui,
     flags, task, history, bounds
<1>4. TaskType'
  BY DEF Install, Finish, WorkerUnchanged, TaskType, UiType, WorkerInv, FlashInv, flash, nvs,
     boot, recorder, ui, flags, task, history, bounds
<1>5. WorkerInv'
  BY DEF Install, Finish, WorkerUnchanged, FlashType, TaskType, RecordType, UiType, WorkerInv,
     FlashInv, Installed, Slots, Other, flash, nvs, boot, recorder, ui, flags, task, history,
     bounds
<1>6. FlashInv'
  BY DEF Install, Finish, WorkerUnchanged, FlashType, TaskType, RecordType, UiType, WorkerInv,
     FlashInv, Installed, Slots, Other, flash, nvs, boot, recorder, ui, flags, task, history,
     bounds
<1>7. FallbackKept'
  BY DEF Install, Finish, WorkerUnchanged, FlashType, TaskType, RecordType, UiType, WorkerInv,
     FlashInv, FallbackKept, Installed, Slots, Other, flash, nvs, boot, recorder, ui, flags,
     task, history, bounds
<1>8. ConfirmedInv'
  <2> DEFINE other == Other(running)
  <2> USE DEF Install, WorkerUnchanged, Finish, FlashType, TaskType, WorkerInv, FlashInv, Installed
  <2>1. /\ other \in Slots /\ other # running /\ Other(other) = running
        /\ target \in Versions /\ target \in Nat /\ image[running] \in Nat /\ target > image[running]
        /\ \A s \in Slots : s = running \/ s = other
    BY DEF Slots, Other
  <2>2. CASE /\ image' = [image EXCEPT ![other] = target]
             /\ otaState' = [otaState EXCEPT ![other] = "new"]
             /\ bootSlot' = other
    <3>1. /\ image'[other] = target /\ image'[running] = image[running] /\ running' = running
          /\ otaState'[other] = "new" /\ otaState'[running] = otaState[running]
          /\ confirmed' = confirmed
      BY <2>1, <2>2 DEF history, boot
    <3>2. \A v \in confirmed : v \in Nat /\ v <= image[running]
      BY DEF ConfirmedInv
    <3> QED
      BY <2>1, <2>2, <3>1, <3>2 DEF ConfirmedInv, OnTrial
  <2>3. CASE /\ image' \in {image, [image EXCEPT ![other] = target]}
             /\ UNCHANGED <<otaState, bootSlot>>
    <3>1. /\ image'[other] \in {image[other], target} /\ image'[running] = image[running]
          /\ running' = running /\ confirmed' = confirmed
      BY <2>1, <2>3 DEF history, boot
    <3>2. ~OnTrial
      BY DEF OnTrial
    <3> QED
      BY <2>1, <2>3, <3>1, <3>2 DEF ConfirmedInv, OnTrial
  <2> QED
    BY <2>2, <2>3
<1>9. PendingInv'
  BY DEF Install, Finish, WorkerUnchanged, FlashType, TaskType, RecordType, UiType, WorkerInv,
     FlashInv, PendingInv, Installed, OnTrial, UiFree, Slots, Other, flash, nvs, boot,
     recorder, ui, flags, task, history, bounds
<1>10. UiInv'
  BY DEF Install, Finish, WorkerUnchanged, FlashType, TaskType, RecordType, UiType, WorkerInv,
     UiInv, Installed, UiFree, flash, nvs, boot, recorder, ui, flags, task, history, bounds
<1>11. StatusTruthful'
  BY DEF Install, Finish, WorkerUnchanged, FlashType, TaskType, RecordType, UiType, WorkerInv,
     UiInv, StatusTruthful, Installed, flash, nvs, boot, recorder, ui, flags, task, history,
     bounds
<1>12. RestartInterruptsNothing'
  BY DEF Install, Finish, WorkerUnchanged, FlashType, TaskType, RecordType, UiType, WorkerInv,
     UiInv, RestartInterruptsNothing, flash, nvs, boot, recorder, ui, flags, task, history,
     bounds
<1>13. ResultsTruthful'
  BY DEF Install, Finish, WorkerUnchanged, FlashType, RecordType, TaskType, FlashInv,
     WorkerInv, Installed, PendingInv, ResultsTruthful, ToldTruth, flash, nvs, boot, recorder,
     ui, flags, task, history, bounds
<1> QED
  BY <1>1, <1>2, <1>3, <1>4, <1>5, <1>6, <1>7, <1>8, <1>9, <1>10, <1>11, <1>12, <1>13

\* The worker stores ota_ok before ota_done.
LEMMA SetOkStep == IInv /\ SetOk => IInv'
<1> SUFFICES ASSUME IInv, SetOk PROVE IInv'
  OBVIOUS
<1> USE SlotFacts DEF IInv, OtaTypeOK
<1>1. FlashType'
  BY DEF SetOk, WorkerUnchanged, FlashType, FlashInv, WorkerInv, Installed, ImageStates,
     flash, nvs, boot, recorder, ui, flags, task, history, bounds
<1>2. RecordType'
  BY DEF SetOk, WorkerUnchanged, RecordType, FlashType, TaskType, WorkerInv, Installed,
     Results, flash, nvs, boot, recorder, ui, flags, task, history, bounds
<1>3. UiType'
  BY DEF SetOk, WorkerUnchanged, UiType, TaskType, flash, nvs, boot, recorder, ui, flags,
     task, history, bounds
<1>4. TaskType'
  BY DEF SetOk, WorkerUnchanged, TaskType, UiType, WorkerInv, FlashInv, flash, nvs, boot,
     recorder, ui, flags, task, history, bounds
<1>5. WorkerInv'
  BY DEF SetOk, WorkerUnchanged, FlashType, TaskType, RecordType, UiType, WorkerInv, FlashInv,
     Installed, Slots, Other, flash, nvs, boot, recorder, ui, flags, task, history, bounds
<1>6. FlashInv'
  BY DEF SetOk, WorkerUnchanged, FlashType, TaskType, RecordType, UiType, WorkerInv, FlashInv,
     Installed, Slots, Other, flash, nvs, boot, recorder, ui, flags, task, history, bounds
<1>7. FallbackKept'
  BY DEF SetOk, WorkerUnchanged, FlashType, TaskType, RecordType, UiType, WorkerInv, FlashInv,
     FallbackKept, Installed, Slots, Other, flash, nvs, boot, recorder, ui, flags, task,
     history, bounds
<1>8. ConfirmedInv'
  BY DEF SetOk, WorkerUnchanged, FlashType, TaskType, RecordType, UiType, WorkerInv, FlashInv,
     FallbackKept, ConfirmedInv, Installed, OnTrial, Slots, Other, flash, nvs, boot, recorder,
     ui, flags, task, history, bounds
<1>9. PendingInv'
  BY DEF SetOk, WorkerUnchanged, FlashType, TaskType, RecordType, UiType, WorkerInv, FlashInv,
     PendingInv, Installed, OnTrial, UiFree, Slots, Other, flash, nvs, boot, recorder, ui,
     flags, task, history, bounds
<1>10. UiInv'
  BY DEF SetOk, WorkerUnchanged, FlashType, TaskType, RecordType, UiType, WorkerInv, UiInv,
     Installed, UiFree, flash, nvs, boot, recorder, ui, flags, task, history, bounds
<1>11. StatusTruthful'
  BY DEF SetOk, WorkerUnchanged, FlashType, TaskType, RecordType, UiType, WorkerInv, UiInv,
     StatusTruthful, Installed, flash, nvs, boot, recorder, ui, flags, task, history, bounds
<1>12. RestartInterruptsNothing'
  BY DEF SetOk, WorkerUnchanged, FlashType, TaskType, RecordType, UiType, WorkerInv, UiInv,
     RestartInterruptsNothing, flash, nvs, boot, recorder, ui, flags, task, history, bounds
<1>13. ResultsTruthful'
  BY DEF SetOk, WorkerUnchanged, FlashType, RecordType, TaskType, FlashInv, WorkerInv,
     Installed, PendingInv, ResultsTruthful, ToldTruth, flash, nvs, boot, recorder, ui, flags,
     task, history, bounds
<1> QED
  BY <1>1, <1>2, <1>3, <1>4, <1>5, <1>6, <1>7, <1>8, <1>9, <1>10, <1>11, <1>12, <1>13

\* The worker stores ota_done before it lets go of ota_busy.
LEMMA SetDoneStep == IInv /\ SetDone => IInv'
<1> SUFFICES ASSUME IInv, SetDone PROVE IInv'
  OBVIOUS
<1> USE SlotFacts DEF IInv, OtaTypeOK
<1>1. FlashType'
  BY DEF SetDone, WorkerUnchanged, FlashType, FlashInv, WorkerInv, Installed, ImageStates,
     flash, nvs, boot, recorder, ui, flags, task, history, bounds
<1>2. RecordType'
  BY DEF SetDone, WorkerUnchanged, RecordType, FlashType, TaskType, WorkerInv, Installed,
     Results, flash, nvs, boot, recorder, ui, flags, task, history, bounds
<1>3. UiType'
  BY DEF SetDone, WorkerUnchanged, UiType, TaskType, flash, nvs, boot, recorder, ui, flags,
     task, history, bounds
<1>4. TaskType'
  BY DEF SetDone, WorkerUnchanged, TaskType, UiType, WorkerInv, FlashInv, flash, nvs, boot,
     recorder, ui, flags, task, history, bounds
<1>5. WorkerInv'
  BY DEF SetDone, WorkerUnchanged, FlashType, TaskType, RecordType, UiType, WorkerInv,
     FlashInv, Installed, Slots, Other, flash, nvs, boot, recorder, ui, flags, task, history,
     bounds
<1>6. FlashInv'
  BY DEF SetDone, WorkerUnchanged, FlashType, TaskType, RecordType, UiType, WorkerInv,
     FlashInv, Installed, Slots, Other, flash, nvs, boot, recorder, ui, flags, task, history,
     bounds
<1>7. FallbackKept'
  BY DEF SetDone, WorkerUnchanged, FlashType, TaskType, RecordType, UiType, WorkerInv,
     FlashInv, FallbackKept, Installed, Slots, Other, flash, nvs, boot, recorder, ui, flags,
     task, history, bounds
<1>8. ConfirmedInv'
  BY DEF SetDone, WorkerUnchanged, FlashType, TaskType, RecordType, UiType, WorkerInv,
     FlashInv, FallbackKept, ConfirmedInv, Installed, OnTrial, Slots, Other, flash, nvs, boot,
     recorder, ui, flags, task, history, bounds
<1>9. PendingInv'
  BY DEF SetDone, WorkerUnchanged, FlashType, TaskType, RecordType, UiType, WorkerInv,
     FlashInv, PendingInv, Installed, OnTrial, UiFree, Slots, Other, flash, nvs, boot,
     recorder, ui, flags, task, history, bounds
<1>10. UiInv'
  BY DEF SetDone, WorkerUnchanged, FlashType, TaskType, RecordType, UiType, WorkerInv, UiInv,
     Installed, UiFree, flash, nvs, boot, recorder, ui, flags, task, history, bounds
<1>11. StatusTruthful'
  BY DEF SetDone, WorkerUnchanged, FlashType, TaskType, RecordType, UiType, WorkerInv, UiInv,
     StatusTruthful, Installed, flash, nvs, boot, recorder, ui, flags, task, history, bounds
<1>12. RestartInterruptsNothing'
  BY DEF SetDone, WorkerUnchanged, FlashType, TaskType, RecordType, UiType, WorkerInv, UiInv,
     RestartInterruptsNothing, flash, nvs, boot, recorder, ui, flags, task, history, bounds
<1>13. ResultsTruthful'
  BY DEF SetDone, WorkerUnchanged, FlashType, RecordType, TaskType, FlashInv, WorkerInv,
     Installed, PendingInv, ResultsTruthful, ToldTruth, flash, nvs, boot, recorder, ui, flags,
     task, history, bounds
<1> QED
  BY <1>1, <1>2, <1>3, <1>4, <1>5, <1>6, <1>7, <1>8, <1>9, <1>10, <1>11, <1>12, <1>13

\* A failed update releases ota_busy.
LEMMA ReleaseStep == IInv /\ Release => IInv'
<1> SUFFICES ASSUME IInv, Release PROVE IInv'
  OBVIOUS
<1> USE SlotFacts DEF IInv, OtaTypeOK
<1>1. FlashType'
  BY DEF Release, WorkerUnchanged, FlashType, FlashInv, WorkerInv, Installed, ImageStates,
     flash, nvs, boot, recorder, ui, flags, task, history, bounds
<1>2. RecordType'
  BY DEF Release, WorkerUnchanged, RecordType, FlashType, TaskType, WorkerInv, Installed,
     Results, flash, nvs, boot, recorder, ui, flags, task, history, bounds
<1>3. UiType'
  BY DEF Release, WorkerUnchanged, UiType, TaskType, flash, nvs, boot, recorder, ui, flags,
     task, history, bounds
<1>4. TaskType'
  BY DEF Release, WorkerUnchanged, TaskType, UiType, WorkerInv, FlashInv, flash, nvs, boot,
     recorder, ui, flags, task, history, bounds
<1>5. WorkerInv'
  BY DEF Release, WorkerUnchanged, FlashType, TaskType, RecordType, UiType, WorkerInv,
     FlashInv, Installed, Slots, Other, flash, nvs, boot, recorder, ui, flags, task, history,
     bounds
<1>6. FlashInv'
  BY DEF Release, WorkerUnchanged, FlashType, TaskType, RecordType, UiType, WorkerInv,
     FlashInv, Installed, Slots, Other, flash, nvs, boot, recorder, ui, flags, task, history,
     bounds
<1>7. FallbackKept'
  BY DEF Release, WorkerUnchanged, FlashType, TaskType, RecordType, UiType, WorkerInv,
     FlashInv, FallbackKept, Installed, Slots, Other, flash, nvs, boot, recorder, ui, flags,
     task, history, bounds
<1>8. ConfirmedInv'
  BY DEF Release, WorkerUnchanged, FlashType, TaskType, RecordType, UiType, WorkerInv,
     FlashInv, FallbackKept, ConfirmedInv, Installed, OnTrial, Slots, Other, flash, nvs, boot,
     recorder, ui, flags, task, history, bounds
<1>9. PendingInv'
  BY DEF Release, WorkerUnchanged, FlashType, TaskType, RecordType, UiType, WorkerInv,
     FlashInv, PendingInv, Installed, OnTrial, UiFree, Slots, Other, flash, nvs, boot,
     recorder, ui, flags, task, history, bounds
<1>10. UiInv'
  BY DEF Release, WorkerUnchanged, FlashType, TaskType, RecordType, UiType, WorkerInv, UiInv,
     Installed, UiFree, flash, nvs, boot, recorder, ui, flags, task, history, bounds
<1>11. StatusTruthful'
  BY DEF Release, WorkerUnchanged, FlashType, TaskType, RecordType, UiType, WorkerInv, UiInv,
     StatusTruthful, Installed, flash, nvs, boot, recorder, ui, flags, task, history, bounds
<1>12. RestartInterruptsNothing'
  BY DEF Release, WorkerUnchanged, FlashType, TaskType, RecordType, UiType, WorkerInv, UiInv,
     RestartInterruptsNothing, flash, nvs, boot, recorder, ui, flags, task, history, bounds
<1>13. ResultsTruthful'
  BY DEF Release, WorkerUnchanged, FlashType, RecordType, TaskType, FlashInv, WorkerInv,
     Installed, PendingInv, ResultsTruthful, ToldTruth, flash, nvs, boot, recorder, ui, flags,
     task, history, bounds
<1> QED
  BY <1>1, <1>2, <1>3, <1>4, <1>5, <1>6, <1>7, <1>8, <1>9, <1>10, <1>11, <1>12, <1>13

\* The pending version recorded is the one selected for the next boot.
LEMMA RecordPendingStep == IInv /\ RecordPending => IInv'
<1> SUFFICES ASSUME IInv, RecordPending PROVE IInv'
  OBVIOUS
<1> USE SlotFacts DEF IInv, OtaTypeOK
<1>1. FlashType'
  BY DEF RecordPending, WorkerUnchanged, FlashType, FlashInv, WorkerInv, Installed,
     ImageStates, flash, nvs, boot, recorder, ui, flags, task, history, bounds
<1>2. RecordType'
  BY DEF RecordPending, WorkerUnchanged, RecordType, FlashType, TaskType, WorkerInv,
     Installed, Results, flash, nvs, boot, recorder, ui, flags, task, history, bounds
<1>3. UiType'
  BY DEF RecordPending, WorkerUnchanged, UiType, TaskType, flash, nvs, boot, recorder, ui,
     flags, task, history, bounds
<1>4. TaskType'
  BY DEF RecordPending, WorkerUnchanged, TaskType, UiType, WorkerInv, FlashInv, flash, nvs,
     boot, recorder, ui, flags, task, history, bounds
<1>5. WorkerInv'
  BY DEF RecordPending, WorkerUnchanged, FlashType, TaskType, RecordType, UiType, WorkerInv,
     FlashInv, Installed, Slots, Other, flash, nvs, boot, recorder, ui, flags, task, history,
     bounds
<1>6. FlashInv'
  BY DEF RecordPending, WorkerUnchanged, FlashType, TaskType, RecordType, UiType, WorkerInv,
     FlashInv, Installed, Slots, Other, flash, nvs, boot, recorder, ui, flags, task, history,
     bounds
<1>7. FallbackKept'
  BY DEF RecordPending, WorkerUnchanged, FlashType, TaskType, RecordType, UiType, WorkerInv,
     FlashInv, FallbackKept, Installed, Slots, Other, flash, nvs, boot, recorder, ui, flags,
     task, history, bounds
<1>8. ConfirmedInv'
  BY DEF RecordPending, WorkerUnchanged, FlashType, TaskType, RecordType, UiType, WorkerInv,
     FlashInv, FallbackKept, ConfirmedInv, Installed, OnTrial, Slots, Other, flash, nvs, boot,
     recorder, ui, flags, task, history, bounds
<1>9. PendingInv'
  BY DEF RecordPending, WorkerUnchanged, FlashType, TaskType, RecordType, UiType, WorkerInv,
     FlashInv, PendingInv, Installed, OnTrial, UiFree, Slots, Other, flash, nvs, boot,
     recorder, ui, flags, task, history, bounds
<1>10. UiInv'
  BY DEF RecordPending, WorkerUnchanged, FlashType, TaskType, RecordType, UiType, WorkerInv,
     UiInv, Installed, UiFree, flash, nvs, boot, recorder, ui, flags, task, history, bounds
<1>11. StatusTruthful'
  BY DEF RecordPending, WorkerUnchanged, FlashType, TaskType, RecordType, UiType, WorkerInv,
     UiInv, StatusTruthful, Installed, flash, nvs, boot, recorder, ui, flags, task, history,
     bounds
<1>12. RestartInterruptsNothing'
  BY DEF RecordPending, WorkerUnchanged, FlashType, TaskType, RecordType, UiType, WorkerInv,
     UiInv, RestartInterruptsNothing, flash, nvs, boot, recorder, ui, flags, task, history,
     bounds
<1>13. ResultsTruthful'
  BY DEF RecordPending, WorkerUnchanged, FlashType, RecordType, TaskType, FlashInv, WorkerInv,
     Installed, PendingInv, ResultsTruthful, ToldTruth, flash, nvs, boot, recorder, ui, flags,
     task, history, bounds
<1> QED
  BY <1>1, <1>2, <1>3, <1>4, <1>5, <1>6, <1>7, <1>8, <1>9, <1>10, <1>11, <1>12, <1>13

\* A waiting worker takes the one notification of the click that woke it.
LEMMA WaitStep == IInv /\ Wait => IInv'
<1> SUFFICES ASSUME IInv, Wait PROVE IInv'
  OBVIOUS
<1> USE SlotFacts DEF IInv, OtaTypeOK
<1>1. FlashType'
  BY DEF Wait, WorkerUnchanged, FlashType, FlashInv, WorkerInv, Installed, ImageStates, flash,
     nvs, boot, recorder, ui, flags, task, history, bounds
<1>2. RecordType'
  BY DEF Wait, WorkerUnchanged, RecordType, FlashType, TaskType, WorkerInv, Installed,
     Results, flash, nvs, boot, recorder, ui, flags, task, history, bounds
<1>3. UiType'
  BY DEF Wait, WorkerUnchanged, UiType, TaskType, flash, nvs, boot, recorder, ui, flags, task,
     history, bounds
<1>4. TaskType'
  BY DEF Wait, WorkerUnchanged, TaskType, UiType, WorkerInv, FlashInv, flash, nvs, boot,
     recorder, ui, flags, task, history, bounds
<1>5. WorkerInv'
  BY DEF Wait, WorkerUnchanged, FlashType, TaskType, RecordType, UiType, WorkerInv, FlashInv,
     Installed, Slots, Other, flash, nvs, boot, recorder, ui, flags, task, history, bounds
<1>6. FlashInv'
  BY DEF Wait, WorkerUnchanged, FlashType, TaskType, RecordType, UiType, WorkerInv, FlashInv,
     Installed, Slots, Other, flash, nvs, boot, recorder, ui, flags, task, history, bounds
<1>7. FallbackKept'
  BY DEF Wait, WorkerUnchanged, FlashType, TaskType, RecordType, UiType, WorkerInv, FlashInv,
     FallbackKept, Installed, Slots, Other, flash, nvs, boot, recorder, ui, flags, task,
     history, bounds
<1>8. ConfirmedInv'
  BY DEF Wait, WorkerUnchanged, FlashType, TaskType, RecordType, UiType, WorkerInv, FlashInv,
     FallbackKept, ConfirmedInv, Installed, OnTrial, Slots, Other, flash, nvs, boot, recorder,
     ui, flags, task, history, bounds
<1>9. PendingInv'
  BY DEF Wait, WorkerUnchanged, FlashType, TaskType, RecordType, UiType, WorkerInv, FlashInv,
     PendingInv, Installed, OnTrial, UiFree, Slots, Other, flash, nvs, boot, recorder, ui,
     flags, task, history, bounds
<1>10. UiInv'
  BY DEF Wait, WorkerUnchanged, FlashType, TaskType, RecordType, UiType, WorkerInv, UiInv,
     Installed, UiFree, flash, nvs, boot, recorder, ui, flags, task, history, bounds
<1>11. StatusTruthful'
  BY DEF Wait, WorkerUnchanged, FlashType, TaskType, RecordType, UiType, WorkerInv, UiInv,
     StatusTruthful, Installed, flash, nvs, boot, recorder, ui, flags, task, history, bounds
<1>12. RestartInterruptsNothing'
  BY DEF Wait, WorkerUnchanged, FlashType, TaskType, RecordType, UiType, WorkerInv, UiInv,
     RestartInterruptsNothing, flash, nvs, boot, recorder, ui, flags, task, history, bounds
<1>13. ResultsTruthful'
  BY DEF Wait, WorkerUnchanged, FlashType, RecordType, TaskType, FlashInv, WorkerInv,
     Installed, PendingInv, ResultsTruthful, ToldTruth, flash, nvs, boot, recorder, ui, flags,
     task, history, bounds
<1> QED
  BY <1>1, <1>2, <1>3, <1>4, <1>5, <1>6, <1>7, <1>8, <1>9, <1>10, <1>11, <1>12, <1>13

\* What ota_load_result() may tell, given that a confirmed or an aborted image of
\* the pending version is in C or in R.
LEMMA LoadFacts ==
    ASSUME NEW slot \in Slots, NEW states, NEW ready \in BOOLEAN,
           NEW last \in Results \cup {NoResult}, NEW C, NEW R,
           RecordType, LoadResult(slot, states, ready, last),
           last # NoResult => (last.kind = "Installed" => last.version \in C)
                           /\ (last.kind = "Rolled back" => last.version \in R),
           resultKey # NoResult => (resultKey.kind = "Installed" => resultKey.version \in C)
                                /\ (resultKey.kind = "Rolled back" => resultKey.version \in R),
           image[slot] = pendingKey /\ states[slot] = "valid" => pendingKey \in C,
           \A s \in Slots : states[s] = "aborted" /\ image[s] = pendingKey
                              /\ image[slot] # pendingKey /\ pendingKey # NoVersion
                              => pendingKey \in R
    PROVE  /\ lastResult' \in Results \cup {NoResult} /\ saving' \in Results \cup {NoResult}
           /\ erasing' = FALSE
           /\ \A r \in {lastResult', saving'} \ {NoResult} :
                /\ r.kind = "Installed" => r.version \in C
                /\ r.kind = "Rolled back" => r.version \in R
<1> DEFINE verdict == Verdict(slot, states)
<1> DEFINE result == [kind |-> verdict, version |-> pendingKey]
<1>1. /\ verdict \in Kinds
      /\ verdict = "Installed" => image[slot] = pendingKey /\ states[slot] = "valid"
      /\ verdict = "Rolled back" =>
           image[slot] # pendingKey /\ \E s \in Slots : states[s] = "aborted" /\ image[s] = pendingKey
  BY DEF Verdict, MatchingVerdict, Kinds, FinalKinds
<1>2. CASE lastResult' = last /\ NothingToRecord
  BY <1>2 DEF NothingToRecord
<1>3. CASE /\ lastResult' = (IF resultKey = NoResult THEN last ELSE resultKey)
           /\ NothingToRecord
  BY <1>3 DEF NothingToRecord, RecordType
<1>4. CASE /\ pendingKey # NoVersion
           /\ IF result.kind \in FinalKinds THEN RecordResult(result)
              ELSE lastResult' = result /\ NothingToRecord
  <2>1. result \in Results /\ result.kind = verdict /\ result.version = pendingKey
    BY <1>1, <1>4 DEF Results, RecordType
  <2>2. /\ result.kind = "Installed" => result.version \in C
        /\ result.kind = "Rolled back" => result.version \in R
    BY <1>1, <1>4, <2>1
  <2>3. /\ lastResult' = result /\ saving' \in {result, NoResult} /\ erasing' = FALSE
    BY <1>4 DEF RecordResult, NothingToRecord
  <2> HIDE DEF result
  <2> QED
    BY <2>1, <2>2, <2>3
<1> QED
  BY <1>2, <1>3, <1>4 DEF LoadResult

\* The outcomes of validate_running_ota() while no update is in progress.
LEMMA ValidateFacts ==
    ASSUME IInv, UiFree, ~busy, NEW storage, Validate(storage), image' = image, running' = running
    PROVE  /\ otaState' = otaState \/ (/\ otaState[running] = "pending"
                                       /\ otaState' = [otaState EXCEPT ![running] = "valid"])
           /\ confirmed' = IF otaState' = otaState THEN confirmed
                                                   ELSE confirmed \cup {image[running]}
           /\ lastResult' \in Results \cup {NoResult} /\ saving' \in Results \cup {NoResult}
           /\ erasing' = FALSE /\ markFailed' \in BOOLEAN
           /\ \A r \in {lastResult', saving'} \ {NoResult} :
                /\ r.kind = "Installed" => r.version \in confirmed'
                /\ r.kind = "Rolled back" => r.version \in rolledBack
<1> USE DEF IInv, OtaTypeOK, FlashType
<1>1. /\ ~erasing /\ saving = NoResult
      /\ \A r \in {resultKey, lastResult} \ {NoResult} :
           /\ r.kind = "Installed" => r.version \in confirmed
           /\ r.kind = "Rolled back" => r.version \in rolledBack
  BY DEF UiFree, PendingInv, ResultsTruthful, ToldTruth
<1>2. ~Installed /\ bootSlot = running
  BY DEF Installed, WorkerInv, FlashInv, TaskType
<1>3. CASE /\ otaState[running] = "valid"
           /\ LoadResult(running, otaState, nvsReady, lastResult)
           /\ UNCHANGED <<otaState, confirmed, markFailed>>
  <2>1. image[running] = pendingKey => pendingKey \in confirmed
    BY <1>3 DEF ConfirmedInv
  <2>2. ASSUME NEW s \in Slots, otaState[s] = "aborted", image[s] = pendingKey,
               pendingKey # NoVersion
        PROVE  pendingKey \in rolledBack
    <3>1. /\ pendingKey \in Versions /\ pendingKey > image[running] /\ image[running] \in Versions
          /\ \A v \in confirmed : v <= image[running]
      BY <2>2 DEF ConfirmedInv, RecordType, FlashInv
    <3>2. pendingKey \notin confirmed
      <4>1. pendingKey \in Nat /\ image[running] \in Nat
        BY <3>1
      <4>2. ~(pendingKey <= image[running])
        BY <3>1, <4>1
      <4> QED
        BY <3>1, <4>2
    <3>3. ~OnTrial
      BY <1>2, <1>3 DEF OnTrial
    <3> QED
      BY <2>2, <3>2, <3>3 DEF PendingInv
  <2>3. /\ lastResult' \in Results \cup {NoResult} /\ saving' \in Results \cup {NoResult}
        /\ erasing' = FALSE
        /\ \A r \in {lastResult', saving'} \ {NoResult} :
             /\ r.kind = "Installed" => r.version \in confirmed
             /\ r.kind = "Rolled back" => r.version \in rolledBack
    <3>1. /\ running \in Slots /\ nvsReady \in BOOLEAN /\ lastResult \in Results \cup {NoResult}
          /\ LoadResult(running, otaState, nvsReady, lastResult)
      BY <1>3 DEF RecordType
    <3>2. /\ lastResult # NoResult => (lastResult.kind = "Installed" => lastResult.version \in confirmed)
                              /\ (lastResult.kind = "Rolled back" => lastResult.version \in rolledBack)
          /\ resultKey # NoResult => (resultKey.kind = "Installed" => resultKey.version \in confirmed)
                             /\ (resultKey.kind = "Rolled back" => resultKey.version \in rolledBack)
      BY <1>1
    <3>3. \A s \in Slots : otaState[s] = "aborted" /\ image[s] = pendingKey
                             /\ image[running] # pendingKey /\ pendingKey # NoVersion
                             => pendingKey \in rolledBack
      BY <2>2
    <3> HIDE DEF IInv, OtaTypeOK, FlashType
    <3>4. RecordType
      BY DEF IInv, OtaTypeOK
    <3>5. image[running] = pendingKey /\ otaState[running] = "valid" => pendingKey \in confirmed
      BY <2>1
    <3>6. lastResult # NoResult => (lastResult.kind = "Installed" => lastResult.version \in confirmed)
                              /\ (lastResult.kind = "Rolled back" => lastResult.version \in rolledBack)
      BY <3>2
    <3>7. resultKey # NoResult => (resultKey.kind = "Installed" => resultKey.version \in confirmed)
                             /\ (resultKey.kind = "Rolled back" => resultKey.version \in rolledBack)
      BY <3>2
    <3>8. running \in Slots
      BY <3>1
    <3>9. nvsReady \in BOOLEAN
      BY <3>1
    <3>10. lastResult \in Results \cup {NoResult}
      BY <3>1
    <3>11. LoadResult(running, otaState, nvsReady, lastResult)
      BY <3>1
    <3> QED
      BY LoadFacts, <3>3, <3>4, <3>5, <3>6, <3>7, <3>8, <3>9, <3>10, <3>11, ZenonT(90)
  <2> QED
    BY <1>3, <2>3 DEF RecordType
<1>4. CASE otaState[running] = "pending" /\ MarkValid
  <2>1. CASE /\ otaState' = [otaState EXCEPT ![running] = "valid"]
             /\ confirmed' = confirmed \cup {image[running]}
             /\ RecordResult([kind |-> "Installed", version |-> image[running]])
             /\ UNCHANGED markFailed
    <3> DEFINE result == [kind |-> "Installed", version |-> image[running]]
    <3>1. result \in Results /\ result.kind = "Installed" /\ result.version \in confirmed'
      BY <2>1 DEF Results, Kinds, FinalKinds, FlashInv
    <3>2. otaState' # otaState
      BY <1>4, <2>1
    <3>3. lastResult' = result /\ saving' = result /\ erasing' = FALSE
      BY <2>1 DEF RecordResult
    <3> HIDE DEF result
    <3> QED
      BY <1>4, <2>1, <3>1, <3>2, <3>3 DEF RecordType
  <2>2. CASE markFailed' = TRUE /\ UNCHANGED <<otaState, confirmed, recorder>>
    BY <1>1, <2>2 DEF recorder, RecordType
  <2> QED
    BY <1>4, <2>1, <2>2 DEF MarkValid
<1>5. CASE UNCHANGED <<otaState, confirmed, markFailed, recorder>>
  BY <1>1, <1>5 DEF recorder, RecordType
<1> QED
  BY <1>3, <1>4, <1>5 DEF Validate

\* What a step of the health check preserves, whoever runs it.
LEMMA ValidateStep ==
    ASSUME IInv, UiFree, ~busy, NEW storage, Validate(storage),
           storageReady' \in BOOLEAN, health' \in {"waiting", "retry", "deleted"},
           UNCHANGED <<image, bootSlot, nvs, boot, ui, flags, task, work, rolledBack, bounds>>
    PROVE  IInv'
<1> USE SlotFacts DEF IInv, OtaTypeOK
<1>1. /\ otaState' = otaState \/ (/\ otaState[running] = "pending"
                                  /\ otaState' = [otaState EXCEPT ![running] = "valid"])
      /\ confirmed' = IF otaState' = otaState THEN confirmed ELSE confirmed \cup {image[running]}
      /\ lastResult' \in Results \cup {NoResult} /\ saving' \in Results \cup {NoResult}
      /\ erasing' = FALSE /\ markFailed' \in BOOLEAN
      /\ \A r \in {lastResult', saving'} \ {NoResult} :
           /\ r.kind = "Installed" => r.version \in confirmed'
           /\ r.kind = "Rolled back" => r.version \in rolledBack
  BY ValidateFacts DEF boot
<1>2. /\ UNCHANGED <<image, bootSlot, pendingKey, resultKey, running, nvsReady, page, button, status>>
      /\ UNCHANGED <<busy, done, ok, worker, success, target, notified, work, rolledBack, runs, resets>>
  BY DEF nvs, boot, ui, flags, task, bounds
<1>3. ~Installed /\ bootSlot = running /\ worker # "download"
  BY DEF Installed, WorkerInv, FlashInv, TaskType
<1>4. /\ image[running] \in Versions /\ image[running] \in Nat
      /\ running \in Slots /\ Other(running) \in Slots /\ Other(running) # running
  BY DEF FlashInv, FlashType
<1>5. FlashType'
  BY <1>1, <1>2, <1>4 DEF FlashType, ImageStates
<1>6. RecordType' /\ UiType' /\ TaskType'
  <2>1. RecordType'
    BY <1>1, <1>2 DEF RecordType
  <2>2. UiType'
    BY <1>2 DEF UiType
  <2>3. TaskType'
    BY <1>2 DEF TaskType
  <2> QED
    BY <2>1, <2>2, <2>3
<1>7. WorkerInv' /\ UiInv' /\ StatusTruthful' /\ RestartInterruptsNothing'
  BY <1>2 DEF WorkerInv, UiInv, StatusTruthful, RestartInterruptsNothing, Installed
<1>8. /\ otaState'[running] \in {"untracked", "pending", "valid"}
      /\ \A s \in Slots : s # running => otaState'[s] = otaState[s]
      /\ otaState'[running] = "pending" => otaState' = otaState
  BY <1>1, <1>3, <1>4 DEF FlashType, FlashInv
<1>9. FlashInv' /\ FallbackKept'
  BY <1>2, <1>3, <1>4, <1>8 DEF FlashInv, FallbackKept, Installed
<1>10. ConfirmedInv'
  <2>1. CASE otaState' = otaState
    BY <1>1, <1>2, <2>1 DEF ConfirmedInv, OnTrial
  <2>2. CASE otaState' # otaState
    <3>1. /\ otaState'[running] = "valid" /\ confirmed' = confirmed \cup {image[running]}
          /\ otaState[running] = "pending"
      BY <1>1, <1>4, <2>2 DEF FlashType
    <3>2. \A s \in Slots : otaState'[s] = "aborted" => s # running /\ otaState[s] = "aborted"
      BY <1>8, <3>1
    <3>3. ~OnTrial'
      BY <1>2, <1>3, <3>1 DEF OnTrial
    <3>4. \A v \in confirmed' : v <= image[running]
      BY <1>4, <3>1 DEF ConfirmedInv
    <3> QED
      BY <1>2, <3>1, <3>2, <3>3, <3>4 DEF ConfirmedInv
  <2> QED
    BY <2>1, <2>2
<1>11. PendingInv'
  <2>1. CASE otaState' = otaState
    BY <1>1, <1>2, <2>1 DEF PendingInv, OnTrial
  <2>2. CASE otaState' # otaState
    BY <1>1, <1>2, <1>3, <2>2 DEF PendingInv, OnTrial
  <2> QED
    BY <2>1, <2>2
<1>12. ResultsTruthful'
  <2>1. confirmed \subseteq confirmed'
    BY <1>1
  <2> QED
    BY <1>1, <1>2, <2>1 DEF ResultsTruthful, ToldTruth
<1> QED
  BY <1>5, <1>6, <1>7, <1>9, <1>10, <1>11, <1>12

\* A step that changes only the health timer or the storage flag.
LEMMA QuietStep ==
    ASSUME IInv, storageReady' \in BOOLEAN, health' \in {"waiting", "retry", "deleted"},
           UNCHANGED <<flash, nvs, boot, recorder, markFailed, ui, flags, task, work, history, bounds>>
    PROVE  IInv'
<1> USE DEF IInv, OtaTypeOK, flash, nvs, boot, recorder, ui, flags, task, history, bounds
<1>1. FlashType'
  BY DEF FlashType
<1>2. RecordType'
  BY DEF RecordType
<1>3. UiType'
  BY DEF UiType
<1>4. TaskType'
  BY DEF TaskType
<1>5. WorkerInv' /\ FlashInv' /\ FallbackKept'
  BY DEF WorkerInv, FlashInv, FallbackKept, Installed
<1>6. ConfirmedInv' /\ PendingInv'
  BY DEF ConfirmedInv, PendingInv, OnTrial
<1>7. UiInv' /\ StatusTruthful' /\ RestartInterruptsNothing' /\ ResultsTruthful'
  BY DEF UiInv, StatusTruthful, RestartInterruptsNothing, ResultsTruthful, ToldTruth, Installed
<1> QED
  BY <1>1, <1>2, <1>3, <1>4, <1>5, <1>6, <1>7

\* The health timer retries under an update and validates otherwise.
LEMMA HealthTimerStep == IInv /\ HealthTimer => IInv'
<1> SUFFICES ASSUME IInv, HealthTimer PROVE IInv'
  OBVIOUS
<1>1. CASE ~busy
  BY <1>1, ValidateStep DEF HealthTimer, IInv, OtaTypeOK, RecordType
<1>2. CASE busy
  BY <1>2, QuietStep DEF HealthTimer, flash, history, IInv, OtaTypeOK, RecordType
<1> QED
  BY <1>1, <1>2 DEF IInv, OtaTypeOK, UiType

\* Formatting the storage may validate, after the health window.
LEMMA FormatClickedStep == IInv /\ FormatClicked => IInv'
<1> SUFFICES ASSUME IInv, FormatClicked PROVE IInv'
  OBVIOUS
<1>1. CASE storageReady' /\ health # "waiting"
  BY <1>1, ValidateStep DEF FormatClicked, IInv, OtaTypeOK, RecordType
<1>2. CASE ~(storageReady' /\ health # "waiting")
  BY <1>2, QuietStep DEF FormatClicked, flash, history, IInv, OtaTypeOK, RecordType
<1> QED
  BY <1>1, <1>2

\* The boot loader and app_main(): what the flash looks like afterwards.
LEMMA BootFlash ==
    ASSUME IInv, Boot
    PROVE  /\ image' = image /\ bootSlot' = BootedSlot /\ running' = BootedSlot
           /\ otaState' = BootedStates /\ BootedSlot \in Slots
           /\ \/ /\ otaState[bootSlot] = "new" /\ BootedSlot = bootSlot
                 /\ otaState' = [otaState EXCEPT ![bootSlot] = "pending"]
                 /\ rolledBack' = rolledBack
              \/ /\ otaState[bootSlot] = "pending" /\ BootedSlot = Other(bootSlot)
                 /\ otaState' = [otaState EXCEPT ![bootSlot] = "aborted"]
                 /\ rolledBack' = rolledBack \cup {image[bootSlot]}
              \/ /\ otaState[bootSlot] \in {"untracked", "valid"} /\ BootedSlot = bootSlot
                 /\ bootSlot = running
                 /\ otaState' = otaState /\ rolledBack' = rolledBack
<1> USE SlotFacts DEF IInv, OtaTypeOK
<1>1. otaState[bootSlot] \in {"untracked", "new", "pending", "valid"}
  BY DEF FlashInv, Installed
<1>2. otaState[bootSlot] # "new" => bootSlot = running
  BY DEF FlashInv
<1>3. CASE otaState[bootSlot] = "new"
  BY <1>3 DEF Boot, BootedSlot, BootedStates, FlashType
<1>4. CASE otaState[bootSlot] = "pending"
  BY <1>4 DEF Boot, BootedSlot, BootedStates, FlashType
<1>5. CASE otaState[bootSlot] \in {"untracked", "valid"}
  BY <1>2, <1>5 DEF Boot, BootedSlot, BootedStates, FlashType
<1> QED
  BY <1>1, <1>3, <1>4, <1>5

\* The images, the states and the confirmed versions after a boot.
LEMMA BootInv ==
    ASSUME IInv, Boot
    PROVE  FlashType' /\ FlashInv' /\ FallbackKept' /\ ConfirmedInv'
<1> DEFINE old == Other(bootSlot)
<1> USE SlotFacts DEF IInv, OtaTypeOK
<1>1. /\ image' = image /\ bootSlot' = BootedSlot /\ running' = BootedSlot
      /\ BootedSlot \in Slots /\ confirmed' = confirmed /\ worker' = "none" /\ success' = FALSE
  BY BootFlash DEF Boot
<1>2. \A s \in Slots : s = bootSlot \/ s = old
  BY DEF Slots, Other, FlashType
<1>3. /\ bootSlot \in Slots /\ old \in Slots /\ old # bootSlot /\ Other(old) = bootSlot
      /\ otaState \in [Slots -> ImageStates] /\ image \in [Slots -> Versions \cup {NoVersion}]
  BY DEF FlashType
<1>4. ~Installed'
  BY <1>1 DEF Installed
<1>5. CASE /\ otaState[bootSlot] = "new" /\ BootedSlot = bootSlot
           /\ otaState' = [otaState EXCEPT ![bootSlot] = "pending"]
           /\ rolledBack' = rolledBack
  <2>1. /\ otaState'[bootSlot] = "pending" /\ otaState'[old] = otaState[old]
        /\ otaState' \in [Slots -> ImageStates]
    BY <1>3, <1>5 DEF ImageStates
  <2>2. /\ image[old] # NoVersion /\ otaState[old] \in {"untracked", "valid"}
        /\ image[bootSlot] \in Versions
        /\ otaState[old] = "valid" => image[old] \in confirmed
        /\ \A v \in confirmed : v < image[bootSlot] /\ v <= image[old]
        /\ image[old] < image[bootSlot]
    BY <1>5 DEF FallbackKept, ConfirmedInv, OnTrial, FlashInv, WorkerInv
  <2>3. \A v \in confirmed : v <= image[bootSlot]
    <3>1. image[bootSlot] \in Nat /\ confirmed \subseteq Nat
      BY <2>2 DEF FlashType
    <3>2. \A a, b \in Nat : a < b => a <= b
      OBVIOUS
    <3> QED
      BY <2>2, <3>1, <3>2
  <2>4. FlashType' /\ FlashInv' /\ FallbackKept'
    BY <1>1, <1>3, <1>4, <1>5, <2>1, <2>2 DEF FlashType, FlashInv, FallbackKept
  <2>5. ConfirmedInv'
    BY <1>1, <1>2, <1>3, <1>5, <2>1, <2>2, <2>3 DEF ConfirmedInv, OnTrial
  <2> QED
    BY <2>4, <2>5
<1>6. CASE /\ otaState[bootSlot] = "pending" /\ BootedSlot = old
           /\ otaState' = [otaState EXCEPT ![bootSlot] = "aborted"]
           /\ rolledBack' = rolledBack \cup {image[bootSlot]}
  <2>1. /\ otaState'[bootSlot] = "aborted" /\ otaState'[old] = otaState[old]
        /\ otaState' \in [Slots -> ImageStates]
    BY <1>3, <1>6 DEF ImageStates
  <2>2. /\ image[old] # NoVersion /\ otaState[old] \in {"untracked", "valid"}
        /\ image[bootSlot] \in Versions
        /\ otaState[old] = "valid" => image[old] \in confirmed
        /\ \A v \in confirmed : v < image[bootSlot] /\ v <= image[old]
        /\ image[old] < image[bootSlot]
    BY <1>6 DEF FallbackKept, ConfirmedInv, OnTrial, FlashInv
  <2>3. image[old] \in Versions /\ image[old] \in Nat /\ image[bootSlot] \in Nat
    BY <1>3, <2>2
  <2>4. FlashType' /\ FlashInv' /\ FallbackKept'
    BY <1>1, <1>3, <1>4, <1>6, <2>1, <2>2, <2>3 DEF FlashType, FlashInv, FallbackKept
  <2>5. ConfirmedInv'
    BY <1>1, <1>2, <1>3, <1>6, <2>1, <2>2, <2>3 DEF ConfirmedInv, OnTrial
  <2> QED
    BY <2>4, <2>5
<1>7. CASE /\ otaState[bootSlot] \in {"untracked", "valid"} /\ BootedSlot = bootSlot
           /\ bootSlot = running
           /\ otaState' = otaState /\ rolledBack' = rolledBack
  BY <1>1, <1>3, <1>4, <1>7 DEF FlashType, FlashInv, FallbackKept, ConfirmedInv, OnTrial, Installed
<1> QED
  BY BootFlash, <1>5, <1>6, <1>7

\* The result that app_main() loads is true of the flash it boots from.
LEMMA BootResult ==
    ASSUME IInv, Boot
    PROVE  RecordType' /\ PendingInv' /\ ResultsTruthful'
<1> USE SlotFacts DEF IInv, OtaTypeOK
<1>1. /\ image' = image /\ bootSlot' = BootedSlot /\ running' = BootedSlot
      /\ otaState' = BootedStates /\ BootedSlot \in Slots
      /\ confirmed' = confirmed /\ rolledBack \subseteq rolledBack'
      /\ pendingKey' = pendingKey /\ resultKey' = resultKey /\ busy' = FALSE
      /\ nvsReady' \in BOOLEAN /\ storageReady' \in BOOLEAN
      /\ health' = "waiting" /\ markFailed' = FALSE
      /\ LoadResult(BootedSlot, BootedStates, nvsReady', NoResult)
  BY BootFlash DEF Boot, nvs
<1>2. FlashType' /\ FlashInv' /\ FallbackKept' /\ ConfirmedInv'
  BY BootInv
<1>3. pendingKey = NoVersion \/ pendingKey \in confirmed \cup rolledBack'
        \/ (OnTrial' /\ pendingKey = image[BootedSlot])
  <2>1. CASE OnTrial /\ pendingKey = image[bootSlot]
    BY BootFlash, <1>1, <2>1 DEF OnTrial, FlashType
  <2>2. CASE pendingKey = NoVersion \/ pendingKey \in confirmed \cup rolledBack
    BY <1>1, <2>2
  <2> QED
    BY <2>1, <2>2 DEF PendingInv
<1>4. image[BootedSlot] = pendingKey /\ BootedStates[BootedSlot] = "valid" => pendingKey \in confirmed
  BY <1>1, <1>2 DEF ConfirmedInv
<1>5. ASSUME NEW s \in Slots, BootedStates[s] = "aborted", image[s] = pendingKey,
             image[BootedSlot] # pendingKey, pendingKey # NoVersion
      PROVE  pendingKey \in rolledBack'
  <2>1. pendingKey \in Versions /\ pendingKey > image[BootedSlot] /\ image[BootedSlot] \in Versions
    BY <1>1, <1>2, <1>5 DEF ConfirmedInv, FlashInv, RecordType
  <2>2. \A v \in confirmed : v <= image[BootedSlot]
    BY <1>1, <1>2 DEF ConfirmedInv
  <2>3. pendingKey \in Nat /\ image[BootedSlot] \in Nat
    BY <2>1
  <2>4. ~(pendingKey <= image[BootedSlot])
    BY <2>1, <2>3
  <2> QED
    BY <1>3, <1>5, <2>2, <2>4
<1>6. resultKey # NoResult => (resultKey.kind = "Installed" => resultKey.version \in confirmed)
                           /\ (resultKey.kind = "Rolled back" => resultKey.version \in rolledBack')
  BY <1>1 DEF ResultsTruthful, ToldTruth
<1>7. /\ lastResult' \in Results \cup {NoResult} /\ saving' \in Results \cup {NoResult}
      /\ erasing' = FALSE
      /\ \A r \in {lastResult', saving'} \ {NoResult} :
           /\ r.kind = "Installed" => r.version \in confirmed
           /\ r.kind = "Rolled back" => r.version \in rolledBack'
  <2>1. \A s \in Slots : BootedStates[s] = "aborted" /\ image[s] = pendingKey
                           /\ image[BootedSlot] # pendingKey /\ pendingKey # NoVersion
                           => pendingKey \in rolledBack'
    BY <1>5
  <2>2. RecordType /\ nvsReady' \in BOOLEAN /\ BootedSlot \in Slots
        /\ LoadResult(BootedSlot, BootedStates, nvsReady', NoResult)
    BY <1>1
  <2> HIDE DEF IInv, OtaTypeOK
  <2> QED
    BY LoadFacts, <1>4, <1>6, <2>1, <2>2
<1>8. RecordType'
  BY <1>1, <1>7 DEF RecordType
<1>9. PendingInv'
  BY <1>1, <1>3, <1>7 DEF PendingInv
<1>10. ResultsTruthful'
  BY <1>1, <1>6, <1>7 DEF ResultsTruthful, ToldTruth
<1> QED
  BY <1>8, <1>9, <1>10

\* Boot loader and app_main() together keep the invariant.
LEMMA BootStep == IInv /\ Boot /\ resets' \in 0..MaxResets => IInv'
<1> SUFFICES ASSUME IInv, Boot, resets' \in 0..MaxResets PROVE IInv'
  OBVIOUS
<1>1. FlashType' /\ FlashInv' /\ FallbackKept' /\ ConfirmedInv'
  BY BootInv
<1>2. RecordType' /\ PendingInv' /\ ResultsTruthful'
  BY BootResult
<1>3. /\ page' = "other" /\ button' = FALSE /\ status' = "none"
      /\ busy' = FALSE /\ done' = FALSE /\ ok' = FALSE
      /\ worker' = "none" /\ success' = FALSE /\ target' = NoVersion /\ notified' = 0
      /\ work' \in BOOLEAN /\ runs' = runs
  BY DEF Boot
<1>4. UiType' /\ TaskType'
  <2>1. UiType'
    BY <1>3 DEF UiType
  <2>2. runs \in 0..MaxRuns /\ 0 \in 0..1
    BY DEF TaskType, IInv, OtaTypeOK
  <2>3. TaskType'
    BY <1>3, <2>2 DEF TaskType
  <2> QED
    BY <2>1, <2>3
<1>5. WorkerInv' /\ UiInv' /\ StatusTruthful' /\ RestartInterruptsNothing'
  BY <1>3 DEF WorkerInv, UiInv, StatusTruthful, RestartInterruptsNothing, Installed
<1> QED
  BY <1>1, <1>2, <1>4, <1>5 DEF IInv, OtaTypeOK

\* A reset at any point keeps the invariant.
LEMMA ResetStep == IInv /\ Reset => IInv'
BY BootStep DEF Reset, IInv, OtaTypeOK, TaskType

\* The restart into the new image keeps the invariant.
LEMMA RestartStep == IInv /\ Restart => IInv'
BY BootStep DEF Restart, IInv, OtaTypeOK, TaskType

\* A step of something else keeps the invariant.
LEMMA StutterStep == IInv /\ UNCHANGED vars => IInv'
BY QuietStep DEF vars, IInv, OtaTypeOK, RecordType

\* Every step keeps the invariant.
LEMMA NextStep == IInv /\ [Next]_vars => IInv'
<1> SUFFICES ASSUME IInv, [Next]_vars PROVE IInv'
  OBVIOUS
<1>1. CASE SaveResult \/ ErasePending
  BY <1>1, SaveResultStep, ErasePendingStep
<1>2. CASE HealthTimer \/ FormatClicked
  BY <1>2, HealthTimerStep, FormatClickedStep
<1>3. CASE OpenSystem \/ HomeClicked \/ StartWork \/ WorkEnds
  BY <1>3, OpenSystemStep, HomeClickedStep, StartWorkStep, WorkEndsStep
<1>4. CASE StartUpdate \/ UpdateRefused \/ CreateFails \/ Tick
  BY <1>4, StartUpdateStep, UpdateRefusedStep, CreateFailsStep, TickStep
<1>5. CASE WorkerStep
  BY <1>5, FetchStep, BeginStep, InstallStep, SetOkStep, SetDoneStep, ReleaseStep,
     RecordPendingStep, WaitStep DEF WorkerStep
<1>6. CASE Reset \/ Restart
  BY <1>6, ResetStep, RestartStep
<1>7. CASE UNCHANGED vars
  BY <1>7, StutterStep
<1> QED
  BY <1>1, <1>2, <1>3, <1>4, <1>5, <1>6, <1>7 DEF Next

\* The inductive invariant holds in every reachable state.
THEOREM AlwaysIInv == Spec => []IInv
BY InitIInv, NextStep, PTL DEF Spec

\* Every variable keeps its type, for every set of versions and every bound.
THEOREM OtaTypeCorrect == Spec => []OtaTypeOK
BY AlwaysIInv, PTL DEF IInv

\* The device can always fall back: an image on trial never costs the image that
\* installed it, however updates, failures and resets are interleaved.
THEOREM FallbackIsKept == Spec => []FallbackKept
BY AlwaysIInv, PTL DEF IInv

\* The updater never tells the user, or records for later, an installation that
\* was not confirmed or a roll-back that did not happen.
THEOREM ResultsAreTruthful == Spec => []ResultsTruthful
BY AlwaysIInv, PTL DEF IInv

\* The page and the worker agree on who owns the updater, and no ride, capture or transfer
\* is cut off by its restart.
THEOREM UpdaterIsOwned == Spec => []UpdaterOwned
BY AlwaysIInv, PTL DEF IInv, UpdaterOwned

\* A record of an update is not resolved, nor overwritten with nothing, while the
\* updater is busy: ota_record_result() erases it only when no update runs.
THEOREM PendingIsKept == Spec => PendingSurvivesUpdate
<1>1. IInv /\ [Next]_vars => [busy /\ pendingKey # NoVersion => pendingKey' # NoVersion]_vars
  <2> SUFFICES ASSUME IInv, Next, busy, pendingKey # NoVersion PROVE pendingKey' # NoVersion
    OBVIOUS
  <2>1. CASE ErasePending
    BY <2>1 DEF ErasePending, IInv, PendingInv
  <2>2. CASE RecordPending
    <3>1. target \in Versions
      BY <2>2 DEF RecordPending, IInv, WorkerInv, Installed
    <3> QED
      BY <2>2, <3>1, OtaConstants DEF RecordPending
  <2>3. CASE SaveResult \/ HealthTimer \/ FormatClicked \/ OpenSystem \/ HomeClicked
             \/ StartWork \/ WorkEnds \/ StartUpdate \/ UpdateRefused \/ CreateFails \/ Tick
    BY <2>3 DEF SaveResult, HealthTimer, FormatClicked, OpenSystem, HomeClicked, LeavePage,
       StartWork, WorkEnds, StartUpdate, UpdateRefused, CreateFails, Tick, ShowCompletion, nvs
  <2>4. CASE Fetch \/ Begin \/ Install \/ SetOk \/ SetDone \/ Release \/ Wait
    BY <2>4 DEF Fetch, Begin, Install, SetOk, SetDone, Release, Wait, nvs
  <2>5. CASE Reset \/ Restart
    BY <2>5 DEF Reset, Restart, Boot, nvs
  <2> QED
    BY <2>1, <2>2, <2>3, <2>4, <2>5 DEF Next, WorkerStep
<1> QED
  BY <1>1, AlwaysIInv, PTL DEF Spec, PendingSurvivesUpdate
=============================================================================
