------------------------------- MODULE BleExplorer -------------------------------
(***************************************************************************)
(* The BLE GATT explorer (main/ble_tool.c): the LVGL callbacks of the page *)
(* and the callbacks of the NimBLE host task share their state under       *)
(* tool_lock, and call the stack outside it.  A connection is a number, 0  *)
(* is none; a characteristic is the order it was found in.  Every          *)
(* characteristic can be read, written and subscribed to; every service    *)
(* has at most one.                                                        *)
(*                                                                         *)
(* Names, UUIDs, the bounds of the lists, the status line and the evidence *)
(* file, which goes to the SD card in one callback, are left out.          *)
(***************************************************************************)
EXTENDS Naturals, FiniteSets

CONSTANTS
    Services,   \* services a peer has
    Values,     \* what can be typed into the write field
    MaxLinks    \* bound: connections made

ASSUME BleAssumption == Services \in Nat \ {0} /\ MaxLinks \in Nat \ {0} /\ IsFiniteSet(Values) /\ Values # {}

VARIABLES
    screen, scanRequested, listed, selectedDevice,  \* a device is listed, and selected
    connecting, connected, stopping, conn,
    discovering, cursor, found, selected,
    operationBusy, received,    \* last_value_*: the connection it came from, or 0
    text, writeArmed, fresh,         \* the write field, the armed write, within 5 s
    sub, subTarget, subEnable   \* subscribed_value_handle, subscription_*
VARIABLES
    attempt,    \* the stack: a connection attempt, and what is asked of it
    link,       \* what became of each connection
    procs,      \* GATT procedures in progress
    lv, host    \* a callback between the lock and the call it makes
VARIABLES   \* for the properties
    cccd,       \* the characteristic whose notifications the peer has enabled
    refused,    \* a discovery of characteristics could not be started
    forgot      \* Home dropped "stopping" while a connection was still up

flags == <<connecting, connected, stopping, conn>>
gatt == <<discovering, cursor, found>>
writing == <<text, writeArmed, fresh>>
subs == <<sub, subTarget, subEnable>>
ghosts == <<cccd, refused, forgot>>
bleVars == <<screen, scanRequested, listed, selectedDevice, flags, gatt, selected, operationBusy, received,
             writing, subs, attempt, link, procs, lv, host, ghosts>>

NoWrite == [chr |-> 0, val |-> CHOOSE v \in Values : TRUE, link |-> 0]
Free == [op |-> "none", link |-> 0, chr |-> 0]
Links == 1..MaxLinks
Made == {h \in Links : link[h] # "new"}
IsUp(h) == h # 0 /\ link[h] \in {"up", "ending"}

BleInit ==
    /\ screen = FALSE /\ scanRequested = FALSE /\ listed = FALSE /\ selectedDevice = FALSE
    /\ connecting = FALSE /\ connected = FALSE /\ stopping = FALSE /\ conn = 0
    /\ discovering = FALSE /\ cursor = 0 /\ found = 0 /\ selected = 0
    /\ operationBusy = FALSE /\ received = 0
    /\ text = NoWrite.val /\ writeArmed = NoWrite /\ fresh = FALSE
    /\ sub = 0 /\ subTarget = 0 /\ subEnable = FALSE
    /\ attempt = "none" /\ link = [h \in Links |-> "new"] /\ procs = {}
    /\ lv = Free /\ host = Free
    /\ cccd = 0 /\ refused = FALSE /\ forgot = FALSE

--------------------------------------------------------------------------------
(* The host task.                                                          *)

\* connection_is_active()
Active(h) == connected /\ conn = h

\* Faulty reset for mutation: the value outlives its connection.
ResetKeepingValue ==
    /\ cursor' = 0 /\ found' = 0 /\ selected' = 0 /\ UNCHANGED received
    /\ writeArmed' = NoWrite /\ fresh' = FALSE /\ operationBusy' = FALSE
    /\ sub' = 0 /\ subTarget' = 0 /\ subEnable' = FALSE

\* reset_connection_data_locked()
ResetConnectionData ==
    /\ cursor' = 0 /\ found' = 0 /\ selected' = 0 /\ received' = 0
    /\ writeArmed' = NoWrite /\ fresh' = FALSE /\ operationBusy' = FALSE
    /\ sub' = 0 /\ subTarget' = 0 /\ subEnable' = FALSE

\* generic_gap_event(), BLE_GAP_EVENT_CONNECT: is the connection wanted still?
Keep == screen /\ ~stopping

\* A connection that is not kept is being stopped from here on.
Rejects(kept) == ~kept

GapConnectFailed ==
    /\ attempt # "none" /\ host = Free
    /\ attempt' = "none"
    /\ connecting' = FALSE /\ connected' = FALSE /\ stopping' = FALSE /\ conn' = 0
    /\ UNCHANGED <<screen, scanRequested, listed, selectedDevice, gatt, selected, operationBusy, received,
                   writing, subs, link, procs, lv, host, ghosts>>

\* The attempt may succeed although it was just cancelled.
GapConnected ==
    /\ attempt # "none" /\ host = Free
    /\ \E h \in Links \ Made :
         /\ \A g \in Links \ Made : h <= g
         /\ attempt' = "none" /\ link' = [link EXCEPT ![h] = "up"]
         /\ connecting' = FALSE /\ connected' = Keep /\ stopping' = Rejects(Keep) /\ conn' = h
         /\ host' = [Free EXCEPT !.op = IF Keep THEN "discover" ELSE "terminate", !.link = h]
    /\ ResetConnectionData
    /\ UNCHANGED <<screen, scanRequested, listed, selectedDevice, discovering, text, procs, lv, ghosts>>

HostOnly == UNCHANGED <<screen, scanRequested, listed, selectedDevice, flags, selected, text, attempt, lv>>
Unarmed == UNCHANGED <<writeArmed, fresh, received, subs>>

\* ble_gap_terminate(): accepted, or refused.
Terminate(h) == link' \in {link, [link EXCEPT ![h] = IF @ = "up" THEN "ending" ELSE @]}

GapRejects ==
    /\ host.op = "terminate" /\ host' = Free
    /\ Terminate(host.link)
    /\ HostOnly /\ Unarmed /\ UNCHANGED <<gatt, operationBusy, procs, ghosts>>

GapDiscovers ==
    /\ host.op = "discover" /\ host' = Free
    /\ \/ /\ discovering' = TRUE
          /\ procs' = procs \cup {[op |-> "services", link |-> host.link, chr |-> 0]}
       \/ discovering' = FALSE /\ UNCHANGED procs
    /\ HostOnly /\ Unarmed /\ UNCHANGED <<cursor, found, operationBusy, link, ghosts>>

\* BLE_GAP_EVENT_DISCONNECT, after the stack has ended the procedures of the connection:
\* it does not ask which connection ended.
GapDisconnected ==
    /\ host = Free
    /\ \E h \in Made :
         /\ IsUp(h) /\ link' = [link EXCEPT ![h] = "gone"]
         /\ procs' = {p \in procs : p.link # h}
         /\ cccd' = IF h = conn THEN 0 ELSE cccd
    /\ connecting' = FALSE /\ connected' = FALSE /\ stopping' = FALSE /\ conn' = 0
    /\ discovering' = FALSE
    /\ ResetConnectionData
    /\ UNCHANGED <<screen, scanRequested, listed, selectedDevice, text, attempt, lv, host, refused, forgot>>

\* BLE_GAP_EVENT_NOTIFY_RX with store_value().
GapNotified ==
    /\ host = Free /\ Active(conn) /\ IsUp(conn) /\ cccd # 0
    /\ received' = conn
    /\ HostOnly /\ UNCHANGED <<gatt, operationBusy, writeArmed, fresh, subs, link, procs, host, ghosts>>

\* start_next_characteristic_discovery(), which also ends the operation in progress when
\* the stack refuses.
StartNext(h, next, left) ==
    /\ cursor' = next
    /\ IF next >= Services
       THEN discovering' = FALSE /\ procs' = left /\ UNCHANGED <<operationBusy, refused>>
       ELSE \/ /\ procs' = left \cup {[op |-> "characteristics", link |-> h, chr |-> 0]}
               /\ UNCHANGED <<discovering, operationBusy, refused>>
            \/ /\ discovering' = FALSE /\ operationBusy' = FALSE /\ procs' = left
               /\ refused' = TRUE

\* service_found(), characteristic_found(): the procedure ends well or badly.
DiscoveryEnds ==
    \E p \in procs :
      /\ host = Free /\ p.op \in {"services", "characteristics"} /\ Active(p.link)
      /\ \/ StartNext(p.link, IF p.op = "services" THEN 0 ELSE cursor + 1, procs \ {p})
         \/ /\ discovering' = FALSE /\ procs' = procs \ {p}
            /\ UNCHANGED <<cursor, operationBusy, refused>>
      /\ HostOnly /\ Unarmed /\ UNCHANGED <<found, link, host, cccd, forgot>>

CharacteristicFound ==
    \E p \in procs :
      /\ host = Free /\ p.op = "characteristics" /\ Active(p.link)
      /\ found <= cursor /\ found' = found + 1
      /\ HostOnly /\ Unarmed
      /\ UNCHANGED <<discovering, cursor, operationBusy, link, procs, host, ghosts>>

Ends(p) == host = Free /\ Active(p.link) /\ operationBusy' = FALSE /\ procs' = procs \ {p}

\* read_done(), write_done()
BleReadDone ==
    \E p \in procs :
      /\ p.op = "read" /\ Ends(p) /\ received' \in {0, p.link}
      /\ HostOnly /\ UNCHANGED <<gatt, writeArmed, fresh, subs, link, host, ghosts>>
BleWriteDone ==
    \E p \in procs :
      /\ p.op = "write" /\ Ends(p)
      /\ HostOnly /\ Unarmed /\ UNCHANGED <<gatt, link, host, ghosts>>

\* descriptor_found(): no descriptor, or the subscription is written to it.
DescriptorsDone ==
    \E p \in procs :
      /\ p.op = "descriptors"
      /\ \/ Ends(p)
         \/ /\ host = Free /\ Active(p.link) /\ UNCHANGED operationBusy
            /\ procs' = (procs \ {p}) \cup {[p EXCEPT !.op = "enable"]}
      /\ HostOnly /\ Unarmed /\ UNCHANGED <<gatt, link, host, ghosts>>

\* subscription_written(): the target is the one remembered when the tap was taken.
SubscriptionWritten ==
    \E p \in procs :
      /\ p.op \in {"enable", "disable"} /\ Ends(p)
      /\ \/ /\ cccd' = IF p.op = "enable" THEN p.chr ELSE 0
            /\ sub' = IF subEnable THEN subTarget ELSE 0
         \/ UNCHANGED <<cccd, sub>>
      /\ HostOnly
      /\ UNCHANGED <<gatt, writeArmed, fresh, received, subTarget, subEnable, link, host, refused, forgot>>

BleHost ==
    \/ GapConnectFailed \/ GapConnected \/ GapRejects \/ GapDiscovers \/ GapDisconnected
    \/ GapNotified \/ DiscoveryEnds \/ CharacteristicFound \/ BleReadDone \/ BleWriteDone
    \/ DescriptorsDone \/ SubscriptionWritten

--------------------------------------------------------------------------------
(* The page.                                                               *)

Page == screen /\ lv = Free
StackOnly == UNCHANGED <<attempt, link, procs, host>>

\* scan_clicked(): a scan that starts empties the list.
BleScan ==
    /\ Page
    /\ scanRequested' = (~scanRequested /\ ~connecting /\ ~connected /\ ~stopping)
    /\ listed' = (listed /\ ~scanRequested') /\ selectedDevice' = (selectedDevice /\ ~scanRequested')
    /\ StackOnly
    /\ UNCHANGED <<screen, flags, gatt, selected, operationBusy, received, writing, subs, lv, ghosts>>

\* ble_tool_observe_advertisement(), from the scanner: reports may still come after the
\* scan was called off, and are dropped then.
BleAdvertised ==
    /\ screen /\ scanRequested /\ ~connecting /\ ~connected /\ ~stopping /\ host = Free
    /\ listed' = TRUE /\ StackOnly
    /\ UNCHANGED <<screen, scanRequested, selectedDevice, flags, gatt, selected, operationBusy,
                   received, writing, subs, lv, ghosts>>

\* device_clicked()
BleDevice ==
    /\ Page /\ listed /\ selectedDevice' = TRUE /\ StackOnly
    /\ UNCHANGED <<screen, scanRequested, listed, flags, gatt, selected, operationBusy, received,
                   writing, subs, lv, ghosts>>

\* connect_clicked(): the flag under the lock, then the stack, which may refuse.
BleConnect ==
    /\ Page /\ selectedDevice /\ ~connecting /\ ~connected /\ ~stopping
    /\ scanRequested' = FALSE /\ connecting' = TRUE
    /\ lv' = [Free EXCEPT !.op = "connect"]
    /\ StackOnly
    /\ UNCHANGED <<screen, listed, selectedDevice, connected, stopping, conn, gatt, selected, operationBusy,
                   received, writing, subs, ghosts>>
BleConnectCall ==
    /\ lv.op = "connect" /\ lv' = Free
    /\ \/ attempt = "none" /\ Made # Links /\ attempt' = "pending" /\ UNCHANGED connecting
       \/ connecting' = FALSE /\ UNCHANGED attempt
    /\ UNCHANGED <<screen, scanRequested, listed, selectedDevice, connected, stopping, conn, gatt, selected,
                   operationBusy, received, writing, subs, link, procs, host, ghosts>>

\* disconnect_clicked()
BleDisconnect ==
    /\ Page /\ connected /\ ~stopping
    /\ stopping' = TRUE /\ lv' = [Free EXCEPT !.op = "terminate", !.link = conn]
    /\ StackOnly
    /\ UNCHANGED <<screen, scanRequested, listed, selectedDevice, connecting, connected, conn, gatt, selected,
                   operationBusy, received, writing, subs, ghosts>>
BleTerminateCall ==
    /\ lv.op = "terminate" /\ lv' = Free /\ Terminate(lv.link)
    /\ UNCHANGED <<screen, scanRequested, listed, selectedDevice, flags, gatt, selected, operationBusy,
                   received, writing, subs, attempt, procs, host, ghosts>>

\* characteristic_clicked(), characteristics_back_clicked(), copy_value_clicked(), and
\* tick() once the confirmation has expired: a pending write is disarmed.
BleSelect ==
    /\ Page /\ connected /\ selected' \in 0..found
    /\ writeArmed' = NoWrite /\ fresh' = FALSE /\ StackOnly
    /\ UNCHANGED <<screen, scanRequested, listed, selectedDevice, flags, gatt, operationBusy, received, text,
                   subs, lv, ghosts>>

\* selected_characteristic_snapshot(): what the callback works with, whatever happens to
\* the connection afterwards.
Snapshot == connected /\ ~stopping /\ selected \in 1..found
BleTap ==
    /\ Page /\ Snapshot
    /\ \E op \in {"read", "write", "subscribe"} : lv' = [op |-> op, link |-> conn, chr |-> selected]
    /\ StackOnly
    /\ UNCHANGED <<screen, scanRequested, listed, selectedDevice, flags, gatt, selected, operationBusy,
                   received, writing, subs, ghosts>>

Begin == ~operationBusy /\ operationBusy' = TRUE
TapOnly ==
    /\ StackOnly
    /\ UNCHANGED <<screen, scanRequested, listed, selectedDevice, flags, gatt, selected, text, ghosts>>

\* The second critical section of read_clicked(), subscribe_clicked(), write_clicked().
BleRefusedTap ==
    /\ lv.op \in {"read", "subscribe"} /\ lv' = Free
    /\ \/ operationBusy
       \/ lv.op = "subscribe" /\ sub \notin {0, lv.chr}
    /\ TapOnly /\ UNCHANGED <<operationBusy, received, writeArmed, fresh, subs>>
BleReadTap ==
    /\ lv.op = "read" /\ Begin /\ lv' = [lv EXCEPT !.op = "call read"]
    /\ writeArmed' = NoWrite /\ fresh' = FALSE /\ received' = 0
    /\ TapOnly /\ UNCHANGED subs
BleSubscribeTap ==
    /\ lv.op = "subscribe" /\ sub \in {0, lv.chr} /\ Begin
    /\ lv' = [lv EXCEPT !.op = IF sub = lv.chr THEN "call disable" ELSE "call descriptors"]
    /\ subEnable' = (sub # lv.chr)
    /\ subTarget' = IF sub = lv.chr THEN subTarget ELSE lv.chr
    /\ TapOnly /\ UNCHANGED <<received, writeArmed, fresh, sub>>

Confirmed == writeArmed.chr = lv.chr /\ writeArmed.val = text /\ fresh
BleArm ==
    /\ lv.op = "write" /\ ~Confirmed /\ lv' = Free
    /\ writeArmed' = [chr |-> lv.chr, val |-> text, link |-> lv.link] /\ fresh' = TRUE
    /\ TapOnly /\ UNCHANGED <<operationBusy, received, subs>>
BleWriteTap ==
    /\ lv.op = "write" /\ Confirmed
    /\ IF operationBusy THEN lv' = Free /\ UNCHANGED <<operationBusy, received, writeArmed, fresh>>
       ELSE /\ Begin /\ lv' = [lv EXCEPT !.op = "call write"]
            /\ received' = 0 /\ writeArmed' = NoWrite /\ fresh' = FALSE
    /\ TapOnly /\ UNCHANGED subs

\* The call: the stack takes it while the connection is up, or refuses; a write without
\* response has no answer.
Calls == [read |-> "call read", write |-> "call write", disable |-> "call disable",
          descriptors |-> "call descriptors"]
BleCall ==
    \E op \in DOMAIN Calls :
      /\ lv.op = Calls[op] /\ lv' = Free
      /\ \/ /\ IsUp(lv.link) /\ UNCHANGED operationBusy
            /\ procs' = procs \cup {[op |-> op, link |-> lv.link, chr |-> lv.chr]}
         \/ operationBusy' = FALSE /\ UNCHANGED procs
      /\ UNCHANGED <<screen, scanRequested, listed, selectedDevice, flags, gatt, selected, received, writing,
                     subs, attempt, link, host, ghosts>>

\* Typing, and five seconds.
BleType ==
    /\ Page /\ selected # 0 /\ text' \in Values \ {text} /\ StackOnly
    /\ UNCHANGED <<screen, scanRequested, listed, selectedDevice, flags, gatt, selected, operationBusy,
                   received, writeArmed, fresh, subs, lv, ghosts>>
BleExpire ==
    /\ fresh /\ fresh' = FALSE /\ StackOnly
    /\ UNCHANGED <<screen, scanRequested, listed, selectedDevice, flags, gatt, selected, operationBusy,
                   received, text, writeArmed, subs, lv, ghosts>>

\* ble_tool_show(), ble_tool_stop().
BleShow ==
    /\ ~screen /\ lv = Free
    /\ screen' = TRUE /\ scanRequested' = FALSE /\ listed' = FALSE /\ selectedDevice' = FALSE
    /\ writeArmed' = NoWrite /\ fresh' = FALSE /\ StackOnly
    /\ UNCHANGED <<flags, gatt, selected, operationBusy, received, text, subs, lv, ghosts>>
BleHome ==
    /\ Page
    /\ screen' = FALSE /\ scanRequested' = FALSE /\ writeArmed' = NoWrite /\ fresh' = FALSE
    /\ stopping' = (connecting \/ connected)
    /\ attempt' = IF connecting /\ attempt = "pending" THEN "cancelled" ELSE attempt
    /\ lv' = IF ~connecting /\ connected THEN [Free EXCEPT !.op = "terminate", !.link = conn] ELSE Free
    /\ forgot' = (forgot \/ (stopping /\ ~stopping'))
    /\ UNCHANGED <<listed, selectedDevice, connecting, connected, conn, gatt, selected, operationBusy,
                   received, text, subs, link, procs, host, cccd, refused>>

BlePage ==
    \/ BleScan \/ BleAdvertised \/ BleDevice \/ BleConnect \/ BleConnectCall \/ BleDisconnect \/ BleTerminateCall
    \/ BleSelect \/ BleTap \/ BleRefusedTap \/ BleReadTap \/ BleSubscribeTap \/ BleArm \/ BleWriteTap
    \/ BleCall \/ BleType \/ BleExpire \/ BleShow \/ BleHome

BleNext == BleHost \/ BlePage

BleSpec == BleInit /\ [][BleNext]_bleVars

--------------------------------------------------------------------------------
BleTypes ==
    /\ screen \in BOOLEAN /\ scanRequested \in BOOLEAN /\ listed \in BOOLEAN /\ selectedDevice \in BOOLEAN
    /\ connecting \in BOOLEAN /\ connected \in BOOLEAN /\ stopping \in BOOLEAN /\ discovering \in BOOLEAN
    /\ operationBusy \in BOOLEAN /\ fresh \in BOOLEAN /\ subEnable \in BOOLEAN
    /\ refused \in BOOLEAN /\ forgot \in BOOLEAN
    /\ conn \in 0..MaxLinks /\ received \in 0..MaxLinks
    /\ cursor \in 0..Services /\ found \in 0..Services /\ selected \in 0..Services
    /\ sub \in 0..Services /\ subTarget \in 0..Services /\ cccd \in 0..Services
    /\ writeArmed \in [chr : 0..Services, val : Values, link : 0..MaxLinks] /\ text \in Values

\* docs/architecture.md:72: a restart is refused while a BLE session is active, and what it
\* asks is ble_tool_busy(): it stays busy as long as a connection is up or being made.
BleBusy == connecting \/ connected \/ stopping \/ operationBusy
BusyWhileLinked == (attempt # "none" \/ \E h \in Made : IsUp(h)) => BleBusy

\* That fails in one way only: Home leaves the page a second time while a connection that
\* was not wanted any more is still being ended.
BusyUnlessForgotten ==
    ~forgot => /\ BusyWhileLinked
               /\ connected => IsUp(conn)
               /\ Cardinality({h \in Made : IsUp(h)}) <= 1

\* One operation of the user at a time, and the page knows what the peer notifies of, as
\* long as no discovery is refused meanwhile.
Operations == {p \in procs : p.op \in {"read", "write", "descriptors", "enable", "disable"}}
OneOperation ==
    ~refused /\ ~forgot =>
                /\ Cardinality(Operations) <= 1
                /\ Operations # {} => operationBusy
                /\ connected => sub = cccd

\* docs/privacy.md:23: the value on show came from the connection that is up, and is gone
\* with it; and a write that the next tap confirms was armed on the connection it goes to.
\* Once Home has forgotten a link, only the first holds: a third connection may fail, or
\* be made, while the second is in use.
OfThisPeer ==
    /\ connected /\ received # 0 => received = conn
    /\ ~forgot => /\ received # 0 => connected
                  /\ lv.op = "write" /\ Confirmed => writeArmed.link = lv.link

\* The explorer as a whole: types, busy while it is linked, one operation at a
\* time, and values and armed writes of the peer that is connected.
BleInv == BleTypes /\ BusyUnlessForgotten /\ OneOperation /\ OfThisPeer

(* What BleInv rests on.                                                   *)

CallOps == {"call read", "call write", "call disable", "call descriptors"}
TapOps == {"read", "write", "subscribe"}
OperationOps == {"read", "write", "descriptors", "enable", "disable"}
DiscoveryOps == {"services", "characteristics"}
BleSteps ==
    /\ attempt \in {"none", "pending", "cancelled"}
    /\ link \in [Links -> {"new", "up", "ending", "gone"}]
    /\ procs \subseteq [op : OperationOps \cup DiscoveryOps, link : Links, chr : 0..Services]
    /\ lv \in [op : {"none", "connect", "terminate"} \cup TapOps \cup CallOps, link : 0..MaxLinks, chr : 0..Services]
    /\ host \in [op : {"none", "discover", "terminate"}, link : 0..MaxLinks, chr : {0}]

\* Whatever is under way is on a link that is up, and each link is discovered once, by
\* one procedure at a time, which stops at the last service.
ProcsOnLinks ==
    /\ \A p \in procs : IsUp(p.link)
    /\ host.op # "none" => IsUp(host.link)
    /\ lv.op \notin {"none", "connect"} => lv.link \in Made
    /\ connected => conn \in Made
    /\ \A p, q \in procs : p.link = q.link /\ {p.op, q.op} \subseteq DiscoveryOps => p = q
    /\ host.op = "discover" => \A p \in procs : p.op \in DiscoveryOps => p.link # host.link
    /\ \A p \in procs : p.op = "characteristics" /\ Active(p.link) => cursor < Services

\* As long as Home has forgotten none there is one link at most, the one the flags are
\* about, and no connection is being made beside it.
OneLink ==
    ~forgot =>
        /\ \A h \in Links : IsUp(h) => h = conn /\ ~connecting /\ (connected \/ stopping)
        /\ connected => IsUp(conn)
        /\ attempt # "none" => connecting
        /\ connecting => ~connected
        /\ lv.op = "connect" => connecting /\ attempt = "none"
        /\ ~connected => cccd = 0

\* A callback between its lock and its call is about the connection in use, or about
\* one that has ended, and no other comes up meanwhile.
LvOfThisLink ==
    ~forgot =>
        /\ lv.op \notin {"none", "connect"} => ~connecting /\ (connected => lv.link = conn)
        /\ lv.op = "write" /\ fresh => writeArmed.link = lv.link
        /\ fresh /\ connected => writeArmed.link = conn

\* The operation in progress, or about to be, is the one the page has set up.
OperationAgrees ==
    ~refused /\ ~forgot =>
        /\ \A p, q \in Operations : p = q
        /\ Operations # {} => operationBusy
        /\ connected => sub = cccd
        /\ lv.op \in CallOps => Operations = {}
        /\ lv.op \in CallOps /\ IsUp(lv.link) => operationBusy
        /\ \A p \in Operations :
             /\ p.op \in {"descriptors", "enable"} => subEnable /\ subTarget = p.chr
             /\ p.op = "disable" => ~subEnable
        /\ IsUp(lv.link) =>
             /\ lv.op = "call descriptors" => subEnable /\ subTarget = lv.chr
             /\ lv.op = "call disable" => ~subEnable

BleIInv == BleInv /\ BleSteps /\ ProcsOnLinks /\ OneLink /\ LvOfThisLink /\ OperationAgrees
=================================================================================
