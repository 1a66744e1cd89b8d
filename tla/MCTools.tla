-------------------------------- MODULE MCTools --------------------------------
(***************************************************************************)
(* The parts whose tasks have to come to an end, on small instances: the   *)
(* one-shot network tools, the Ender 3 console, and the alarms with their  *)
(* sound task and the screen saver.  They share no state, so one run       *)
(* checks them side by side: the first state chooses the tool.             *)
(***************************************************************************)
EXTENDS UdpConsole, WakeOnLan, ModbusTcp, NtpSession, EnderPrinter, AlarmClock

VARIABLE tool
others == <<enderVars, alarmVars>>
toolVars == <<vars, burst, others, tool>>

\* Two enabled alarms, in the same minute or one after the other; an edit changes them.
AtMidnight == [i \in Alarms |-> [minute |-> 0, enabled |-> TRUE]]
SomeAlarms == {AtMidnight, [AtMidnight EXCEPT ![1].minute = 1]}

ToolInit ==
    /\ NtpInit /\ EnderInit /\ AlarmInit
    /\ tool \in {"udp", "wol", "modbus", "ntp", "ender", "alarms"}
    /\ tool # "ender" => ~plugged
    /\ tool \in {"ender", "alarms"} => form = CHOOSE r \in Forms \ {NoRequest} : TRUE
    /\ alarms \in SomeAlarms
    /\ tool # "alarms" => alarms = AtMidnight
ToolNext ==
    /\ UNCHANGED tool
    /\ \/ tool = "udp" /\ UdpNext /\ UNCHANGED <<burst, others>>
       \/ tool = "wol" /\ WolNext /\ UNCHANGED <<burst, others>>
       \/ tool = "modbus" /\ ModbusNext /\ UNCHANGED <<burst, others>>
       \/ tool = "ntp" /\ NtpNext /\ UNCHANGED others
       \/ tool = "ender" /\ EnderNext /\ UNCHANGED <<vars, burst, alarmVars>>
       \/ tool = "alarms" /\ AlarmNext /\ UNCHANGED <<vars, burst, enderVars>>

\* The task of the tool runs, and its deadline passes.
ToolTask ==
    /\ UNCHANGED <<tool, others>>
    /\ \/ tool = "udp" /\ UdpWorker /\ UNCHANGED burst
       \/ tool = "wol" /\ WolWorker /\ UNCHANGED burst
       \/ tool = "modbus" /\ ModbusWorker /\ UNCHANGED burst
       \/ tool = "ntp" /\ NtpWorker
ToolExpire == tool \notin {"ender", "alarms"} /\ Expire /\ UNCHANGED <<burst, others, tool>>

ToolSpec ==
    /\ ToolInit /\ [][ToolNext]_toolVars
    /\ WF_toolVars(ToolTask) /\ WF_toolVars(ToolExpire)
    /\ WF_enderVars(tool = "ender" /\ ConnTask)
    /\ WF_alarmVars(tool = "alarms" /\ ScreensaverTick) /\ WF_alarmVars(tool = "alarms" /\ SoundTask)

\* What each tool reports of a job that has ended is true, whatever was cancelled, lost or
\* late on the way.
ReportsHonest ==
    /\ tool = "udp" => UdpHonest
    /\ tool = "wol" => WolHonest
    /\ tool = "modbus" => ModbusHonest
    /\ tool = "ntp" => NtpHonest

\* Nothing is sent that was not confirmed as it is, within the window, although forms
\* change and the tick wraps; the connection test and NTP need no confirmation.
SentIfConfirmed ==
    [][~busy /\ busy' /\ tool # "ntp" /\ published'.request # Probe
         => Confirmed(published'.request)]_toolVars

\* Every tool implements the abstract job: one request at a time, every request that was
\* taken ends, and the result on record is that of the request it names.
ImplementsToolJob == Promise!Spec

================================================================================
