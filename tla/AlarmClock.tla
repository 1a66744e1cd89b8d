----------------------------- MODULE AlarmClock -----------------------------
(* Alarms, snooze, the alarm's sound task, and the screen saver with the   *)
(* backlight (main.c).  The LVGL task runs clock_tick and screensaver_tick *)
(* once a second and the buttons; alarm_sound_task plays the tone and owns *)
(* the speaker until alarm_active is cleared.  An update is only its flags *)
(* (ota_busy, ota_done) here, and a voice recording a reason to be silent. *)
(*                                                                         *)
(* Time is counted in minutes, with a day of MinutesPerDay: within each    *)
(* minute the tick runs at least once, for it runs every second.  How long *)
(* nobody has touched the screen is one of four levels.  The backlight's   *)
(* PWM and the amplifier's switch may refuse a setting.                    *)
EXTENDS Integers

CONSTANTS
  Alarms,          \* the alarms' numbers: 0 .. ALARM_COUNT - 1
  MinutesPerDay,
  SnoozeMinutes,   \* 9
  MaxMinutes, MaxEdits,   \* bounds on the runs
  MaxRefusals      \* bound: refusals of the backlight and the amplifier

ASSUME AlarmAssumption ==
  /\ Alarms \subseteq Nat /\ MinutesPerDay \in Nat \ {0}
  /\ SnoozeMinutes \in Nat \ {0}
  /\ {MaxMinutes, MaxEdits, MaxRefusals} \subseteq Nat

VARIABLES
  now,           \* minutes gone by
  ticked,        \* clock_tick has run in this minute
  alarms,        \* each alarm: [minute, enabled]
  lastDay,       \* alarm_last_day
  ringing,       \* [active, index]: alarm_active and alarm_active_index
  snooze,        \* [until, index]: until is 0 without a snooze
  soundHandle,   \* alarm_sound_task_handle is set
  sound,         \* where the sound task is
  speaker,       \* the amplifier: "off", "on", or "stuck": it refused to go off
  update,        \* "none", "busy" (ota_busy), "done" (ota_done)
  panel,         \* display_power_state
  saver,         \* the screen saver is up
  idle,          \* 0: touched within a second ... 3: screen timeout over
  rung,          \* alarms that rang on this day, as they are set now
  passedOver,    \* alarms whose minute came while another alarm rang
  visual,        \* this alarm has a reason to be silent
  edits, refusals

alarmVars == <<now, ticked, alarms, lastDay, ringing, snooze, soundHandle, sound, speaker,
               update, panel, saver, idle, rung, passedOver, visual,
               edits, refusals>>
settings == <<alarms, lastDay, edits>>
voice == <<soundHandle, sound, speaker>>
backlight == <<panel, saver, idle, refusals>>
told == <<rung, passedOver>>

Day(time) == time \div MinutesPerDay
MinuteOf(time) == time % MinutesPerDay
AlarmQuiet == [active |-> FALSE, index |-> 0]
NoSnooze == [until |-> 0, index |-> 0]

AlarmInit ==
  /\ now = 0 /\ ticked = FALSE
  /\ alarms \in [Alarms -> [minute : 0..MinutesPerDay - 1, enabled : BOOLEAN]]
  /\ lastDay = [i \in Alarms |-> -1]
  /\ ringing = AlarmQuiet /\ snooze = NoSnooze
  /\ soundHandle = FALSE /\ sound = "none" /\ speaker = "off"
  /\ update = "none"
  /\ panel = "awake" /\ saver = FALSE /\ idle = 0
  /\ rung = {} /\ passedOver = {} /\ visual = FALSE
  /\ edits = 0 /\ refusals = 0

-----------------------------------------------------------------------------
(* The backlight and the screen saver.                                     *)

\* display_set_power_state: the state is the one the backlight took.
SetPower(state, ok) ==
  /\ ok \/ refusals < MaxRefusals
  /\ panel' = IF ok THEN state ELSE panel
  /\ refusals' = IF ok THEN refusals ELSE refusals + 1

\* screensaver_close: the saver stays while the screen cannot be lit.
ScreensaverClose ==
  \E ok \in BOOLEAN :
    /\ SetPower("awake", ok)
    /\ saver' = (saver /\ ~ok)

Inhibited == ringing.active \/ update # "none"

\* Mutant: an alarm only keeps the screen from going dark.
TickInhibitedIdly ==
  /\ Inhibited
  /\ UNCHANGED backlight

TickInhibited ==
  /\ Inhibited
  /\ saver \/ panel # "awake"
  /\ idle' = 0
  /\ ScreensaverClose

TickSaver ==
  /\ ~Inhibited /\ saver
  /\ \/ idle = 0 /\ ScreensaverClose
     \/ idle = 3 /\ panel # "off"
        /\ \E ok \in BOOLEAN : SetPower("off", ok)
        /\ UNCHANGED saver
     \/ idle \in 1..2 /\ panel # "dimmed"
        /\ \E ok \in BOOLEAN : SetPower("dimmed", ok)
        /\ UNCHANGED saver
  /\ UNCHANGED idle

\* screensaver_show: the saver is up whether or not the backlight dims.
TickShows ==
  /\ ~Inhibited /\ ~saver
  /\ idle >= 2
  /\ saver' = TRUE
  /\ \E ok \in BOOLEAN : SetPower("dimmed", ok)
  /\ UNCHANGED idle

ScreensaverTick ==
  /\ TickInhibited \/ TickSaver \/ TickShows
  /\ UNCHANGED <<now, ticked, settings, ringing, snooze, voice, update,
                 told, visual>>

\* A touch of the saver wakes the screen; without it, it reaches a page,
\* where brightness and timeout settings also light the screen.
Touched ==
  /\ idle' = 0
  /\ ScreensaverClose
  /\ UNCHANGED <<now, ticked, settings, ringing, snooze, voice, update,
                 told, visual>>

\* Nobody touches the screen.
Idles ==
  /\ idle < 3
  /\ idle' = idle + 1
  /\ UNCHANGED <<now, ticked, settings, ringing, snooze, voice, update,
                 panel, saver, refusals, told, visual>>

-----------------------------------------------------------------------------
(* The alarms.                                                             *)

\* alarm_trigger: an alarm that finds another one ringing does nothing.  A
\* sound task is created when there is none, which may fail.
AlarmTrigger(i) ==
  IF ringing.active THEN UNCHANGED <<ringing, backlight, voice, rung, visual>>
  ELSE /\ idle' = 0
       /\ ScreensaverClose
       /\ ringing' = [active |-> TRUE, index |-> i]
       /\ \/ soundHandle /\ UNCHANGED voice /\ visual' = (sound \in {"closing", "ending"})
          \/ /\ ~soundHandle /\ UNCHANGED speaker /\ visual' = FALSE
             /\ soundHandle' = TRUE /\ sound' = "start"
          \/ ~soundHandle /\ UNCHANGED voice /\ visual' = TRUE
       /\ rung' = rung \cup {i}

Due(i) ==
  /\ alarms[i].enabled
  /\ alarms[i].minute = MinuteOf(now)
  /\ lastDay[i] # Day(now)

FirstDue(i) == Due(i) /\ \A j \in Alarms : Due(j) => i <= j

\* alarm_check, in clock_tick.
Waits == update = "busy"

SnoozeOver ==
  /\ ~Waits /\ ~ringing.active
  /\ snooze.until # 0 /\ now >= snooze.until
  /\ snooze' = NoSnooze
  /\ AlarmTrigger(snooze.index)
  /\ UNCHANGED <<lastDay, passedOver>>

DayRecorded ==
  /\ ~Waits
  /\ ~(~ringing.active /\ snooze.until # 0 /\ now >= snooze.until)
  /\ \E i \in Alarms :
       /\ FirstDue(i)
       /\ lastDay' = [lastDay EXCEPT ![i] = Day(now)]
       /\ AlarmTrigger(i)
       /\ passedOver' = IF ringing.active THEN passedOver \cup {i} ELSE passedOver
  /\ UNCHANGED snooze

NothingDue ==
  /\ Waits \/ /\ ~(~ringing.active /\ snooze.until # 0 /\ now >= snooze.until)
              /\ \A i \in Alarms : ~Due(i)
  /\ UNCHANGED <<snooze, lastDay, passedOver, ringing, backlight, voice, rung, visual>>

ClockTick ==
  /\ SnoozeOver \/ DayRecorded \/ NothingDue
  /\ ticked' = (~Waits /\ ringing' = ringing /\ snooze' = snooze /\ lastDay' = lastDay)
  /\ UNCHANGED <<now, alarms, edits, update>>

\* The next minute comes after a tick; a new day forgets what rang.
MinutePasses ==
  /\ now < MaxMinutes
  /\ ticked \/ Waits \/ ringing.active
  /\ now' = now + 1
  /\ ticked' = FALSE
  /\ IF Day(now + 1) # Day(now) THEN rung' = {} /\ passedOver' = {} ELSE UNCHANGED told
  /\ UNCHANGED <<settings, ringing, snooze, voice, update, backlight, visual>>

AlarmDismissed ==
  /\ ringing.active
  /\ ringing' = AlarmQuiet
  /\ idle' = 0 /\ UNCHANGED <<panel, saver, refusals>>
  /\ ticked' = FALSE
  /\ UNCHANGED <<now, settings, snooze, voice, update, told, visual>>

AlarmSnoozed ==
  /\ ringing.active
  /\ snooze' = [until |-> now + SnoozeMinutes, index |-> ringing.index]
  /\ ringing' = AlarmQuiet
  /\ idle' = 0 /\ UNCHANGED <<panel, saver, refusals>>
  /\ ticked' = FALSE
  /\ UNCHANGED <<now, settings, voice, update, told, visual>>

\* Mutant: a changed alarm counts as having rung, if the old one had.
EditKeepingDay(i) ==
  /\ alarms' \in {[alarms EXCEPT ![i].minute = (@ + 1) % MinutesPerDay],
                  [alarms EXCEPT ![i].enabled = ~@]}
  /\ UNCHANGED lastDay

\* alarm_edit_clicked: a changed alarm may ring again today.
EditAlarm(i) ==
  /\ alarms' \in {[alarms EXCEPT ![i].minute = (@ + 1) % MinutesPerDay],
                  [alarms EXCEPT ![i].enabled = ~@]}
  /\ lastDay' = [lastDay EXCEPT ![i] = -1]

AlarmEdited ==
  /\ ~ringing.active /\ ~saver
  /\ edits < MaxEdits /\ edits' = edits + 1
  /\ \E i \in Alarms :
       /\ EditAlarm(i)
       /\ rung' = rung \ {i} /\ passedOver' = passedOver \ {i}
  /\ ticked' = FALSE
  /\ idle' = 0 /\ UNCHANGED <<panel, saver, refusals>>
  /\ UNCHANGED <<now, ringing, snooze, voice, update, visual>>

-----------------------------------------------------------------------------
(* alarm_sound_task.                                                       *)

\* A recording keeps the codec, or the speaker cannot be set up.
SoundRefused ==
  /\ sound = "start"
  /\ sound' = "ending"
  /\ visual' = TRUE
  /\ UNCHANGED speaker

\* The codec or the amplifier may fail, the amplifier after it has switched.
SoundSetUp ==
  /\ sound = "start"
  /\ \/ speaker' = "on" /\ sound' = "tone" /\ UNCHANGED visual
     \/ speaker' \in {speaker, "on"} /\ sound' = "closing" /\ visual' = TRUE

ToneEnds ==
  /\ sound = "tone" /\ ~ringing.active
  /\ sound' = "closing"
  /\ UNCHANGED <<speaker, visual>>

\* An amplifier that refuses to go off is only logged; the next alarm's task is the
\* next to switch it.
SpeakerClosed ==
  /\ sound = "closing"
  /\ \/ speaker' = "off" /\ UNCHANGED refusals
     \/ /\ speaker # "off" /\ speaker' = "stuck"
        /\ refusals < MaxRefusals /\ refusals' = refusals + 1
  /\ sound' = "ending"
  /\ UNCHANGED visual

SoundEnds ==
  /\ sound = "ending"
  /\ sound' = "none"
  /\ soundHandle' = FALSE
  /\ UNCHANGED <<speaker, visual>>

SoundTask ==
  /\ \/ (SoundRefused \/ SoundSetUp \/ ToneEnds) /\ UNCHANGED <<soundHandle, refusals>>
     \/ SpeakerClosed /\ UNCHANGED soundHandle
     \/ SoundEnds /\ UNCHANGED refusals
  /\ UNCHANGED <<now, ticked, settings, ringing, snooze, update, panel, saver, idle, told>>

-----------------------------------------------------------------------------
(* The flags of the update.                                                *)

\* ota_clicked lights the screen; an alarm that rings blocks it.
UpdateMoves ==
  /\ \/ update = "none" /\ ~ringing.active /\ ~saver /\ update' = "busy"
     \/ update = "busy" /\ update' = "done"
     \/ update = "done" /\ update' = "none"
  /\ ticked' = FALSE
  /\ UNCHANGED <<now, settings, ringing, snooze, voice, backlight, told, visual>>

AlarmNext ==
  \/ ClockTick \/ MinutePasses
  \/ AlarmDismissed \/ AlarmSnoozed \/ AlarmEdited
  \/ SoundTask
  \/ ScreensaverTick \/ Touched \/ Idles
  \/ UpdateMoves

AlarmSpec == AlarmInit /\ [][AlarmNext]_alarmVars /\ WF_alarmVars(ScreensaverTick)
                       /\ WF_alarmVars(SoundTask)

-----------------------------------------------------------------------------

\* The variables stay in their domains.
AlarmTypes ==
  /\ now \in 0..MaxMinutes /\ ticked \in BOOLEAN
  /\ alarms \in [Alarms -> [minute : 0..MinutesPerDay - 1, enabled : BOOLEAN]]
  /\ lastDay \in [Alarms -> -1..Day(MaxMinutes)]
  /\ ringing.active \in BOOLEAN
  /\ snooze.until \in 0..MaxMinutes + SnoozeMinutes
  /\ soundHandle \in BOOLEAN /\ speaker \in {"off", "on", "stuck"}
  /\ update \in {"none", "busy", "done"}
  /\ panel \in {"awake", "dimmed", "off"} /\ saver \in BOOLEAN /\ idle \in 0..3

\* Once a tick has found nothing more to do and no alarm rings, every enabled
\* alarm set for this minute has rung today, unless the tick that recorded
\* its day found another alarm ringing (alarm_check records the day before
\* alarm_trigger returns).  An alarm moved to a later minute rings again.
DueAlarmRings ==
  ticked /\ ~ringing.active =>
    \A i \in Alarms :
      alarms[i].enabled /\ alarms[i].minute = MinuteOf(now) => i \in rung \cup passedOver

\* A ringing alarm has its sound task, but for a task that cannot be created,
\* a codec that is in use or refuses, and for an alarm that starts while the
\* task of the last one is past its loop and about to clear its handle.
AlarmIsHeard == ringing.active /\ sound = "none" => visual

\* A screen that is dimmed or off has the saver over it, whose touch lights
\* it again, whatever the backlight refuses (screensaver_close keeps the
\* saver until it is lit).
DarkUnderSaver == panel # "awake" => saver

\* The alarm's promises that hold in every state.
AlarmInv == AlarmTypes /\ DueAlarmRings /\ AlarmIsHeard /\ DarkUnderSaver

\* A ringing alarm does not stay on a dark screen, though the backlight may
\* refuse at first; and without a ringing alarm the task of the last one
\* does not stay, nor the amplifier on, unless its switch refused to go off.
AlarmShows ==
  /\ []<>(~ringing.active \/ panel = "awake")
  /\ []<>(ringing.active \/ (~soundHandle /\ speaker # "on"))
=============================================================================
