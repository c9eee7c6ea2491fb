----------------------------- MODULE AutoUpdate -----------------------------
(***************************************************************************)
(* Automatic updates (internal/update/updater.go) and the Control Room's   *)
(* requests that share their state (internal/console/overview.go): the     *)
(* settings on disk with their version and wake-up token, the loop that    *)
(* waits for the next check and for the maintenance window, and the one    *)
(* run of an update that may be in progress, of either origin.  What a run *)
(* does to disk and binary is module Lifetime.                             *)
(***************************************************************************)
EXTENDS Naturals

CONSTANTS
    Saver,      \* requests that save the settings
    MaxSaves    \* bound on settings versions

ASSUME AutoUpdateAssumption == MaxSaves \in Nat

VARIABLES
    prefs,      \* settings on disk: switched on, and the maintenance window
    version,    \* settingsVersion
    wake,       \* the token in settingsChanged
    saver,      \* each save: where it is and what it will write
    loop,       \* where RunAuto is
    seen,       \* the version its snapshot saw
    open,       \* the clock is inside the operator's window
    atTimer,    \* history: the switch when the last timer fired
    runner,     \* who holds the update mutex
    stage,      \* how far that run is
    starting,   \* updateStarting of the Control Room
    shown       \* the update state the Control Room shows

settings == <<prefs, version, wake, saver>>
waiting  == <<loop, seen, open, atTimer>>
updating == <<runner, stage, starting, shown>>
autoVars == <<settings, waiting, updating>>

Windows == {"always", "night"}
Busy == {"checking", "downloading", "restarting"}
Waits == {"parked", "wait", "window"}

NoSave == [at |-> "idle", on |-> FALSE, window |-> "always"]
Inside == prefs.window = "always" \/ open
SavesDone == \A s \in Saver : saver[s].at = "idle"
SwitchedOff == ~prefs.on /\ SavesDone

-----------------------------------------------------------------------------
\* saveUpdateSettings and SetAutoUpdate: read what is not being set, without the lock.
SaveReads(s) ==
    /\ saver[s].at = "idle"
    /\ \E on \in BOOLEAN, w \in Windows \cup {prefs.window} :
          saver' = [saver EXCEPT ![s] = [at |-> "read", on |-> on, window |-> w]]
    /\ UNCHANGED <<prefs, version, wake, waiting, updating>>

\* SetSettings under settingsMu; a write that fails answers at once.
SaveWrites(s) ==
    /\ saver[s].at = "read"
    /\ LET new == [on |-> saver[s].on, window |-> saver[s].window] IN
          \/ /\ new # prefs /\ version < MaxSaves
             /\ prefs' = new /\ version' = version + 1
             /\ saver' = [saver EXCEPT ![s] = [NoSave EXCEPT !.at = "written"]]
          \/ /\ saver' = [saver EXCEPT ![s] = NoSave]
             /\ UNCHANGED <<prefs, version>>
    /\ UNCHANGED <<wake, waiting, updating>>

\* The version has changed: leave a token, unless one is there.
SaveWakes(s) ==
    /\ saver[s].at = "written"
    /\ wake' = TRUE
    /\ saver' = [saver EXCEPT ![s] = NoSave]
    /\ UNCHANGED <<prefs, version, waiting, updating>>

-----------------------------------------------------------------------------
Goes(p) == loop' = p

\* OnConnected starts the loop once in the life of the process.
LoopStarts ==
    /\ loop = "off" /\ Goes("top")
    /\ UNCHANGED <<settings, seen, open, atTimer, updating>>

\* One snapshot: wait for the next check, or for the settings to change.
LoopTop ==
    /\ loop = "top"
    /\ seen' = version
    /\ Goes(IF prefs.on THEN "wait" ELSE "parked")
    /\ UNCHANGED <<settings, open, atTimer, updating>>

\* Deviation: a token is not told from a stale one, and does not end a wait for a timer.
LoopKeepsTimer ==
    /\ loop \in Waits /\ wake
    /\ wake' = FALSE
    /\ Goes(IF loop = "parked" THEN "top" ELSE loop)
    /\ UNCHANGED <<prefs, version, saver, seen, open, atTimer, updating>>

\* waitForAutoCheck and waitForSettingsChange: a token older than the snapshot is dropped.
LoopWakes ==
    /\ loop \in Waits /\ wake
    /\ wake' = FALSE
    /\ Goes(IF version # seen THEN "top" ELSE loop)
    /\ UNCHANGED <<prefs, version, saver, seen, open, atTimer, updating>>

CheckTimer ==
    /\ loop = "wait" /\ Goes("recheck")
    /\ atTimer' = IF SwitchedOff THEN "off" ELSE "on"
    /\ UNCHANGED <<settings, seen, open, updating>>

\* Deviation: the settings are not read again after the wait.
LoopTrustsTimer ==
    /\ loop = "recheck"
    /\ Goes(IF Inside THEN "run" ELSE "window")
    /\ UNCHANGED <<settings, seen, open, atTimer, updating>>

\* After the timer the snapshot is taken again, and the window looked at.
LoopRechecks ==
    /\ loop = "recheck"
    /\ Goes(IF ~prefs.on \/ version # seen THEN "top" ELSE IF Inside THEN "run" ELSE "window")
    /\ UNCHANGED <<settings, seen, open, atTimer, updating>>

\* The window opens, by its timer; nothing is read again.  The timer may tie with a wake-up
\* that is in the channel: the select chooses either.
WindowTimer ==
    /\ loop = "window" /\ Goes("run")
    /\ atTimer' = IF ~SwitchedOff THEN "on" ELSE IF wake THEN "tie" ELSE "off"
    /\ open' = TRUE
    /\ UNCHANGED <<settings, seen, updating>>

ClockTurns ==
    /\ loop # "window"
    /\ open' = ~open
    /\ UNCHANGED <<settings, loop, seen, atTimer, updating>>

-----------------------------------------------------------------------------
\* RunLatest: the mutex is tried, not waited for.  An update in progress is left alone.
LoopRuns ==
    /\ loop = "run"
    /\ IF runner = "nobody"
          THEN /\ runner' = "auto" /\ stage' = "checking" /\ shown' = "checking"
               /\ Goes("running")
          ELSE Goes("top") /\ UNCHANGED <<runner, stage, shown>>
    /\ UNCHANGED <<settings, seen, open, atTimer, starting>>

\* The loop reports the error of its run again, when another may have begun.
LoopReports ==
    /\ loop = "report" /\ Goes("top")
    /\ shown' = "failed"
    /\ UNCHANGED <<settings, seen, open, atTimer, runner, stage, starting>>

\* startUpdate: refused while one is starting or shown to be in progress.
StartUpdate ==
    /\ starting = "no" /\ shown \notin Busy
    /\ starting' = "asked"
    /\ UNCHANGED <<settings, waiting, runner, stage, shown>>

\* Its goroutine: the same mutex, or nothing if a run has it.
ConsoleRuns ==
    /\ starting = "asked"
    /\ IF runner = "nobody"
          THEN runner' = "console" /\ stage' = "checking" /\ shown' = "checking" /\ starting' = "runs"
          ELSE starting' = "no" /\ UNCHANGED <<runner, stage, shown>>
    /\ UNCHANGED <<settings, waiting>>

\* After the run, when another may have begun: its error is shown, whatever is shown now.
ConsoleEnds ==
    /\ starting \in {"ended", "failed"}
    /\ starting' = "no"
    /\ shown' = IF starting = "failed" THEN "failed" ELSE shown
    /\ UNCHANGED <<settings, waiting, runner, stage>>

-----------------------------------------------------------------------------
\* emit: the report to the Control Room.
Emit(s) == shown' = s

\* The mutex is given back; whoever started the run goes on.
Release(s) ==
    /\ runner' = "nobody" /\ stage' = "none"
    /\ IF runner = "auto" THEN /\ Goes(IF s = "failed" THEN "report" ELSE "top")
                               /\ UNCHANGED starting
                          ELSE /\ starting' = IF s = "failed" THEN "failed" ELSE "ended"
                               /\ UNCHANGED loop

\* The release is not newer, does not parse, or is; then it is downloaded.
RunChecks ==
    /\ stage = "checking"
    /\ \/ \E s \in {"current", "failed"} : Emit(s) /\ Release(s)
       \/ Emit("downloading") /\ stage' = "downloading" /\ UNCHANGED <<runner, loop, starting>>
    /\ UNCHANGED <<settings, seen, open, atTimer>>

\* Deviation: an error return says nothing, as no emit stands before it.
RunFailsSilently ==
    /\ stage \in {"downloading", "staged"}
    /\ Release("failed")
    /\ UNCHANGED <<shown, settings, seen, open, atTimer>>

\* Checksum, drain, disk or exec: the deferred emit reports what no return reported.
RunFails ==
    /\ stage \in {"downloading", "staged"}
    /\ Emit("failed") /\ Release("failed")
    /\ UNCHANGED <<settings, seen, open, atTimer>>

RunStages ==
    /\ stage = "downloading"
    /\ Emit("restarting") /\ stage' = "staged"
    /\ UNCHANGED <<settings, waiting, runner, starting>>

\* The process is replaced by the update or ends: only the disk remains.
Replaced ==
    /\ loop' = "off" /\ seen' = 0 /\ atTimer' = "on"
    /\ wake' = FALSE /\ version' = 0
    /\ saver' = [s \in Saver |-> NoSave]
    /\ runner' = "nobody" /\ stage' = "none" /\ starting' = "no" /\ shown' = "none"
    /\ UNCHANGED <<prefs, open>>

AutoInit ==
    /\ prefs = [on |-> FALSE, window |-> "always"] /\ version = 0 /\ wake = FALSE
    /\ saver = [s \in Saver |-> NoSave]
    /\ loop = "off" /\ seen = 0 /\ open = FALSE /\ atTimer = "on"
    /\ runner = "nobody" /\ stage = "none" /\ starting = "no" /\ shown = "none"

AutoLoopStep == LoopTop \/ LoopWakes \/ LoopRechecks \/ LoopRuns \/ LoopReports

AutoNext ==
    \/ \E s \in Saver : SaveReads(s) \/ SaveWrites(s) \/ SaveWakes(s)
    \/ LoopStarts \/ AutoLoopStep \/ CheckTimer \/ WindowTimer \/ ClockTurns
    \/ StartUpdate \/ ConsoleRuns \/ ConsoleEnds \/ RunChecks \/ RunFails \/ RunStages
    \/ Replaced

AutoSpec == AutoInit /\ [][AutoNext]_autoVars

\* The loop's goroutine and the handlers are scheduled.  Timers fire after hours, if at
\* all, and nothing makes a run end.
AutoFairness ==
    /\ WF_autoVars(AutoLoopStep)
    /\ \A s \in Saver : WF_autoVars(SaveWakes(s))

-----------------------------------------------------------------------------
AutoTypeOK ==
    /\ prefs \in [on : BOOLEAN, window : Windows] /\ version \in 0..MaxSaves /\ seen \in 0..MaxSaves
    /\ wake \in BOOLEAN /\ open \in BOOLEAN
    /\ atTimer \in {"on", "off", "tie"}
    /\ starting \in {"no", "asked", "runs", "ended", "failed"}
    /\ saver \in [Saver -> [at : {"idle", "read", "written"}, on : BOOLEAN, window : Windows]]
    /\ loop \in Waits \cup {"off", "top", "recheck", "run", "running", "report"}
    /\ runner \in {"nobody", "auto", "console"}
    /\ stage \in {"none", "checking", "downloading", "staged"}
    /\ shown \in Busy \cup {"none", "current", "failed"}

\* A change of the settings is never slept through: however saves, stale tokens and timers
\* meet, a loop that waits on an older snapshot takes a new one.
SettingsTakeEffect ==
    []<>(loop \notin Waits \/ version = seen)

\* Switched off, saved and answered before the timer fires: that timer starts no check,
\* unless it ties with the very wake-up of that save.
DisabledStopsChecks ==
    [][(runner # "auto" /\ runner' = "auto") => atTimer # "off"]_autoVars

\* Not so: the select may prefer the timer to the wake-up, and the check follows.
DisabledStopsEveryCheck ==
    [][(runner # "auto" /\ runner' = "auto") => atTimer = "on"]_autoVars

\* The Control Room refuses an update while it shows one in progress, so a run that ended,
\* whichever return it took, must not be shown as one: nobody could start another.
NotWedged ==
    /\ AutoTypeOK
    /\ runner = "nobody" => shown \notin Busy
    /\ (runner = "auto") = (loop = "running")
    /\ (runner = "console") = (starting = "runs")
=============================================================================
