---------------------------- MODULE OperatingMode ----------------------------
(***************************************************************************)
(* The operating mode: live shots of the target, or simulated ones.  A     *)
(* process runs the mode that config.ini named when it was launched; a     *)
(* page previews the other one, a dialog saves it, and the next launch     *)
(* runs it.  A session records the mode it began in, and every controller  *)
(* refuses a shot whose source is not that of the mode that runs.          *)
(*                                                                         *)
(* The file is modelled by its value of app_mode: any text that names no   *)
(* mode, or none, is "Unknown".  QSaveFile replaces the whole file or none *)
(* of it.  A match without a journal (50 m pistol and three positions)     *)
(* passes no gate and is left out.  Everything is finite without a bound.  *)
(***************************************************************************)
EXTENDS Naturals

VARIABLES
    setting,  \* app_mode in config.ini
    process,  \* the process, with its OperatingModeService
    dialog,   \* the confirm dialog: open, or how the last one ended (ghost)
    flags,    \* ShootingPage: what a course that is shot has set
    course    \* the session with its journal; ghosts opened, settingThen

modeVars == <<setting, process, dialog, flags, course>>

Modes == {"Live", "Demo"}
Sources == {"Physical", "Simulated"}
Kinds == {"final", "qualification", "training"}

\* parseMode: what names no mode falls back to Live.
Parsed(text) == IF text \in Modes THEN text ELSE "Live"
Other(mode) == IF mode = "Live" THEN "Demo" ELSE "Live"

\* The gate of every controller.
SourceAllowed(mode, source) ==
    \/ mode = "Live" /\ source = "Physical"
    \/ mode = "Demo" /\ source = "Simulated"

\* The pages take the mode from AppSettings, where what names no mode is Demo.
Launched(text) ==
    [up |-> TRUE, live |-> text = "Live", running |-> Parsed(text),
     selected |-> Parsed(text), restartRequired |-> FALSE]
NoSession ==
    [kind |-> "none", open |-> FALSE, operatingMode |-> "Live", shots |-> {},
     opened |-> {}, settingThen |-> "Live"]

Init ==
    /\ setting \in Modes \union {"Unknown"}
    /\ process = Launched(setting)
    /\ dialog = "none" /\ flags = {} /\ course = NoSession
-----------------------------------------------------------------------------
(* The setting.                                                            *)
SelectMode(mode) ==
    process' = [process EXCEPT !.selected = mode,
                               !.restartRequired = mode # process.running]

BlockedByFinal == course.open /\ "final" \in flags
\* The panel of the page that is shot on is blocked by a competition; the
\* start page is shown while no session is open.
ModeChangeBlocked == course.open /\ flags # {}

BeginModeChange ==
    /\ process.up /\ dialog # "open" /\ ~ModeChangeBlocked
    /\ SelectMode(Other(process.running))
    /\ dialog' = "open"
    /\ UNCHANGED <<setting, flags, course>>

Cancel ==
    /\ process.up /\ dialog = "open"
    /\ SelectMode(process.running)
    /\ dialog' = "cancelled"
    /\ UNCHANGED <<setting, flags, course>>

\* Escape closes the dialog; the preview stays.
Escape ==
    /\ process.up /\ dialog = "open"
    /\ dialog' = "left"
    /\ UNCHANGED <<setting, process, flags, course>>

\* The value of the key is replaced, or the key is inserted.
WriteModeToConfig == setting' = process.selected

ApplyModeChange ==
    /\ process.up /\ dialog = "open"
    /\ ~ModeChangeBlocked /\ process.selected # process.running
    /\ WriteModeToConfig

RestartLater ==
    /\ ApplyModeChange
    /\ process' = [process EXCEPT !.restartRequired = TRUE]
    /\ dialog' = "saved"
    /\ UNCHANGED <<flags, course>>

\* A session that is open then is left unfinished.
Left == [course EXCEPT !.open = FALSE]
RestartNow ==
    /\ ApplyModeChange
    /\ process' = Launched(process.selected)
    /\ dialog' = "none" /\ flags' = {} /\ course' = Left

\* An active session, nothing to save, or a file that cannot be written.
NotSaved ==
    /\ process.up /\ dialog = "open"
    /\ \/ UNCHANGED process
       \/ /\ ~ModeChangeBlocked /\ process.selected = process.running
          /\ process' = [process EXCEPT !.restartRequired = FALSE]
    /\ dialog' = "left"
    /\ UNCHANGED <<setting, flags, course>>
-----------------------------------------------------------------------------
(* Sessions.                                                               *)
FlagsOf(kind) ==
    CASE kind = "final" -> flags \union {"final"}
      [] kind = "qualification" -> {"qualification"}
      [] kind = "training" -> flags \ {"final"}

\* The dialog is modal: nothing is started behind it.
AtStart == process.up /\ dialog # "open" /\ ~course.open

StartSession(kind) ==
    /\ AtStart
    /\ course' = [kind |-> kind, open |-> TRUE, operatingMode |-> process.running,
                   shots |-> {}, opened |-> {process.running}, settingThen |-> setting]
    /\ flags' = FlagsOf(kind)
    /\ UNCHANGED <<setting, process, dialog>>

\* Recovery shows the recorded mode, and resumes in the one that runs.
ResumeSession ==
    /\ AtStart /\ course.kind # "none"
    /\ course' = [course EXCEPT !.open = TRUE, !.opened = @ \union {process.running},
                                  !.settingThen = setting]
    /\ flags' = FlagsOf(course.kind)
    /\ UNCHANGED <<setting, process, dialog>>

DiscardSession ==
    /\ AtStart /\ course.kind # "none"
    /\ course' = NoSession
    /\ UNCHANGED <<setting, process, dialog, flags>>

CloseSession ==
    /\ process.up /\ dialog # "open" /\ course.open
    /\ course' = NoSession
    /\ flags' = flags \ {"final"}
    /\ UNCHANGED <<setting, process, dialog>>

\* A live page hears the target, another one takes clicks; a refused shot
\* leaves no trace.
ShotSource == IF process.live THEN "Physical" ELSE "Simulated"
RegisterShot ==
    /\ process.up /\ course.open
    /\ dialog # "open" \/ process.live
    /\ SourceAllowed(process.running, ShotSource)
    /\ course' = [course EXCEPT !.shots = @ \union {ShotSource}]
    /\ UNCHANGED <<setting, process, dialog, flags>>
-----------------------------------------------------------------------------
\* The process quits, or crashes.
Exit ==
    /\ process.up
    /\ process' = [process EXCEPT !.up = FALSE]
    /\ dialog' = "none" /\ flags' = {} /\ course' = Left
    /\ UNCHANGED setting
Launch ==
    /\ ~process.up
    /\ process' = Launched(setting)
    /\ UNCHANGED <<setting, dialog, flags, course>>

Next ==
    \/ BeginModeChange \/ Cancel \/ Escape \/ RestartLater \/ RestartNow \/ NotSaved
    \/ \E kind \in Kinds : StartSession(kind)
    \/ ResumeSession \/ DiscardSession \/ CloseSession \/ RegisterShot
    \/ Exit \/ Launch
-----------------------------------------------------------------------------
(* Properties.                                                             *)
\* What the pages say of the next launch (restartRequired) is what it will
\* do, once the dialog is closed: a restart is announced for nothing only
\* after Escape or a failed save, and the next launch runs another mode
\* unannounced only after a later Cancel, which forgets that Restart Later
\* has written the file.
RestartTold ==
    process.up /\ dialog # "open" =>
        /\ process.restartRequired => Parsed(setting) # process.running \/ dialog = "left"
        /\ Parsed(setting) # process.running => process.restartRequired \/ dialog = "cancelled"

\* While a competition is open the setting stays what it was when the
\* competition was started or resumed, so that a crash and the next launch
\* find the mode that runs or the one announced before.
SettingHeld ==
    course.open /\ course.kind # "training" => setting = course.settingThen

\* A session keeps the mode it began in, and shots of one source only, as
\* long as every process that resumed it ran that mode; if shots are of the
\* other source, one of them ran the other mode.
SourcesKept ==
    course.kind # "none" =>
        /\ course.operatingMode \in course.opened
        /\ \A source \in course.shots :
              \E mode \in course.opened : SourceAllowed(mode, source)

ModeKept == RestartTold /\ SettingHeld /\ SourcesKept
=============================================================================
