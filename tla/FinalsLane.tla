----------------------------- MODULE FinalsLane -----------------------------
(***************************************************************************)
(* One lane runs one final, the 3-position one or a 10 m one: both         *)
(* controllers over the same state, so that one run checks both.           *)
(***************************************************************************)
EXTENDS CommandedFinal

CONSTANTS Limit3P, Singles3P, PrepWarnings, StageOneWarnings,
          PerSeries, Singles10m, Checkpoints, SightWarnings

VARIABLE which  \* the discipline: "3P" or "10m"

lvars == <<which, fvars>>

F3 == INSTANCE Finals3P
F10 == INSTANCE Finals10m

ASSUME FinalsAssumption == F3!Finals3PAssumption /\ F10!Finals10mAssumption

Init == \/ which = "3P" /\ F3!Init
        \/ which = "10m" /\ F10!Init
Next == /\ UNCHANGED which
        /\ \/ which = "3P" /\ F3!Next
           \/ which = "10m" /\ F10!Next
Spec == Init /\ [][Next]_lvars

\* The fairness of the two controllers: the timer ticks, and time passes.
Tick == (which = "3P" /\ F3!Tick) \/ (which = "10m" /\ F10!Tick)
TickEnabled == IF which = "3P" THEN F3!TickEnabled ELSE F10!TickEnabled
FairSpec == Spec /\ ([]<>~TickEnabled \/ []<><<Tick>>_fvars) /\ WF_fvars(TimePasses)

\* Both controllers keep the accounts: every number of a stage that is over is
\* an official shot or a missing one.
ShotsAccountedFor ==
    IF which = "3P" THEN F3!ShotsAccountedFor ELSE F10!ShotsAccountedFor

\* Both count what the journal holds, before and after a resume.
ControllerMatchesJournal ==
    IF which = "3P" THEN F3!ControllerMatchesJournal ELSE F10!ControllerMatchesJournal

\* A stage marked Complete or Incomplete is that.
VerdictsTrue == IF which = "3P" THEN F3!VerdictsTrue ELSE F10!VerdictsTrue

\* A window that is open to the athlete is open in the target and the reducer.
WindowsTakeShots ==
    IF which = "3P" THEN F3!WindowsTakeShots ELSE F10!WindowsTakeShots

\* The course never goes back, and no verdict is taken back.
CourseForward == [][IF which = "3P" THEN F3!GoesForward ELSE F10!GoesForward]_fvars

\* A crash in a window costs no time and gives none.
ResumeKeepsClock == [][IF which = "3P" THEN F3!KeepsClock ELSE F10!KeepsClock]_fvars

\* A final that runs comes to its end, unless it is paused or the process ends.
Running == IF which = "3P" THEN F3!Running(ctl) ELSE F10!Running(ctl)
FinalEnds == Running ~> (~Running \/ ctl.paused)

\* Every official shot that the controller has counted is in the journal.
CountedIsJournalled == ~rec.refused
=============================================================================
