--------------------------- MODULE HardwareSessions ---------------------------
(***************************************************************************)
(* lab/core/hardware/calibration.py and teleop.py: the two sessions of one *)
(* HardwareService, each with a worker thread that owns the serial ports,  *)
(* under the hardware lock (ArmsOwner's promise, here one variable).       *)
(* Requests come at any moment; each handler runs under its session's      *)
(* mutex, while the worker takes the mutex only to publish a state.        *)
(***************************************************************************)
EXTENDS Integers

VARIABLES
    arms,      \* who has the hardware lock
    ports,     \* the sessions whose worker has serial ports open
    state,     \* CalibrationSession._state
    advance,   \* _advance_from
    cancel,    \* _cancel is set
    calPc,     \* where the calibration worker is
    final,     \* what its finally block will publish
    running,   \* TeleopSession._running
    stop,      \* _stop is set
    telPc,     \* where the teleoperation worker is
    motors,    \* which calibration the motors of the arm hold, 0 for none
    calFile,   \* which one the calibration file holds, numbered as they were saved
    hist       \* history of this calibration: states Next was pressed in, cancel
               \* accepted, saves so far at its start

calVars == <<state, advance, cancel, calPc, final, hist>>
telVars == <<running, stop, telPc>>
sessionVars == <<arms, ports, calVars, telVars, motors, calFile>>

CONSTANT MaxSaves   \* bound on saved calibrations

ASSUME SessionsAssumption == MaxSaves \in Nat \ {0}

Active == {"connecting", "homing", "recording_ranges", "saving"}
Final == {"done", "error", "cancelled"}
Homed == -1   \* half-turn homing has overwritten the motors' offsets

FlagsOK == cancel \in BOOLEAN /\ running \in BOOLEAN /\ stop \in BOOLEAN

SessionsTypeOK ==
    /\ FlagsOK
    /\ arms \in {"free", "calibration", "teleop", "other"}
    /\ ports \subseteq {"calibration", "teleop"}
    /\ state \in {"idle"} \cup Active \cup Final
    /\ advance \in {"none", "homing", "recording_ranges"}
    /\ calPc \in {"off", "connect", "connected", "homing", "homed", "recording", "saving",
                  "disconnect", "unlock", "final"}
    /\ final \in Final
    /\ telPc \in {"off", "connect", "loop", "disconnect", "unlock", "final"}
    /\ calFile \in 0..MaxSaves /\ motors \in 0..MaxSaves \cup {Homed}
    /\ hist \in [pressed : SUBSET Active, cancelled : BOOLEAN, saves : 0..MaxSaves]

FreshCalibration ==
    /\ state = "idle" /\ advance = "none" /\ cancel = FALSE /\ calPc = "off" /\ final = "error"
    /\ hist = [pressed |-> {}, cancelled |-> FALSE, saves |-> 0]

FreshTeleop == running = FALSE /\ stop = FALSE /\ telPc = "off"

SessionsInit ==
    /\ arms = "free" /\ ports = {}
    /\ FreshCalibration /\ FreshTeleop
    /\ motors = 0 /\ calFile = 0

-------------------------------------------------------------------------------
\* CalibrationSession.start with the lock free: reset, and a worker is born.
CalStart ==
    /\ state \notin Active /\ arms = "free" /\ calFile < MaxSaves
    /\ arms' = "calibration"
    /\ state' = "connecting" /\ advance' = "none" /\ cancel' = FALSE
    /\ calPc' = "connect" /\ final' = "error"
    /\ hist' = [pressed |-> {}, cancelled |-> FALSE, saves |-> calFile]
    /\ UNCHANGED <<ports, telVars, motors, calFile>>

\* Slip: a press counts in every active state.
PressAnytime ==
    /\ state \in Active
    /\ advance' = state
    /\ hist' = [hist EXCEPT !.pressed = @ \cup {state}]
    /\ UNCHANGED <<arms, ports, state, cancel, calPc, final, telVars, motors, calFile>>

\* next: the press applies to the step it was made in.
Press ==
    /\ state \in {"homing", "recording_ranges"}
    /\ advance' = state
    /\ hist' = [hist EXCEPT !.pressed = @ \cup {state}]
    /\ UNCHANGED <<arms, ports, state, cancel, calPc, final, telVars, motors, calFile>>

\* cancel: only sets the event; the handler then joins the worker for a while.
Cancel ==
    /\ state \in Active /\ ~cancel
    /\ cancel' = TRUE /\ hist' = [hist EXCEPT !.cancelled = TRUE]
    /\ UNCHANGED <<arms, ports, state, advance, calPc, final, telVars, motors, calFile>>

\* Leave the try block: `f` is what the finally block will publish.
CalLeave(f) ==
    /\ calPc' = "disconnect" /\ final' = f
    /\ UNCHANGED <<arms, ports, state, advance, cancel, hist, telVars, motors, calFile>>

CalGoto(pc, s) ==
    /\ calPc' = pc /\ state' = s
    /\ UNCHANGED <<arms, advance, cancel, final, hist, telVars, calFile>>

\* arm.connect: a failed one may leave the port open until the disconnect.
Connect ==
    /\ calPc = "connect"
    /\ \/ CalGoto("connected", state) /\ ports' = ports \cup {"calibration"} /\ UNCHANGED motors
       \/ /\ calPc' = "disconnect" /\ final' = "error"
          /\ ports' \in {ports, ports \cup {"calibration"}}
          /\ UNCHANGED <<arms, state, advance, cancel, hist, telVars, motors, calFile>>

Connected ==
    /\ calPc = "connected"
    /\ \/ cancel /\ CalLeave("cancelled")
       \/ ~cancel /\ CalGoto("homing", "homing") /\ UNCHANGED <<ports, motors>>

WaitOver(following) ==
    /\ calPc' = following
    /\ UNCHANGED <<arms, ports, state, advance, cancel, final, hist, telVars, motors, calFile>>

\* Slip: any press ends the wait.
WaitForNextAny(step, following) ==
    \/ advance # "none" /\ WaitOver(following)
    \/ advance = "none" /\ cancel /\ CalLeave("cancelled")

\* Slip: the cancel event is not looked at.
WaitForNextUncancelled(step, following) == advance = step /\ WaitOver(following)

\* _wait_for_next: the press is looked at first, then the cancel.
WaitForNext(step, following) ==
    \/ advance = step /\ WaitOver(following)
    \/ advance # step /\ cancel /\ CalLeave("cancelled")

\* Otherwise the arm is read, which changes nothing here, or fails: an error, or
\* a joint that jumped.
ReadFails == calPc \in {"homing", "recording"} /\ CalLeave("error")

Homing == calPc = "homing" /\ WaitForNext("homing", "homed")

\* set_half_turn_homings writes the motors; it or the reading after it may fail.
BeginRecording ==
    /\ calPc = "homed"
    /\ \/ CalGoto("recording", "recording_ranges") /\ motors' = Homed /\ UNCHANGED ports
       \/ /\ calPc' = "disconnect" /\ final' = "error" /\ motors' \in {motors, Homed}
          /\ UNCHANGED <<arms, ports, state, advance, cancel, hist, telVars, calFile>>

Recording == calPc = "recording" /\ WaitForNext("recording_ranges", "saving")

\* _set(SAVING): a cancel that comes now finds the session still active.
BeginSaving ==
    /\ calPc = "saving" /\ state = "recording_ranges"
    /\ CalGoto("saving", "saving") /\ UNCHANGED <<ports, motors>>

\* The ranges are refused, or arm.save writes the motors, then the file, and may
\* fail before or between.
SaveCalibration ==
    /\ calPc = "saving" /\ state = "saving"
    /\ calPc' = "disconnect"
    /\ \/ final' = "done" /\ calFile' = calFile + 1 /\ motors' = calFile + 1
       \/ final' = "error" /\ UNCHANGED calFile /\ motors' \in {motors, calFile + 1}
    /\ UNCHANGED <<arms, ports, state, advance, cancel, hist, telVars>>

CalDisconnect ==
    /\ calPc = "disconnect" /\ calPc' = "unlock"
    /\ ports' = ports \ {"calibration"}
    /\ UNCHANGED <<arms, state, advance, cancel, final, hist, telVars, motors, calFile>>

CalUnlock ==
    /\ calPc = "unlock" /\ calPc' = "final"
    /\ arms' = "free"
    /\ UNCHANGED <<ports, state, advance, cancel, final, hist, telVars, motors, calFile>>

\* Slip: a session that was asked to cancel says it was cancelled.
CalFinalAsAsked ==
    /\ calPc = "final" /\ calPc' = "off" /\ state' = IF cancel THEN "cancelled" ELSE final
    /\ UNCHANGED <<arms, ports, advance, cancel, final, hist, telVars, motors, calFile>>

\* Only now is the session no longer active and a new start possible.
CalFinal ==
    /\ calPc = "final" /\ calPc' = "off" /\ state' = final
    /\ UNCHANGED <<arms, ports, advance, cancel, final, hist, telVars, motors, calFile>>

-------------------------------------------------------------------------------
\* TeleopSession.start, which holds the mutex to its end: the lock, then both arms.
TelStart ==
    /\ ~running /\ telPc = "off" /\ arms = "free"
    /\ arms' = "teleop" /\ telPc' = "connect"
    /\ UNCHANGED <<ports, calVars, running, stop, motors, calFile>>

\* Slip: what the motors hold is taken as it is.
TelConnectTrusting ==
    /\ telPc = "connect"
    /\ \/ /\ calFile > 0
          /\ telPc' = "loop" /\ running' = TRUE /\ stop' = FALSE
          /\ ports' = ports \cup {"teleop"}
          /\ UNCHANGED <<arms, motors>>
       \/ telPc' = "off" /\ arms' = "free" /\ UNCHANGED <<ports, running, stop, motors>>
    /\ UNCHANGED <<calVars, calFile>>

\* Both arms connect, each writing its calibration file to motors that differ
\* from it ("calibrate it first" without one); or one fails, what was opened is
\* closed and the lock given back.
TelConnect ==
    /\ telPc = "connect"
    /\ \/ /\ calFile > 0
          /\ telPc' = "loop" /\ running' = TRUE /\ stop' = FALSE
          /\ ports' = ports \cup {"teleop"} /\ motors' = calFile
          /\ UNCHANGED arms
       \/ /\ telPc' = "off" /\ arms' = "free"
          /\ \/ UNCHANGED motors
             \/ calFile > 0 /\ motors' = calFile
          /\ UNCHANGED <<ports, running, stop>>
    /\ UNCHANGED <<calVars, calFile>>

TelStop ==
    /\ running /\ ~stop /\ stop' = TRUE
    /\ UNCHANGED <<arms, ports, calVars, running, telPc, motors, calFile>>

\* The loop ends when told to, or when an arm cannot be read or written.
TelLoopEnds ==
    /\ telPc = "loop" /\ stop /\ telPc' = "disconnect"
    /\ UNCHANGED <<arms, ports, calVars, running, stop, motors, calFile>>

TelLoopFails ==
    /\ telPc = "loop" /\ telPc' = "disconnect"
    /\ UNCHANGED <<arms, ports, calVars, running, stop, motors, calFile>>

\* Slip: the lock is given back before the arms are closed.
TelDisconnectLate ==
    /\ telPc = "disconnect" /\ telPc' = "unlock"
    /\ arms' = "free"
    /\ UNCHANGED <<ports, calVars, running, stop, motors, calFile>>

TelDisconnect ==
    /\ telPc = "disconnect" /\ telPc' = "unlock"
    /\ ports' = ports \ {"teleop"}
    /\ UNCHANGED <<arms, calVars, running, stop, motors, calFile>>

TelUnlock ==
    /\ telPc = "unlock" /\ telPc' = "final"
    /\ arms' = "free"
    /\ UNCHANGED <<ports, calVars, running, stop, motors, calFile>>

TelFinal ==
    /\ telPc = "final" /\ telPc' = "off" /\ running' = FALSE
    /\ UNCHANGED <<arms, ports, calVars, stop, motors, calFile>>

-------------------------------------------------------------------------------
\* A collection, or another process, takes and releases the lock.
OtherTakes ==
    /\ arms = "free" /\ arms' = "other"
    /\ UNCHANGED <<ports, calVars, telVars, motors, calFile>>
OtherReleases ==
    /\ arms = "other" /\ arms' = "free"
    /\ UNCHANGED <<ports, calVars, telVars, motors, calFile>>

\* The server dies and is started again: its threads, ports and lock are gone.
Death ==
    /\ ports' = {} /\ arms' = IF arms = "other" THEN "other" ELSE "free"
    /\ state' = "idle" /\ advance' = "none" /\ cancel' = FALSE /\ calPc' = "off"
    /\ final' = "error" /\ hist' = [pressed |-> {}, cancelled |-> FALSE, saves |-> calFile]
    /\ running' = FALSE /\ stop' = FALSE /\ telPc' = "off"
    /\ UNCHANGED <<motors, calFile>>

CalStep ==
    \/ Connect \/ Connected \/ Homing \/ BeginRecording \/ Recording \/ BeginSaving
    \/ SaveCalibration \/ CalDisconnect \/ CalUnlock \/ CalFinal

TelStep == TelConnect \/ TelLoopEnds \/ TelDisconnect \/ TelUnlock \/ TelFinal

SessionsNext ==
    \/ CalStart
    \/ Press
    \/ Cancel
    \/ Connect
    \/ Connected
    \/ Homing
    \/ BeginRecording
    \/ Recording
    \/ BeginSaving
    \/ SaveCalibration
    \/ ReadFails
    \/ CalDisconnect
    \/ CalUnlock
    \/ CalFinal
    \/ TelStart
    \/ TelConnect
    \/ TelStop
    \/ TelLoopEnds
    \/ TelLoopFails
    \/ TelDisconnect
    \/ TelUnlock
    \/ TelFinal
    \/ OtherTakes
    \/ OtherReleases
    \/ Death

SessionsSpec == SessionsInit /\ [][SessionsNext]_sessionVars

\* The workers are ordinary threads and the serial calls they wait in time out.
\* Nothing is promised of the operator, nor of an arm failing.
SessionsFairSpec == SessionsSpec /\ WF_sessionVars(CalStep) /\ WF_sessionVars(TelStep)

-------------------------------------------------------------------------------
\* "A session takes this lock before opening a port" (lock.py:4) and gives it back
\* only after its ports are closed: no two sessions have serial ports open.
PortsUnderLock == ports \subseteq {arms}

\* Next is "the state a Next press applies to" (calibration.py:127): a double
\* press while homing never ends the range recording. Ranges are saved only
\* after a press made while they were being recorded.
NextAppliesToItsStep ==
    /\ calPc \in {"homed", "recording", "saving"} => "homing" \in hist.pressed
    /\ calPc = "saving" \/ state = "done" => "recording_ranges" \in hist.pressed

\* What the session finally says is what became of the file: done means saved
\* once, cancelled ("Nothing was saved", calibration.py:57) and error mean not.
OutcomeIsTrue ==
    /\ state \in {"cancelled", "error"} => calFile = hist.saves
    /\ state = "done" => calFile = hist.saves + 1

\* The follower is never driven with motors that hold another calibration than
\* the file, whatever a cancelled, failed or killed calibration left in them.
TeleopCalibrated == telPc = "loop" => motors = calFile

\* A cancel and a stop are answered: the worker ends and gives the arms back.
SessionsStop ==
    /\ cancel ~> state \notin Active
    /\ stop ~> ~running

\* "Cancel; nothing is saved" (README.md:110).
CancelSavesNothing == hist.cancelled => calFile = hist.saves
===============================================================================
