------------------------------ MODULE ScanFlow ------------------------------
(***************************************************************************)
(* The officer's screens: job, container, VIN, verdict (App.tsx) and the   *)
(* screen that photographs a plate, reads it and has it confirmed          *)
(* (ScanScreen.tsx).                                                       *)
(*                                                                         *)
(* A shot is awaited twice, for the photograph and for its recognition,    *)
(* and the officer may retake, type, confirm or cancel meanwhile.  The     *)
(* container and the VIN screen are one component at one place of the      *)
(* tree: going from one to the other keeps its state, and a shot still in  *)
(* flight lands on the other plate's screen.  Every other change of stage  *)
(* unmounts the component, and what lands later changes nothing.           *)
(*                                                                         *)
(* A text is valid for one plate at most: a container number has 11        *)
(* characters, a VIN 17.  What recognition proposes is a valid text of its *)
(* plate, or nothing (interpret in ocr.ts).                                *)
(***************************************************************************)
EXTENDS Naturals, Sequences

CONSTANTS
    Nothing,       \* no photograph, no reading, a text valid as neither
    ContainerNos,  \* texts valid as a container number
    VinNos,        \* texts valid as a VIN
    MaxShots,      \* bound: times the shutter is pressed
    MaxSessions    \* bound: sessions stored

ASSUME FlowAssumption ==
    /\ ContainerNos \intersect VinNos = {}
    /\ Nothing \notin ContainerNos \union VinNos
    /\ MaxShots \in Nat /\ MaxSessions \in Nat

VARIABLES
    stage,      \* the screen shown; "busy" is the Reconciling... of a commit
    screen,     \* the state of the mounted ScanScreen
    shot,       \* the photograph it awaits, or its recognition
    container,  \* the container capture of stage scan-vin
    sessions,   \* the sessions commitCapture has stored
    shots       \* times the shutter was pressed

flowVars == <<stage, screen, shot, container, sessions, shots>>

Targets == {"container", "vin"}
ValidFor(target) == IF target = "container" THEN ContainerNos ELSE VinNos
Texts == ContainerNos \union VinNos \union {Nothing}

\* A photograph, by its number, and the plate the camera was pointed at.
Photos == [n : 1..MaxShots, of : Targets]
ASSUME NoPhotoAssumption == Nothing \notin Photos

Readings == {r \in [photo : Photos, value : Texts] :
                r.value \in ValidFor(r.photo.of) \union {Nothing}}

\* mixed (history): something on the screen was made on the other plate's
\* screen, or before a Retake.
Screens == [photo : Photos \union {Nothing}, reading : Readings \union {Nothing},
            field : Texts, manual : BOOLEAN, mixed : BOOLEAN]
Fresh == [photo |-> Nothing, reading |-> Nothing, field |-> Nothing,
          manual |-> FALSE, mixed |-> FALSE]

\* old (history): since the shutter a Retake or the other screen came between.
Shots == [at : {"taking", "reading"}, photo : Photos, old : BOOLEAN]

Captures == [value : ContainerNos \union VinNos, photo : Photos \union {Nothing},
             reading : Readings \union {Nothing}, wasManual : BOOLEAN, mixed : BOOLEAN]

StoredSessions == [container : Captures, vin : Captures]

FlowTypeOK ==
    /\ stage \in {"job", "container", "vin", "busy", "verdict"}
    /\ screen \in Screens
    /\ shot \in Shots \union {Nothing}
    /\ container \in Captures \union {Nothing}
    /\ sessions \in Seq(StoredSessions)
    /\ shots \in 0..MaxShots

FlowInit ==
    /\ stage = "job"
    /\ screen = Fresh
    /\ shot = Nothing
    /\ container = Nothing
    /\ sessions = <<>>
    /\ shots = 0

OnScreen == stage \in Targets
HasRead == screen.photo # Nothing \/ screen.manual

\* The component goes; the setters of a shot in flight reach nothing.
Unmount == screen' = Fresh /\ shot' = Nothing

-----------------------------------------------------------------------------
\* Continue, or a row of the job screen; which container it was is not used.
OpenScan ==
    /\ stage = "job"
    /\ stage' = "container"
    /\ Unmount
    /\ UNCHANGED <<container, sessions, shots>>

Shutter ==
    /\ OnScreen /\ ~HasRead /\ shot = Nothing
    /\ shots < MaxShots
    /\ shots' = shots + 1
    /\ shot' = [at |-> "taking", photo |-> [n |-> shots + 1, of |-> stage], old |-> FALSE]
    /\ UNCHANGED <<stage, screen, container, sessions>>

PhotoTaken ==
    /\ shot # Nothing /\ shot.at = "taking"
    /\ shot' = [shot EXCEPT !.at = "reading"]
    /\ screen' = [screen EXCEPT !.photo = shot.photo, !.mixed = @ \/ shot.old]
    /\ UNCHANGED <<stage, container, sessions, shots>>

\* The camera fails or is gone from the screen: an alert.
ShotFails ==
    /\ shot # Nothing /\ shot.at = "taking"
    /\ shot' = Nothing
    /\ UNCHANGED <<stage, screen, container, sessions, shots>>

\* The reading replaces what the field held; without one the officer types.
Recognised(value) ==
    /\ shot # Nothing /\ shot.at = "reading"
    /\ value \in ValidFor(shot.photo.of) \union {Nothing}
    /\ shot' = Nothing
    /\ screen' = [photo |-> screen.photo, reading |-> [photo |-> shot.photo, value |-> value],
                  field |-> value, manual |-> screen.manual \/ value = Nothing,
                  mixed |-> shot.old]
    /\ UNCHANGED <<stage, container, sessions, shots>>

EnterManually ==
    /\ OnScreen /\ ~HasRead
    /\ screen' = [screen EXCEPT !.manual = TRUE, !.field = Nothing]
    /\ UNCHANGED <<stage, shot, container, sessions, shots>>

Type(text) ==
    /\ OnScreen /\ HasRead
    /\ screen' = [screen EXCEPT !.field = text]
    /\ UNCHANGED <<stage, shot, container, sessions, shots>>

\* Mutant: the reading of the photograph thrown away stays.
Retake_KeepsReading ==
    /\ OnScreen /\ HasRead
    /\ screen' = [Fresh EXCEPT !.reading = screen.reading]
    /\ shot' = IF shot # Nothing /\ shot.at = "reading" THEN [shot EXCEPT !.old = TRUE] ELSE shot
    /\ UNCHANGED <<stage, container, sessions, shots>>

\* Clears the screen, not the shot: its recognition is still awaited.
Retake ==
    /\ OnScreen /\ HasRead
    /\ screen' = Fresh
    /\ shot' = IF shot # Nothing /\ shot.at = "reading" THEN [shot EXCEPT !.old = TRUE] ELSE shot
    /\ UNCHANGED <<stage, container, sessions, shots>>

-----------------------------------------------------------------------------
Valid == screen.field \in ValidFor(stage)

\* Mutant: only the manual mode counts, not an edited reading.
Captured_ModeOnly ==
    [value |-> screen.field, photo |-> screen.photo, reading |-> screen.reading,
     wasManual |-> screen.manual, mixed |-> screen.mixed]

\* confirm: typed, or not what recognition proposed, is manual.
Captured ==
    [value |-> screen.field, photo |-> screen.photo, reading |-> screen.reading,
     wasManual |-> screen.manual \/ screen.reading = Nothing \/ screen.reading.value # screen.field,
     mixed |-> screen.mixed]

\* The same component shows the other plate: nothing of it is reset.
Carry ==
    /\ screen' = [screen EXCEPT !.mixed = @ \/ screen.photo # Nothing \/ screen.reading # Nothing]
    /\ shot' = IF shot # Nothing THEN [shot EXCEPT !.old = TRUE] ELSE Nothing

ConfirmContainer ==
    /\ stage = "container" /\ HasRead /\ Valid
    /\ container' = Captured
    /\ stage' = "vin"
    /\ Carry
    /\ UNCHANGED <<sessions, shots>>

(***************************************************************************)
(* onVinCaptured: commitCapture runs behind the busy screen.  What it      *)
(* stores, and when, is in OfflineGate and Evidence; here it stores the    *)
(* session or fails before or after that.                                  *)
(***************************************************************************)
ConfirmVin(stored, fails) ==
    /\ stage = "vin" /\ HasRead /\ Valid
    /\ stored \/ fails
    /\ Len(sessions) < MaxSessions
    /\ sessions' = IF stored
                   THEN Append(sessions, [container |-> container, vin |-> Captured])
                   ELSE sessions
    /\ stage' = IF fails THEN "busy" ELSE "verdict"
    /\ Unmount
    /\ UNCHANGED <<container, shots>>

\* The commit has thrown: the VIN screen again, of the same container.
CommitFailed ==
    /\ stage = "busy"
    /\ stage' = "vin"
    /\ UNCHANGED <<screen, shot, container, sessions, shots>>

CancelContainer ==
    /\ stage = "container"
    /\ stage' = "job"
    /\ Unmount
    /\ UNCHANGED <<container, sessions, shots>>

CancelVin ==
    /\ stage = "vin"
    /\ stage' = "container"
    /\ container' = Nothing
    /\ Carry
    /\ UNCHANGED <<sessions, shots>>

\* Next vehicle, or Scan again.
NextVehicle ==
    /\ stage = "verdict"
    /\ stage' = "container"
    /\ container' = Nothing
    /\ UNCHANGED <<screen, shot, sessions, shots>>

Done ==
    /\ stage = "verdict"
    /\ stage' = "job"
    /\ container' = Nothing
    /\ UNCHANGED <<screen, shot, sessions, shots>>

-----------------------------------------------------------------------------
Plate ==
    \/ Shutter \/ PhotoTaken \/ ShotFails \/ EnterManually \/ Retake
    \/ \E text \in Texts : Recognised(text) \/ Type(text)

FlowNext ==
    \/ OpenScan \/ Plate
    \/ ConfirmContainer \/ \E stored, fails \in BOOLEAN : ConfirmVin(stored, fails)
    \/ CommitFailed \/ CancelContainer \/ CancelVin \/ NextVehicle \/ Done

FlowSpec == FlowInit /\ [][FlowNext]_flowVars
-----------------------------------------------------------------------------
\* The captures of a session, with the plate each stands for.
CapturesOf(s) == {<<s.container, "container">>, <<s.vin, "vin">>}

(***************************************************************************)
(* A capture recorded as read, not typed, carries the very value a         *)
(* recognition proposed, from a photograph of that very plate: the officer *)
(* can carry a reading to the wrong screen and edit it there, and it is    *)
(* never taken for that plate's (wasManualEntry, ScanScreen.tsx).          *)
(***************************************************************************)
ReadMeansRead ==
    \A i \in 1..Len(sessions) : \A c \in CapturesOf(sessions[i]) :
        ~c[1].wasManual =>
            /\ c[1].reading # Nothing
            /\ c[1].reading.value = c[1].value
            /\ c[1].reading.photo.of = c[2]

(***************************************************************************)
(* "Every decision is evidence-backed" (README.md), as far as it holds:    *)
(* the photograph a session stores for a plate is one of that plate, and   *)
(* the reading beside it was made from that photograph, unless the officer *)
(* went on to the other plate's screen or pressed Retake with that work on *)
(* the screen or in flight.                                                *)
(***************************************************************************)
EvidenceFits ==
    \A i \in 1..Len(sessions) : \A c \in CapturesOf(sessions[i]) :
        ~c[1].mixed =>
            /\ c[1].photo # Nothing => c[1].photo.of = c[2]
            /\ c[1].reading # Nothing => c[1].reading.photo = c[1].photo
=============================================================================
