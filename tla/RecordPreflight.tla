--------------------------- MODULE RecordPreflight ---------------------------
(***************************************************************************)
(* The preflight of a new recording on the home screen                     *)
(* (src/crates/rollshot-app/src/action_guide_home/update.rs and view.rs):  *)
(* the user may opt in to keep a silent screen recording, which needs the  *)
(* ffmpeg toolchain to be resolved, or downloaded, by tasks that answer    *)
(* with a message.  The messages do not say which preflight they answer.   *)
(*                                                                         *)
(* The home screen is taken to be shown all along; what happens to         *)
(* messages when it is not is in module VideoImport.                       *)
(***************************************************************************)
EXTENDS Naturals, FiniteSets

CONSTANTS
    MaxTasks,        \* bound: resolution or download tasks in flight at once
    MaxPreflights    \* bound: how many preflights the user opens

ASSUME PreflightAssumption ==
    /\ MaxTasks \in Nat \ {0}
    /\ MaxPreflights \in Nat \ {0}

VARIABLES
    preflight,       \* the open preflight, if any
    resolving,       \* resolution tasks in flight
    downloading,     \* download tasks in flight
    preflights,      \* history: preflights the user has opened
    started,         \* history: the recordings started, from which preflight
    consented        \* history: preflights confirmed with the checkbox on

preflight_vars == <<preflight, resolving, downloading, preflights, started, consented>>

Preflight == [id : 1..MaxPreflights, keep_motion : BOOLEAN,
              phase : {"Confirm", "Resolving", "NeedsSetup"}]

PreflightTypeOK ==
    /\ preflight \subseteq Preflight /\ Cardinality(preflight) <= 1
    /\ resolving \in 0..MaxTasks
    /\ downloading \in 0..MaxTasks
    /\ preflights \in 0..MaxPreflights
    /\ started \subseteq [preflight : Preflight, motion : BOOLEAN]
    /\ consented \subseteq 1..MaxPreflights

PreflightInit ==
    /\ preflight = {}
    /\ resolving = 0
    /\ downloading = 0
    /\ preflights = 0
    /\ started = {}
    /\ consented = {}

TasksInFlight == resolving + downloading

-----------------------------------------------------------------------------
(* Effect::StartRecording: the recorder is a process of its own.           *)
StartRecording(p, motion) ==
    /\ preflight' = {}
    /\ started' = started \cup {[preflight |-> p, motion |-> motion]}

Show(p) == preflight' = {p} /\ UNCHANGED started

RecordNew ==
    /\ preflight = {} /\ preflights < MaxPreflights
    /\ preflights' = preflights + 1
    /\ Show([id |-> preflights + 1, keep_motion |-> FALSE, phase |-> "Confirm"])
    /\ UNCHANGED <<resolving, downloading, consented>>

(* The checkbox is live in every phase.                                    *)
ToggleMotion(p) ==
    /\ Show([p EXCEPT !.keep_motion = ~p.keep_motion])
    /\ UNCHANGED <<resolving, downloading, preflights, consented>>

ConfirmWithoutToolchain(p) ==        \* mutant: the opt-in is not looked at
    /\ p.phase # "Resolving"
    /\ TasksInFlight < MaxTasks
    /\ Show([p EXCEPT !.phase = "Resolving"])
    /\ resolving' = resolving + 1
    /\ UNCHANGED <<downloading, preflights, consented>>

(* The button is disabled while resolving.                                 *)
ConfirmRecordPreflight(p) ==
    /\ p.phase # "Resolving"
    /\ IF p.keep_motion
       THEN /\ TasksInFlight < MaxTasks
            /\ Show([p EXCEPT !.phase = "Resolving"])
            /\ resolving' = resolving + 1
            /\ consented' = consented \cup {p.id}
       ELSE /\ StartRecording(p, FALSE)
            /\ UNCHANGED <<resolving, consented>>
    /\ UNCHANGED <<downloading, preflights>>

CancelRecordPreflight ==
    /\ preflight # {}
    /\ preflight' = {}
    /\ UNCHANGED <<resolving, downloading, preflights, started, consented>>

(* The buttons shown with NeedsSetup.                                      *)
PreflightRetrySetup(p) ==
    /\ p.phase = "NeedsSetup" /\ TasksInFlight < MaxTasks
    /\ Show([p EXCEPT !.phase = "Resolving"])
    /\ downloading' = downloading + 1
    /\ UNCHANGED <<resolving, preflights, consented>>

PreflightContinueGuideOnly(p) ==
    /\ p.phase = "NeedsSetup"
    /\ StartRecording(p, FALSE)
    /\ UNCHANGED <<resolving, downloading, preflights, consented>>

-----------------------------------------------------------------------------
(* The answers, from whichever preflight they come.                        *)
PreflightToolchainResolved(p, available) ==
    /\ resolving > 0
    /\ resolving' = resolving - 1
    /\ IF available
       THEN StartRecording(p, TRUE)
       ELSE Show([p EXCEPT !.phase = "NeedsSetup"])
    /\ UNCHANGED <<downloading, preflights, consented>>

PreflightSetupFinished(p, ok) ==
    /\ downloading > 0
    /\ downloading' = downloading - 1
    /\ IF ok
       THEN /\ Show([p EXCEPT !.phase = "Resolving"])
            /\ resolving' = resolving + 1
       ELSE UNCHANGED <<preflight, resolving, started>>
    /\ UNCHANGED <<preflights, consented>>

AnswerWithoutPreflight ==
    /\ preflight = {}
    /\ \/ resolving > 0 /\ resolving' = resolving - 1 /\ UNCHANGED downloading
       \/ downloading > 0 /\ downloading' = downloading - 1 /\ UNCHANGED resolving
    /\ UNCHANGED <<preflight, preflights, started, consented>>

PreflightNext ==
    \/ RecordNew \/ CancelRecordPreflight \/ AnswerWithoutPreflight
    \/ \E p \in preflight :
          \/ ToggleMotion(p) \/ ConfirmRecordPreflight(p)
          \/ PreflightRetrySetup(p) \/ PreflightContinueGuideOnly(p)
          \/ \E ok \in BOOLEAN :
                PreflightToolchainResolved(p, ok) \/ PreflightSetupFinished(p, ok)

PreflightSpec == PreflightInit /\ [][PreflightNext]_preflight_vars

-----------------------------------------------------------------------------
(* Late answers of earlier preflights start recordings, but none keeps     *)
(* motion before the user has confirmed a preflight, that one or an        *)
(* earlier one, with the checkbox on.                                      *)
MotionFollowsConsent ==
    \A r \in started : r.motion => \E id \in consented : id <= r.preflight.id

(* What the design says and the code does not do, because the answer of a  *)
(* cancelled preflight starts the recording of the next:                   *)
(* "Consent is an explicit, default-off preflight opt-in": motion is kept  *)
(* only if the checkbox of that preflight is on when recording starts.     *)
MotionNeedsConsent == \A r \in started : r.motion => r.preflight.keep_motion
=============================================================================
