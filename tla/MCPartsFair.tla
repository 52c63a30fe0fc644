----------------------------- MODULE MCPartsFair -----------------------------
(* Parts of the relay and of the client that share no state in the model, with    *)
(* their fairness, in one run: each behaviour is one of one part, the others have  *)
(* not started, and nothing that fairness is about is enabled there.              *)
EXTENDS TeamGate, Settings, CaptureHelper, Capture

VARIABLES part

Part == {"gate", "settings", "helper", "capture"}

partsVars == <<vars, settingsVars, helperVars, captureVars, part>>

Runs(p) == part = p

PartsInit ==
    /\ part \in Part
    /\ Init /\ SettingsInit /\ HelperInit /\ CaptureInit

PartsNext ==
    /\ UNCHANGED part
    /\ IF Runs("gate")     THEN Next         ELSE UNCHANGED vars
    /\ IF Runs("settings") THEN SettingsNext ELSE UNCHANGED settingsVars
    /\ IF Runs("helper")   THEN HelperNext   ELSE UNCHANGED helperVars
    /\ IF Runs("capture")  THEN CaptureNext  ELSE UNCHANGED captureVars

PartsSpec == PartsInit /\ [][PartsNext]_partsVars

PartsFairSpec ==
    PartsSpec /\ Fairness /\ SettingsFair /\ HelperFair /\ CaptureFair
=============================================================================
