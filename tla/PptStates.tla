------------------------------ MODULE PptStates ------------------------------
(***************************************************************************)
(* What a client of a PPT device is promised about its `state` property:   *)
(* the chain of DsscPpt.hh:35-39 with the transient states of the slots.   *)
(* DsscPpt implements it; DsscControl is built on it.                      *)
(***************************************************************************)

VARIABLE state

\* The Karabo states the device ever enters.  STOPPED occurs in many
\* allowedStates lists but no code sets it.
PptState == {"INIT", "UNKNOWN", "OPENING", "OFF", "CHANGING", "ON", "STARTED",
             "ACQUIRING", "CLOSING", "ERROR"}

\* States in which the device is between two slots.
Resting == {"UNKNOWN", "OFF", "ON", "STARTED", "ACQUIRING"}

\* The states one updateState may lead to.  UNKNOWN becomes OFF at once when
\* the connection could not be closed and is found open.
Succ(s) ==
    CASE s = "INIT"      -> {"OPENING", "ERROR"}
      [] s = "UNKNOWN"   -> {"OPENING", "CHANGING", "OFF"}
      [] s = "OPENING"   -> {"OFF", "CLOSING"}
      [] s = "OFF"       -> {"CHANGING", "CLOSING"}
      [] s = "CHANGING"  -> Resting
      [] s = "ON"        -> {"CHANGING", "CLOSING"}
      [] s = "STARTED"   -> {"CHANGING"}
      [] s = "ACQUIRING" -> {"CHANGING"}
      [] s = "CLOSING"   -> {"UNKNOWN", "ERROR"}
      [] s = "ERROR"     -> {"UNKNOWN"}

Init == state = "INIT"

Next == state' \in Succ(state)

Spec == Init /\ [][Next]_state

=============================================================================
