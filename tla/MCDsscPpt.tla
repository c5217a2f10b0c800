------------------------------ MODULE MCDsscPpt ------------------------------
(* DsscPpt; the .cfg files choose the threads, the slots and the faults. *)
EXTENDS DsscPpt

\* Every slot and every reconfiguration, but those of a register property that
\* change the PPT's mode behind the device state.
Operation == Slot \ {"continuous_mode on", "continuous_mode off", "disable_sending on"}

\* One slot of every shape: both keepers, alone and nested, and a posted task.
Shapes == {"startAllChannelsDummyData", "updateFirmwareFlash", "programAllIOBFPGAs",
           "updateIOBFirmware", "fullConfigFileName"}

\* Their keepers name the end state.
Tasks == {"doFastInit", "startBurstAcquisition", "stopAcquisition", "initSystem"}
=============================================================================
