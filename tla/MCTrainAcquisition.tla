-------------------------- MODULE MCTrainAcquisition --------------------------
EXTENDS TrainAcquisition

\* Told and not told, with retries, fast, and two kinds that share one input.
Measurements == {BurstData, RMSData, MeanSram}
=============================================================================
