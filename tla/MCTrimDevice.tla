----------------------------- MODULE MCTrimDevice -----------------------------
EXTENDS TrimDevice

\* One slot of every shape.
Shapes == {"measureADCGainMap", "measureMeanSramContent", "setSelectedInjectionMode",
           "matrixSRAMTest", "numFramesToReceive", "fullConfigFileName"}
=============================================================================
