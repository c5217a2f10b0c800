--------------------------- MODULE MCPptRegisters ---------------------------
EXTENDS PptRegisters

\* The one file is loaded at the start and reloaded.
OneFile == {[m \in Modules |-> 0]}
=============================================================================
