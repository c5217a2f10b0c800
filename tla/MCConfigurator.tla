---------------------------- MODULE MCConfigurator ----------------------------
\* An instance of Configurator: two PPTs, two configurations the configurator
\* knows and one it does not, with the name of a known one.  One PPT asks for
\* its file, the default configuration of the other has one.
EXTENDS Configurator

MCNameOf == [f \in Files \cup {NoFile} |-> IF f = "odd" THEN "c1" ELSE f]

MCDefault == [q \in Ppts |-> IF q = "Q2" THEN "c2" ELSE NoFile]

=============================================================================
