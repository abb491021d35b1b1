---------------------------- MODULE MCPythonIngest ----------------------------
(* Instances of PythonIngest for TLC: three events, of which one carries an    *)
(* eventId and one is refused by the database, batches of up to three records  *)
(* and transactions of two, so that a batch may fail in its middle.            *)
EXTENDS PythonIngest

CONSTANTS m1, m2, m3

MCMessages == {m1, m2, m3}
OnlyM1 == {m1}
OnlyM3 == {m3}
None == {}
=============================================================================
