---------------------------- MODULE MCConfigVar ----------------------------
(***************************************************************************)
(* Instances of ConfigVar for TLC.                                         *)
(***************************************************************************)
EXTENDS ConfigVar

CONSTANTS th1, th2, a, b, bad

\* a is the parent of b in the document, so that its value comes first.  The bad value is
\* passed over as long as nobody has registered b, the bad key never is.
MCDocs == {<< <<a, 1>>, <<b, BadValue>>, <<bad, 1>> >>}
=============================================================================
