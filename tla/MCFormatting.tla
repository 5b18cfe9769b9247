---------------------------- MODULE MCFormatting ----------------------------
(***************************************************************************)
(* An instance of Formatting for TLC: one letter names a format item, the  *)
(* other does not.                                                         *)
(***************************************************************************)
EXTENDS Formatting

MCLetters == {"d", "z"}
MCKnownItems == {<<"d">>}
=============================================================================
