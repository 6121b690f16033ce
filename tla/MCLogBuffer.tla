---------------------------- MODULE MCLogBuffer ----------------------------
(***************************************************************************)
(* LogBuffer for TLC: a buffer that three texts fill, and lines that are   *)
(* shorter than what it holds.                                             *)
(***************************************************************************)
EXTENDS LogBuffer

CONSTANTS a, b

MCChars == {a, b, NewLine}

\* One line, and the part of one
MCTexts == {<<a, NewLine>>, <<b>>}
============================================================================
