----------------------------- MODULE MCConsole -----------------------------
(***************************************************************************)
(* A console of two rows for TLC.                                          *)
(***************************************************************************)
EXTENDS Console

\* Text, the control characters, a sequence that sets both colours, one with a
\* bright background and one with unknown codes.
MCStrings == {<<"a">>, <<TAB>>, <<NL>>,
              <<ESC, "[", "0", ";", "93", ";", "41", "m">>,
              <<ESC, "[", "0", ";", "0", ";", "101", "m">>,
              <<ESC, "[", "0", ";", "0", ";", "0", "m">>}
MCKeys == {"b"}

\* What the theorems about the console suppose of the strings.
ASSUME StringsAssumption == WholeStrings /\ OneAtATime
=============================================================================
