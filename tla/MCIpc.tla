------------------------------- MODULE MCIpc -------------------------------
(***************************************************************************)
(* Ipc with one line that fits under the cap and one that does not; both   *)
(* have a shorter prefix that is a command of its own.                     *)
(***************************************************************************)
EXTENDS Ipc

CONSTANTS short, long

MCLineLength == [c \in {short, long} |-> IF c = short THEN 2 ELSE 4]
MCCommands == [c \in {short, long} |-> IF c = short THEN {1, 2} ELSE {3, 4}]
=============================================================================
