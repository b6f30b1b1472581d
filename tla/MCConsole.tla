----------------------------- MODULE MCConsole -----------------------------
(***************************************************************************)
(* A console with a buffer of three bytes, so that a message of three      *)
(* characters is cut; the characters are numbers, 50 and 51 those of the   *)
(* NMI's report.                                                           *)
(***************************************************************************)
EXTENDS Console

MCMessages == {<< >>, <<10>>, <<11, 12>>, <<13, 14, 15>>, <<16, Unsupported>>}
MCPanic == <<20, 21>>
MCNmiReport == <<<<50>>, <<51, 51>>>>
\* Bits of fcr that read as flow control once they are in the EFR, or not.
MCUninitialised == {0, 2, 4, 128}

\* Fewer messages where two contexts print.
FewMessages == {<<11, 12>>, <<13, Unsupported>>}
=============================================================================
