------------------------------ MODULE MCOffice ------------------------------
(***************************************************************************)
(* Instances of Office for TLC.                                            *)
(***************************************************************************)
EXTENDS Office, TLC

CONSTANTS ana, Ana

\* One person, spelled in two ways.
InLowerCase == ana :> ana @@ Ana :> ana

=============================================================================
