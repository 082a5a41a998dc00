------------------------------- MODULE MCWarnings -------------------------------
(* The instance of Warnings that TLC checks.                                      *)
EXTENDS Warnings

\* The chat has no settings yet, or a limit below the default one, with a mode that
\* punishes or one that does not.
LowInit == Init /\ conf \in {Unset} \cup [limit : Limits, mode : Modes]

LowSpec == /\ LowInit /\ [][Next]_vars
           /\ (\A w \in Warning : WF_vars(WarnStep(w))) /\ WF_vars(DropSettings)
================================================================================
