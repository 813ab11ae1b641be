---------------------------- MODULE ProjectData ----------------------------
(***************************************************************************)
(* The project data between the processes that import it and the threads  *)
(* that answer tool calls from it: both work on rows, each statement of a  *)
(* call sees what is committed by then.                                    *)
(***************************************************************************)
EXTENDS ImportPipeline, ToolCalls

vars == <<rows, importVars, callVars>>

TypeOK == ImportTypeOK /\ CallTypeOK

\* An import under way; its commit is seen by the calls under way
ImportStep(i) ==
    /\ Import(i)
    /\ IF rows' # rows
       THEN UNCHANGED policyVars /\ Witness
       ELSE UNCHANGED <<policyVars, historyVars>>
    /\ UNCHANGED <<call, logged, events>>

\* A step of a call, or an administrator's commit
CallStep == CallNext /\ UNCHANGED importVars

Init == ImportInit /\ CallInit
Next == CallStep \/ \E i \in Imports : ImportStep(i)
=============================================================================
