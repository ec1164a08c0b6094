------------------------------ MODULE MCServices ------------------------------
(***************************************************************************)
(* The services of the daemon and of its clients that are checked side by  *)
(* side: each behaviour is a behaviour of one of them, the others stay as  *)
(* they start.  They share no state, so one run checks them all.           *)
(***************************************************************************)
EXTENDS BrowserStateHub, ActivityStream, CollaborationTasks, MCAgentLoop, AdapterClient,
        ArtifactStore, ExternalServer, ReleaseUpdate, DebugTargets, DebuggerProxy,
        BrowserWorkflow, TLC

VARIABLE part   \* the service this behaviour is about

allVars == <<part, hubVars, activityVars, taskVars, loopVars, adapterVars, artifactVars,
             externalVars, updateVars, targetVars, proxyVars, workflowVars>>

\* A service that is followed makes its steps; the others make none.
Hub      == part = "hub" /\ HubNext
Activity == part = "activity" /\ ActivityNext
TaskPart == part = "tasks" /\ TasksNext
Loop     == part = "loop" /\ LoopNext
Adapter  == part = "adapter" /\ AdapterNext
Artifact == part = "artifacts" /\ ArtifactNext
External == part = "external" /\ ExternalNext
Updater  == part = "update" /\ UpdateNext
TargetPart == part = "targets" /\ TargetsNext
ProxyPart  == part = "proxy" /\ ProxyNext
WorkflowPart == part = "workflow" /\ WorkflowNext

ServicesInit ==
    /\ part \in {"hub", "activity", "tasks", "loop", "adapter", "artifacts", "external", "update",
                "targets", "proxy", "workflow"}
    /\ HubInit /\ ActivityInit /\ TasksInit /\ LoopInit
    /\ AdapterInit /\ ArtifactInit /\ ExternalInit /\ UpdateInit
    /\ TargetsInit /\ ProxyInit /\ WorkflowInit
    /\ part # "proxy" => proxyEnabled = FALSE /\ hasRules = FALSE /\ selected = CHOOSE t \in Tabs : TRUE

ServicesNext ==
    \/ /\ Hub
       /\ UNCHANGED <<part, activityVars, taskVars, loopVars, adapterVars,
                      artifactVars, externalVars, updateVars, targetVars, proxyVars, workflowVars>>
    \/ /\ Activity
       /\ UNCHANGED <<part, hubVars, taskVars, loopVars, adapterVars,
                      artifactVars, externalVars, updateVars, targetVars, proxyVars, workflowVars>>
    \/ /\ TaskPart
       /\ UNCHANGED <<part, hubVars, activityVars, loopVars, adapterVars,
                      artifactVars, externalVars, updateVars, targetVars, proxyVars, workflowVars>>
    \/ /\ Loop
       /\ UNCHANGED <<part, hubVars, activityVars, taskVars, adapterVars,
                      artifactVars, externalVars, updateVars, targetVars, proxyVars, workflowVars>>
    \/ /\ Adapter
       /\ UNCHANGED <<part, hubVars, activityVars, taskVars, loopVars,
                      artifactVars, externalVars, updateVars, targetVars, proxyVars, workflowVars>>
    \/ /\ Artifact
       /\ UNCHANGED <<part, hubVars, activityVars, taskVars, loopVars,
                      adapterVars, externalVars, updateVars, targetVars, proxyVars, workflowVars>>
    \/ /\ External
       /\ UNCHANGED <<part, hubVars, activityVars, taskVars, loopVars,
                      adapterVars, artifactVars, updateVars, targetVars, proxyVars, workflowVars>>
    \/ /\ Updater
       /\ UNCHANGED <<part, hubVars, activityVars, taskVars, loopVars,
                      adapterVars, artifactVars, externalVars, targetVars, proxyVars, workflowVars>>
    \/ /\ TargetPart
       /\ UNCHANGED <<part, hubVars, activityVars, taskVars, loopVars,
                      adapterVars, artifactVars, externalVars, updateVars, proxyVars, workflowVars>>
    \/ /\ ProxyPart
       /\ UNCHANGED <<part, hubVars, activityVars, taskVars, loopVars,
                      adapterVars, artifactVars, externalVars, updateVars, targetVars, workflowVars>>
    \/ /\ WorkflowPart
       /\ UNCHANGED <<part, hubVars, activityVars, taskVars, loopVars, adapterVars, artifactVars,
                      externalVars, updateVars, targetVars, proxyVars>>

ServicesSpec == ServicesInit /\ [][ServicesNext]_allVars

\* Every service keeps its types.
ServicesTypeOK ==
    /\ part = "hub" => HubTypeOK
    /\ part = "activity" => ActivityTypeOK
    /\ part = "tasks" => TasksTypeOK
    /\ part = "loop" => LoopTypeOK
    /\ part = "adapter" => AdapterTypeOK
    /\ part = "artifacts" => ArtifactTypeOK
    /\ part = "external" => ExternalTypeOK
    /\ part = "update" => UpdateTypeOK
    /\ part = "targets" => TargetsTypeOK
    /\ part = "proxy" => ProxyTypeOK
    /\ part = "workflow" => WorkflowTypeOK

-----------------------------------------------------------------------------
(* The instances *)

CONSTANTS d1, d2, small, big

\* Dependencies point backwards; the second action may be a barrier.
Backwards == {f \in [Actions -> SUBSET Actions] : \A a \in Actions : \A b \in f[a] : b < a}
Barriers == {{}, {2}}
InOneFrame == [a \in Actions |-> 0]
OtherFrame(b) == [InOneFrame EXCEPT ![b] = 1]
SmallPlans ==
    [field : SUBSET Actions, barrier : Barriers, frame : {InOneFrame}, needs : Backwards, refs : BOOLEAN, stops : BOOLEAN]
    \cup [field : {Actions}, barrier : Barriers, frame : {OtherFrame(2), OtherFrame(3)}, needs : Backwards, refs : {TRUE},
          stops : BOOLEAN]

BlobSizes == [b \in Blobs |-> IF b = big THEN 2 ELSE 1]

=============================================================================
