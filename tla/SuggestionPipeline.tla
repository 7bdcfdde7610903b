------------------------- MODULE SuggestionPipeline -------------------------
(***************************************************************************)
(* From a submission to the channel: the handlers of Moderation, in the    *)
(* webhook process, and the worker of TaskStream.  The only thing they     *)
(* share is the stream: the kiq of an acceptance enqueues its task.        *)
(***************************************************************************)
EXTENDS Moderation, TaskStream

\* The argument of a task is the suggestion it publishes.
ASSUME TaskAssumption == Task = Suggestion

pipelineVars == <<vars, taskVars>>

PipelineInit == Init /\ TaskInit

Moderate ==
    \/ /\ Next /\ UNCHANGED <<dispatched, taskVars>>
    \/ \E h \in Handler : Dispatch(h) /\ Enqueue(job[h].on)

Work == TaskNext /\ UNCHANGED vars

PipelineNext == Moderate \/ Work

PipelineSpec == PipelineInit /\ [][PipelineNext]_pipelineVars

(***************************************************************************)
(* The handlers as in Moderation; the worker is restarted when it dies and *)
(* reads its stream, and a message nobody acknowledges is claimed some day.*)
(***************************************************************************)
HandlerStep(h) ==
    \/ Step(h) /\ UNCHANGED <<dispatched, taskVars>>
    \/ Dispatch(h) /\ Enqueue(job[h].on)

PipelineLiveSpec ==
    /\ PipelineSpec
    /\ \A h \in Handler : SF_pipelineVars(HandlerStep(h))
    /\ \A x \in Suggestion : /\ WF_pipelineVars(WorkerStep(x) /\ UNCHANGED vars)
                             /\ WF_pipelineVars(Redeliver(x) /\ UNCHANGED vars)

-----------------------------------------------------------------------------
(***************************************************************************)
(* The channel only shows accepted suggestions, once each and once more    *)
(* for each redelivery at the most: neither two admins, nor double taps,   *)
(* nor the failure of a later step of the task post a suggestion again.    *)
(***************************************************************************)
PostsAreAccepted ==
    \A x \in Suggestion :
       /\ posts[x] > 0 => status[x] = "accepted"
       /\ posts[x] <= 1 + redelivered[x]

(***************************************************************************)
(* An accepted suggestion reaches the channel, unless its handler died     *)
(* between the COMMIT and the kiq or its task failed with an exception:    *)
(* a crash of the worker alone never loses it.                             *)
(***************************************************************************)
AcceptedIsPosted ==
    \A x \in Suggestion :
       status[x] = "accepted" ~> posts[x] > 0 \/ x \in failed \/ x \in lost
=============================================================================
