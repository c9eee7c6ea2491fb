----------------------------- MODULE RenderJobs -----------------------------
(***************************************************************************)
(* The render runtime (render/app.py): a job is a workflow queued in       *)
(* ComfyUI, an external process, and a thread that polls for its results,  *)
(* downloads them and records the end.  What happens under state_lock is   *)
(* one step where it makes one write; a process may die between any two.   *)
(***************************************************************************)
EXTENDS Naturals

CONSTANTS
    Render,          \* jobs
    Outputs,         \* files a workflow puts out
    MaxRenderFaults  \* bound on crashes, failed writes, requests and downloads

ASSUME RenderAssumption == Outputs \in Nat \ {0} /\ MaxRenderFaults \in Nat

VARIABLES
    renderState,     \* state.json: the job's status
    renderFiles,     \* output-<n>.bin of each job
    renderEvent,     \* cancel_events: the worker's event
    renderWorker,    \* where create_render and watch_job are
    renderIndex,     \* the output a worker downloads next
    renderCancel,    \* where cancel_render is, once it wrote the state
    comfy,           \* the workflow in ComfyUI
    renderUp,        \* the process
    renderTodo,      \* state files recover_jobs has still to look at
    renderFaults,    \* faults so far
    renderSpoiled,   \* history: jobs left without worker by a write that failed
    renderHurt       \* history: jobs at work when the process died

renderDisk == <<renderState, renderFiles>>
renderNode == <<renderUp, renderTodo>>
renderProc == <<renderEvent, renderWorker, renderIndex, renderCancel, renderNode>>
renderPast == <<renderFaults, renderSpoiled, renderHurt>>
renderVars == <<renderDisk, renderProc, comfy, renderPast>>

RenderLive == {"queued", "in_progress"}
RenderFault == renderFaults < MaxRenderFaults /\ renderFaults' = renderFaults + 1

RenderInit ==
    /\ renderState = [j \in Render |-> "none"] /\ renderFiles = [j \in Render |-> {}]
    /\ renderEvent = [j \in Render |-> "none"] /\ renderWorker = [j \in Render |-> "none"]
    /\ renderIndex = [j \in Render |-> 1]
    /\ renderCancel = [j \in Render |-> "none"] /\ comfy = [j \in Render |-> "none"]
    /\ renderUp = "up" /\ renderTodo = {}
    /\ renderFaults = 0 /\ renderSpoiled = {} /\ renderHurt = {}

-----------------------------------------------------------------------------
\* write_state: a whole file replaces the old one.
RenderWrites(j, s) == renderState' = [renderState EXCEPT ![j] = s]

RenderGoes(j, at) == renderWorker' = [renderWorker EXCEPT ![j] = at]

\* cleanup_outputs
RenderCleans(j) == renderFiles' = [renderFiles EXCEPT ![j] = {}]

\* state_lock is held by those who go on to remove files.
StateLockFree ==
    \A i \in Render : renderCancel[i] # "cleanup" /\ renderWorker[i] # "cleanup"

RenderCancelled(j) == renderEvent[j] = "set" \/ renderState[j] = "cancelled"

\* create_render: ComfyUI takes the workflow before the job is on disk; a write that fails
\* leaves the workflow to itself.
RenderPrompt(j) ==
    /\ renderUp = "up" /\ comfy[j] = "none" /\ renderWorker[j] = "none"
    /\ comfy' = [comfy EXCEPT ![j] = "queued"] /\ RenderGoes(j, "prompted")
    /\ UNCHANGED <<renderDisk, renderEvent, renderIndex, renderCancel, renderNode,
                   renderPast>>

RenderStore(j) ==
    /\ renderWorker[j] = "prompted"
    /\ \/ RenderWrites(j, "queued") /\ RenderGoes(j, "spawn") /\ UNCHANGED renderFaults
       \/ RenderFault /\ RenderGoes(j, "none") /\ UNCHANGED renderState
    /\ UNCHANGED <<renderFiles, renderEvent, renderIndex, renderCancel, comfy, renderNode,
                   renderSpoiled, renderHurt>>

\* start_job
RenderStartJob(j) ==
    /\ renderEvent' = [renderEvent EXCEPT ![j] = "clear"] /\ RenderGoes(j, "begin")

RenderSpawn(j) ==
    /\ renderWorker[j] = "spawn" /\ StateLockFree /\ RenderStartJob(j)
    /\ UNCHANGED <<renderDisk, renderIndex, renderCancel, comfy, renderNode, renderPast>>

\* watch_job up to the state "in_progress".
RenderBegin(j) ==
    /\ renderWorker[j] = "begin" /\ StateLockFree
    /\ \/ /\ RenderCancelled(j) /\ RenderGoes(j, "final")
          /\ UNCHANGED <<renderState, renderFaults>>
       \/ /\ ~RenderCancelled(j) /\ RenderWrites(j, "in_progress") /\ RenderGoes(j, "watch")
          /\ UNCHANGED renderFaults
       \/ /\ ~RenderCancelled(j) /\ RenderFault /\ RenderGoes(j, "except")
          /\ UNCHANGED renderState
    /\ UNCHANGED <<renderFiles, renderEvent, renderIndex, renderCancel, comfy, renderNode,
                   renderSpoiled, renderHurt>>

\* The polling loop: it ends with the event, with half an hour, with a request that fails,
\* with a workflow that failed, or with descriptors to download.
RenderWatch(j) ==
    /\ renderWorker[j] = "watch"
    /\ \/ renderEvent[j] = "set" /\ RenderGoes(j, "final") /\ UNCHANGED renderFaults
       \/ renderEvent[j] # "set" /\ RenderGoes(j, "except") /\ UNCHANGED renderFaults
       \/ RenderGoes(j, "except") /\ RenderFault
       \/ comfy[j] = "failed" /\ RenderGoes(j, "except") /\ UNCHANGED renderFaults
       \/ comfy[j] = "done" /\ RenderGoes(j, "download") /\ UNCHANGED renderFaults
    /\ UNCHANGED <<renderDisk, renderEvent, renderIndex, renderCancel, comfy, renderNode,
                   renderSpoiled, renderHurt>>

\* download_output of each descriptor in turn, whatever is there already; one that fails
\* leaves no file of its own.
RenderDownload(j) ==
    /\ renderWorker[j] = "download"
    /\ \/ /\ renderFiles' = [renderFiles EXCEPT ![j] = @ \cup {renderIndex[j]}]
          /\ IF renderIndex[j] = Outputs
                THEN RenderGoes(j, "publish") /\ renderIndex' = [renderIndex EXCEPT ![j] = 1]
                ELSE renderIndex' = [renderIndex EXCEPT ![j] = @ + 1] /\ UNCHANGED renderWorker
          /\ UNCHANGED renderFaults
       \/ /\ RenderFault /\ RenderGoes(j, "except")
          /\ renderIndex' = [renderIndex EXCEPT ![j] = 1] /\ UNCHANGED renderFiles
    /\ UNCHANGED <<renderState, renderEvent, renderCancel, comfy, renderNode,
                   renderSpoiled, renderHurt>>

\* The locked end of watch_job: the cancel or the completion, whichever was first.
RenderPublish(j) ==
    /\ renderWorker[j] = "publish" /\ StateLockFree
    /\ \/ /\ RenderCancelled(j) /\ RenderGoes(j, "final") /\ RenderCleans(j)
          /\ UNCHANGED <<renderState, renderFaults>>
       \/ /\ ~RenderCancelled(j) /\ RenderWrites(j, "completed") /\ RenderGoes(j, "final")
          /\ UNCHANGED <<renderFiles, renderFaults>>
       \/ /\ ~RenderCancelled(j) /\ RenderFault /\ RenderGoes(j, "except")
          /\ UNCHANGED renderDisk
    /\ UNCHANGED <<renderEvent, renderIndex, renderCancel, comfy, renderNode,
                   renderSpoiled, renderHurt>>

\* Deviation: the except clause records the failure and removes nothing.
RenderExceptKeeps(j) ==
    /\ renderWorker[j] = "except" /\ StateLockFree /\ RenderGoes(j, "final")
    /\ \/ renderState[j] = "cancelled" /\ UNCHANGED renderState
       \/ renderState[j] # "cancelled" /\ RenderWrites(j, "failed")
    /\ UNCHANGED <<renderFiles, renderEvent, renderIndex, renderCancel, comfy, renderNode,
                   renderPast>>

\* The except clause: a job that was not cancelled is failed and its files removed; those
\* of a cancelled one are not.
RenderExcept(j) ==
    /\ renderWorker[j] = "except" /\ StateLockFree
    /\ \/ /\ renderState[j] = "cancelled" /\ RenderGoes(j, "final")
          /\ UNCHANGED <<renderState, renderPast>>
       \/ /\ renderState[j] # "cancelled" /\ RenderWrites(j, "failed")
          /\ RenderGoes(j, "cleanup") /\ UNCHANGED renderPast
       \/ /\ renderState[j] # "cancelled" /\ RenderFault /\ RenderGoes(j, "final")
          /\ renderSpoiled' = renderSpoiled \cup {j} /\ UNCHANGED <<renderState,
                                                                    renderHurt>>
    /\ UNCHANGED <<renderFiles, renderEvent, renderIndex, renderCancel, comfy, renderNode>>

RenderRemove(j) ==
    /\ renderWorker[j] = "cleanup" /\ RenderCleans(j) /\ RenderGoes(j, "final")
    /\ UNCHANGED <<renderState, renderEvent, renderIndex, renderCancel, comfy, renderNode,
                   renderPast>>

RenderFinally(j) ==
    /\ renderWorker[j] = "final" /\ StateLockFree
    /\ RenderGoes(j, "none") /\ renderEvent' = [renderEvent EXCEPT ![j] = "none"]
    /\ UNCHANGED <<renderDisk, renderIndex, renderCancel, comfy, renderNode, renderPast>>

-----------------------------------------------------------------------------
\* cancel_render: the event, the state, the files, and after the lock ComfyUI's queue.
RenderCancel(j) ==
    /\ renderUp = "up" /\ renderState[j] \in RenderLive /\ renderWorker[j] # "spawn"
    /\ StateLockFree
    /\ renderEvent' = [renderEvent EXCEPT ![j] = IF @ = "none" THEN @ ELSE "set"]
    /\ \/ /\ RenderWrites(j, "cancelled") /\ UNCHANGED renderPast
          /\ renderCancel' = [renderCancel EXCEPT ![j] = "cleanup"]
       \/ /\ RenderFault /\ renderSpoiled' = renderSpoiled \cup {j}
          /\ UNCHANGED <<renderState, renderHurt, renderCancel>>
    /\ UNCHANGED <<renderFiles, renderWorker, renderIndex, comfy, renderNode>>

RenderCancelCleans(j) ==
    /\ renderCancel[j] = "cleanup" /\ RenderCleans(j)
    /\ renderCancel' = [renderCancel EXCEPT ![j] = "dequeue"]
    /\ UNCHANGED <<renderState, renderEvent, renderWorker, renderIndex, comfy, renderNode,
                   renderPast>>

\* ComfyUI takes a workflow off its queue, not one that runs; an error is ignored.
RenderDequeue(j) ==
    /\ renderCancel[j] = "dequeue" /\ renderCancel' = [renderCancel EXCEPT ![j] = "none"]
    /\ \/ /\ comfy' = [comfy EXCEPT ![j] = IF @ = "queued" THEN "deleted" ELSE @]
          /\ UNCHANGED renderFaults
       \/ RenderFault /\ UNCHANGED comfy
    /\ UNCHANGED <<renderDisk, renderEvent, renderWorker, renderIndex, renderNode,
                   renderSpoiled, renderHurt>>

\* ComfyUI works through its queue (external).
ComfyRuns(j) ==
    /\ \/ comfy[j] = "queued" /\ comfy' = [comfy EXCEPT ![j] = "running"]
       \/ comfy[j] = "running" /\ \E s \in {"done", "failed"} : comfy' = [comfy EXCEPT ![j] = s]
    /\ UNCHANGED <<renderDisk, renderProc, renderPast>>

\* The process dies: threads, events and requests with it; files and workflows stay.
RenderCrash ==
    /\ renderUp # "down" /\ renderUp' = "down" /\ RenderFault
    /\ renderHurt' = renderHurt \cup
          {j \in Render : renderWorker[j] # "none" \/ renderCancel[j] # "none"}
    /\ renderEvent' = [j \in Render |-> "none"] /\ renderWorker' = [j \in Render |-> "none"]
    /\ renderIndex' = [j \in Render |-> 1]
    /\ renderCancel' = [j \in Render |-> "none"] /\ renderTodo' = {}
    /\ UNCHANGED <<renderDisk, comfy, renderSpoiled>>

\* The container is started again; lifespan looks at the jobs before it serves.
RenderRestart ==
    /\ renderUp = "down" /\ renderUp' = "recovering"
    /\ renderTodo' = {j \in Render : renderState[j] \in RenderLive}
    /\ UNCHANGED <<renderDisk, renderEvent, renderWorker, renderIndex, renderCancel, comfy,
                   renderPast>>

\* recover_jobs, one file: the state stays as it is.
RenderRecover(j) ==
    /\ renderUp = "recovering" /\ j \in renderTodo /\ renderTodo' = renderTodo \ {j}
    /\ RenderStartJob(j) /\ StateLockFree
    /\ UNCHANGED <<renderDisk, renderIndex, renderCancel, comfy, renderUp, renderPast>>

RenderServe ==
    /\ renderUp = "recovering" /\ renderTodo = {} /\ renderUp' = "up"
    /\ UNCHANGED <<renderDisk, renderEvent, renderWorker, renderIndex, renderCancel, comfy,
                   renderTodo, renderPast>>

-----------------------------------------------------------------------------
RenderWork(j) ==
    \/ RenderStore(j) \/ RenderSpawn(j) \/ RenderBegin(j) \/ RenderWatch(j)
    \/ RenderDownload(j) \/ RenderPublish(j) \/ RenderExcept(j) \/ RenderRemove(j)
    \/ RenderFinally(j)

RenderCancelling(j) == RenderCancelCleans(j) \/ RenderDequeue(j)

RenderNext ==
    \/ \E j \in Render :
          \/ RenderPrompt(j) \/ RenderWork(j) \/ RenderCancel(j) \/ RenderCancelling(j)
          \/ ComfyRuns(j) \/ RenderRecover(j)
    \/ RenderCrash \/ RenderRestart \/ RenderServe

\* Threads are scheduled, requests have timeouts, the deadline of the polling loop passes,
\* and the container is started again.  ComfyUI need not finish anything.
RenderFairness ==
    /\ \A j \in Render : /\ WF_renderVars(RenderWork(j)) /\ WF_renderVars(RenderCancelling(j))
                         /\ WF_renderVars(RenderRecover(j))
    /\ WF_renderVars(RenderRestart) /\ WF_renderVars(RenderServe)

RenderSpec == RenderInit /\ [][RenderNext]_renderVars /\ RenderFairness

-----------------------------------------------------------------------------
RenderTypeOK ==
    /\ renderState \in [Render -> RenderLive \cup {"none", "completed", "failed", "cancelled"}]
    /\ renderFiles \in [Render -> SUBSET (1..Outputs)]
    /\ renderEvent \in [Render -> {"none", "clear", "set"}]
    /\ renderWorker \in [Render -> {"none", "prompted", "spawn", "begin", "watch", "download",
                                    "publish", "except", "cleanup", "final"}]
    /\ renderIndex \in [Render -> 1..Outputs]
    /\ renderCancel \in [Render -> {"none", "cleanup", "dequeue"}]
    /\ comfy \in [Render -> {"none", "queued", "running", "done", "failed", "deleted"}]
    /\ renderUp \in {"up", "down", "recovering"} /\ renderTodo \subseteq Render
    /\ renderFaults \in 0..MaxRenderFaults
    /\ renderSpoiled \subseteq Render /\ renderHurt \subseteq Render

\* Whatever a cancel, a restart or a failed write removes or repeats, a completed job has
\* every output it lists, and a failed one leaves none unless the process died on it.
RenderKept ==
    /\ RenderTypeOK
    /\ \A j \in Render : renderState[j] = "completed" => renderFiles[j] = 1..Outputs
    /\ \A j \in Render :
          renderState[j] = "failed" /\ renderWorker[j] = "none"
             => j \in renderHurt \/ renderFiles[j] = {}

\* The runtime implements the contract of asynchronous jobs, over restarts that start a
\* watcher again on the workflow the state names.
RLife == INSTANCE JobLife WITH Job <- Render, status <- renderState, spoiled <- renderSpoiled
RenderLife == RLife!JobSpec

\* Not so: render/test_app.py:130 lets a cancel meet a late result and finds no output of
\* the job.  With two outputs, the first downloaded after the cancel removed the files and
\* the second failing, the except clause removes nothing and the first stays.
CancelledLeavesNothing ==
    \A j \in Render :
        renderState[j] = "cancelled" /\ renderWorker[j] = "none" /\ renderCancel[j] = "none"
           => j \in renderHurt \cup renderSpoiled \/ renderFiles[j] = {}
=============================================================================
