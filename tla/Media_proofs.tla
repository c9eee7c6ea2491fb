---------------------------- MODULE Media_proofs ----------------------------
(***************************************************************************)
(* Proofs about the media runtimes, for any finite sets of jobs and any    *)
(* requests.  VideoSound and RenderSound say where a worker can be with the*)
(* state of its job on disk, and what of the job's files is there then;    *)
(* EditorSound says whose turn it is with the resident editor.  The same   *)
(* two invariants make each step of a runtime a step of JobLife, or none.  *)
(***************************************************************************)
EXTENDS Media, TLAPS

\* Where a worker can be with the state of its job on disk.
VideoPlace(j) ==
    /\ videoWorker[j] = "spawn" => videoState[j] = "queued"
    /\ videoWorker[j] = "begin" => videoState[j] \in {"queued", "cancelled"}
    /\ videoWorker[j] \in {"queue", "generate", "made", "move", "publish"}
          => videoState[j] \in {"in_progress", "cancelled"}
    /\ videoWorker[j] = "except" => videoState[j] \in VideoLive \cup {"cancelled"}
    /\ videoUp = "down" => videoWorker[j] = "none"
    /\ j \in videoTodo
          => videoUp = "recovering" /\ videoWorker[j] = "none" /\ videoState[j] \in VideoLive

\* What of a job is on disk before its end, unless a worker died on it or could not write.
VideoLeft(j) ==
    /\ videoWorker[j] # "publish" => j \notin videoOutput
    /\ videoWorker[j] \notin {"made", "move", "except"} => videoDraft[j] = {}
    /\ videoWorker[j] = "made" => videoDraft[j] \in {{}, {"whole"}, {"broken"}}
    /\ videoWorker[j] = "move" => videoDraft[j] = {"whole"}

\* A job is where its state allows, and its files are what the state says.
VideoJob(j) ==
    /\ VideoPlace(j)
    /\ videoWorker[j] = "publish" \/ videoState[j] = "completed" => j \in videoOutput
    /\ videoState[j] \notin {"completed", "failed"} /\ j \notin videoHurt \cup videoSpoiled
          => VideoLeft(j)

VideoSound == VideoTypeOK /\ \A j \in Video : VideoJob(j)

-----------------------------------------------------------------------------
\* Where a worker of the render runtime can be with the state of its job on disk.
RenderPlace(j) ==
    /\ renderWorker[j] = "prompted" => renderState[j] = "none" /\ comfy[j] # "none"
    /\ renderWorker[j] = "spawn" => renderState[j] = "queued"
    /\ renderWorker[j] \in {"begin", "except"} => renderState[j] \in RenderLive \cup {"cancelled"}
    /\ renderWorker[j] \in {"watch", "download", "publish"}
          => renderState[j] \in {"in_progress", "cancelled"}
    /\ renderWorker[j] = "cleanup" => renderState[j] = "failed"
    /\ renderCancel[j] # "none" => renderState[j] = "cancelled"
    /\ comfy[j] = "none" => renderState[j] = "none"
    /\ renderUp = "down" => renderWorker[j] = "none"
    /\ j \in renderTodo
          => renderUp = "recovering" /\ renderWorker[j] = "none" /\ renderState[j] \in RenderLive

\* The files of a render follow its state too.
RenderJob(j) ==
    /\ RenderPlace(j)
    /\ renderWorker[j] # "download" => renderIndex[j] = 1
    /\ renderState[j] # "cancelled" /\ renderWorker[j] = "download"
          => 1..(renderIndex[j] - 1) \subseteq renderFiles[j]
    /\ (renderState[j] # "cancelled" /\ renderWorker[j] = "publish") \/ renderState[j] = "completed"
          => renderFiles[j] = 1..Outputs
    /\ renderState[j] = "failed" /\ j \notin renderHurt
          => renderWorker[j] = "cleanup" \/ renderFiles[j] = {}

RenderSound == RenderTypeOK /\ \A j \in Render : RenderJob(j)

-----------------------------------------------------------------------------
\* Whose turn it is with the resident editor, and which editor it is.
EditorSound ==
    /\ ImageTypeOK
    /\ \A s \in Selector : selector[s].at \in {"write", "commit"} <=> imageLock = s
    /\ \A e \in Edit : edit[e] = "run" <=> imageLock = e
    /\ \A g \in Generation : generation[g] = "run" <=> imageLock = g
    /\ warmup.at \in {"read", "load"} <=> imageLock = "warmup"
    /\ \A s \in Selector : selector[s].at = "commit" => selection = selector[s].model
    /\ warmup.at = "load" => selection = warmup.model
    /\ (\A s \in Selector : selector[s].at # "commit") /\ resident # "none" => resident = selection

-----------------------------------------------------------------------------
\* Every step of the video runtime keeps the types.
LEMMA VideoTyped == ASSUME VideoTypeOK, [VideoNext]_videoVars PROVE VideoTypeOK'
<1> USE VideoAssumption DEF VideoTypeOK, VideoLive, VideoWrites, VideoGoes, VideoFault
<1>1. ASSUME NEW j \in Video, VideoCreate(j) \/ VideoSpawn(j) \/ VideoFinally(j) \/ VideoTakeLock(j)
      PROVE  VideoTypeOK'
    BY <1>1 DEF VideoCreate, VideoSpawn, VideoStartJob, VideoFinally, VideoTakeLock, videoFiles, videoPast
<1>2. ASSUME NEW j \in Video, VideoBegin(j) PROVE VideoTypeOK' BY <1>2 DEF VideoBegin
<1>3. ASSUME NEW j \in Video, VideoGenerate(j) PROVE VideoTypeOK' BY <1>3 DEF VideoGenerate
<1>4. ASSUME NEW j \in Video, VideoLook(j) PROVE VideoTypeOK' BY <1>4 DEF VideoLook, videoPast
<1>5. ASSUME NEW j \in Video, VideoMove(j) PROVE VideoTypeOK' BY <1>5 DEF VideoMove
<1>6. ASSUME NEW j \in Video, VideoPublish(j) PROVE VideoTypeOK' BY <1>6 DEF VideoPublish
<1>7. ASSUME NEW j \in Video, VideoExcept(j) PROVE VideoTypeOK'
    BY <1>7 DEF VideoExcept, VideoSpoils, videoPast
<1>8. ASSUME NEW j \in Video, VideoCancel(j) PROVE VideoTypeOK'
    BY <1>8 DEF VideoCancel, VideoSpoils, videoPast
<1>9. ASSUME NEW j \in Video, VideoRecover(j) PROVE VideoTypeOK'
    BY <1>9 DEF VideoRecover, VideoSpoils, VideoStartJob, videoPast
<1>10. CASE VideoWarm \/ VideoWarmed \/ VideoRestart \/ VideoServe
    BY <1>10 DEF VideoWarm, VideoWarmed, VideoRestart, VideoServe, videoFiles, videoPast
<1>11. CASE VideoCrash BY <1>11 DEF VideoCrash
<1>12. CASE UNCHANGED videoVars BY <1>12 DEF videoVars, videoFiles, videoProc, videoPast
<1> QED BY <1>1, <1>2, <1>3, <1>4, <1>5, <1>6, <1>7, <1>8, <1>9, <1>10, <1>11, <1>12
        DEF VideoNext, VideoWork

\* A worker's step keeps every job sound.
LEMMA VideoWorkSound ==
    ASSUME VideoTypeOK, NEW j \in Video, VideoJob(j), VideoWork(j), NEW i \in Video, VideoJob(i)
    PROVE  VideoJob(i)'
<1> USE DEF VideoTypeOK, VideoJob, VideoPlace, VideoLeft, VideoLive, VideoWrites, VideoGoes, VideoFault
<1>1. CASE VideoSpawn(j) BY <1>1 DEF VideoSpawn, VideoStartJob, videoFiles, videoPast
<1>2. CASE VideoBegin(j) BY <1>2 DEF VideoBegin, VideoCancelled
<1>3. CASE VideoTakeLock(j) BY <1>3 DEF VideoTakeLock, videoFiles, videoPast
<1>4. CASE VideoGenerate(j) BY <1>4 DEF VideoGenerate
<1>5. CASE VideoLook(j) BY <1>5 DEF VideoLook, videoPast
<1>6. CASE VideoMove(j) BY <1>6 DEF VideoMove
<1>7. CASE VideoPublish(j) BY <1>7 DEF VideoPublish, VideoCancelled
<1>8. CASE VideoExcept(j) BY <1>8 DEF VideoExcept, VideoSpoils, videoPast
<1>9. CASE VideoFinally(j) BY <1>9 DEF VideoFinally, videoFiles, videoPast
<1> QED BY <1>1, <1>2, <1>3, <1>4, <1>5, <1>6, <1>7, <1>8, <1>9 DEF VideoWork

\* So does every step of the video runtime.
LEMMA VideoNextSound == VideoSound /\ [VideoNext]_videoVars => VideoSound'
<1> SUFFICES ASSUME VideoSound, [VideoNext]_videoVars PROVE VideoSound' OBVIOUS
<1>1. VideoTypeOK /\ VideoTypeOK' BY VideoTyped DEF VideoSound
<1> SUFFICES ASSUME NEW i \in Video PROVE VideoJob(i)' BY <1>1 DEF VideoSound
<1>2. VideoJob(i) BY DEF VideoSound
<1>3. ASSUME NEW j \in Video, VideoWork(j) PROVE VideoJob(i)'
    BY <1>1, <1>2, <1>3, VideoWorkSound DEF VideoSound
<1> USE <1>1, <1>2 DEF VideoTypeOK, VideoJob, VideoPlace, VideoLeft, VideoLive, VideoWrites, VideoGoes,
                       VideoFault
<1>4. ASSUME NEW j \in Video, VideoCreate(j) PROVE VideoJob(i)' BY <1>4 DEF VideoCreate, videoPast
<1>5. ASSUME NEW j \in Video, VideoCancel(j) PROVE VideoJob(i)'
    BY <1>5 DEF VideoCancel, VideoSpoils, videoPast
<1>6. ASSUME NEW j \in Video, VideoRecover(j) PROVE VideoJob(i)'
    BY <1>6 DEF VideoRecover, VideoSpoils, VideoStartJob, videoPast
<1>7. CASE VideoWarm \/ VideoWarmed
    BY <1>7 DEF VideoWarm, VideoWarmed, videoFiles, videoPast
<1>8. CASE VideoRestart BY <1>8 DEF VideoRestart, videoFiles, videoPast
<1>9. CASE VideoServe BY <1>9 DEF VideoServe, videoFiles, videoPast
<1>10. CASE VideoCrash BY <1>10 DEF VideoCrash
<1>11. CASE UNCHANGED videoVars BY <1>11 DEF videoVars, videoFiles, videoProc, videoPast
<1> QED BY <1>3, <1>4, <1>5, <1>6, <1>7, <1>8, <1>9, <1>10, <1>11 DEF VideoNext

\* A fresh video runtime is sound.
LEMMA VideoInitSound == VideoInit => VideoSound
BY VideoAssumption DEF VideoInit, VideoSound, VideoTypeOK, VideoJob, VideoPlace, VideoLeft, VideoLive

-----------------------------------------------------------------------------
\* Every step of the render runtime keeps the types.
LEMMA RenderTyped == ASSUME RenderTypeOK, [RenderNext]_renderVars PROVE RenderTypeOK'
<1> USE RenderAssumption DEF RenderTypeOK, RenderLive, RenderWrites, RenderGoes, RenderFault,
        RenderCleans, RenderStartJob, renderDisk, renderNode, renderPast
<1>1. ASSUME NEW j \in Render, RenderPrompt(j) \/ RenderStore(j) \/ RenderSpawn(j) PROVE RenderTypeOK'
    BY <1>1 DEF RenderPrompt, RenderStore, RenderSpawn
<1>2. ASSUME NEW j \in Render, RenderBegin(j) PROVE RenderTypeOK' BY <1>2 DEF RenderBegin
<1>3. ASSUME NEW j \in Render, RenderWatch(j) PROVE RenderTypeOK' BY <1>3 DEF RenderWatch
<1>4. ASSUME NEW j \in Render, RenderDownload(j) PROVE RenderTypeOK' BY <1>4 DEF RenderDownload
<1>5. ASSUME NEW j \in Render, RenderPublish(j) PROVE RenderTypeOK' BY <1>5 DEF RenderPublish
<1>6. ASSUME NEW j \in Render, RenderExcept(j) \/ RenderRemove(j) \/ RenderFinally(j)
      PROVE  RenderTypeOK'
    BY <1>6 DEF RenderExcept, RenderRemove, RenderFinally
<1>7. ASSUME NEW j \in Render, RenderCancel(j) PROVE RenderTypeOK' BY <1>7 DEF RenderCancel
<1>8. ASSUME NEW j \in Render, RenderCancelling(j) \/ ComfyRuns(j) PROVE RenderTypeOK'
    BY <1>8 DEF RenderCancelling, RenderCancelCleans, RenderDequeue, ComfyRuns, renderProc
<1>9. ASSUME NEW j \in Render, RenderRecover(j) PROVE RenderTypeOK' BY <1>9 DEF RenderRecover
<1>10. CASE RenderRestart \/ RenderServe BY <1>10 DEF RenderRestart, RenderServe
<1>11. CASE RenderCrash BY <1>11 DEF RenderCrash
<1>12. CASE UNCHANGED renderVars BY <1>12 DEF renderVars, renderProc
<1> QED BY <1>1, <1>2, <1>3, <1>4, <1>5, <1>6, <1>7, <1>8, <1>9, <1>10, <1>11, <1>12
        DEF RenderNext, RenderWork

\* The steps of create_render and of a worker keep every job sound.
LEMMA RenderWorkSound ==
    ASSUME RenderTypeOK, NEW j \in Render, RenderJob(j), RenderPrompt(j) \/ RenderWork(j),
           NEW i \in Render, RenderJob(i)
    PROVE  RenderJob(i)'
<1> USE RenderAssumption DEF RenderTypeOK, RenderJob, RenderPlace, RenderLive, RenderWrites,
        RenderGoes, RenderFault, RenderCleans, RenderStartJob, renderDisk, renderNode, renderPast
<1>1. CASE RenderPrompt(j) BY <1>1 DEF RenderPrompt
<1>2. CASE RenderStore(j) BY <1>2 DEF RenderStore
<1>3. CASE RenderSpawn(j) BY <1>3 DEF RenderSpawn
<1>4. CASE RenderBegin(j) BY <1>4 DEF RenderBegin, RenderCancelled
<1>5. CASE RenderWatch(j) BY <1>5 DEF RenderWatch
<1>6. CASE RenderDownload(j)
    <2>1. CASE i # j BY <1>6, <2>1 DEF RenderDownload
    <2>2. CASE i = j /\ RenderFault /\ RenderGoes(j, "except") BY <1>6, <2>2 DEF RenderDownload
    <2>3. CASE /\ i = j /\ renderFiles' = [renderFiles EXCEPT ![j] = @ \cup {renderIndex[j]}]
               /\ IF renderIndex[j] = Outputs
                     THEN RenderGoes(j, "publish") /\ renderIndex' = [renderIndex EXCEPT ![j] = 1]
                     ELSE renderIndex' = [renderIndex EXCEPT ![j] = @ + 1] /\ UNCHANGED renderWorker
        <3> DEFINE k == renderIndex[j]
        <3>1. k \in 1..Outputs /\ 1..k = (1..(k - 1)) \cup {k} /\ k + 1 - 1 = k OBVIOUS
        <3>2. renderFiles[j] \subseteq 1..Outputs /\ renderFiles'[j] = renderFiles[j] \cup {k} BY <2>3
        <3>3. /\ UNCHANGED <<renderState, renderEvent, renderCancel, comfy, renderNode, renderSpoiled, renderHurt>>
              /\ renderWorker[j] = "download"
            BY <1>6 DEF RenderDownload
        <3>4. renderState[j] # "cancelled" => 1..k \subseteq renderFiles'[j]
            BY <2>3, <3>1, <3>2, <3>3
        <3>5. renderState[j] \in {"in_progress", "cancelled"} BY <3>3
        <3> HIDE DEF k
        <3>6. CASE k = Outputs
            <4>1. renderWorker'[j] = "publish" /\ renderIndex'[j] = 1 BY <2>3, <3>6 DEF k
            <4>2. renderState[j] # "cancelled" => renderFiles'[j] = 1..Outputs
                BY <3>1, <3>2, <3>4, <3>6
            <4> QED BY <2>3, <3>3, <3>5, <4>1, <4>2
        <3>7. CASE k # Outputs
            <4>1. renderWorker'[j] = "download" /\ renderIndex'[j] = k + 1 BY <2>3, <3>3, <3>7 DEF k
            <4>2. renderState[j] # "cancelled" => 1..(renderIndex'[j] - 1) \subseteq renderFiles'[j]
                BY <3>1, <3>4, <4>1
            <4> QED BY <2>3, <3>3, <3>5, <4>1, <4>2
        <3> QED BY <3>6, <3>7
    <2> QED BY <1>6, <2>1, <2>2, <2>3 DEF RenderDownload
<1>7. CASE RenderPublish(j) BY <1>7 DEF RenderPublish, RenderCancelled
<1>8. CASE RenderExcept(j) BY <1>8 DEF RenderExcept
<1>9. CASE RenderRemove(j) BY <1>9 DEF RenderRemove
<1>10. CASE RenderFinally(j) BY <1>10 DEF RenderFinally
<1> QED BY <1>1, <1>2, <1>3, <1>4, <1>5, <1>6, <1>7, <1>8, <1>9, <1>10 DEF RenderWork

\* So does every step of the render runtime.
LEMMA RenderNextSound == RenderSound /\ [RenderNext]_renderVars => RenderSound'
<1> SUFFICES ASSUME RenderSound, [RenderNext]_renderVars PROVE RenderSound' OBVIOUS
<1>1. RenderTypeOK /\ RenderTypeOK' BY RenderTyped DEF RenderSound
<1> SUFFICES ASSUME NEW i \in Render PROVE RenderJob(i)' BY <1>1 DEF RenderSound
<1>2. RenderJob(i) BY DEF RenderSound
<1>3. ASSUME NEW j \in Render, RenderPrompt(j) \/ RenderWork(j) PROVE RenderJob(i)'
    BY <1>1, <1>2, <1>3, RenderWorkSound DEF RenderSound
<1> USE <1>1, <1>2 DEF RenderTypeOK, RenderJob, RenderPlace, RenderLive, RenderWrites, RenderGoes,
        RenderFault, RenderCleans, RenderStartJob, renderDisk, renderNode, renderPast
<1>4. ASSUME NEW j \in Render, RenderCancel(j) PROVE RenderJob(i)' BY <1>4 DEF RenderCancel
<1>5. ASSUME NEW j \in Render, RenderCancelling(j) PROVE RenderJob(i)'
    <2>1. RenderJob(j) BY DEF RenderSound
    <2> QED BY <1>5, <2>1 DEF RenderCancelling, RenderCancelCleans, RenderDequeue
<1>6. ASSUME NEW j \in Render, ComfyRuns(j) PROVE RenderJob(i)' BY <1>6 DEF ComfyRuns, renderProc
<1>7. ASSUME NEW j \in Render, RenderRecover(j) PROVE RenderJob(i)' BY <1>7 DEF RenderRecover
<1>8. CASE RenderRestart BY <1>8 DEF RenderRestart
<1>9. CASE RenderServe BY <1>9 DEF RenderServe
<1>10. CASE RenderCrash BY <1>10, RenderAssumption DEF RenderCrash
<1>11. CASE UNCHANGED renderVars BY <1>11 DEF renderVars, renderProc
<1> QED BY <1>3, <1>4, <1>5, <1>6, <1>7, <1>8, <1>9, <1>10, <1>11 DEF RenderNext

\* A fresh render runtime is sound.
LEMMA RenderInitSound == RenderInit => RenderSound
BY RenderAssumption DEF RenderInit, RenderSound, RenderTypeOK, RenderJob, RenderPlace, RenderLive

-----------------------------------------------------------------------------
\* The names of requests tell them apart, and from nobody and the warm-up.
LEMMA EditorNextSound == EditorSound /\ [ImageNext]_imageVars => EditorSound'
<1> SUFFICES ASSUME EditorSound, [ImageNext]_imageVars PROVE EditorSound' OBVIOUS
<1> USE ImageAssumption DEF EditorSound, ImageTypeOK, ImageFault
<1>1. ASSUME NEW s \in Selector, Select(s) PROVE EditorSound' BY <1>1 DEF Select
<1>2. ASSUME NEW s \in Selector, SelectLoads(s) PROVE EditorSound' BY <1>2 DEF SelectLoads
<1>3. ASSUME NEW s \in Selector, SelectWrites(s) PROVE EditorSound' BY <1>3 DEF SelectWrites
<1>4. ASSUME NEW s \in Selector, SelectCommits(s) PROVE EditorSound' BY <1>4 DEF SelectCommits
<1>5. CASE WarmupGenerates BY <1>5 DEF WarmupGenerates, imageRequests
<1>6. CASE WarmupResets BY <1>6 DEF WarmupResets, imageRequests
<1>7. CASE WarmupReads BY <1>7 DEF WarmupReads, imageRequests
<1>8. CASE WarmupCommits BY <1>8 DEF WarmupCommits, imageRequests
<1>9. ASSUME NEW g \in Generation, Generate(g) PROVE EditorSound' BY <1>9 DEF Generate
<1>10. ASSUME NEW g \in Generation, Generates(g) PROVE EditorSound' BY <1>10 DEF Generates
<1>11. ASSUME NEW e \in Edit, EditBegins(e) PROVE EditorSound' BY <1>11 DEF EditBegins
<1>12. ASSUME NEW e \in Edit, EditRuns(e) PROVE EditorSound' BY <1>12 DEF EditRuns
<1>13. ASSUME NEW e \in Edit, EditEnds(e) PROVE EditorSound' BY <1>13 DEF EditEnds
<1>14. CASE ImageRestart BY <1>14 DEF ImageRestart, ImageStarts
<1>15. CASE UNCHANGED imageVars BY <1>15 DEF imageVars, imageRequests
<1> QED BY <1>1, <1>2, <1>3, <1>4, <1>5, <1>6, <1>7, <1>8, <1>9, <1>10, <1>11, <1>12, <1>13, <1>14, <1>15
        DEF ImageNext, Selects, Warms, Edits

\* A fresh image runtime has no editor in memory.
LEMMA EditorInitSound == ImageInit => EditorSound
BY ImageAssumption DEF ImageInit, EditorSound, ImageTypeOK

-----------------------------------------------------------------------------
\* The files and the resident editor are what the runtimes answer, for any number of jobs
\* and of requests, and wherever cancels, failed writes and restarts meet them.
THEOREM MediaIsKept == MediaSpec => []MediaKept
<1> DEFINE Sound == VideoSound /\ RenderSound /\ EditorSound
<1>1. MediaInit => Sound BY VideoInitSound, RenderInitSound, EditorInitSound DEF MediaInit
<1>2. Sound /\ [MediaNext]_mediaVars => Sound'
    BY VideoNextSound, RenderNextSound, EditorNextSound
    DEF MediaNext, Films, Draws, Paints, mediaVars
<1>3. VideoSound => VideoKept
    BY DEF VideoSound, VideoJob, VideoLeft, VideoKept
<1>4. RenderSound => RenderKept
    BY DEF RenderSound, RenderJob, RenderKept
<1>5. EditorSound => EditorKept
    BY DEF EditorSound, EditorKept
<1>6. Sound => MediaKept BY <1>3, <1>4, <1>5 DEF MediaKept
<1> QED BY <1>1, <1>2, <1>6, PTL DEF MediaSpec

-----------------------------------------------------------------------------
\* A step of the video runtime is a step of the contract, or none.
LEMMA VideoStepIsLife ==
    ASSUME VideoSound, [VideoNext]_videoVars PROVE [Life!JobNext]_(Life!jobVars)
<1> USE DEF Life!JobNext, Life!jobVars, Life!Accept, Life!Begin, Life!Requeue, Life!End, Life!Spoil,
        Life!Becomes, Life!Live, Life!Ended, VideoWrites, VideoLive, videoFiles, videoPast
<1>0. ASSUME NEW j \in Video PROVE VideoPlace(j) BY DEF VideoSound, VideoJob
<1>1. ASSUME NEW j \in Video, VideoCreate(j) PROVE Life!Accept(j)
    BY <1>1 DEF VideoCreate
<1>2. ASSUME NEW j \in Video, VideoBegin(j) PROVE Life!Begin(j) \/ UNCHANGED Life!jobVars
    BY <1>0, <1>2 DEF VideoBegin, VideoPlace, VideoCancelled
<1>3. ASSUME NEW j \in Video, VideoPublish(j) PROVE Life!End(j) \/ UNCHANGED Life!jobVars
    BY <1>0, <1>3 DEF VideoPublish, VideoPlace, VideoCancelled
<1>4. ASSUME NEW j \in Video, VideoExcept(j) PROVE Life!End(j) \/ Life!Spoil(j) \/ UNCHANGED Life!jobVars
    BY <1>0, <1>4 DEF VideoExcept, VideoPlace, VideoSpoils
<1>5. ASSUME NEW j \in Video, VideoCancel(j) PROVE Life!End(j) \/ Life!Spoil(j)
    BY <1>5 DEF VideoCancel, VideoSpoils
<1>6. ASSUME NEW j \in Video, VideoRecover(j)
      PROVE  Life!Requeue(j) \/ Life!Spoil(j) \/ UNCHANGED Life!jobVars
    <2>1. videoState[j] \in {"queued", "in_progress"} BY <1>0, <1>6 DEF VideoRecover, VideoPlace
    <2>2. CASE VideoSpoils(j) BY <2>1, <2>2 DEF VideoSpoils
    <2>3. CASE VideoWrites(j, "queued") /\ UNCHANGED videoPast
        <3>1. CASE videoState[j] = "in_progress" BY <2>3, <3>1
        <3>2. CASE videoState[j] = "queued"
            <4>1. videoState' = videoState BY <2>3, <3>2 DEF VideoSound, VideoTypeOK
            <4> QED BY <2>3, <4>1
        <3> QED BY <2>1, <3>1, <3>2
    <2> QED BY <1>6, <2>2, <2>3 DEF VideoRecover
<1>7. ASSUME NEW j \in Video,
             VideoSpawn(j) \/ VideoTakeLock(j) \/ VideoGenerate(j) \/ VideoLook(j) \/ VideoMove(j)
               \/ VideoFinally(j)
      PROVE  UNCHANGED Life!jobVars
    BY <1>7 DEF VideoSpawn, VideoTakeLock, VideoGenerate, VideoLook, VideoMove, VideoFinally
<1>8. CASE VideoWarm \/ VideoWarmed \/ VideoCrash \/ VideoRestart \/ VideoServe
    BY <1>8 DEF VideoWarm, VideoWarmed, VideoCrash, VideoRestart, VideoServe
<1>9. CASE UNCHANGED videoVars BY <1>9 DEF videoVars
<1> HIDE DEF Life!jobVars, Life!Accept, Life!Begin, Life!Requeue, Life!End, Life!Spoil
<1> QED BY <1>1, <1>2, <1>3, <1>4, <1>5, <1>6, <1>7, <1>8, <1>9 DEF VideoNext, VideoWork

\* The video runtime implements the contract of asynchronous jobs, step by step.
THEOREM VideoImplementsJobs == VideoSpec => Life!JobInit /\ [][Life!JobNext]_(Life!jobVars)
<1>1. VideoInit => Life!JobInit BY DEF VideoInit, Life!JobInit
<1> QED BY <1>1, VideoInitSound, VideoNextSound, VideoStepIsLife, PTL DEF VideoSpec

\* A step of the render runtime is a step of the contract, or none.
LEMMA RenderStepIsLife ==
    ASSUME RenderSound, [RenderNext]_renderVars PROVE [RLife!JobNext]_(RLife!jobVars)
<1> USE DEF RLife!JobNext, RLife!jobVars, RLife!Accept, RLife!Begin, RLife!End, RLife!Spoil,
        RLife!Becomes, RLife!Live, RLife!Ended, RenderWrites, RenderLive, renderDisk, renderPast
<1>0. ASSUME NEW j \in Render PROVE RenderPlace(j) BY DEF RenderSound, RenderJob
<1>1. ASSUME NEW j \in Render, RenderStore(j) PROVE RLife!Accept(j) \/ UNCHANGED RLife!jobVars
    BY <1>0, <1>1 DEF RenderStore, RenderPlace
<1>2. ASSUME NEW j \in Render, RenderBegin(j) PROVE RLife!Begin(j) \/ UNCHANGED RLife!jobVars
    <2>1. renderState[j] \in {"queued", "in_progress", "cancelled"}
        BY <1>0, <1>2 DEF RenderBegin, RenderPlace
    <2>2. CASE renderState[j] = "in_progress"
        <3>1. renderState' = renderState BY <1>2, <2>2 DEF RenderBegin, RenderSound, RenderTypeOK
        <3> QED BY <1>2, <3>1 DEF RenderBegin
    <2>3. CASE renderState[j] # "in_progress" BY <1>2, <2>1, <2>3 DEF RenderBegin, RenderCancelled
    <2> QED BY <2>2, <2>3
<1>3. ASSUME NEW j \in Render, RenderPublish(j) PROVE RLife!End(j) \/ UNCHANGED RLife!jobVars
    BY <1>0, <1>3 DEF RenderPublish, RenderPlace, RenderCancelled
<1>4. ASSUME NEW j \in Render, RenderExcept(j)
      PROVE  RLife!End(j) \/ RLife!Spoil(j) \/ UNCHANGED RLife!jobVars
    BY <1>0, <1>4 DEF RenderExcept, RenderPlace
<1>5. ASSUME NEW j \in Render, RenderCancel(j) PROVE RLife!End(j) \/ RLife!Spoil(j)
    BY <1>5 DEF RenderCancel
<1>6. ASSUME NEW j \in Render,
             RenderPrompt(j) \/ RenderSpawn(j) \/ RenderWatch(j) \/ RenderDownload(j)
               \/ RenderRemove(j) \/ RenderFinally(j) \/ RenderCancelling(j) \/ ComfyRuns(j)
               \/ RenderRecover(j)
      PROVE  UNCHANGED RLife!jobVars
    BY <1>6 DEF RenderPrompt, RenderSpawn, RenderWatch, RenderDownload, RenderRemove,
                RenderFinally, RenderCancelling, RenderCancelCleans, RenderDequeue, ComfyRuns,
                RenderRecover
<1>7. CASE RenderCrash \/ RenderRestart \/ RenderServe
    BY <1>7 DEF RenderCrash, RenderRestart, RenderServe
<1>8. CASE UNCHANGED renderVars BY <1>8 DEF renderVars
<1> HIDE DEF RLife!jobVars, RLife!Accept, RLife!Begin, RLife!End, RLife!Spoil
<1> QED BY <1>1, <1>2, <1>3, <1>4, <1>5, <1>6, <1>7, <1>8 DEF RenderNext, RenderWork

\* The render runtime implements it too, though a restart leaves the state on disk as it is.
THEOREM RenderImplementsJobs ==
    RenderSpec => RLife!JobInit /\ [][RLife!JobNext]_(RLife!jobVars)
<1>1. RenderInit => RLife!JobInit BY DEF RenderInit, RLife!JobInit
<1> QED BY <1>1, RenderInitSound, RenderNextSound, RenderStepIsLife, PTL DEF RenderSpec

-----------------------------------------------------------------------------
\* What the contract says of a job that has ended, it says of the jobs of both runtimes.
VideoEnded(j)  == videoState[j] \in Life!Ended
RenderEnded(j) == renderState[j] \in RLife!Ended

\* A step of the contract leaves the videos that ended alone.
LEMMA VideoEndsStay ==
    ASSUME VideoSound, [VideoNext]_videoVars, NEW j \in Video, VideoEnded(j)
    PROVE  videoState'[j] = videoState[j]
<1>1. videoState \in [Video -> {"none"} \cup VideoLive \cup Life!Ended]
    BY DEF VideoSound, VideoTypeOK, VideoLive, Life!Ended
<1> QED
    BY <1>1, VideoStepIsLife
       DEF Life!JobNext, Life!jobVars, Life!Accept, Life!Begin, Life!Requeue, Life!End,
           Life!Spoil, Life!Becomes, Life!Live, Life!Ended, VideoEnded

\* And the renders.
LEMMA RenderEndsStay ==
    ASSUME RenderSound, [RenderNext]_renderVars, NEW j \in Render, RenderEnded(j)
    PROVE  renderState'[j] = renderState[j]
<1>1. renderState \in [Render -> {"none"} \cup RenderLive \cup RLife!Ended]
    BY DEF RenderSound, RenderTypeOK, RenderLive, RLife!Ended
<1> QED
    BY <1>1, RenderStepIsLife
       DEF RLife!JobNext, RLife!jobVars, RLife!Accept, RLife!Begin, RLife!Requeue, RLife!End,
           RLife!Spoil, RLife!Becomes, RLife!Live, RLife!Ended, RenderEnded

\* The answer to a job that has ended never changes, whatever worker, cancel or restart
\* still writes of it.
THEOREM EndsAreFinal ==
    MediaSpec =>
        [][/\ \A j \in Video : VideoEnded(j) => videoState'[j] = videoState[j]
           /\ \A j \in Render : RenderEnded(j) => renderState'[j] = renderState[j]]_mediaVars
<1> DEFINE Final == /\ \A j \in Video : VideoEnded(j) => videoState'[j] = videoState[j]
                    /\ \A j \in Render : RenderEnded(j) => renderState'[j] = renderState[j]
<1>1. [MediaNext]_mediaVars => [VideoNext]_videoVars /\ [RenderNext]_renderVars
    BY DEF MediaNext, mediaVars, Films, Draws, Paints
<1>2. VideoSound /\ RenderSound /\ [MediaNext]_mediaVars => Final
    BY <1>1, VideoEndsStay, RenderEndsStay
<1>3. MediaInit => VideoSound /\ RenderSound
    BY VideoInitSound, RenderInitSound DEF MediaInit
<1>4. VideoSound /\ RenderSound /\ [MediaNext]_mediaVars => (VideoSound /\ RenderSound)'
    BY <1>1, VideoNextSound, RenderNextSound
<1> QED BY <1>2, <1>3, <1>4, PTL DEF MediaSpec
-----------------------------------------------------------------------------
\* A generation as the tests have it.  Without a fault no worker gets to its except clause:
\* what was generated is whole, unless a cancel left it out.
Unhurt(j) ==
    /\ videoState[j] # "failed" /\ videoWorker[j] # "except"
    /\ videoWorker[j] = "made" /\ videoEvent[j] # "set" => "whole" \in videoDraft[j]

Blameless == videoFaults = 0 => \A j \in Video : Unhurt(j)

\* Faults are counted, never forgotten; what a fault leads to is then excused.
LEMMA BlamelessNext ==
    Generator = "stub" /\ VideoTypeOK /\ VideoTypeOK' /\ Blameless /\ [VideoNext]_videoVars
        => Blameless'
<1> SUFFICES ASSUME Generator = "stub", VideoTypeOK, VideoTypeOK', Blameless,
                    [VideoNext]_videoVars, videoFaults' = 0, NEW i \in Video
             PROVE  Unhurt(i)'
    BY DEF Blameless
<1>1. videoFaults \in Nat BY VideoAssumption DEF VideoTypeOK
<1>2. ~VideoFault BY <1>1 DEF VideoFault
<1>3. videoFaults = 0 => \A j \in Video : Unhurt(j) BY DEF Blameless
<1> USE <1>2, <1>3 DEF VideoTypeOK, Unhurt, VideoWrites, VideoGoes, VideoSpoils, videoPast, videoFiles
<1>4. ASSUME NEW j \in Video, VideoCreate(j) PROVE Unhurt(i)' BY <1>4 DEF VideoCreate
<1>5. ASSUME NEW j \in Video, VideoSpawn(j) \/ VideoTakeLock(j) \/ VideoFinally(j)
      PROVE  Unhurt(i)'
    BY <1>5 DEF VideoSpawn, VideoStartJob, VideoTakeLock, VideoFinally
<1>6. ASSUME NEW j \in Video, VideoBegin(j) PROVE Unhurt(i)' BY <1>6 DEF VideoBegin
<1>7. ASSUME NEW j \in Video, VideoGenerate(j) PROVE Unhurt(i)' BY <1>7 DEF VideoGenerate
<1>8. ASSUME NEW j \in Video, VideoLook(j) PROVE Unhurt(i)' BY <1>8 DEF VideoLook
<1>9. ASSUME NEW j \in Video, VideoMove(j) PROVE Unhurt(i)' BY <1>9 DEF VideoMove
<1>10. ASSUME NEW j \in Video, VideoPublish(j) PROVE Unhurt(i)' BY <1>10 DEF VideoPublish
<1>11. ASSUME NEW j \in Video, VideoExcept(j) PROVE Unhurt(i)' BY <1>11 DEF VideoExcept
<1>12. ASSUME NEW j \in Video, VideoCancel(j) PROVE Unhurt(i)' BY <1>12 DEF VideoCancel
<1>13. ASSUME NEW j \in Video, VideoRecover(j) PROVE Unhurt(i)'
    BY <1>13 DEF VideoRecover, VideoStartJob
<1>14. CASE VideoWarm \/ VideoWarmed \/ VideoCrash \/ VideoRestart \/ VideoServe
    BY <1>14 DEF VideoWarm, VideoWarmed, VideoCrash, VideoRestart, VideoServe
<1>15. CASE UNCHANGED videoVars BY <1>15 DEF videoVars, videoProc
<1> QED
    BY <1>4, <1>5, <1>6, <1>7, <1>8, <1>9, <1>10, <1>11, <1>12, <1>13, <1>14, <1>15
    DEF VideoNext, VideoWork

\* With a generation as the tests have it a job fails only if something it relies on did,
\* for any number of jobs: a job that fails without is the failure of generate_video alone,
\* and no cancel, worker or restart adds another.
THEOREM FailuresHaveFaults ==
    ASSUME Generator = "stub" PROVE VideoSpec => []FailsOnFault
<1>1. VideoInit => Blameless BY DEF VideoInit, Blameless, Unhurt
<1>2. VideoTypeOK /\ Blameless => FailsOnFault
    <2> SUFFICES ASSUME VideoTypeOK, Blameless, NEW j \in Video, videoState[j] = "failed"
                 PROVE  videoFaults > 0
        BY DEF FailsOnFault
    <2>1. videoFaults \in Nat BY VideoAssumption DEF VideoTypeOK
    <2>2. videoFaults # 0 BY DEF Blameless, Unhurt
    <2> QED BY <2>1, <2>2
<1>3. VideoSound => VideoTypeOK BY DEF VideoSound
<1>4. VideoTypeOK /\ VideoTypeOK' /\ Blameless /\ [VideoNext]_videoVars => Blameless'
    BY BlamelessNext
<1> QED BY <1>1, <1>2, <1>3, <1>4, VideoInitSound, VideoNextSound, PTL DEF VideoSpec

-----------------------------------------------------------------------------
\* What a cancel leaves of a render.  What is left out is the download that fails on a job
\* cancelled meanwhile: the except clause removes nothing of such a job.
DownloadsNotCut ==
    [][\A j \in Render :
          renderState[j] = "cancelled" /\ renderWorker[j] = "download"
             => renderWorker'[j] # "except"]_renderVars

\* A cancelled job that has files is about to lose them: to its cancel, or to the locked
\* end of its worker.
Emptied(j) ==
    renderState[j] = "cancelled" /\ j \notin renderHurt \cup renderSpoiled
    /\ renderFiles[j] # {}
       => renderCancel[j] = "cleanup" \/ renderWorker[j] \in {"download", "publish"}

LEMMA EmptiedNext ==
    ASSUME RenderSound, [RenderNext]_renderVars, NEW i \in Render, Emptied(i),
           renderState[i] = "cancelled" /\ renderWorker[i] = "download"
              => renderWorker'[i] # "except"
    PROVE  Emptied(i)'
<1> USE DEF Emptied, RenderWrites, RenderGoes, RenderCleans, RenderStartJob, renderDisk, renderNode,
        renderPast
<1>0. RenderTypeOK /\ RenderPlace(i) BY DEF RenderSound, RenderJob
<1> USE <1>0 DEF RenderTypeOK
<1>1. ASSUME NEW j \in Render, RenderPrompt(j) \/ RenderStore(j) \/ RenderSpawn(j) PROVE Emptied(i)'
    BY <1>1 DEF RenderPrompt, RenderStore, RenderSpawn, RenderPlace
<1>2. ASSUME NEW j \in Render, RenderBegin(j) PROVE Emptied(i)' BY <1>2 DEF RenderBegin
<1>3. ASSUME NEW j \in Render, RenderWatch(j) PROVE Emptied(i)' BY <1>3 DEF RenderWatch
<1>4. ASSUME NEW j \in Render, RenderDownload(j) PROVE Emptied(i)' BY <1>4 DEF RenderDownload
<1>5. ASSUME NEW j \in Render, RenderPublish(j) PROVE Emptied(i)'
    BY <1>5 DEF RenderPublish, RenderCancelled
<1>6. ASSUME NEW j \in Render, RenderExcept(j) PROVE Emptied(i)' BY <1>6 DEF RenderExcept
<1>7. ASSUME NEW j \in Render, RenderRemove(j) \/ RenderFinally(j) PROVE Emptied(i)'
    BY <1>7 DEF RenderRemove, RenderFinally
<1>8. ASSUME NEW j \in Render, RenderCancel(j) PROVE Emptied(i)' BY <1>8 DEF RenderCancel
<1>9. ASSUME NEW j \in Render, RenderCancelling(j) PROVE Emptied(i)'
    BY <1>9 DEF RenderCancelling, RenderCancelCleans, RenderDequeue
<1>10. ASSUME NEW j \in Render, ComfyRuns(j) PROVE Emptied(i)'
    BY <1>10 DEF ComfyRuns, renderProc
<1>11. ASSUME NEW j \in Render, RenderRecover(j) PROVE Emptied(i)'
    BY <1>11 DEF RenderRecover, RenderPlace, RenderLive
<1>12. CASE RenderRestart \/ RenderServe BY <1>12 DEF RenderRestart, RenderServe
<1>13. CASE RenderCrash BY <1>13 DEF RenderCrash
<1>14. CASE UNCHANGED renderVars BY <1>14 DEF renderVars, renderProc
<1> QED
    BY <1>1, <1>2, <1>3, <1>4, <1>5, <1>6, <1>7, <1>8, <1>9, <1>10, <1>11, <1>12, <1>13, <1>14
    DEF RenderNext, RenderWork

\* A cancelled render leaves no output, as render/test_app.py asserts, for any number of
\* jobs and outputs and whenever the cancel meets the worker, unless a later download of
\* the job fails, or the process died or could not write: the late result alone is no danger.
THEOREM CancelsLeaveNothing == RenderSpec /\ DownloadsNotCut => []CancelledLeavesNothing
<1> DEFINE AllEmptied == \A j \in Render : Emptied(j)
<1>1. RenderInit => AllEmptied BY DEF RenderInit, Emptied
<1>2. AllEmptied => CancelledLeavesNothing
    <2> SUFFICES ASSUME AllEmptied, NEW j \in Render, renderState[j] = "cancelled",
                        renderWorker[j] = "none", renderCancel[j] = "none"
                 PROVE  j \in renderHurt \cup renderSpoiled \/ renderFiles[j] = {}
        BY DEF CancelledLeavesNothing
    <2> QED BY DEF Emptied
<1>3. /\ RenderSound /\ [RenderNext]_renderVars /\ AllEmptied
      /\ [\A j \in Render :
            renderState[j] = "cancelled" /\ renderWorker[j] = "download"
               => renderWorker'[j] # "except"]_renderVars
      => AllEmptied'
    <2> SUFFICES ASSUME RenderSound, [RenderNext]_renderVars, AllEmptied,
                        [\A j \in Render :
                            renderState[j] = "cancelled" /\ renderWorker[j] = "download"
                               => renderWorker'[j] # "except"]_renderVars,
                        NEW i \in Render
                 PROVE  Emptied(i)'
        OBVIOUS
    <2>1. renderState[i] = "cancelled" /\ renderWorker[i] = "download"
             => renderWorker'[i] # "except"
        BY DEF renderVars, renderProc
    <2> QED BY <2>1, EmptiedNext
<1> HIDE DEF AllEmptied
<1> QED
    BY <1>1, <1>2, <1>3, RenderInitSound, RenderNextSound, PTL DEF RenderSpec, DownloadsNotCut
=============================================================================
