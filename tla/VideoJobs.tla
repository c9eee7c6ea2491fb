------------------------------ MODULE VideoJobs ------------------------------
(***************************************************************************)
(* The video runtime (video/app.py): jobs on disk, a worker thread for     *)
(* each, one generation at a time, cancel, and recovery after a restart of *)
(* the process.  What happens under state_lock is one step; a process may  *)
(* die between any two, and a write of a state file may fail.              *)
(***************************************************************************)
EXTENDS Naturals

CONSTANTS
    Video,          \* jobs
    Generator,      \* "real": generate_video as it is; "stub": what a generation may do,
                    \* as the tests, which replace generate_video, have it
    MaxVideoFaults  \* bound on crashes, failed writes and failed generations

ASSUME VideoAssumption == Generator \in {"real", "stub"} /\ MaxVideoFaults \in Nat

VARIABLES
    videoState,     \* state.json: the job's status
    videoOutput,    \* jobs with an output.mp4
    videoDraft,     \* output.*.tmp.mp4 of each job: of its worker, or left by a dead one
    videoEvent,     \* cancel_events: the worker's event
    videoWorker,    \* where run_job is
    videoLock,      \* holder of runtime_lock
    videoUp,        \* the process
    videoTodo,      \* state files recover_jobs has still to look at
    videoReady,     \* video_status
    videoFaults,    \* faults so far
    videoSpoiled,   \* history: jobs left without worker by a write that failed
    videoHurt       \* history: jobs whose worker died, or could not write its end

videoFiles == <<videoState, videoOutput, videoDraft>>
videoProc  == <<videoEvent, videoWorker, videoLock, videoUp, videoTodo, videoReady>>
videoPast  == <<videoFaults, videoSpoiled, videoHurt>>
videoVars  == <<videoFiles, videoProc, videoPast>>

VideoLive == {"queued", "in_progress"}
VideoFault == videoFaults < MaxVideoFaults /\ videoFaults' = videoFaults + 1

VideoInit ==
    /\ videoState = [j \in Video |-> "none"]
    /\ videoOutput = {} /\ videoDraft = [j \in Video |-> {}]
    /\ videoEvent = [j \in Video |-> "none"] /\ videoWorker = [j \in Video |-> "none"]
    /\ videoLock = "free" /\ videoUp = "up" /\ videoTodo = {} /\ videoReady = "starting"
    /\ videoFaults = 0 /\ videoSpoiled = {} /\ videoHurt = {}

-----------------------------------------------------------------------------
\* write_state: a whole file replaces the old one.
VideoWrites(j, s) == videoState' = [videoState EXCEPT ![j] = s]

VideoGoes(j, at) == videoWorker' = [videoWorker EXCEPT ![j] = at]

\* The write fails, and nobody is left to try again.
VideoSpoils(j) ==
    VideoFault /\ videoSpoiled' = videoSpoiled \cup {j} /\ UNCHANGED <<videoState,
                                                                       videoHurt>>

\* create_video: the job is on disk before its worker starts and its id is answered.
VideoCreate(j) ==
    /\ videoUp = "up" /\ videoReady = "ready" /\ videoState[j] = "none"
    /\ VideoWrites(j, "queued") /\ VideoGoes(j, "spawn")
    /\ UNCHANGED <<videoOutput, videoDraft, videoEvent, videoLock, videoUp, videoTodo,
                   videoReady, videoPast>>

\* start_job
VideoStartJob(j) ==
    /\ videoEvent' = [videoEvent EXCEPT ![j] = "clear"] /\ VideoGoes(j, "begin")

VideoSpawn(j) ==
    /\ videoWorker[j] = "spawn" /\ VideoStartJob(j)
    /\ UNCHANGED <<videoFiles, videoLock, videoUp, videoTodo, videoReady, videoPast>>

\* The cancelled of run_job's locked sections.
VideoCancelled(j) == videoEvent[j] = "set" \/ videoState[j] = "cancelled"

\* run_job up to the state "in_progress".
VideoBegin(j) ==
    /\ videoWorker[j] = "begin"
    /\ \/ /\ VideoCancelled(j) /\ VideoGoes(j, "final")
          /\ UNCHANGED <<videoState, videoFaults>>
       \/ /\ ~VideoCancelled(j) /\ VideoWrites(j, "in_progress") /\ VideoGoes(j, "queue")
          /\ UNCHANGED videoFaults
       \/ /\ ~VideoCancelled(j) /\ VideoFault /\ VideoGoes(j, "except")
          /\ UNCHANGED videoState
    /\ UNCHANGED <<videoOutput, videoDraft, videoEvent, videoLock, videoUp, videoTodo,
                   videoReady, videoSpoiled, videoHurt>>

VideoTakeLock(j) ==
    /\ videoWorker[j] = "queue" /\ videoLock = "free"
    /\ videoLock' = j /\ VideoGoes(j, "generate")
    /\ UNCHANGED <<videoFiles, videoEvent, videoUp, videoTodo, videoReady, videoPast>>

\* generate_video, left early once it sees the event.  The code multiplies seconds, which
\* the state keeps as text, by the frame rate and adds a number to the text it gets: an
\* exception.
VideoGenerate(j) ==
    /\ videoWorker[j] = "generate" /\ videoLock' = "free"
    /\ \/ /\ videoEvent[j] = "set" /\ VideoGoes(j, "made")
          /\ UNCHANGED <<videoDraft, videoFaults>>
       \/ /\ Generator = "real" /\ VideoGoes(j, "except")
          /\ UNCHANGED <<videoDraft, videoFaults>>
       \/ /\ Generator = "stub" /\ VideoGoes(j, "made") /\ UNCHANGED videoFaults
          /\ videoDraft' = [videoDraft EXCEPT ![j] = @ \cup {"whole"}]
       \/ /\ Generator = "stub" /\ VideoFault
          /\ \E at \in {"made", "except"} : VideoGoes(j, at)
          /\ videoDraft' = [videoDraft EXCEPT ![j] = @ \cup {"broken"}]
    /\ UNCHANGED <<videoState, videoOutput, videoEvent, videoUp, videoTodo, videoReady,
                   videoSpoiled, videoHurt>>

\* run_job looks at the event and at what was made.
VideoLook(j) ==
    /\ videoWorker[j] = "made"
    /\ \/ /\ videoEvent[j] = "set" /\ VideoGoes(j, "final")
          /\ videoDraft' = [videoDraft EXCEPT ![j] = @ \ {"whole", "broken"}]
       \/ /\ videoEvent[j] # "set" /\ UNCHANGED videoDraft
          /\ VideoGoes(j, IF "whole" \in videoDraft[j] THEN "move" ELSE "except")
    /\ UNCHANGED <<videoState, videoOutput, videoEvent, videoLock, videoUp, videoTodo,
                   videoReady, videoPast>>

\* os.replace of the draft by output.mp4, with no look at the event.
VideoMove(j) ==
    /\ videoWorker[j] = "move"
    /\ \/ /\ videoOutput' = videoOutput \cup {j} /\ VideoGoes(j, "publish")
          /\ videoDraft' = [videoDraft EXCEPT ![j] = @ \ {"whole"}]
          /\ UNCHANGED videoFaults
       \/ VideoFault /\ VideoGoes(j, "except") /\ UNCHANGED <<videoOutput, videoDraft>>
    /\ UNCHANGED <<videoState, videoEvent, videoLock, videoUp, videoTodo, videoReady,
                   videoSpoiled, videoHurt>>

\* Deviation: the end of run_job does not look for a cancel again.
VideoPublishBlind(j) ==
    /\ videoWorker[j] = "publish" /\ VideoWrites(j, "completed") /\ VideoGoes(j, "final")
    /\ UNCHANGED <<videoOutput, videoDraft, videoEvent, videoLock, videoUp, videoTodo,
                   videoReady, videoPast>>

\* The locked end of run_job: the cancel or the completion, whichever was first.
VideoPublish(j) ==
    /\ videoWorker[j] = "publish"
    /\ \/ /\ VideoCancelled(j) /\ VideoGoes(j, "final")
          /\ videoOutput' = videoOutput \ {j} /\ UNCHANGED <<videoState, videoFaults,
                                                             videoHurt>>
       \/ /\ ~VideoCancelled(j) /\ VideoWrites(j, "completed") /\ VideoGoes(j, "final")
          /\ UNCHANGED <<videoOutput, videoFaults, videoHurt>>
       \/ /\ ~VideoCancelled(j) /\ VideoFault /\ VideoGoes(j, "except")
          /\ videoHurt' = videoHurt \cup {j} /\ UNCHANGED <<videoState, videoOutput>>
    /\ UNCHANGED <<videoDraft, videoEvent, videoLock, videoUp, videoTodo, videoReady,
                   videoSpoiled>>

\* The except clause: a job that was not cancelled is failed, and every draft removed; an
\* exception of this write skips the removal.
VideoExcept(j) ==
    /\ videoWorker[j] = "except" /\ VideoGoes(j, "final")
    /\ \/ /\ videoState[j] = "cancelled" /\ UNCHANGED <<videoState, videoPast>>
          /\ videoDraft' = [videoDraft EXCEPT ![j] = {}]
       \/ /\ videoState[j] # "cancelled" /\ VideoWrites(j, "failed") /\ UNCHANGED videoPast
          /\ videoDraft' = [videoDraft EXCEPT ![j] = {}]
       \/ videoState[j] # "cancelled" /\ VideoSpoils(j) /\ UNCHANGED videoDraft
    /\ UNCHANGED <<videoOutput, videoEvent, videoLock, videoUp, videoTodo, videoReady>>

VideoFinally(j) ==
    /\ videoWorker[j] = "final"
    /\ VideoGoes(j, "none") /\ videoEvent' = [videoEvent EXCEPT ![j] = "none"]
    /\ UNCHANGED <<videoFiles, videoLock, videoUp, videoTodo, videoReady, videoPast>>

\* cancel_video: the event is set before the state is written, and stays set if that fails.
VideoCancel(j) ==
    /\ videoUp = "up" /\ videoState[j] \in VideoLive /\ videoWorker[j] # "spawn"
    /\ videoEvent' = [videoEvent EXCEPT ![j] = IF @ = "none" THEN @ ELSE "set"]
    /\ \/ VideoWrites(j, "cancelled") /\ UNCHANGED videoPast
       \/ VideoSpoils(j)
    /\ UNCHANGED <<videoOutput, videoDraft, videoWorker, videoLock, videoUp, videoTodo,
                   videoReady>>

-----------------------------------------------------------------------------
\* preload, under runtime_lock.
VideoWarm ==
    /\ videoUp = "up" /\ videoReady = "starting" /\ videoLock = "free"
    /\ videoReady' = "warming" /\ videoLock' = "preload"
    /\ UNCHANGED <<videoFiles, videoEvent, videoWorker, videoUp, videoTodo, videoPast>>

VideoWarmed ==
    /\ videoLock = "preload" /\ videoLock' = "free"
    /\ \/ videoReady' = "ready" /\ UNCHANGED videoFaults
       \/ videoReady' = "degraded" /\ VideoFault
    /\ UNCHANGED <<videoFiles, videoEvent, videoWorker, videoUp, videoTodo, videoSpoiled,
                   videoHurt>>

\* The process dies: threads and events with it; the files stay.
VideoCrash ==
    /\ videoUp # "down" /\ videoUp' = "down" /\ VideoFault
    /\ videoHurt' = videoHurt \cup {j \in Video : videoWorker[j] # "none"}
    /\ videoDraft' = [j \in Video |-> IF videoDraft[j] = {} THEN {} ELSE {"left"}]
    /\ videoEvent' = [j \in Video |-> "none"] /\ videoWorker' = [j \in Video |-> "none"]
    /\ videoLock' = "free" /\ videoTodo' = {} /\ videoReady' = "starting"
    /\ UNCHANGED <<videoState, videoOutput, videoSpoiled>>

\* The container is started again; lifespan looks at the jobs before it serves.
VideoRestart ==
    /\ videoUp = "down" /\ videoUp' = "recovering"
    /\ videoTodo' = {j \in Video : videoState[j] \in VideoLive}
    /\ UNCHANGED <<videoFiles, videoEvent, videoWorker, videoLock, videoReady, videoPast>>

\* recover_jobs, one file: a state that cannot be written is passed over.
VideoRecover(j) ==
    /\ videoUp = "recovering" /\ j \in videoTodo /\ videoTodo' = videoTodo \ {j}
    /\ \/ VideoWrites(j, "queued") /\ VideoStartJob(j) /\ UNCHANGED videoPast
       \/ VideoSpoils(j) /\ UNCHANGED <<videoEvent, videoWorker>>
    /\ UNCHANGED <<videoOutput, videoDraft, videoLock, videoUp, videoReady>>

VideoServe ==
    /\ videoUp = "recovering" /\ videoTodo = {} /\ videoUp' = "up"
    /\ UNCHANGED <<videoFiles, videoEvent, videoWorker, videoLock, videoTodo, videoReady,
                   videoPast>>

-----------------------------------------------------------------------------
VideoWork(j) ==
    \/ VideoSpawn(j) \/ VideoBegin(j) \/ VideoTakeLock(j) \/ VideoGenerate(j) \/ VideoLook(j)
    \/ VideoMove(j) \/ VideoPublish(j) \/ VideoExcept(j) \/ VideoFinally(j)

VideoNext ==
    \/ \E j \in Video : VideoCreate(j) \/ VideoWork(j) \/ VideoCancel(j) \/ VideoRecover(j)
    \/ VideoWarm \/ VideoWarmed \/ VideoCrash \/ VideoRestart \/ VideoServe

\* Threads are scheduled, a generation and the load of the model return, and the container
\* is started again.  Nothing makes an operator cancel, or the process die.
VideoFairness ==
    /\ \A j \in Video : WF_videoVars(VideoWork(j)) /\ WF_videoVars(VideoRecover(j))
    /\ WF_videoVars(VideoWarmed) /\ WF_videoVars(VideoRestart) /\ WF_videoVars(VideoServe)

VideoSpec == VideoInit /\ [][VideoNext]_videoVars /\ VideoFairness

-----------------------------------------------------------------------------
VideoTypeOK ==
    /\ videoState \in [Video -> VideoLive \cup {"none", "completed", "failed", "cancelled"}]
    /\ videoOutput \subseteq Video
    /\ videoDraft \in [Video -> SUBSET {"whole", "broken", "left"}]
    /\ videoEvent \in [Video -> {"none", "clear", "set"}]
    /\ videoWorker \in [Video -> {"none", "spawn", "begin", "queue", "generate", "made", "move",
                                  "publish", "except", "final"}]
    /\ videoLock \in Video \cup {"free", "preload"} /\ videoUp \in {"up", "down", "recovering"}
    /\ videoTodo \subseteq Video
    /\ videoReady \in {"starting", "warming", "ready", "degraded"}
    /\ videoFaults \in 0..MaxVideoFaults
    /\ videoSpoiled \subseteq Video /\ videoHurt \subseteq Video

\* Wherever a cancel, a failed write or the end of the process meets the worker, a completed
\* job has its whole output; and a cancelled one leaves nothing on disk once its worker is
\* gone, unless the worker died or could not write the job's end before.
VideoKept ==
    /\ VideoTypeOK
    /\ \A j \in Video : videoState[j] = "completed" => j \in videoOutput
    /\ \A j \in Video :
          videoState[j] = "cancelled" /\ videoWorker[j] = "none"
             => \/ j \in videoHurt \cup videoSpoiled
                \/ j \notin videoOutput /\ videoDraft[j] = {}

\* The runtime implements the contract of asynchronous jobs: whatever a cancel, the worker
\* and a restart do to a state file, an end is final, and every job accepted ends.
Life == INSTANCE JobLife WITH Job <- Video, status <- videoState, spoiled <- videoSpoiled
VideoLife == Life!JobSpec

\* A job fails only if something it relies on failed.
FailsOnFault == \A j \in Video : videoState[j] = "failed" => videoFaults > 0
=============================================================================
