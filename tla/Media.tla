------------------------------- MODULE Media -------------------------------
(***************************************************************************)
(* The media runtimes beside a node: video, render and image each run in a *)
(* container of their own, share no state, and are asked over HTTP only.   *)
(***************************************************************************)
EXTENDS VideoJobs, RenderJobs, ImageEditor

mediaVars == <<videoVars, renderVars, imageVars>>

MediaInit == VideoInit /\ RenderInit /\ ImageInit

Films  == VideoNext /\ UNCHANGED <<renderVars, imageVars>>
Draws  == RenderNext /\ UNCHANGED <<videoVars, imageVars>>
Paints == ImageNext /\ UNCHANGED <<videoVars, renderVars>>

MediaNext == Films \/ Draws \/ Paints

MediaFairness == VideoFairness /\ RenderFairness /\ ImageFairness

MediaSpec == MediaInit /\ [][MediaNext]_mediaVars /\ MediaFairness

-----------------------------------------------------------------------------
\* The media runtimes keep their promises: both kinds of asynchronous jobs implement
\* JobLife, and the image runtime always answers again.
MediaContract == VideoLife /\ RenderLife /\ LoopComesFree

\* And what they keep on disk and in memory is what they answer: outputs of the video and
\* render jobs, and the image editor.
MediaKept == VideoKept /\ RenderKept /\ EditorKept
=============================================================================
