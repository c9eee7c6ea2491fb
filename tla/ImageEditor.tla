---------------------------- MODULE ImageEditor ----------------------------
(***************************************************************************)
(* The image runtime (diffusers/app.py): one image editor resident in      *)
(* memory, chosen by the operator and kept in a file over restarts, under  *)
(* runtime_lock.  Selections and generations run in threads; an edit takes *)
(* the lock in the event loop itself, which serves nobody until it has it  *)
(* and is done.                                                            *)
(***************************************************************************)
EXTENDS Naturals

CONSTANTS
    Editor,         \* supported image editors
    DefaultEditor,  \* the one without a selection
    Selector,       \* requests that select an editor
    Edit,           \* requests that edit an image
    Generation,     \* requests that generate one
    MaxImageFaults  \* bound on ends of the process, failed loads and failed writes

\* No editor is called what stands for none, and the holders of the lock are told apart.
ASSUME ImageAssumption ==
    /\ DefaultEditor \in Editor /\ "none" \notin Editor /\ MaxImageFaults \in Nat
    /\ {"free", "warmup"} \cap (Selector \cup Edit \cup Generation) = {}
    /\ Selector \cap (Edit \cup Generation) = {} /\ Edit \cap Generation = {}

VARIABLES
    selection,      \* the file: selected_model()
    resident,       \* resident_editor_model with its pipeline; "none": not ready
    imageLock,      \* holder of runtime_lock
    warmup,         \* preload_generation_model, with the editor it loads
    selector,       \* each selection, with its editor
    edit,           \* each edit
    generation,     \* each generation
    eventLoop,      \* the edit that keeps the event loop
    imageFaults     \* faults so far

imageRequests == <<selector, edit, generation>>
imageVars == <<selection, resident, imageLock, warmup, imageRequests, eventLoop, imageFaults>>

ImageFault == imageFaults < MaxImageFaults /\ imageFaults' = imageFaults + 1

ImageStarts ==
    /\ resident' = "none" /\ imageLock' = "free" /\ eventLoop' = "free"
    /\ warmup' = [at |-> "generation", model |-> DefaultEditor]
    /\ selector' = [s \in Selector |-> [at |-> "idle", model |-> DefaultEditor]]
    /\ edit' = [e \in Edit |-> "idle"] /\ generation' = [g \in Generation |-> "idle"]

ImageInit ==
    /\ selection = DefaultEditor /\ resident = "none"
    /\ imageLock = "free" /\ eventLoop = "free"
    /\ warmup = [at |-> "generation", model |-> DefaultEditor]
    /\ selector = [s \in Selector |-> [at |-> "idle", model |-> DefaultEditor]]
    /\ edit = [e \in Edit |-> "idle"] /\ generation = [g \in Generation |-> "idle"]
    /\ imageFaults = 0

-----------------------------------------------------------------------------
\* select_image_editor, in a thread: the pipeline is loaded, the selection written, and
\* only then the editor resident; a failure leaves the old one in its place.
Select(s) ==
    /\ eventLoop = "free" /\ selector[s].at = "idle"
    /\ \E m \in Editor : selector' = [selector EXCEPT ![s] = [at |-> "lock", model |-> m]]
    /\ UNCHANGED <<selection, resident, imageLock, warmup, edit, generation, eventLoop,
                   imageFaults>>

SelectLoads(s) ==
    /\ selector[s].at = "lock" /\ imageLock = "free"
    /\ \/ /\ imageLock' = s /\ selector' = [selector EXCEPT ![s].at = "write"]
          /\ UNCHANGED imageFaults
       \/ /\ ImageFault /\ selector' = [selector EXCEPT ![s].at = "idle"]
          /\ UNCHANGED imageLock
    /\ UNCHANGED <<selection, resident, warmup, edit, generation, eventLoop>>

SelectWrites(s) ==
    /\ selector[s].at = "write"
    /\ \/ /\ selection' = selector[s].model /\ selector' = [selector EXCEPT ![s].at = "commit"]
          /\ UNCHANGED <<imageLock, imageFaults>>
       \/ /\ ImageFault /\ selector' = [selector EXCEPT ![s].at = "idle"]
          /\ imageLock' = "free" /\ UNCHANGED selection
    /\ UNCHANGED <<resident, warmup, edit, generation, eventLoop>>

SelectCommits(s) ==
    /\ selector[s].at = "commit" /\ selector' = [selector EXCEPT ![s].at = "idle"]
    /\ resident' = selector[s].model /\ imageLock' = "free"
    /\ UNCHANGED <<selection, warmup, edit, generation, eventLoop, imageFaults>>

\* preload_generation_model: the generation model without the lock, then the editor under it.
WarmupGenerates ==
    /\ warmup.at = "generation" /\ warmup' = [warmup EXCEPT !.at = "lock"]
    /\ UNCHANGED <<selection, resident, imageLock, imageRequests, eventLoop, imageFaults>>

WarmupResets ==
    /\ warmup.at = "lock" /\ imageLock = "free"
    /\ imageLock' = "warmup" /\ resident' = "none" /\ warmup' = [warmup EXCEPT !.at = "read"]
    /\ UNCHANGED <<selection, imageRequests, eventLoop, imageFaults>>

WarmupReads ==
    /\ warmup.at = "read" /\ warmup' = [at |-> "load", model |-> selection]
    /\ UNCHANGED <<selection, resident, imageLock, imageRequests, eventLoop, imageFaults>>

WarmupCommits ==
    /\ warmup.at = "load" /\ warmup' = [warmup EXCEPT !.at = "done"] /\ imageLock' = "free"
    /\ \/ resident' = warmup.model /\ UNCHANGED imageFaults
       \/ ImageFault /\ UNCHANGED resident
    /\ UNCHANGED <<selection, imageRequests, eventLoop>>

\* generate_image, in a thread.
Generate(g) ==
    /\ eventLoop = "free" /\ generation[g] = "idle" /\ warmup.at # "generation"
    /\ generation' = [generation EXCEPT ![g] = "lock"]
    /\ UNCHANGED <<selection, resident, imageLock, warmup, selector, edit, eventLoop,
                   imageFaults>>

Generates(g) ==
    /\ \/ /\ generation[g] = "lock" /\ imageLock = "free"
          /\ imageLock' = g /\ generation' = [generation EXCEPT ![g] = "run"]
       \/ /\ generation[g] = "run" /\ imageLock' = "free"
          /\ generation' = [generation EXCEPT ![g] = "idle"]
    /\ UNCHANGED <<selection, resident, warmup, selector, edit, eventLoop, imageFaults>>

\* edit_image, in the event loop: it gives the loop up to read the upload, and keeps it from
\* then on.
EditBegins(e) ==
    /\ eventLoop = "free"
    /\ \/ edit[e] = "idle" /\ edit' = [edit EXCEPT ![e] = "reading"] /\ UNCHANGED eventLoop
       \/ edit[e] = "reading" /\ edit' = [edit EXCEPT ![e] = "lock"] /\ eventLoop' = e
    /\ UNCHANGED <<selection, resident, imageLock, warmup, selector, generation,
                   imageFaults>>

\* Under the lock it is refused unless an editor, and the one it names, is resident.
EditRuns(e) ==
    /\ edit[e] = "lock" /\ imageLock = "free"
    /\ \/ /\ edit' = [edit EXCEPT ![e] = "idle"] /\ eventLoop' = "free" /\ UNCHANGED imageLock
       \/ /\ resident # "none" /\ imageLock' = e /\ edit' = [edit EXCEPT ![e] = "run"]
          /\ UNCHANGED eventLoop
    /\ UNCHANGED <<selection, resident, warmup, selector, generation, imageFaults>>

EditEnds(e) ==
    /\ edit[e] = "run" /\ edit' = [edit EXCEPT ![e] = "idle"]
    /\ imageLock' = "free" /\ eventLoop' = "free"
    /\ UNCHANGED <<selection, resident, warmup, selector, generation, imageFaults>>

\* The process ends and is started again; the file stays.
ImageRestart == ImageFault /\ ImageStarts /\ UNCHANGED selection

-----------------------------------------------------------------------------
Selects(s) == SelectLoads(s) \/ SelectWrites(s) \/ SelectCommits(s)
Warms == WarmupGenerates \/ WarmupResets \/ WarmupReads \/ WarmupCommits
Edits(e) == EditRuns(e) \/ EditEnds(e)

ImageNext ==
    \/ \E s \in Selector : Select(s) \/ Selects(s)
    \/ \E g \in Generation : Generate(g) \/ Generates(g)
    \/ \E e \in Edit : EditBegins(e) \/ Edits(e)
    \/ Warms \/ ImageRestart

\* Who holds the lock goes on: loads and pipelines return.  No request need be sent, and the
\* lock may be given to anybody who waits for it.
ImageFairness ==
    /\ \A s \in Selector : WF_imageVars(Selects(s))
    /\ \A g \in Generation : WF_imageVars(Generates(g))
    /\ \A e \in Edit : WF_imageVars(Edits(e))
    /\ WF_imageVars(WarmupReads \/ WarmupCommits)

ImageSpec == ImageInit /\ [][ImageNext]_imageVars /\ ImageFairness

-----------------------------------------------------------------------------
ImageTypeOK ==
    /\ selection \in Editor /\ resident \in Editor \cup {"none"}
    /\ imageLock \in Selector \cup Edit \cup Generation \cup {"free", "warmup"}
    /\ warmup \in [at : {"generation", "lock", "read", "load", "done"}, model : Editor]
    /\ selector \in [Selector -> [at : {"idle", "lock", "write", "commit"}, model : Editor]]
    /\ edit \in [Edit -> {"idle", "reading", "lock", "run"}]
    /\ generation \in [Generation -> {"idle", "lock", "run"}]
    /\ eventLoop \in Edit \cup {"free"} /\ imageFaults \in 0..MaxImageFaults

\* Between selections the editor that is resident is the one the next start will load,
\* whatever selections, a warm-up and failures overlapped: the operator's choice is neither
\* overwritten by a warm-up that began before it nor lost by a restart.
EditorKept ==
    /\ ImageTypeOK
    /\ imageLock \notin Selector /\ resident # "none" => resident = selection

\* An edit keeps the event loop while it waits for a lock that threads hold; none of them
\* may need the loop to give it back, or the runtime would never answer again.
LoopComesFree == []<>(eventLoop = "free")
=============================================================================
