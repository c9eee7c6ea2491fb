------------------------------ MODULE Lifetime ------------------------------
(***************************************************************************)
(* The agent across processes: container restarts, the updater's candidate *)
(* binaries and its state file (internal/update), the reconnect loop with  *)
(* its one-shot registration token (internal/app), and the sentinel left   *)
(* by a revocation (main.go).  What is on disk survives a crash; the rest  *)
(* begins again with the image's bundled binary, or with an exec.          *)
(*                                                                         *)
(* Sessions are not described here: a process is online or it is not.  An  *)
(* update that drains and downloads is a candidate waiting to be written.  *)
(***************************************************************************)
EXTENDS Integers

CONSTANTS
    MaxVersion, \* releases are 1 .. MaxVersion
    Good,       \* releases that can connect; the others end before they do
    MaxFaults   \* bound on crashes, failed execs and failed writes

Version == 1..MaxVersion

ASSUME LifetimeAssumption ==
    /\ MaxVersion \in Nat \ {0}
    /\ Good \subseteq Version /\ 1 \in Good
    /\ MaxFaults \in Nat

VARIABLES
    proc,       \* where the process of the container is
    running,    \* the version of its binary
    image,      \* the version bundled in the image
    state,      \* state.json: the candidate's version and phase
    files,      \* versions whose candidate binary is in the state directory
    candidate,  \* the update in progress, which holds the manager's mutex
    registrationToken, attemptToken,  \* whether each local of the loop is not ""
    unread,     \* history: the process did not see the sentinel, for it could not read it
    node,       \* the node as the gateway knows it
    revoked,    \* the sentinel file
    welcomed, promoted,   \* history: versions that were welcomed; that were promoted
    faults

diskVars  == <<state, files, revoked>>
localVars == <<registrationToken, attemptToken, unread>>
histVars  == <<welcomed, promoted>>
vars == <<proc, running, image, diskVars, candidate, localVars, node, histVars, faults>>

NoState == [phase |-> "none", version |-> 0]
NoCandidate == [at |-> "idle", version |-> 0]

Alive == proc \notin {"down", "boot", "start"}

Fault == faults < MaxFaults /\ faults' = faults + 1

-----------------------------------------------------------------------------
\* Processes.

\* A process begins: nothing but the disk survives.
Begin(where, binary) ==
    /\ proc' = where /\ running' = binary
    /\ candidate' = NoCandidate
    /\ registrationToken' = TRUE /\ attemptToken' = TRUE /\ unread' = FALSE
    /\ UNCHANGED <<image, node, histVars>>

\* The restart policy runs the image's entry point, whatever ran before.
Restart ==
    /\ proc = "down"
    /\ Begin("boot", image)
    /\ UNCHANGED <<diskVars, faults>>

\* docker compose pull and up.
PullImage ==
    /\ proc = "down"
    /\ \E v \in Good : v > image /\ image' = v
    /\ UNCHANGED <<proc, running, diskVars, candidate, localVars, node, histVars, faults>>

Crash ==
    /\ proc # "down"
    /\ Fault
    /\ Begin("down", running)
    /\ UNCHANGED diskVars

\* A binary that cannot connect exits at any point before it would.
BadBinaryExits ==
    /\ proc \in {"boot", "start", "connect"} /\ running \notin Good
    /\ Begin("down", running)
    /\ UNCHANGED <<diskVars, faults>>

-----------------------------------------------------------------------------
\* Bootstrap.

BootGoes ==
    /\ proc = "boot"
    /\ proc' = "start"
    /\ UNCHANGED <<running, image, candidate, localVars, node, histVars, faults>>

NothingToDo ==
    /\ state = NoState \/ state.version = running
    /\ BootGoes
    /\ UNCHANGED diskVars

\* Deviation: the phase is not looked at, a candidate on disk is run.
ExecStaged ==
    /\ proc = "boot"
    /\ state # NoState /\ state.version # running /\ state.version \in files
    /\ Begin("boot", state.version)
    /\ UNCHANGED <<diskVars, faults>>

ExecActive ==
    /\ proc = "boot"
    /\ state.phase = "active" /\ state.version # running /\ state.version \in files
    /\ Begin("boot", state.version)
    /\ UNCHANGED <<diskVars, faults>>

ForgetMissing ==
    /\ state.phase = "active" /\ state.version # running /\ state.version \notin files
    /\ state' = NoState
    /\ BootGoes
    /\ UNCHANGED <<files, revoked>>

\* The rolled back candidate's file is removed first, then the state.
RollBackFile ==
    /\ proc = "boot"
    /\ state.phase = "attempted" /\ state.version # running /\ state.version \in files
    /\ files' = files \ {state.version}
    /\ UNCHANGED <<proc, running, image, state, revoked, candidate, localVars, node, histVars,
                   faults>>

RollBackState ==
    /\ state.phase = "attempted" /\ state.version # running /\ state.version \notin files
    /\ state' = NoState
    /\ BootGoes
    /\ UNCHANGED <<files, revoked>>

\* readRevokedSentinel: one that cannot be read, by a fault, is taken for none.
NoneRead == unread' = revoked /\ IF revoked THEN Fault ELSE UNCHANGED faults

\* After Bootstrap, in main: the sentinel ends the process before it connects.
CheckSentinel ==
    /\ proc = "start"
    /\ \/ revoked /\ Begin("down", running) /\ UNCHANGED faults
       \/ /\ proc' = "connect" /\ NoneRead
          /\ UNCHANGED <<running, image, candidate, registrationToken, attemptToken, node,
                         histVars>>
    /\ UNCHANGED diskVars

-----------------------------------------------------------------------------
\* The reconnect loop.  A token registers a fresh node, once; the identity proves
\* itself to a gateway that knows it.

Accepted == IF attemptToken THEN node = "fresh" ELSE node = "registered"

\* Deviation: the credential that was tried last is tried again.
SameCredential == UNCHANGED localVars

\* Without a Welcome the next attempt tries the other credential, while there is one.
OtherCredential ==
    /\ attemptToken' = (registrationToken /\ ~attemptToken)
    /\ UNCHANGED <<registrationToken, unread>>

\* The attempt fails before the gateway acts on it, or is refused.
AttemptFails ==
    /\ proc = "connect"
    /\ OtherCredential
    /\ UNCHANGED <<proc, running, image, diskVars, candidate, node, histVars, faults>>

\* The gateway takes the token and its Welcome is lost.
WelcomeLost ==
    /\ proc = "connect" /\ attemptToken /\ node = "fresh"
    /\ node' = "registered"
    /\ OtherCredential
    /\ UNCHANGED <<proc, running, image, diskVars, candidate, histVars, faults>>

Welcome ==
    /\ proc = "connect" /\ Accepted /\ running \in Good
    /\ node' = "registered"
    /\ proc' = "welcomed"
    /\ welcomed' = welcomed \cup {running}
    /\ registrationToken' = FALSE /\ attemptToken' = FALSE
    /\ UNCHANGED <<running, image, diskVars, candidate, unread, promoted, faults>>

\* Promote reads the state file, and writes it later without the manager's mutex.
PromoteReads ==
    /\ proc = "welcomed"
    /\ proc' = IF state = [phase |-> "attempted", version |-> running] THEN "promote"
                                                                        ELSE "online"
    /\ UNCHANGED <<running, image, diskVars, candidate, localVars, node, histVars, faults>>

PromoteWrites ==
    /\ proc = "promote"
    /\ proc' = "online"
    /\ \/ /\ state' = [phase |-> "active", version |-> running]
          /\ promoted' = promoted \cup {running}
          /\ UNCHANGED faults
       \/ Fault /\ UNCHANGED <<state, promoted>>
    /\ UNCHANGED <<running, image, files, revoked, candidate, localVars, node, welcomed>>

\* The session is lost, or refreshed, and the loop tries again; a normal close by the
\* gateway ends Run without an error, and with it the loop and the process.
SessionLost ==
    /\ proc = "online"
    /\ \/ /\ proc' = "connect"
          /\ UNCHANGED <<running, image, candidate, localVars, node, histVars>>
       \/ Begin("down", running)
    /\ UNCHANGED <<diskVars, faults>>

SessionRevoked ==
    /\ proc = "online"
    /\ node' = "revoked"
    /\ proc' = "terminal"
    /\ UNCHANGED <<running, image, diskVars, candidate, localVars, histVars, faults>>

\* Deviation: OnTerminal leaves the sentinel and lets the loop go on.
WriteAndRetry ==
    /\ proc = "terminal"
    /\ proc' = "connect" /\ revoked' = TRUE
    /\ UNCHANGED <<running, image, state, files, candidate, localVars, node, histVars, faults>>

\* OnTerminal: the sentinel is written at best effort, and the loop is over.
WriteSentinel ==
    /\ proc = "terminal"
    /\ proc' = "exiting"
    /\ \/ revoked' = TRUE /\ UNCHANGED faults
       \/ Fault /\ UNCHANGED revoked
    /\ UNCHANGED <<running, image, state, files, candidate, localVars, node, histVars>>

Exit ==
    /\ proc = "exiting"
    /\ Begin("down", running)
    /\ UNCHANGED <<diskVars, faults>>

-----------------------------------------------------------------------------
\* runLatestRelease, on a goroutine of its own: only newer releases are installed.

UpdateGoes(at, v) ==
    /\ candidate' = [at |-> at, version |-> v]
    /\ UNCHANGED <<proc, running, image, localVars, node, revoked, histVars>>

Download ==
    /\ proc \in {"connect", "welcomed", "promote", "online"} /\ candidate.at = "idle"
    /\ \E v \in Version : v > running /\ UpdateGoes("write", v)
    /\ UNCHANGED <<state, files, faults>>

WriteCandidate ==
    /\ Alive /\ candidate.at = "write"
    /\ files' = files \cup {candidate.version}
    /\ UpdateGoes("record", candidate.version)
    /\ UNCHANGED <<state, faults>>

RecordAttempt ==
    /\ Alive /\ candidate.at = "record"
    /\ state' = [phase |-> "attempted", version |-> candidate.version]
    /\ UpdateGoes("exec", candidate.version)
    /\ UNCHANGED <<files, faults>>

ExecCandidate ==
    /\ Alive /\ candidate.at = "exec"
    /\ Begin("boot", candidate.version)
    /\ UNCHANGED <<diskVars, faults>>

\* Any step of it may fail; what is on disk stays there.
UpdateFails ==
    /\ Alive /\ candidate.at # "idle"
    /\ Fault
    /\ UpdateGoes("idle", 0)
    /\ UNCHANGED <<state, files>>

-----------------------------------------------------------------------------
Init ==
    /\ proc = "down" /\ running = 1 /\ image = 1
    /\ state = NoState /\ files = {} /\ revoked = FALSE
    /\ candidate = NoCandidate
    /\ registrationToken = TRUE /\ attemptToken = TRUE /\ unread = FALSE
    /\ node = "fresh"
    /\ welcomed = {} /\ promoted = {}
    /\ faults = 0

BootStep ==
    \/ Restart \/ NothingToDo \/ ExecActive \/ ForgetMissing \/ RollBackFile \/ RollBackState
    \/ CheckSentinel

LoopStep == AttemptFails \/ PromoteReads \/ PromoteWrites \/ WriteSentinel \/ Exit

UpdateStep == WriteCandidate \/ RecordAttempt \/ ExecCandidate

Next ==
    \/ BootStep \/ LoopStep \/ UpdateStep
    \/ PullImage \/ Crash \/ BadBinaryExits
    \/ WelcomeLost \/ Welcome \/ SessionLost \/ SessionRevoked
    \/ Download \/ UpdateFails

Spec == Init /\ [][Next]_vars

\* The restart policy and the process run on; an attempt whose credential the gateway
\* accepts succeeds if it is repeated; nothing ends a bad binary or starts an update.
Fairness == WF_vars(BootStep) /\ WF_vars(LoopStep) /\ SF_vars(Welcome)

-----------------------------------------------------------------------------
TypeOK ==
    /\ proc \in {"down", "boot", "start", "connect", "welcomed", "promote", "online",
                 "terminal", "exiting"}
    /\ running \in Version /\ image \in Good
    /\ state \in {NoState} \cup [phase : {"attempted", "active"}, version : Version]
    /\ files \subseteq Version /\ revoked \in BOOLEAN
    /\ candidate \in {NoCandidate} \cup [at : {"write", "record", "exec"}, version : Version]
    /\ registrationToken \in BOOLEAN /\ attemptToken \in BOOLEAN /\ unread \in BOOLEAN
    /\ node \in {"fresh", "registered", "revoked"}
    /\ welcomed \subseteq Good /\ promoted \subseteq welcomed
    /\ faults \in 0..MaxFaults

\* A restart never runs a binary that no gateway ever welcomed, however the updates and
\* promotions of earlier processes were interrupted: a bad release cannot loop.
NoCrashLoop ==
    [][proc = "boot" /\ proc' = "boot" /\ running' # running => running' \in welcomed]_vars

\* Once the sentinel is on disk no process connects again, not even one that an update
\* still in progress puts in the place of the process that was told.  One that cannot read
\* it tries to, and never gets a session.
RevokedStaysDown ==
    revoked => \/ proc \in {"down", "boot", "start", "exiting"}
               \/ proc = "connect" /\ unread

\* A container restart brings the node online, whatever the processes before it left on
\* disk and whichever of its credentials the gateway has already taken: a rolled back
\* candidate and a lost Welcome cost an attempt, not the node.  A further update may put
\* a binary that cannot connect, and does not exit, in the way.
Recovers == (proc = "down") ~> (proc = "online" \/ node = "revoked" \/ running \notin Good)

\* An active candidate remains the preferred binary: once a version was promoted, no
\* later start of the agent runs an older one.
PromotedSurvives == proc = "start" => \A v \in promoted : running >= v
=============================================================================
