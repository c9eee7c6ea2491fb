--------------------------- MODULE Updater_proofs ---------------------------
(***************************************************************************)
(* Proofs about the updater: Lifetime, for any number of releases and of   *)
(* faults, AutoUpdate, for any number of savers and of changes, and        *)
(* MaintenanceWindow, for days of any length and any window.               *)
(***************************************************************************)
EXTENDS Lifetime, AutoUpdate, MaintenanceWindow, TLAPS

(***************************************************************************)
(* Restarts.  What makes them safe is kept on disk: Proven says of the     *)
(* state file what the processes that wrote it had shown, and where a      *)
(* process can be once the node is revoked.                                *)
(***************************************************************************)

\* A process that welcomed the gateway's answer, and an active candidate, are proven.
Welcomed == proc \in {"welcomed", "promote"} => running \in welcomed
ActiveProven == state.phase = "active" => state.version \in welcomed


\* The gateway does not know a node again that it has revoked.
Disowned == revoked \/ proc = "terminal" => node = "revoked"

Proven == TypeOK /\ Welcomed /\ ActiveProven /\ RevokedStaysDown /\ Disowned

-----------------------------------------------------------------------------
\* A binary of any process is a release, whether the image, the state file or the
\* updater names it.
LEMMA Binaries ==
    ASSUME TypeOK
    PROVE  /\ image \in Version
           /\ state # NoState => state.version \in Version
           /\ candidate.at # "idle" => candidate.version \in Version
BY LifetimeAssumption DEF TypeOK, NoState, NoCandidate

\* A new process that has not connected keeps the invariant while the disk is kept.
LEMMA BeginProven ==
    ASSUME Proven, NEW where \in {"down", "boot"}, NEW binary \in Version,
           Begin(where, binary), UNCHANGED diskVars, faults' \in 0..MaxFaults
    PROVE  Proven'
BY DEF Begin, diskVars, histVars, Proven, TypeOK, Welcomed, ActiveProven, RevokedStaysDown,
       Disowned, NoCandidate, NoState

\* A fault spends one of the bounded number of faults.
LEMMA FaultTyped == ASSUME TypeOK, Fault PROVE faults' \in 0..MaxFaults
BY LifetimeAssumption DEF TypeOK, Fault

\* Bootstrap goes on to the sentinel with the state it found, or with none.
LEMMA BootProven ==
    ASSUME Proven, BootGoes, state' \in {state, NoState}, UNCHANGED <<files, revoked>>
    PROVE  Proven'
BY DEF BootGoes, localVars, histVars, Proven, TypeOK, Welcomed, ActiveProven,
       RevokedStaysDown, Disowned, NoState

\* A step of the updater leaves the processes and the history alone.
LEMMA UpdateProven ==
    ASSUME Proven, NEW at, NEW v, UpdateGoes(at, v),
           [at |-> at, version |-> v]
               \in {NoCandidate} \cup [at : {"write", "record", "exec"}, version : Version],
           state' \in {state} \cup [phase : {"attempted"}, version : Version],
           files' \subseteq Version, faults' \in 0..MaxFaults
    PROVE  Proven'
BY DEF UpdateGoes, localVars, histVars, Proven, TypeOK, Welcomed, ActiveProven,
       RevokedStaysDown, Disowned

-----------------------------------------------------------------------------
\* The image a node starts from is taken to be a good, welcomed release.
LEMMA ProvenInit == Init => Proven
<1> SUFFICES ASSUME Init PROVE Proven OBVIOUS
<1>1. 1 \in Version /\ 1 \in Good /\ 0 \in 0..MaxFaults
    BY LifetimeAssumption DEF Version
<1>2. TypeOK
    BY <1>1 DEF Init, TypeOK
<1>3. Welcomed /\ RevokedStaysDown /\ Disowned
    BY DEF Init, Welcomed, RevokedStaysDown, Disowned
<1>4. ActiveProven
    BY DEF Init, NoState, ActiveProven
<1> QED BY <1>2, <1>3, <1>4 DEF Proven

\* One step per action.
LEMMA ProvenNext == Proven /\ [Next]_vars => Proven'
<1> SUFFICES ASSUME Proven, [Next]_vars PROVE Proven' OBVIOUS
<1> USE DEF Proven
<1>1. CASE Restart
    BY <1>1, Binaries, BeginProven DEF Restart, TypeOK
<1>2. CASE PullImage
    BY <1>2 DEF PullImage, diskVars, localVars, histVars, TypeOK, Welcomed, ActiveProven,
                RevokedStaysDown, Disowned
<1>3. CASE Crash
    BY <1>3, BeginProven, FaultTyped DEF Crash, TypeOK
<1>4. CASE BadBinaryExits
    BY <1>4, BeginProven DEF BadBinaryExits, TypeOK
<1>5. CASE NothingToDo
    BY <1>5, BootProven DEF NothingToDo, diskVars
<1>6. CASE ExecActive
    BY <1>6, Binaries, BeginProven DEF ExecActive, TypeOK
<1>7. CASE ForgetMissing
    BY <1>7, BootProven DEF ForgetMissing
<1>8. CASE RollBackFile
    BY <1>8 DEF RollBackFile, localVars, histVars, TypeOK, Welcomed, ActiveProven,
                RevokedStaysDown, Disowned
<1>9. CASE RollBackState
    BY <1>9, BootProven DEF RollBackState
<1>10. CASE CheckSentinel
    <2>1. CASE Begin("down", running)
        BY <1>10, <2>1, BeginProven, FaultTyped DEF CheckSentinel, NoneRead, TypeOK
    <2>2. CASE proc' = "connect" /\ unread' = revoked
        BY <1>10, <2>2, FaultTyped
        DEF CheckSentinel, NoneRead, Begin, diskVars, histVars, TypeOK, Welcomed, ActiveProven,
            RevokedStaysDown, Disowned
    <2> QED BY <1>10, <2>1, <2>2 DEF CheckSentinel, NoneRead
<1>11. CASE AttemptFails \/ WelcomeLost
    <2>1. /\ proc = "connect" /\ proc' = "connect"
          /\ node' = node \/ (node = "fresh" /\ node' = "registered")
          /\ UNCHANGED <<running, image, diskVars, candidate, unread, histVars, faults>>
        BY <1>11 DEF AttemptFails, WelcomeLost, OtherCredential
    <2>2. registrationToken' \in BOOLEAN /\ attemptToken' \in BOOLEAN
        BY <1>11, Zenon DEF AttemptFails, WelcomeLost, OtherCredential, TypeOK
    <2>3. TypeOK' BY <2>1, <2>2 DEF diskVars, histVars, TypeOK
    <2> QED BY <2>1, <2>3 DEF diskVars, histVars, Welcomed, ActiveProven, RevokedStaysDown,
               Disowned
<1>12. CASE Welcome
    <2>1. ~revoked BY <1>12 DEF Welcome, Accepted, Disowned
    <2>2. proc' = "welcomed" /\ UNCHANGED revoked BY <1>12 DEF Welcome, diskVars
    <2>3. Welcomed' /\ ActiveProven' /\ RevokedStaysDown' /\ Disowned'
        BY <1>12, <2>1, <2>2
        DEF Welcome, diskVars, Welcomed, ActiveProven, RevokedStaysDown, Disowned
    <2>4. TypeOK' BY <1>12 DEF Welcome, diskVars, TypeOK
    <2> QED BY <2>3, <2>4
<1>13. CASE PromoteReads
    BY <1>13 DEF PromoteReads, diskVars, localVars, histVars, TypeOK, Welcomed, ActiveProven,
                 RevokedStaysDown, Disowned
<1>14. CASE PromoteWrites
    BY <1>14, FaultTyped DEF PromoteWrites, localVars, TypeOK, Welcomed, ActiveProven,
                             RevokedStaysDown, Disowned
<1>15. CASE SessionLost
    <2>1. CASE Begin("down", running)
        BY <1>15, <2>1, BeginProven DEF SessionLost, TypeOK
    <2>2. CASE ~Begin("down", running)
        BY <1>15, <2>2 DEF SessionLost, diskVars, localVars, histVars, TypeOK, Welcomed,
                           ActiveProven, RevokedStaysDown, Disowned
    <2> QED BY <2>1, <2>2
<1>16. CASE SessionRevoked
    BY <1>16 DEF SessionRevoked, diskVars, localVars, histVars, TypeOK, Welcomed,
                 ActiveProven, RevokedStaysDown, Disowned
<1>17. CASE WriteSentinel
    BY <1>17, FaultTyped DEF WriteSentinel, localVars, histVars, TypeOK, Welcomed,
                             ActiveProven, RevokedStaysDown, Disowned
<1>18. CASE Exit
    BY <1>18, BeginProven DEF Exit, TypeOK
<1>19. CASE Download
    <2> PICK v \in Version : UpdateGoes("write", v) BY <1>19 DEF Download
    <2> QED BY <1>19, UpdateProven DEF Download, TypeOK
<1>20. CASE WriteCandidate
    BY <1>20, Binaries, UpdateProven DEF WriteCandidate, TypeOK
<1>21. CASE RecordAttempt
    BY <1>21, Binaries, UpdateProven DEF RecordAttempt, TypeOK
<1>22. CASE ExecCandidate
    BY <1>22, Binaries, BeginProven DEF ExecCandidate, TypeOK
<1>23. CASE UpdateFails
    BY <1>23, FaultTyped, UpdateProven DEF UpdateFails, NoCandidate, TypeOK
<1>24. CASE UNCHANGED vars
    BY <1>24 DEF vars, diskVars, localVars, histVars, TypeOK, Welcomed, ActiveProven,
                 RevokedStaysDown, Disowned
<1> QED
    BY <1>1, <1>2, <1>3, <1>4, <1>5, <1>6, <1>7, <1>8, <1>9, <1>10, <1>11, <1>12, <1>13,
       <1>14, <1>15, <1>16, <1>17, <1>18, <1>19, <1>20, <1>21, <1>22, <1>23, <1>24
    DEF Next, BootStep, LoopStep, UpdateStep

\* In every state what is promoted or runs past its proof was welcomed by a gateway.
LEMMA ProvenInvariant == Spec => []Proven
BY ProvenInit, ProvenNext, PTL DEF Spec

-----------------------------------------------------------------------------
\* What is on disk and in memory stays well-typed, and only versions that a gateway
\* welcomed are ever promoted, whichever steps of updates and promotions interleave.
THEOREM TypesKept == Spec => []TypeOK
BY ProvenInvariant, PTL DEF Proven

\* Once the sentinel is on disk no process gets a session again, and only one that could
\* not read it asks for one, for any number of crashes and of updates in progress.
THEOREM StaysDown == Spec => []RevokedStaysDown
BY ProvenInvariant, PTL DEF Proven

\* Bootstrap never puts an unproven binary in the place of the image's.
THEOREM NoLoops == Spec => NoCrashLoop
<1>1. Proven /\ [Next]_vars
        => (proc = "boot" /\ proc' = "boot" /\ running' # running => running' \in welcomed)
    <2> SUFFICES ASSUME Proven, [Next]_vars, proc = "boot", proc' = "boot",
                        running' # running
                 PROVE  running' \in welcomed
        OBVIOUS
    <2>1. CASE ExecActive
        BY <2>1 DEF ExecActive, Begin, Proven, ActiveProven
    <2>2. CASE BootStep /\ ~ExecActive
        BY <2>2 DEF BootStep, Restart, NothingToDo, ForgetMissing, RollBackFile, RollBackState,
                    CheckSentinel, NoneRead, BootGoes
    <2>3. CASE LoopStep \/ UpdateStep \/ UpdateFails \/ Download
        BY <2>3 DEF LoopStep, UpdateStep, AttemptFails, PromoteReads, PromoteWrites,
                    WriteSentinel, Exit, WriteCandidate, RecordAttempt, ExecCandidate,
                    UpdateFails, Download, Alive
    <2>4. CASE PullImage \/ Crash \/ BadBinaryExits
        BY <2>4 DEF PullImage, Crash, BadBinaryExits, Begin
    <2>5. CASE WelcomeLost \/ Welcome \/ SessionLost \/ SessionRevoked
        BY <2>5 DEF WelcomeLost, Welcome, SessionLost, SessionRevoked
    <2>6. CASE UNCHANGED vars
        BY <2>6 DEF vars
    <2> QED BY <2>1, <2>2, <2>3, <2>4, <2>5, <2>6 DEF Next
<1> QED BY <1>1, ProvenInvariant, PTL DEF Spec, NoCrashLoop

-----------------------------------------------------------------------------
\* Promotions.  What is left out is an attempt rolled back after a version was promoted:
\* its record has taken the place of the promoted one's, and the image's binary runs.
NothingRolledBack ==
    proc = "boot" /\ state.phase = "attempted" /\ promoted # {} => state.version = running

AsPromoted(v) == \A p \in promoted : p <= v

\* The candidate of the state file is not on disk, and the image does not replace it.
Missing == state.version \notin files /\ state.version > image

\* No process that goes on to connect, no record on disk and, without a record, no image
\* is older than what was promoted.
RunsPromoted ==
    /\ proc \notin {"down", "boot"} => AsPromoted(running)
    /\ proc = "boot" => running = image \/ AsPromoted(running)

DiskPromoted == IF state = NoState THEN AsPromoted(image) ELSE AsPromoted(state.version)

\* An active candidate can be run; a candidate's file goes only while it is rolled back.
FilesKept ==
    /\ state.phase = "active" => ~Missing
    /\ state.phase = "attempted" /\ Missing
          => proc = "down" \/ (proc = "boot" /\ running # state.version)
    /\ proc = "promote" => running \in files \/ running <= image

\* An update goes forward, and records a candidate that is on disk.
CandidateNewer ==
    /\ candidate.at # "idle" => Alive /\ candidate.version > running
    /\ candidate.at \in {"record", "exec"} => candidate.version \in files

Surviving == RunsPromoted /\ DiskPromoted /\ FilesKept /\ CandidateNewer

\* The numbers of the versions that these compare.
LEMMA VersionNumbers ==
    ASSUME TypeOK
    PROVE  /\ running \in Int /\ image \in Int /\ promoted \subseteq Int
           /\ state # NoState => state.version \in Int /\ state.phase \in {"attempted", "active"}
           /\ candidate.at # "idle" => candidate.version \in Int
<1>1. Version \subseteq Int /\ Good \subseteq Version BY LifetimeAssumption DEF Version
<1>2. promoted \subseteq Good BY DEF TypeOK
<1> QED BY <1>1, <1>2, Binaries DEF TypeOK, NoState

\* A process begins with a binary that Bootstrap may leave, and keeps the disk.
LEMMA BeginSurvives ==
    ASSUME TypeOK, Surviving, NEW where \in {"down", "boot"}, NEW binary,
           Begin(where, binary), UNCHANGED diskVars,
           where = "boot" => binary = image \/ AsPromoted(binary),
           where = "boot" /\ state.phase = "attempted" /\ Missing => binary # state.version
    PROVE  Surviving'
<1>1. /\ proc' = where /\ running' = binary /\ candidate' = NoCandidate
      /\ UNCHANGED <<image, promoted, state, files>>
    BY DEF Begin, histVars, diskVars
<1> QED
    BY <1>1 DEF Surviving, RunsPromoted, DiskPromoted, FilesKept, CandidateNewer, AsPromoted,
       Missing, NoCandidate

\* The loop and the gateway go on in the same process and leave disk and history alone.
LEMMA RunSurvives ==
    ASSUME Surviving, UNCHANGED <<running, image, state, files, candidate, promoted>>,
           Alive \/ proc = "start", Alive',
           candidate.at = "idle" \/ Alive, proc' = "promote" => proc = "promote"
    PROVE  Surviving'
BY DEF Surviving, RunsPromoted, DiskPromoted, FilesKept, CandidateNewer, AsPromoted, Missing,
       Alive

\* One step per action.
LEMMA SurvivingNext ==
    TypeOK /\ Surviving /\ NothingRolledBack /\ [Next]_vars => Surviving'
<1> SUFFICES ASSUME TypeOK, Surviving, NothingRolledBack, [Next]_vars PROVE Surviving' OBVIOUS
<1> USE VersionNumbers
<1>1. CASE Restart
    <2>1. state.phase = "attempted" /\ Missing => image # state.version BY DEF Missing, NoState
    <2> QED BY <1>1, <2>1, BeginSurvives DEF Restart
<1>2. CASE PullImage
    <2>1. /\ proc = "down" /\ image' > image /\ image' \in Int
          /\ UNCHANGED <<proc, running, state, files, candidate, promoted>>
        BY <1>2, LifetimeAssumption DEF PullImage, diskVars, histVars, Version
    <2>2. state # NoState /\ Missing' => Missing BY <2>1 DEF Missing
    <2>3. AsPromoted(image) => AsPromoted(image)' BY <2>1 DEF AsPromoted
    <2>4. DiskPromoted' BY <2>1, <2>3 DEF Surviving, DiskPromoted, AsPromoted
    <2>5. FilesKept' BY <2>1, <2>2 DEF Surviving, FilesKept, NoState
    <2> QED BY <2>1, <2>4, <2>5 DEF Surviving, RunsPromoted, CandidateNewer, Alive
<1>3. CASE Crash \/ BadBinaryExits \/ Exit
    BY <1>3, BeginSurvives DEF Crash, BadBinaryExits, Exit
<1>4. CASE NothingToDo
    <2>1. /\ proc = "boot" /\ proc' = "start" /\ (state = NoState \/ state.version = running)
          /\ UNCHANGED <<running, image, state, files, candidate, promoted>>
        BY <1>4 DEF NothingToDo, BootGoes, diskVars, histVars
    <2>2. AsPromoted(running)
        BY <2>1 DEF Surviving, RunsPromoted, DiskPromoted
    <2>3. FilesKept' BY <2>1 DEF Surviving, FilesKept, Missing, NoState
    <2> QED BY <2>1, <2>2, <2>3
        DEF Surviving, RunsPromoted, DiskPromoted, CandidateNewer, AsPromoted, Alive
<1>5. CASE ExecActive
    <2>1. state # NoState /\ AsPromoted(state.version)
        BY <1>5 DEF ExecActive, NoState, Surviving, DiskPromoted
    <2> QED BY <1>5, <2>1, BeginSurvives DEF ExecActive
<1>6. CASE ForgetMissing
    <2>1. /\ proc = "boot" /\ proc' = "start" /\ state' = NoState
          /\ state.phase = "active" /\ state.version \notin files
          /\ UNCHANGED <<running, image, files, candidate, promoted>>
        BY <1>6 DEF ForgetMissing, BootGoes, histVars
    <2>2. state # NoState /\ AsPromoted(state.version) /\ state.version <= image
        BY <2>1 DEF NoState, Surviving, DiskPromoted, FilesKept, Missing
    <2>3. AsPromoted(image) BY <2>2 DEF AsPromoted
    <2>4. AsPromoted(running) BY <2>1, <2>3 DEF Surviving, RunsPromoted
    <2> QED BY <2>1, <2>3, <2>4
        DEF Surviving, RunsPromoted, DiskPromoted, FilesKept, CandidateNewer, AsPromoted, NoState,
            Alive
<1>7. CASE RollBackFile
    <2>1. /\ proc = "boot" /\ state.phase = "attempted" /\ state.version # running
          /\ UNCHANGED <<proc, running, image, state, candidate, promoted>>
        BY <1>7 DEF RollBackFile, histVars
    <2>2. candidate.at = "idle" BY <2>1 DEF Surviving, CandidateNewer, Alive
    <2> QED BY <2>1, <2>2
        DEF Surviving, RunsPromoted, DiskPromoted, FilesKept, CandidateNewer, AsPromoted
<1>8. CASE RollBackState
    <2>1. /\ proc = "boot" /\ proc' = "start" /\ state' = NoState
          /\ state.phase = "attempted" /\ state.version # running
          /\ UNCHANGED <<running, image, files, candidate, promoted>>
        BY <1>8 DEF RollBackState, BootGoes, histVars
    <2>2. promoted = {} BY <2>1 DEF NothingRolledBack
    <2> QED BY <2>1, <2>2
        DEF Surviving, RunsPromoted, DiskPromoted, FilesKept, CandidateNewer, AsPromoted, NoState,
            Alive
<1>9. CASE CheckSentinel
    <2>1. CASE Begin("down", running) BY <1>9, <2>1, BeginSurvives DEF CheckSentinel, NoneRead
    <2>2. CASE proc' = "connect"
        <3>1. /\ proc = "start" /\ proc' = "connect"
              /\ UNCHANGED <<running, image, state, files, candidate, promoted>>
            BY <1>9, <2>2 DEF CheckSentinel, NoneRead, Begin, diskVars, histVars
        <3>2. candidate.at = "idle" BY <3>1 DEF Surviving, CandidateNewer, Alive
        <3> QED BY <3>1, <3>2, RunSurvives DEF Alive
    <2> QED BY <1>9, <2>1, <2>2 DEF CheckSentinel, NoneRead
<1>10. CASE AttemptFails \/ WelcomeLost \/ Welcome \/ SessionRevoked \/ WriteSentinel
    BY <1>10, RunSurvives
       DEF AttemptFails, WelcomeLost, Welcome, SessionRevoked, WriteSentinel, diskVars, histVars,
           Alive
<1>11. CASE PromoteReads
    <2>1. /\ proc = "welcomed" /\ proc' \in {"promote", "online"}
          /\ proc' = "promote" => state = [phase |-> "attempted", version |-> running]
          /\ UNCHANGED <<running, image, state, files, candidate, promoted>>
        BY <1>11 DEF PromoteReads, diskVars, histVars
    <2>2. proc' = "promote" => ~Missing BY <2>1 DEF Surviving, FilesKept
    <2>3. FilesKept'
        BY <2>1, <2>2 DEF Surviving, FilesKept, Missing
    <2> QED BY <2>1, <2>3
        DEF Surviving, RunsPromoted, DiskPromoted, CandidateNewer, AsPromoted, Alive
<1>12. CASE PromoteWrites
    <2>1. /\ proc = "promote" /\ proc' = "online"
          /\ UNCHANGED <<running, image, files, candidate>>
        BY <1>12 DEF PromoteWrites
    <2>2. CASE UNCHANGED <<state, promoted>>
        BY <2>1, <2>2, RunSurvives DEF Alive
    <2>3. CASE /\ state' = [phase |-> "active", version |-> running]
               /\ promoted' = promoted \cup {running}
        <3>1. AsPromoted(running)' BY <2>1, <2>3 DEF Surviving, RunsPromoted, AsPromoted
        <3>2. state' # NoState BY <2>3 DEF NoState
        <3>3. DiskPromoted' BY <2>1, <2>3, <3>1, <3>2 DEF DiskPromoted, AsPromoted
        <3>4. FilesKept' BY <2>1, <2>3 DEF Surviving, FilesKept, Missing
        <3> QED BY <2>1, <3>1, <3>3, <3>4 DEF Surviving, RunsPromoted, CandidateNewer, Alive
    <2> QED BY <1>12, <2>2, <2>3 DEF PromoteWrites
<1>13. CASE SessionLost
    <2>1. CASE Begin("down", running) BY <1>13, <2>1, BeginSurvives DEF SessionLost
    <2>2. CASE ~Begin("down", running)
        BY <1>13, <2>2, RunSurvives DEF SessionLost, diskVars, histVars, Alive
    <2> QED BY <2>1, <2>2
<1>14. CASE Download
    <2>1. /\ Alive /\ candidate'.at = "write" /\ candidate'.version > running
          /\ UNCHANGED <<proc, running, image, state, files, promoted>>
        BY <1>14 DEF Download, UpdateGoes, histVars, Alive
    <2> QED BY <2>1
        DEF Surviving, RunsPromoted, DiskPromoted, FilesKept, CandidateNewer, AsPromoted, Missing,
            Alive
<1>15. CASE WriteCandidate
    <2>1. /\ Alive /\ candidate.at = "write" /\ candidate' = [candidate EXCEPT !.at = "record"]
          /\ files' = files \cup {candidate.version}
          /\ UNCHANGED <<proc, running, image, state, promoted>>
        BY <1>15 DEF WriteCandidate, UpdateGoes, histVars, TypeOK, NoCandidate
    <2>2. Missing' => Missing BY <2>1 DEF Missing
    <2>3. FilesKept' BY <2>1, <2>2 DEF Surviving, FilesKept
    <2>4. CandidateNewer' BY <1>15, <2>1
        DEF WriteCandidate, UpdateGoes, Surviving, CandidateNewer, Alive
    <2> QED BY <2>1, <2>3, <2>4 DEF Surviving, RunsPromoted, DiskPromoted, AsPromoted
<1>16. CASE RecordAttempt
    <2> DEFINE v == candidate.version
    <2>1. /\ Alive /\ candidate.at = "record"
          /\ state' = [phase |-> "attempted", version |-> v]
          /\ candidate' = [at |-> "exec", version |-> v]
          /\ UNCHANGED <<proc, running, image, files, promoted>>
        BY <1>16 DEF RecordAttempt, UpdateGoes, histVars
    <2>2. v > running /\ v \in files BY <2>1 DEF Surviving, CandidateNewer
    <2>3. AsPromoted(v) BY <2>1, <2>2 DEF Surviving, RunsPromoted, AsPromoted, Alive
    <2>4. DiskPromoted' BY <2>1, <2>3 DEF DiskPromoted, AsPromoted, NoState
    <2>5. FilesKept' BY <2>1, <2>2 DEF Surviving, FilesKept, Missing
    <2> QED BY <2>1, <2>2, <2>4, <2>5
        DEF Surviving, RunsPromoted, CandidateNewer, AsPromoted, Alive
<1>17. CASE ExecCandidate
    <2> DEFINE v == candidate.version
    <2>1. Alive /\ v > running /\ v \in files
        BY <1>17 DEF ExecCandidate, Surviving, CandidateNewer
    <2>2. AsPromoted(v) BY <1>17, <2>1 DEF ExecCandidate, Surviving, RunsPromoted, AsPromoted, Alive
    <2>3. Missing => v # state.version BY <2>1 DEF Missing
    <2> QED BY <1>17, <2>2, <2>3, BeginSurvives DEF ExecCandidate
<1>18. CASE UpdateFails
    <2>1. /\ candidate'.at = "idle"
          /\ UNCHANGED <<proc, running, image, state, files, promoted>>
        BY <1>18 DEF UpdateFails, UpdateGoes, histVars
    <2> QED BY <2>1
        DEF Surviving, RunsPromoted, DiskPromoted, FilesKept, CandidateNewer, AsPromoted, Missing
<1>19. CASE UNCHANGED vars
    BY <1>19
       DEF vars, diskVars, histVars, Surviving, RunsPromoted, DiskPromoted, FilesKept,
           CandidateNewer, AsPromoted, Missing, Alive
<1> QED
    BY <1>1, <1>2, <1>3, <1>4, <1>5, <1>6, <1>7, <1>8, <1>9, <1>10, <1>11, <1>12, <1>13,
       <1>14, <1>15, <1>16, <1>17, <1>18, <1>19
    DEF Next, BootStep, LoopStep, UpdateStep

\* A version that was promoted is not lost, for any number of releases, crashes and updates
\* and however a promotion meets the record of the next attempt, unless Bootstrap rolls a
\* later attempt back: the run that refutes the property has no other cause.
THEOREM PromotionsSurvive == Spec /\ []NothingRolledBack => []PromotedSurvives
<1>1. Init => Surviving
    BY DEF Init, Surviving, RunsPromoted, DiskPromoted, FilesKept, CandidateNewer, AsPromoted,
           NoState, NoCandidate
<1>2. Surviving /\ TypeOK => PromotedSurvives
    <2> SUFFICES ASSUME Surviving, TypeOK, proc = "start", NEW v \in promoted
                 PROVE  running >= v
        BY DEF PromotedSurvives
    <2>1. v <= running BY DEF Surviving, RunsPromoted, AsPromoted
    <2> QED BY <2>1, VersionNumbers
<1> QED BY <1>1, <1>2, SurvivingNext, TypesKept, PTL DEF Spec

-----------------------------------------------------------------------------
(***************************************************************************)
(* Automatic updates.  Held says who holds the updater's mutex, and        *)
(* Noticed who will tell the loop of a change of the settings.             *)
(***************************************************************************)

\* Who holds the mutex is who runs, and the Control Room shows a run only then.
Held ==
    /\ AutoTypeOK
    /\ (runner = "nobody") = (stage = "none")
    /\ runner = "nobody" => shown \notin Busy
    /\ (runner = "auto") = (loop = "running")
    /\ (runner = "console") = (starting = "runs")

\* A loop that waits for a timer saw the switch on; a newer version has left, or will leave,
\* a token for it; and the settings a timer met switched off are read again after it.
Written(s) == saver[s].at = "written"
Noticed ==
    /\ seen <= version
    /\ loop \in {"wait", "recheck", "window"} /\ version = seen => prefs.on
    /\ loop = "window" /\ version # seen => wake \/ \E s \in Saver : Written(s)
    /\ loop = "recheck" /\ atTimer = "off" => ~prefs.on \/ version # seen
    /\ loop = "run" => atTimer # "off"

-----------------------------------------------------------------------------
\* A save keeps the types.
LEMMA SaveTyped ==
    ASSUME AutoTypeOK, NEW s \in Saver, SaveReads(s) \/ SaveWrites(s) \/ SaveWakes(s)
    PROVE  AutoTypeOK'
<1> DEFINE Save == [at : {"idle", "read", "written"}, on : BOOLEAN, window : Windows]
<1>1. /\ prefs \in [on : BOOLEAN, window : Windows] /\ version \in 0..MaxSaves
      /\ saver \in [Saver -> Save] /\ MaxSaves \in Nat
    BY AutoUpdateAssumption DEF AutoTypeOK
<1>2. /\ saver[s] \in Save /\ prefs.window \in Windows /\ prefs.on \in BOOLEAN
      /\ saver[s].on \in BOOLEAN /\ saver[s].window \in Windows
    BY <1>1
<1>3. ASSUME NEW v \in Save PROVE [saver EXCEPT ![s] = v] \in [Saver -> Save] BY <1>1
<1>4. NoSave \in Save /\ [NoSave EXCEPT !.at = "written"] \in Save BY DEF NoSave, Windows
<1>5. UNCHANGED <<waiting, updating>> BY DEF SaveReads, SaveWrites, SaveWakes
<1> HIDE DEF Save
<1>6. saver' \in [Saver -> Save]
    <2>1. CASE SaveReads(s)
        <3>1. PICK on \in BOOLEAN, w \in Windows \cup {prefs.window} :
                  saver' = [saver EXCEPT ![s] = [at |-> "read", on |-> on, window |-> w]]
            BY <2>1 DEF SaveReads
        <3>2. [at |-> "read", on |-> on, window |-> w] \in Save BY <1>2 DEF Save
        <3> QED BY <1>3, <3>1, <3>2
    <2>2. CASE SaveWrites(s) BY <1>3, <1>4, <2>2 DEF SaveWrites
    <2>3. CASE SaveWakes(s) BY <1>3, <1>4, <2>3 DEF SaveWakes
    <2> QED BY <2>1, <2>2, <2>3
<1>7. prefs' \in [on : BOOLEAN, window : Windows] /\ version' \in 0..MaxSaves
    <2>1. CASE SaveWrites(s)
        <3>1. [on |-> saver[s].on, window |-> saver[s].window] \in [on : BOOLEAN, window : Windows]
            BY <1>2
        <3>2. version < MaxSaves => version + 1 \in 0..MaxSaves BY <1>1
        <3> QED BY <1>1, <2>1, <3>1, <3>2 DEF SaveWrites
    <2>2. CASE ~SaveWrites(s) BY <1>1, <2>2 DEF SaveReads, SaveWakes
    <2> QED BY <2>1, <2>2
<1>8. wake' \in BOOLEAN BY DEF AutoTypeOK, SaveReads, SaveWrites, SaveWakes
<1> QED BY <1>5, <1>6, <1>7, <1>8 DEF AutoTypeOK, waiting, updating, Save

\* The steps of the loop and of its timers.
LEMMA LoopHeld ==
    ASSUME Held, LoopStarts \/ AutoLoopStep \/ CheckTimer \/ WindowTimer \/ ClockTurns
    PROVE  Held'
<1>1. CASE LoopRuns BY <1>1 DEF LoopRuns, Held, AutoTypeOK, settings, Goes, Busy, Waits
<1>2. CASE LoopReports BY <1>2 DEF LoopReports, Held, AutoTypeOK, settings, Goes, Busy, Waits
<1>3. CASE LoopStarts \/ LoopTop \/ LoopWakes \/ LoopRechecks \/ CheckTimer \/ WindowTimer \/ ClockTurns
    <2>1. UNCHANGED <<prefs, version, saver, updating>> /\ wake' \in BOOLEAN
        BY <1>3 DEF LoopStarts, LoopTop, LoopWakes, LoopRechecks, CheckTimer, WindowTimer,
                    ClockTurns, settings, Held, AutoTypeOK
    <2>2. seen' \in 0..MaxSaves /\ open' \in BOOLEAN /\ atTimer' \in {"on", "off", "tie"}
        BY <1>3 DEF LoopStarts, LoopTop, LoopWakes, LoopRechecks, CheckTimer, WindowTimer,
                    ClockTurns, SwitchedOff, SavesDone, Held, AutoTypeOK
    <2>3. /\ loop # "running" => loop' # "running"
          /\ loop = "running" => loop' = "running"
          /\ loop' \in Waits \cup {"off", "top", "recheck", "run", "running", "report"}
        BY <1>3 DEF LoopStarts, LoopTop, LoopWakes, LoopRechecks, CheckTimer, WindowTimer,
                    ClockTurns, Goes, Waits, Held, AutoTypeOK
    <2> QED BY <2>1, <2>2, <2>3 DEF Held, AutoTypeOK, updating
<1> QED BY <1>1, <1>2, <1>3 DEF AutoLoopStep

\* The steps of a run and of the Control Room.
LEMMA RunHeld ==
    ASSUME Held, StartUpdate \/ ConsoleRuns \/ ConsoleEnds \/ RunChecks \/ RunFails \/ RunStages
    PROVE  Held'
<1> USE DEF Held, AutoTypeOK, settings, waiting, Goes, Busy, Waits
<1>1. CASE StartUpdate BY <1>1 DEF StartUpdate
<1>2. CASE ConsoleRuns BY <1>2 DEF ConsoleRuns
<1>3. CASE ConsoleEnds BY <1>3 DEF ConsoleEnds
<1>4. CASE RunStages BY <1>4 DEF RunStages, Emit
<1>5. CASE RunFails BY <1>5 DEF RunFails, Emit, Release
<1>6. CASE RunChecks BY <1>6 DEF RunChecks, Emit, Release
<1> QED BY <1>1, <1>2, <1>3, <1>4, <1>5, <1>6

\* Every step of the loop, of the savers and of a run keeps the mutex with who runs.
LEMMA HeldNext == Held /\ [AutoNext]_autoVars => Held'
<1> SUFFICES ASSUME Held, [AutoNext]_autoVars PROVE Held' OBVIOUS
<1>1. ASSUME NEW s \in Saver, SaveReads(s) \/ SaveWrites(s) \/ SaveWakes(s) PROVE Held'
    <2>1. AutoTypeOK' BY <1>1, SaveTyped DEF Held
    <2>2. UNCHANGED <<waiting, updating>> BY <1>1 DEF SaveReads, SaveWrites, SaveWakes
    <2> QED BY <2>1, <2>2 DEF Held, waiting, updating
<1>2. CASE Replaced
    <2>1. AutoTypeOK'
        <3>1. saver' \in [Saver -> [at : {"idle", "read", "written"}, on : BOOLEAN, window : Windows]]
            BY <1>2 DEF Replaced, NoSave, Windows
        <3>2. 0 \in 0..MaxSaves BY AutoUpdateAssumption
        <3> QED BY <1>2, <3>1, <3>2 DEF Replaced, Held, AutoTypeOK
    <2> QED BY <1>2, <2>1 DEF Replaced, Held, Busy
<1>3. CASE UNCHANGED autoVars
    BY <1>3 DEF autoVars, settings, waiting, updating, Held, AutoTypeOK
<1> QED BY <1>1, <1>2, <1>3, LoopHeld, RunHeld DEF AutoNext

\* Nobody runs at first.
LEMMA HeldInit == AutoInit => Held
<1> SUFFICES ASSUME AutoInit PROVE Held OBVIOUS
<1>1. saver \in [Saver -> [at : {"idle", "read", "written"}, on : BOOLEAN, window : Windows]]
    BY DEF AutoInit, NoSave, Windows
<1>2. 0 \in 0..MaxSaves BY AutoUpdateAssumption
<1>3. prefs \in [on : BOOLEAN, window : Windows] BY DEF AutoInit, Windows
<1> QED BY <1>1, <1>2, <1>3 DEF AutoInit, Held, AutoTypeOK, Busy, Waits

\* A run that ended, whichever return it took, is not shown as one in progress, so that
\* another can be started; and who holds the mutex is who is running.
THEOREM UpdatesAreNotWedged == AutoSpec => []NotWedged
<1>1. Held => NotWedged BY DEF Held, NotWedged
<1> QED BY <1>1, HeldInit, HeldNext, PTL DEF AutoSpec

-----------------------------------------------------------------------------
\* A save makes a newer version and leaves a token for it.
LEMMA SaveNoticed ==
    ASSUME Held, Noticed, NEW s \in Saver, SaveReads(s) \/ SaveWrites(s) \/ SaveWakes(s)
    PROVE  Noticed'
<1>1. version \in Nat /\ seen \in Nat /\ UNCHANGED <<loop, seen, atTimer>>
      /\ saver \in [Saver -> [at : {"idle", "read", "written"}, on : BOOLEAN, window : Windows]]
    BY DEF Held, AutoTypeOK, SaveReads, SaveWrites, SaveWakes, waiting
<1>2. CASE SaveReads(s)
    <2>1. \A q \in Saver : Written(q) => Written(q)' BY <1>1, <1>2 DEF SaveReads, Written
    <2>2. UNCHANGED <<prefs, version, wake>> BY <1>2 DEF SaveReads
    <2> QED BY <1>1, <2>1, <2>2 DEF Noticed
<1>3. CASE SaveWrites(s)
    <2>1. CASE version' = version + 1
        <3>0. version' # version BY <1>1, <2>1
        <3>1. Written(s)'
            <4>1. saver' = [saver EXCEPT ![s] = [NoSave EXCEPT !.at = "written"]]
                BY <1>3, <3>0 DEF SaveWrites
            <4>2. [NoSave EXCEPT !.at = "written"].at = "written" BY DEF NoSave
            <4>3. saver'[s] = [NoSave EXCEPT !.at = "written"] BY <1>1, <4>1
            <4> QED BY <4>2, <4>3 DEF Written
        <3>2. seen' <= version' /\ version' # seen' BY <1>1, <2>1 DEF Noticed
        <3> QED BY <1>1, <3>1, <3>2 DEF Noticed
    <2>2. CASE version' # version + 1
        <3>1. /\ UNCHANGED <<prefs, version, wake>> /\ saver' = [saver EXCEPT ![s] = NoSave]
              /\ saver[s].at = "read"
            BY <1>3, <2>2 DEF SaveWrites
        <3>2. \A q \in Saver : Written(q) => Written(q)' BY <1>1, <3>1 DEF Written
        <3> QED BY <1>1, <3>1, <3>2 DEF Noticed
    <2> QED BY <2>1, <2>2
<1>4. CASE SaveWakes(s)
    <2>1. UNCHANGED <<prefs, version>> /\ wake' BY <1>4 DEF SaveWakes
    <2> QED BY <1>1, <2>1 DEF Noticed
<1> QED BY <1>2, <1>3, <1>4

\* Every step leaves somebody who will tell the loop.
LEMMA NoticedNext ==
    Held /\ Noticed /\ [AutoNext]_autoVars => Noticed'
<1> SUFFICES ASSUME Held, Noticed, [AutoNext]_autoVars PROVE Noticed' OBVIOUS
<1>1. ASSUME NEW s \in Saver, SaveReads(s) \/ SaveWrites(s) \/ SaveWakes(s) PROVE Noticed'
    BY <1>1, SaveNoticed
<1>2. version \in Nat /\ seen \in Nat BY DEF Held, AutoTypeOK
<1> USE DEF Noticed, Goes, settings, waiting, updating, Written
<1>3. CASE LoopStarts BY <1>3 DEF LoopStarts
<1>4. CASE LoopTop BY <1>2, <1>4 DEF LoopTop
<1>5. CASE LoopWakes BY <1>5 DEF LoopWakes, Waits
<1>6. CASE LoopRechecks BY <1>6 DEF LoopRechecks
<1>7. CASE LoopRuns BY <1>7 DEF LoopRuns
<1>8. CASE LoopReports BY <1>8 DEF LoopReports
<1>9. CASE CheckTimer BY <1>9 DEF CheckTimer, SwitchedOff
<1>10. CASE WindowTimer
    <2>1. SwitchedOff => wake
        <3> SUFFICES ASSUME ~wake PROVE ~SwitchedOff OBVIOUS
        <3>1. ~wake /\ loop = "window" BY <1>10 DEF WindowTimer
        <3>2. CASE version = seen BY <3>1, <3>2 DEF SwitchedOff
        <3>3. CASE version # seen
            <4>1. PICK s \in Saver : saver[s].at = "written" BY <3>1, <3>3
            <4> QED BY <4>1 DEF SwitchedOff, SavesDone
        <3> QED BY <3>2, <3>3
    <2> QED BY <1>10, <2>1 DEF WindowTimer
<1>11. CASE ClockTurns BY <1>11 DEF ClockTurns
<1>12. CASE StartUpdate \/ ConsoleRuns \/ ConsoleEnds
    BY <1>12 DEF StartUpdate, ConsoleRuns, ConsoleEnds
<1>13. CASE RunChecks \/ RunFails \/ RunStages
    <2>1. UNCHANGED <<settings, seen, open, atTimer>>
        BY <1>13 DEF RunChecks, RunFails, RunStages
    <2>2. loop' = loop \/ loop' \in {"report", "top"}
        BY <1>13 DEF RunChecks, RunFails, RunStages, Release
    <2> QED BY <2>1, <2>2
<1>14. CASE Replaced BY <1>2, <1>14 DEF Replaced
<1>15. CASE UNCHANGED autoVars BY <1>15 DEF autoVars
<1> QED BY <1>1, <1>3, <1>4, <1>5, <1>6, <1>7, <1>8, <1>9, <1>10, <1>11, <1>12, <1>13, <1>14, <1>15
        DEF AutoNext, AutoLoopStep

\* No check follows a timer that met the switch off, saved and answered, unless the timer
\* tied with the wake-up of that save: for any number of savers and of changes.
THEOREM SwitchedOffIsNotChecked == AutoSpec => DisabledStopsChecks
<1>1. AutoInit => Noticed BY DEF AutoInit, Noticed
<1>2. Held /\ Noticed /\ [AutoNext]_autoVars => Noticed' BY NoticedNext
<1>3. Held /\ Noticed /\ [AutoNext]_autoVars
         => [(runner # "auto" /\ runner' = "auto") => atTimer # "off"]_autoVars
    <2> SUFFICES ASSUME Noticed, AutoNext, runner # "auto", runner' = "auto" PROVE atTimer # "off"
        OBVIOUS
    <2>1. CASE LoopRuns BY <2>1 DEF LoopRuns, Noticed
    <2>2. CASE ~LoopRuns
        BY <2>2 DEF AutoNext, AutoLoopStep, SaveReads, SaveWrites, SaveWakes, LoopStarts, LoopTop,
             LoopWakes, LoopRechecks, LoopReports, CheckTimer, WindowTimer, ClockTurns,
             StartUpdate, ConsoleRuns, ConsoleEnds, RunChecks, RunFails, RunStages, Release,
             Replaced, updating, waiting
    <2> QED BY <2>1, <2>2
<1> QED BY <1>1, <1>2, <1>3, HeldInit, HeldNext, PTL DEF AutoSpec, DisabledStopsChecks

-----------------------------------------------------------------------------
(***************************************************************************)
(* The maintenance window.  The code's test of a minute is compared with   *)
(* the minutes the operator means by arithmetic, for every day's length.   *)
(***************************************************************************)

\* Products grow with a factor.
LEMMA Larger ==
    ASSUME NEW x \in Int, NEW y \in Int, NEW p \in Nat \ {0}, x < y
    PROVE  x * p + p <= y * p
<1>1. (y - x) * p = y * p - x * p OBVIOUS
<1>2. y - x - 1 \in Nat OBVIOUS
<1>3. (y - x - 1) * p \in Nat BY <1>2
<1>4. (y - x - 1) * p = (y - x) * p - p OBVIOUS
<1> DEFINE a == x * p  b == y * p
<1>5. a \in Int /\ b \in Int /\ b - a - p \in Nat BY <1>1, <1>3, <1>4
<1> QED BY <1>5

\* A day is not empty.
LEMMA DayPositive == Day \in Nat \ {0}
<1>1. Minutes \in Nat \ {0} /\ Parts \in Nat \ {0} BY WindowAssumption
<1>2. 0 * Parts + Parts <= Minutes * Parts BY <1>1, Larger
<1>3. Minutes * Parts \in Nat /\ 0 * Parts = 0 BY <1>1
<1> QED BY <1>1, <1>2, <1>3 DEF Day

\* The remainder of a number that is less than one round away.
LEMMA Round ==
    ASSUME NEW x \in Nat, NEW m \in Nat \ {0}, x < m
    PROVE  x % m = x /\ (x + m) % m = x /\ (x - m) % m = x
OBVIOUS

\* A time is before a minute when its own minute is.
LEMMA MinuteOf ==
    ASSUME NEW t \in Nat, NEW p \in Nat \ {0}, NEW s \in Int
    PROVE  t \div p \in Nat /\ (t \div p < s <=> t < s * p)
<1> DEFINE q == t \div p
<1>1. q \in Nat OBVIOUS
<1>2. p * q <= t OBVIOUS
<1>3. t - p * q < p OBVIOUS
<1>4. p * q = q * p BY <1>1
<1> HIDE DEF q
<1>5. q * p \in Int /\ s * p \in Int /\ q * p <= t /\ t < q * p + p BY <1>1, <1>2, <1>3, <1>4
<1>6. CASE q < s
    <2>1. q * p + p <= s * p BY <1>1, <1>6, Larger
    <2>2. t < s * p BY <1>5, <2>1
    <2> QED BY <1>1, <1>6, <2>2 DEF q
<1>7. CASE q = s
    <2>1. q * p = s * p BY <1>7
    <2>2. ~(t < s * p) /\ ~(q < s) BY <1>1, <1>5, <1>7, <2>1
    <2> QED BY <1>1, <2>2 DEF q
<1>8. CASE s < q
    <2>1. s * p + p <= q * p BY <1>1, <1>8, Larger
    <2>2. ~(t < s * p) /\ ~(q < s) BY <1>1, <1>5, <1>8, <2>1
    <2> QED BY <1>1, <2>2 DEF q
<1> QED BY <1>1, <1>6, <1>7, <1>8

\* The minutes the operator means are those the code tests for.
LEMMA MeantIsInWindow ==
    ASSUME WindowTypeOK, opens # closes, NEW m \in 0..(Minutes - 1)
    PROVE  m \in Meant <=> InWindow(m, opens, closes)
<1> DEFINE len == (closes - opens) % Minutes
<1>1. /\ Minutes \in Nat \ {0} /\ opens \in Nat /\ closes \in Nat
      /\ opens < Minutes /\ closes < Minutes /\ m \in Nat /\ m < Minutes
    BY WindowAssumption DEF WindowTypeOK
<1>2. Meant = {(opens + k) % Minutes : k \in 0..(len - 1)} BY DEF Meant
<1>3. CASE opens < closes
    <2>1. len = closes - opens BY <1>1, <1>3, Round
    <2>2. InWindow(m, opens, closes) <=> opens <= m /\ m < closes BY <1>3 DEF InWindow
    <2> HIDE DEF len
    <2>3. ASSUME m \in Meant PROVE opens <= m /\ m < closes
        <3>1. PICK k \in 0..(len - 1) : m = (opens + k) % Minutes BY <1>2, <2>3
        <3>2. opens + k \in Nat /\ opens + k < closes /\ opens + k < Minutes
            BY <1>1, <1>3, <2>1
        <3>3. m = opens + k BY <1>1, <3>1, <3>2, Round
        <3> QED BY <1>1, <2>1, <3>2, <3>3
    <2>4. ASSUME opens <= m, m < closes PROVE m \in Meant
        <3>1. m - opens \in 0..(len - 1) /\ opens + (m - opens) = m BY <1>1, <1>3, <2>1, <2>4
        <3>2. (opens + (m - opens)) % Minutes = m BY <1>1, <3>1, Round
        <3> QED BY <1>2, <3>1, <3>2
    <2> QED BY <2>2, <2>3, <2>4
<1>4. CASE ~(opens < closes)
    <2>1. len = closes - opens + Minutes
        <3>1. closes - opens + Minutes \in Nat /\ closes - opens + Minutes < Minutes
              /\ closes - opens + Minutes - Minutes = closes - opens
            BY <1>1, <1>4
        <3> QED BY <1>1, <3>1, Round
    <2>2. InWindow(m, opens, closes) <=> opens <= m \/ m < closes BY <1>4 DEF InWindow
    <2> HIDE DEF len
    <2>3. ASSUME m \in Meant PROVE opens <= m \/ m < closes
        <3>1. PICK k \in 0..(len - 1) : m = (opens + k) % Minutes BY <1>2, <2>3
        <3>2. CASE opens + k < Minutes
            <4>1. opens + k \in Nat BY <1>1, <2>1
            <4>2. m = opens + k BY <1>1, <3>1, <3>2, <4>1, Round
            <4> QED BY <1>1, <2>1, <4>2
        <3>3. CASE ~(opens + k < Minutes)
            <4>1. /\ opens + k - Minutes \in Nat /\ opens + k - Minutes < closes
                  /\ opens + k - Minutes < Minutes
                  /\ opens + k - Minutes + Minutes = opens + k
                BY <1>1, <1>4, <2>1, <3>3
            <4>2. m = opens + k - Minutes
                <5> DEFINE x == opens + k - Minutes
                <5>1. x \in Nat /\ x < Minutes /\ opens + k = x + Minutes BY <4>1
                <5> HIDE DEF x
                <5>2. (x + Minutes) % Minutes = x BY <1>1, <5>1, Round
                <5> QED BY <3>1, <5>1, <5>2 DEF x
            <4> QED BY <4>1, <4>2
        <3> QED BY <3>2, <3>3
    <2>4. ASSUME opens <= m PROVE m \in Meant
        <3>1. m - opens \in 0..(len - 1) /\ opens + (m - opens) = m
            BY <1>1, <1>4, <2>1, <2>4
        <3>2. (opens + (m - opens)) % Minutes = m BY <1>1, <3>1, Round
        <3> QED BY <1>2, <3>1, <3>2
    <2>5. ASSUME m < closes PROVE m \in Meant
        <3>1. m - opens + Minutes \in 0..(len - 1) /\ opens + (m - opens + Minutes) = m + Minutes
            BY <1>1, <1>4, <2>1, <2>5
        <3>2. (opens + (m - opens + Minutes)) % Minutes = m BY <1>1, <3>1, Round
        <3> QED BY <1>2, <3>1, <3>2
    <2> QED BY <2>2, <2>3, <2>4, <2>5
<1> QED BY <1>3, <1>4

\* Which times of the day and of the next one are in the window.
LEMMA OpenWhen ==
    ASSUME WindowTypeOK, opens # closes, NEW t \in Nat
    PROVE  /\ t < Day => (IsOpen(t) <=> InWindow(t \div Parts, opens, closes))
           /\ t < Day => (IsOpen(t + Day) <=> IsOpen(t))
           /\ t < Day => t \div Parts \in 0..(Minutes - 1)
<1>1. Minutes \in Nat \ {0} /\ Parts \in Nat \ {0} BY WindowAssumption
<1>2. Day \in Nat \ {0} BY DayPositive
<1>3. ASSUME t < Day PROVE (t + Day) % Day = t % Day BY <1>2, <1>3, Round
<1>4. ASSUME t < Day PROVE IsOpen(t + Day) <=> IsOpen(t) BY <1>3, <1>4 DEF IsOpen
<1>5. ASSUME t < Day PROVE t \div Parts \in 0..(Minutes - 1)
    <2>1. t \div Parts \in Nat /\ t \div Parts < Minutes BY <1>1, <1>5, MinuteOf DEF Day
    <2> QED BY <1>1, <2>1
<1>6. ASSUME t < Day PROVE IsOpen(t) <=> InWindow(t \div Parts, opens, closes)
    <2>1. t % Day = t BY <1>2, <1>6, Round
    <2>2. IsOpen(t) <=> (t \div Parts) \in Meant BY <2>1 DEF IsOpen
    <2> QED BY <1>5, <1>6, <2>2, MeantIsInWindow
<1> QED BY <1>4, <1>5, <1>6

\* With no window, it is open all day.
LEMMA AlwaysOpen ==
    ASSUME WindowTypeOK, opens = closes PROVE IsOpen(clock) /\ Day \in Nat \ {0}
<1>1. Minutes \in Nat \ {0} /\ Parts \in Nat \ {0} BY WindowAssumption
<1>2. Day \in Nat \ {0} BY DayPositive
<1>3. clock \in Nat /\ clock < Day BY <1>2 DEF WindowTypeOK
<1>4. clock % Day = clock BY <1>2, <1>3, Round
<1>5. clock \div Parts \in Nat /\ clock \div Parts < Minutes
    BY <1>1, <1>3, MinuteOf DEF Day
<1>6. (clock % Day) \div Parts \in 0..(Minutes - 1) BY <1>1, <1>4, <1>5
<1> QED BY <1>2, <1>6 DEF IsOpen, Meant

\* The wait ends when the window is open, and not before, whatever the window.
LEMMA DelayIsExact == ASSUME WindowTypeOK PROVE DelayExact
<1> DEFINE now == clock
           d == MaintenanceDelay(now, opens, closes)
           minute == now \div Parts
           start == opens * Parts
<1>1. /\ Minutes \in Nat \ {0} /\ Parts \in Nat \ {0} /\ opens \in Nat /\ closes \in Nat
      /\ opens < Minutes /\ closes < Minutes
    BY WindowAssumption DEF WindowTypeOK
<1>2. Day \in Nat \ {0} BY DayPositive
<1>3. now \in Nat /\ now < Day BY <1>2 DEF WindowTypeOK
<1>4. minute \in Nat /\ minute < Minutes
    BY <1>1, <1>3, MinuteOf DEF Day
<1>5. start \in Nat /\ start < Day
    <2>1. opens * Parts + Parts <= Minutes * Parts BY <1>1, Larger
    <2>2. opens * Parts \in Nat /\ Minutes * Parts \in Nat BY <1>1
    <2> QED BY <1>1, <2>1, <2>2 DEF Day
<1> SUFFICES d \in 0..(Day - 1) /\ IsOpen(now + d) /\ \A e \in 0..(d - 1) : ~IsOpen(now + e)
    BY DEF DelayExact
<1>6. CASE opens = closes
    <2>1. d = 0 BY <1>6 DEF MaintenanceDelay
    <2>2. IsOpen(now) BY <1>6, AlwaysOpen
    <2> QED BY <1>2, <1>3, <2>1, <2>2
<1>7. CASE opens # closes /\ InWindow(minute, opens, closes)
    <2>1. d = 0 BY <1>7 DEF MaintenanceDelay
    <2>2. IsOpen(now) BY <1>3, <1>7, OpenWhen
    <2> QED BY <1>2, <1>3, <2>1, <2>2
<1>8. CASE opens # closes /\ ~InWindow(minute, opens, closes)
    <2>1. IsOpen(start)
        <3>1. start \div Parts \in Nat /\ ~(start \div Parts < opens) BY <1>1, <1>5, MinuteOf
        <3>2. start \div Parts < opens + 1
            <4>1. opens * Parts + Parts <= (opens + 1) * Parts BY <1>1, Larger
            <4>2. start < (opens + 1) * Parts BY <1>1, <1>5, <4>1
            <4> QED BY <1>1, <1>5, <4>2, MinuteOf
        <3>3. start \div Parts = opens BY <1>1, <3>1, <3>2
        <3>4. InWindow(opens, opens, closes) BY <1>1, <1>8 DEF InWindow
        <3> QED BY <1>5, <1>8, <3>3, <3>4, OpenWhen
    <2>2. ASSUME NEW t \in Nat, t < start PROVE t \div Parts \in Nat /\ t \div Parts < opens
        BY <1>1, <2>2, MinuteOf
    <2>3. ASSUME NEW t \in Nat, t >= now PROVE t \div Parts \in Nat /\ t \div Parts >= minute
        <3>1. ~(now < minute * Parts) BY <1>1, <1>3, <1>4, MinuteOf
        <3>2. minute * Parts \in Int BY <1>1, <1>4
        <3>3. ~(t < minute * Parts) BY <1>3, <2>3, <3>1, <3>2
        <3>4. t \div Parts \in Nat /\ ~(t \div Parts < minute) BY <1>1, <1>4, <3>3, MinuteOf
        <3> QED BY <1>4, <3>4
    <2>4. CASE start > now
        <3>1. d = start - now BY <1>8, <2>4 DEF MaintenanceDelay
        <3>2. d \in 0..(Day - 1) /\ now + d = start BY <1>2, <1>3, <1>5, <2>4, <3>1
        <3>3. ASSUME NEW e \in 0..(d - 1) PROVE ~IsOpen(now + e)
            <4> DEFINE t == now + e
                       m == t \div Parts
            <4>1. t \in Nat /\ t < start /\ t >= now /\ t < Day
                BY <1>2, <1>3, <1>5, <2>4, <3>1
            <4> HIDE DEF t
            <4>2. m \in Nat /\ m < opens /\ m >= minute BY <2>2, <2>3, <4>1
            <4>3. ~InWindow(m, opens, closes) BY <1>1, <1>4, <1>8, <4>2 DEF InWindow
            <4>4. ~IsOpen(t) BY <1>8, <4>1, <4>3, OpenWhen
            <4> QED BY <4>4 DEF t
        <3> QED BY <2>1, <3>2, <3>3
    <2>5. CASE ~(start > now)
        <3>1. d = start + Day - now BY <1>8, <2>5 DEF MaintenanceDelay
        <3>2. minute >= opens /\ opens < closes /\ minute >= closes
            <4>1. ~(now < opens * Parts) BY <1>3, <1>5, <2>5
            <4>2. ~(minute < opens) BY <1>1, <1>3, <4>1, MinuteOf
            <4> QED BY <1>1, <1>4, <1>8, <4>2 DEF InWindow
        <3>3. start < now
            <4>1. opens * Parts + Parts <= minute * Parts BY <1>1, <1>4, <3>2, Larger
            <4>2. ~(now < minute * Parts) BY <1>1, <1>3, <1>4, MinuteOf
            <4>3. minute * Parts \in Int BY <1>1, <1>4
            <4> QED BY <1>1, <1>3, <1>5, <4>1, <4>2, <4>3
        <3>4. d \in 0..(Day - 1) /\ now + d = start + Day BY <1>2, <1>3, <1>5, <3>1, <3>3
        <3>5. IsOpen(start + Day) BY <1>5, <1>8, <2>1, OpenWhen
        <3>6. ASSUME NEW e \in 0..(d - 1) PROVE ~IsOpen(now + e)
            <4> DEFINE t == now + e
            <4>1. t \in Nat /\ t < start + Day /\ t >= now BY <1>2, <1>3, <1>5, <3>1, <3>3
            <4>2. CASE t < Day
                <5> DEFINE m == t \div Parts
                <5> HIDE DEF t
                <5>1. m \in Nat /\ m >= minute BY <2>3, <4>1
                <5>2. ~InWindow(m, opens, closes) BY <1>1, <1>4, <3>2, <5>1 DEF InWindow
                <5>3. ~IsOpen(t) BY <1>8, <4>1, <4>2, <5>2, OpenWhen
                <5> QED BY <5>3 DEF t
            <4>3. CASE ~(t < Day)
                <5> DEFINE u == t - Day
                           m == u \div Parts
                <5>1. u \in Nat /\ u < start /\ u < Day /\ t = u + Day
                    BY <1>2, <1>5, <4>1, <4>3
                <5> HIDE DEF t, u
                <5>2. m \in Nat /\ m < opens BY <2>2, <5>1
                <5>3. ~InWindow(m, opens, closes) BY <1>1, <3>2, <5>2 DEF InWindow
                <5>4. ~IsOpen(u) BY <1>8, <5>1, <5>3, OpenWhen
                <5>5. ~IsOpen(u + Day) BY <1>8, <5>1, <5>4, OpenWhen
                <5> QED BY <5>1, <5>5 DEF t
            <4> QED BY <4>2, <4>3
        <3> QED BY <3>4, <3>5, <3>6
    <2> QED BY <2>4, <2>5
<1> QED BY <1>6, <1>7, <1>8

\* An update waits for the window of the operator, exactly: for a day of any length, told to
\* any part of a minute, and for any two ends, over midnight or not.
THEOREM WaitsForTheWindow == WindowSpec => []DelayExact
<1>1. WindowInit => WindowTypeOK
    <2>1. 0 \in 0..(Day - 1) BY DayPositive
    <2>2. 0 \in 0..(Minutes - 1) BY WindowAssumption
    <2> QED BY <2>1, <2>2 DEF WindowInit, WindowTypeOK
<1>2. WindowTypeOK /\ [WindowNext]_windowVars => WindowTypeOK'
    <2> SUFFICES ASSUME WindowTypeOK, [WindowNext]_windowVars PROVE WindowTypeOK' OBVIOUS
    <2>1. CASE Tick
        <3>1. clock + 1 \in Nat BY DayPositive DEF WindowTypeOK
        <3>2. (clock + 1) % Day \in 0..(Day - 1) BY <3>1, DayPositive
        <3> QED BY <2>1, <3>2 DEF Tick, WindowTypeOK
    <2>2. CASE SetWindow BY <2>2 DEF SetWindow, WindowTypeOK
    <2>3. CASE UNCHANGED windowVars BY <2>3 DEF windowVars, WindowTypeOK
    <2> QED BY <2>1, <2>2, <2>3 DEF WindowNext
<1> QED BY <1>1, <1>2, DelayIsExact, PTL DEF WindowSpec
=============================================================================
