---------------------------- MODULE MCNodeParts ----------------------------
(***************************************************************************)
(* Small instances of the parts of a node that share neither state nor     *)
(* locks: the Control Room's model library, its ledger of receipts, its    *)
(* sessions, the identity file, automatic updates and their window, the    *)
(* forwarder's usage scanner, and the video, render and image runtimes.    *)
(* As they do not interact, a behaviour moves one of them, chosen at the   *)
(* start, and the others wait where they begin: every state of each is     *)
(* met, and no product of them.                                            *)
(***************************************************************************)
EXTENDS ModelPull, Ledger, UsageScanner, Pairing, AutoUpdate, MaintenanceWindow,
        Media

CONSTANTS a1, a2, a3, m1, m2, v1, v2    \* downloads, models and migrations

VARIABLE part                           \* the part that moves

roomVars == <<pullVars, ledgerVars, scannerVars, pairingVars, autoVars, windowVars>>
partVars == <<part, roomVars, mediaVars>>

\* Two downloads of one model and one of the other; downloads alone, a download beside a
\* migration, and two migrations.
WantedModel == (a1 :> m1) @@ (a2 :> m2) @@ (a3 :> m1)
VisitSets == {{a1, a2, a3}, {a1, v1}, {v1, v2}}

\* Receipts pay what tells every set of them from every other.
Amounts == [r \in 1..MaxReceipts |-> 2^r]

PartsInit ==
    /\ part \in {"pull", "ledger", "scanner", "pairing", "auto", "window", "video", "render",
                 "image"}
    /\ PullInit /\ LedgerInit /\ ScannerInit /\ PairingInit /\ AutoInit /\ WindowInit
    /\ MediaInit
    /\ part # "pull" => \A a \in Ask : asked[a] = "new"

Pulls   == part = "pull" /\ PullNext
           /\ UNCHANGED <<part, ledgerVars, scannerVars, pairingVars, autoVars, windowVars,
                          mediaVars>>
Settles == part = "ledger" /\ LedgerNext
           /\ UNCHANGED <<part, pullVars, scannerVars, pairingVars, autoVars, windowVars,
                          mediaVars>>
Scans   == part = "scanner" /\ ScannerNext
           /\ UNCHANGED <<part, pullVars, ledgerVars, pairingVars, autoVars, windowVars,
                          mediaVars>>
Pairs   == part = "pairing" /\ PairingNext
           /\ UNCHANGED <<part, pullVars, ledgerVars, scannerVars, autoVars, windowVars,
                          mediaVars>>
Updates == part = "auto" /\ AutoNext
           /\ UNCHANGED <<part, pullVars, ledgerVars, scannerVars, pairingVars, windowVars,
                          mediaVars>>
Passes  == part = "window" /\ WindowNext
           /\ UNCHANGED <<part, pullVars, ledgerVars, scannerVars, pairingVars, autoVars,
                          mediaVars>>
Filmed  == part = "video" /\ Films /\ UNCHANGED <<part, roomVars>>
Drawn   == part = "render" /\ Draws /\ UNCHANGED <<part, roomVars>>
Painted == part = "image" /\ Paints /\ UNCHANGED <<part, roomVars>>

PartsNext ==
    \/ Pulls \/ Settles \/ Scans \/ Pairs \/ Updates \/ Passes
    \/ Filmed \/ Drawn \/ Painted

PartsSpec ==
    /\ PartsInit /\ [][PartsNext]_partVars
    /\ PullFairness /\ AutoFairness /\ MediaFairness
=============================================================================
