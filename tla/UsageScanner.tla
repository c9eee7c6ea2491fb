---------------------------- MODULE UsageScanner ----------------------------
(***************************************************************************)
(* The usage scanner of the forwarder (internal/forward/forward.go): it    *)
(* sees every byte of a response, keeps a bounded tail, and reads the      *)
(* tokens to bill from the last usage block it finds there.  Bytes are     *)
(* numbered from 1; a usage block is the position of its anchor.           *)
(***************************************************************************)
EXTENDS Integers, FiniteSets, FiniteSetsExt

CONSTANTS
    MaxBuf,     \* the tail is cut when it is longer (64 KiB)
    MaxWrite,   \* longest write: one read of the response
    MaxStream   \* bound on the length of a response

Half == MaxBuf \div 2

ASSUME ScannerAssumption == MaxBuf \in Nat \ {0} /\ MaxWrite \in Nat \ {0} /\ MaxStream \in Nat

VARIABLES
    total,      \* bytes written
    dropped,    \* bytes no longer in the buffer, all from its front
    usage       \* anchors of the usage blocks in the whole response

scannerVars == <<total, dropped, usage>>

Kept == total - dropped

\* Deviation: the front is kept instead of the tail.
WriteHead(n, anchors) ==
    /\ total + n <= MaxStream
    /\ dropped' = IF Kept > MaxBuf THEN dropped + Kept ELSE dropped
    /\ total' = total + n
    /\ usage' = usage \cup {total + a : a \in anchors}

\* usageScanner.Write: cut to the last half first, then append.
Write(n, anchors) ==
    /\ total + n <= MaxStream
    /\ dropped' = IF Kept > MaxBuf THEN total - Half ELSE dropped
    /\ total' = total + n
    /\ usage' = usage \cup {total + a : a \in anchors}

\* usageScanner.Tokens: the last anchor in the buffer; 0 bills nothing.
Tokens ==
    LET found == {p \in usage : p > dropped}
    IN IF found = {} THEN 0 ELSE CHOOSE p \in found : \A q \in found : q <= p

\* The block a scan of the whole response would find.
Billed == IF usage = {} THEN 0 ELSE CHOOSE p \in usage : \A q \in usage : q <= p

ScannerInit == total = 0 /\ dropped = 0 /\ usage = {}

ScannerNext == \E n \in 1..MaxWrite : \E anchors \in SUBSET (1..n) : Write(n, anchors)

ScannerSpec == ScannerInit /\ [][ScannerNext]_scannerVars

-----------------------------------------------------------------------------
ScannerTypeOK ==
    /\ total \in Nat /\ dropped \in Nat
    /\ usage \in SUBSET (Nat \ {0})

\* Memory is bounded by one write beyond the cut, and a usage block near the end is never
\* lost: it is billed if it starts within the last half of the buffer, and whatever is
\* billed is the last block of the response, never an earlier one.
UsageFound ==
    /\ ScannerTypeOK
    /\ 0 <= Kept /\ Kept <= MaxBuf + MaxWrite
    /\ Billed > total - Half => Tokens = Billed
    /\ Tokens \in {0, Billed}
=============================================================================
