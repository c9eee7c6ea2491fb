------------------------------- MODULE Ledger -------------------------------
(***************************************************************************)
(* Settled earnings in the Control Room (internal/console/store.go): the   *)
(* gateway sends a receipt for each settled request, and after each        *)
(* reconnect the latest Window receipts again; the store keeps the last    *)
(* Capacity it took and a running total.  Receipts are numbered in the     *)
(* order the gateway settled them.                                         *)
(***************************************************************************)
EXTENDS Integers, Sequences, SequencesExt, FiniteSets

CONSTANTS
    Capacity,   \* receipts the store keeps (200)
    Window,     \* receipts the gateway replays (200)
    Amount,     \* what each receipt pays
    MaxReceipts \* bound on receipts settled in one behaviour

ASSUME LedgerAssumption ==
    /\ Capacity \in Nat \ {0} /\ Window \in 0..Capacity /\ MaxReceipts \in Nat
    /\ Amount \in [1..MaxReceipts -> Nat]

VARIABLES
    issued,     \* receipts the gateway has settled
    wire,       \* receipts on their way over the current session
    linked,     \* a session is up
    settlements,       \* the store's map, by id
    settlementHistory, \* its list, oldest first
    earnings,   \* the total shown
    counted     \* history: how often each receipt was added to the total

ledgerVars == <<issued, wire, linked, settlements, settlementHistory, earnings, counted>>

\* Deviation: room is made before it is needed.
SettleEvictsEarly(r) ==
    IF r \in settlements
       THEN UNCHANGED <<settlements, settlementHistory, earnings, counted>>
       ELSE LET full == Append(settlementHistory, r)
                over == Len(full) >= Capacity
                old  == Head(full)
            IN /\ settlementHistory' = IF over THEN Tail(full) ELSE full
               /\ settlements' = (settlements \cup {r}) \ (IF over THEN {old} ELSE {})
               /\ earnings' = earnings + Amount[r] - (IF over THEN Amount[old] ELSE 0)
               /\ counted' = [counted EXCEPT ![r] = @ + 1]

\* Store.Settle: idempotent while it remembers the id, then append and evict the oldest.
Settle(r) ==
    IF r \in settlements
       THEN UNCHANGED <<settlements, settlementHistory, earnings, counted>>
       ELSE LET full == Append(settlementHistory, r)
                over == Len(full) > Capacity
                old  == Head(full)
            IN /\ settlementHistory' = IF over THEN Tail(full) ELSE full
               /\ settlements' = (settlements \cup {r}) \ (IF over THEN {old} ELSE {})
               /\ earnings' = earnings + Amount[r] - (IF over THEN Amount[old] ELSE 0)
               /\ counted' = [counted EXCEPT ![r] = @ + 1]

\* The gateway settles a request, and tells a session that is up.
IssueReceipt ==
    /\ issued < MaxReceipts
    /\ issued' = issued + 1
    /\ wire' = IF linked THEN Append(wire, issued + 1) ELSE wire
    /\ UNCHANGED <<linked, settlements, settlementHistory, earnings, counted>>

\* A new session: the replay goes out before anything newer.
Relink ==
    /\ ~linked
    /\ linked' = TRUE
    /\ LET known == [i \in 1..issued |-> i]
           first == IF issued > Window THEN issued - Window + 1 ELSE 1
       IN wire' = SubSeq(known, first, issued)
    /\ UNCHANGED <<issued, settlements, settlementHistory, earnings, counted>>

\* A session is lost with whatever of it was not read.
Unlink ==
    /\ linked
    /\ linked' = FALSE /\ wire' = <<>>
    /\ UNCHANGED <<issued, settlements, settlementHistory, earnings, counted>>

\* handleSettlement, on the reader: a receipt without an id or a time is refused before.
HandleSettlement ==
    /\ wire # <<>>
    /\ Settle(Head(wire))
    /\ wire' = Tail(wire)
    /\ UNCHANGED <<issued, linked>>

LedgerInit ==
    /\ issued = 0 /\ wire = <<>> /\ linked = FALSE
    /\ settlements = {} /\ settlementHistory = <<>> /\ earnings = 0
    /\ counted = [r \in 1..MaxReceipts |-> 0]

LedgerNext == IssueReceipt \/ Relink \/ Unlink \/ HandleSettlement

LedgerSpec == LedgerInit /\ [][LedgerNext]_ledgerVars

-----------------------------------------------------------------------------
LedgerTypeOK ==
    /\ issued \in 0..MaxReceipts /\ linked \in BOOLEAN
    /\ wire \in Seq(1..MaxReceipts) /\ settlementHistory \in Seq(1..MaxReceipts)
    /\ settlements \subseteq 1..MaxReceipts /\ earnings \in Nat

\* What some receipts pay together: the units each of them pays, counted.
Paid(rs) == UNION {{r} \X (1..Amount[r]) : r \in rs}
Income(rs) == Cardinality(Paid(rs))

\* The income shown is the sum of the receipts shown, and however often a session is lost
\* in the middle of a replay, no receipt is counted twice: one that was evicted is older
\* than any that is replayed, as long as the store keeps as many as the gateway replays.
\* Once a replay has been read, every receipt of the gateway's window is shown.
LedgerExact ==
    /\ LedgerTypeOK
    /\ settlements = ToSet(settlementHistory)
    /\ Cardinality(settlements) = Len(settlementHistory) /\ Len(settlementHistory) <= Capacity
    /\ earnings = Income(settlements)
    /\ \A r \in 1..MaxReceipts : counted[r] <= 1
    /\ linked /\ wire = <<>> => {r \in 1..issued : r > issued - Window} \subseteq settlements
=============================================================================
