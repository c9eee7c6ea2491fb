------------------------- MODULE MaintenanceWindow -------------------------
(***************************************************************************)
(* The operator's maintenance window (internal/update/updater.go): how     *)
(* long an automatic update has to wait for it.  Times of day are minutes  *)
(* from midnight, the clock counts in parts of a minute, the window may    *)
(* run over midnight, and equal ends mean the whole day.  Days have equal  *)
(* lengths: a change to or from summer time is left out.                   *)
(***************************************************************************)
EXTENDS Integers

CONSTANTS
    Minutes,    \* minutes of a day (1440)
    Parts       \* parts of a minute the clock tells apart

ASSUME WindowAssumption == Minutes \in Nat \ {0} /\ Parts \in Nat \ {0}

VARIABLES
    clock,      \* time of day, in parts of a minute
    opens,      \* MaintenanceStart
    closes      \* MaintenanceEnd

windowVars == <<clock, opens, closes>>

Day == Minutes * Parts

-----------------------------------------------------------------------------
\* Deviation: the two ends are always in order.
InWindowInOrder(minute, start, end) == start <= minute /\ minute < end

\* The test of maintenanceDelay on whole minutes.
InWindow(minute, start, end) ==
    IF start < end THEN start <= minute /\ minute < end
                   ELSE start <= minute \/ minute < end

\* maintenanceDelay: nothing inside, else until the start, today or tomorrow.
MaintenanceDelay(now, start, end) ==
    IF start = end \/ InWindow(now \div Parts, start, end) THEN 0
    ELSE IF start * Parts > now THEN start * Parts - now
                                ELSE start * Parts + Day - now

-----------------------------------------------------------------------------
\* normalizeMaintenanceWindow and parseClock let only times of day through.
SetWindow ==
    /\ \E start, end \in 0..(Minutes - 1) : opens' = start /\ closes' = end
    /\ UNCHANGED clock

Tick == clock' = (clock + 1) % Day /\ UNCHANGED <<opens, closes>>

WindowInit == clock = 0 /\ opens = 0 /\ closes = 0
WindowNext == SetWindow \/ Tick
WindowSpec == WindowInit /\ [][WindowNext]_windowVars

-----------------------------------------------------------------------------
WindowTypeOK ==
    clock \in 0..(Day - 1) /\ opens \in 0..(Minutes - 1) /\ closes \in 0..(Minutes - 1)

\* The minutes the operator means: from the start on, until the end comes round.
Meant == IF opens = closes THEN 0..(Minutes - 1)
         ELSE {(opens + k) % Minutes : k \in 0..(((closes - opens) % Minutes) - 1)}
IsOpen(t) == ((t % Day) \div Parts) \in Meant

\* An update waits until the window is open, no longer and less than a day, over midnight
\* and within the minute that ends it too.
DelayExact ==
    LET d == MaintenanceDelay(clock, opens, closes)
    IN /\ WindowTypeOK /\ d \in 0..(Day - 1)
       /\ IsOpen(clock + d)
       /\ \A e \in 0..(d - 1) : ~IsOpen(clock + e)
=============================================================================
