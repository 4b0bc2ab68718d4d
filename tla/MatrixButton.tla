----------------------------- MODULE MatrixButton -----------------------------
(***************************************************************************)
(* A button of the panel's key matrix.  Each pass of loop() scans one row  *)
(* into a cache and later lets every debouncer look at its cached contact: *)
(* of RowCount samples a Button takes, one is fresh.  The MQTT link is     *)
(* polled between the two, so time may pass there.                         *)
(***************************************************************************)
EXTENDS Button

CONSTANT RowCount       \* kRowCount

\* What is cached must be read again before the debounce time is over.  The
\* panel has 30 ms for two passes of loop().
ASSUME MatrixAssumption ==
    /\ RowCount \in Nat \ {0}
    /\ (RowCount - 1) * MaxGap < DebounceMs
    /\ DebounceMs + (RowCount + 2) * MaxGap <= Wrap

VARIABLES
    key,        \* the contact in the matrix; contact is its place in cache_
    row,        \* currentRow_ + 1: 0 before the first scan
    scanned,    \* this pass has scanned, and the debouncer not yet looked
    reads,      \* history: reads in a row of what contact holds, up to 2
    keyFor      \* history: true ms since the key moved

scanner == <<row, scanned, reads>>
matrixVars == <<vars, key, scanner, keyFor>>

\* The key is in the last row, which is scanned last.
KeyRow == RowCount

MatrixTypes ==
    /\ key \in BOOLEAN /\ scanned \in BOOLEAN
    /\ row \in 0 .. RowCount
    /\ reads \in 0 .. 2 /\ keyFor \in Ages

MatrixInit ==
    /\ Init /\ contact = FALSE
    /\ key \in BOOLEAN
    /\ row = 0 /\ scanned = FALSE
    /\ reads = 0 /\ keyFor = 0
-------------------------------------------------------------------------------
\* The key is pressed or let go, or bounces.
KeyMove ==
    /\ key' = ~key
    /\ keyFor' = 0
    /\ UNCHANGED <<vars, scanner>>

MatrixTick ==
    /\ Tick
    /\ keyFor' = Older(keyFor)
    /\ UNCHANGED <<key, scanner>>

\* What the history makes of a read.
Read(level) == reads' = IF level # contact \/ reads = 0 THEN 1 ELSE 2

\* Slip: the last row is never reached.
NextRowShort == IF row >= RowCount - 1 THEN 1 ELSE row + 1
NextRow == IF row = RowCount THEN 1 ELSE row + 1

\* MatrixScanner::update()
Scan ==
    /\ ~scanned /\ scanned' = TRUE
    /\ row' = NextRow
    /\ IF row' = KeyRow THEN contact' = key /\ Read(key)
                        ELSE UNCHANGED <<contact, reads>>
    /\ UNCHANGED <<now, readings, steadyFor, sincePress, sincePoll, key, keyFor>>

\* The debouncer looks at the cache.
Look ==
    /\ scanned /\ scanned' = FALSE
    /\ Update
    /\ UNCHANGED <<key, row, reads, keyFor>>

MatrixNext == KeyMove \/ MatrixTick \/ Scan \/ Look

MatrixSpec == MatrixInit /\ [][MatrixNext]_matrixVars
-------------------------------------------------------------------------------
(***************************************************************************)
(* A level gets through only if the matrix was read twice in a row at it:  *)
(* a cached contact seen again and again is no evidence.  (Row 0: a button *)
(* that is in no matrix.)                                                  *)
(***************************************************************************)
OnlyReadLevels == [][row # 0 /\ stable' # stable => reads = 2]_matrixVars

(***************************************************************************)
(* A key held or let go for a round of the matrix, the debounce time and   *)
(* two passes is reported so, although it is read only once a round.       *)
(***************************************************************************)
KeySettles == keyFor >= DebounceMs + (RowCount + 2) * MaxGap => stable = key
===============================================================================
