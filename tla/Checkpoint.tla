------------------------------ MODULE Checkpoint ------------------------------
(***************************************************************************)
(* What a worker that learns, and keeps what it learned in a store, has to *)
(* promise, whatever it learns and however it stores it.  The work is a    *)
(* number per part; a mode says what the parts mean.                       *)
(*                                                                         *)
(*   - Work is at risk only since the last save that succeeded, and saves  *)
(*     are tried every Interval units of work.                             *)
(*   - A start in the mode of what was kept takes all of it over; a start  *)
(*     in another mode takes nothing over; a start from what was damaged   *)
(*     takes each part over whole or not at all.                           *)
(***************************************************************************)
EXTENDS Integers

CONSTANTS Parts, Modes, NoMode, Interval

VARIABLES
    running,
    mode,
    live,      \* work in memory, per part
    unsaved,   \* units of work since the last save that succeeded, or the start
    failed,    \* saves that failed since then
    kept,      \* work in the store, per part
    keptMode,  \* the mode it was done in
    intact

worker == <<running, mode, live, unsaved, failed>>
store == <<kept, keptMode, intact>>
vars == <<worker, store>>

Nothing == [p \in Parts |-> 0]

Init ==
    /\ running = FALSE
    /\ mode \in Modes
    /\ live = Nothing /\ unsaved = 0 /\ failed = 0
    /\ kept = Nothing /\ keptMode = NoMode /\ intact = TRUE

Keep(work) == kept' = work /\ keptMode' = mode /\ intact' = TRUE

\* At risk: no more than the saves that failed leave.
AtRisk(units, failures) == units < Interval * (failures + 1)

Work ==
    /\ running
    /\ live' \in [Parts -> Nat]
    /\ \A p \in Parts : live'[p] \in {live[p], live[p] + 1}
    /\ \/ Keep(live') /\ unsaved' = 0 /\ failed' = 0
       \/ /\ unsaved' = unsaved + 1
          /\ failed' \in {failed, failed + 1}
          /\ AtRisk(unsaved', failed')
          /\ UNCHANGED store
    /\ UNCHANGED <<running, mode>>

\* The end of a process, with or without a last save.
Halt ==
    /\ running /\ running' = FALSE
    /\ Keep(live) \/ UNCHANGED store
    /\ live' = Nothing /\ unsaved' = 0 /\ failed' = 0
    /\ UNCHANGED mode

TakesOver(m, work) ==
    /\ work \in [Parts -> Nat]
    /\ m # keptMode => work = Nothing
    /\ m = keptMode /\ intact => work = kept
    /\ \A p \in Parts : work[p] \in {0, kept[p]}

Start ==
    /\ ~ running /\ running' = TRUE
    /\ mode' \in Modes
    /\ TakesOver(mode', live')
    /\ unsaved' = 0 /\ failed' = 0
    /\ UNCHANGED store

Damage == ~ running /\ intact' = FALSE /\ UNCHANGED <<worker, kept, keptMode>>

Next == Work \/ Halt \/ Start \/ Damage

Spec == Init /\ [][Next]_vars
=============================================================================
