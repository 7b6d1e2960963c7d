------------------------------ MODULE PausableUntil -------------------------------
(***************************************************************************)
(* utils/PausableUntil.sol: a pause that ends by itself when the clock     *)
(* reaches resumeSince.  Contracts that inherit it extend this module.     *)
(***************************************************************************)
EXTENDS Integers, Sequences

CONSTANT PAUSE_INFINITELY    \* type(uint256).max: a time the clock never reaches

VARIABLES now, resumeSince

IsPaused == now < resumeSince

\* _resume
Resume ==
  /\ IsPaused
  /\ resumeSince' = now

\* Fault: an infinite pause is added to the time.
PauseFor_Fault(duration) ==
  /\ ~IsPaused
  /\ duration # 0
  /\ resumeSince' = now + duration

\* _pauseFor.  A checked addition: past the end of time it reverts.
PauseFor(duration) ==
  /\ ~IsPaused
  /\ duration # 0
  /\ \/ duration = PAUSE_INFINITELY /\ resumeSince' = PAUSE_INFINITELY
     \/ /\ duration # PAUSE_INFINITELY /\ now + duration <= PAUSE_INFINITELY
        /\ resumeSince' = now + duration

\* _pauseUntil
PauseUntil(lastPaused) ==
  /\ ~IsPaused
  /\ lastPaused >= now
  /\ resumeSince' = IF lastPaused = PAUSE_INFINITELY THEN PAUSE_INFINITELY ELSE lastPaused + 1
===================================================================================
