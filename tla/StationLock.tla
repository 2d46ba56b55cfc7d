------------------------------ MODULE StationLock ------------------------------
(***************************************************************************)
(* What serializing a HomeBase promises: its one local peer belongs either *)
(* to the media session of an attached camera or to the control session of *)
(* one station operation, never to both, and no operation, whether it      *)
(* fails, is refused or waits for media to stop, holds up those behind it  *)
(* for ever.  Nothing is said of queues, tickets or cancellations.         *)
(* HomeBaseOperations implements this module.                              *)
(***************************************************************************)
EXTENDS Naturals

VARIABLES
  waiting,   \* operations that have not settled
  control,   \* is a control session open?
  media      \* does a camera hold a media session?

lockVars == <<waiting, control, media>>

Init == waiting = 0 /\ ~control /\ ~media

Request ==
  /\ waiting' = waiting + 1
  /\ UNCHANGED <<control, media>>

\* The oldest operation gets the peer.
Take ==
  /\ waiting > 0 /\ ~control /\ ~media
  /\ control' = TRUE
  /\ UNCHANGED <<waiting, media>>

\* The oldest operation settles, with or without having had the peer.
Settle ==
  /\ waiting > 0
  /\ waiting' = waiting - 1
  /\ control' = FALSE
  /\ UNCHANGED media

MediaStarts ==
  /\ ~control /\ ~media
  /\ media' = TRUE
  /\ UNCHANGED <<waiting, control>>

MediaEnds ==
  /\ media' = FALSE
  /\ UNCHANGED <<waiting, control>>

Next == Request \/ Take \/ Settle \/ MediaStarts \/ MediaEnds

SafeSpec == Init /\ [][Next]_lockVars

\* Operations settle as long as there are any.
OperationsSettle == []<>(waiting = 0) \/ []<><<Settle>>_lockVars

Spec == SafeSpec /\ OperationsSettle
================================================================================
