---------------------------- MODULE MCHaRefresh ----------------------------
(* The instance of HaRefresh that TLC checks.                               *)
EXTENDS HaRefresh

RideMonthOf == <<1, 1, 2>>   \* two days of one month and one of the next
=============================================================================
