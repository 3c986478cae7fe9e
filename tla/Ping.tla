-------------------------------- MODULE Ping --------------------------------
(***************************************************************************)
(* The ping of one session: DefaultPing of core/netwotk.go, with the timer *)
(* goroutine that every Start leaves behind.  A tick is the period of the  *)
(* ping loop, which is also the duration of the timers: the timer of one   *)
(* ping goes off some time during the next period, before or after the     *)
(* next Start.                                                             *)
(***************************************************************************)
EXTENDS Naturals

VARIABLES
    calculated,  \* DefaultPing.Calculated
    timed,       \* DefaultPing.Value > 0
    response,    \* DefaultPing.Response
    armed,       \* timers started in this period
    due          \* timers of the last period, which go off in this one

pingVars == <<calculated, timed, response, armed, due>>

PingFlagsOK == calculated \in BOOLEAN /\ timed \in BOOLEAN /\ response \in BOOLEAN
TimersOK == armed \in Nat /\ due \in Nat

PingInit ==
    /\ calculated = FALSE
    /\ timed = FALSE
    /\ response = TRUE
    /\ armed = 0
    /\ due = 0

(* A new object; the timers of the old one cannot reach it.                *)
NewDefaultPing ==
    /\ calculated' = FALSE
    /\ timed' = FALSE
    /\ response' = TRUE
    /\ armed' = 0
    /\ due' = 0

Start ==
    /\ calculated' = FALSE
    /\ timed' = FALSE
    /\ armed' = armed + 1
    /\ UNCHANGED <<response, due>>

Calculate ==
    /\ calculated' = TRUE
    /\ timed' = TRUE
    /\ response' = TRUE
    /\ UNCHANGED <<armed, due>>

MutantTimerFires ==
    /\ due > 0
    /\ due' = due - 1
    /\ UNCHANGED <<calculated, timed, response, armed>>

(* A timer knows the object only: it judges whichever ping is under way.   *)
TimerFires ==
    /\ due > 0
    /\ due' = due - 1
    /\ response' = (response /\ calculated)
    /\ UNCHANGED <<calculated, timed, armed>>

NextPeriod ==
    /\ due = 0
    /\ due' = armed
    /\ armed' = 0
    /\ UNCHANGED <<calculated, timed, response>>
============================================================================
