----------------------------- MODULE Operations -----------------------------
(***************************************************************************)
(* What runs beside the transactions: readers, readiness, the arithmetic   *)
(* of dates, and an operator's script.  They share no state; `part` is the *)
(* one that runs, so that their states add up and do not multiply.         *)
(***************************************************************************)
EXTENDS RecordAccess, RetentionDates, Readiness, DevClient

VARIABLE part

operationsVars == <<part, accessVars, datesVars, readyVars, devVars>>

Init ==
  /\ part \in {"access", "dates", "ready", "provision"}
  /\ AccessInit /\ ReadyInit /\ DevInit
  /\ IF part = "dates" THEN DatesInit
     ELSE created = NoDate /\ ended = NoDate /\ policy = NoDate
  /\ part # "ready" => up = Dependency

Next ==
  \/ part = "access" /\ AccessNext
       /\ UNCHANGED <<part, datesVars, readyVars, devVars>>
  \/ part = "ready" /\ ReadyNext
       /\ UNCHANGED <<part, accessVars, datesVars, devVars>>
  \/ part = "provision" /\ DevNext
       /\ UNCHANGED <<part, accessVars, datesVars, readyVars>>

Spec == Init /\ [][Next]_operationsVars

(* Retention and review dates are those of the calendar, for every policy  *)
(* and date the run is given (deriveRecordDates); see DatesAsCalendar.     *)
DatesRight == part = "dates" => DatesAsCalendar

=============================================================================
