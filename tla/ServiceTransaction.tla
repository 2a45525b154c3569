------------------------- MODULE ServiceTransaction -------------------------
(***************************************************************************)
(* How a page of one company reaches a service and how the service runs    *)
(* its transaction (employment-service.ts, record-definitions.ts and the   *)
(* routes in front of them).                                               *)
(*                                                                         *)
(*   form    a page was loaded, its user has chosen, nothing is sent yet   *)
(*   begin   the route let the request through; no transaction is open     *)
(*   run     a serializable transaction with the snapshot view[c]          *)
(*   mail    committed, and a mail is due                                  *)
(*                                                                         *)
(* In a serializable transaction every query answers from its snapshot, so *)
(* the callback is one action at COMMIT.  Advisory and row locks are taken *)
(* by statements that have the snapshot already: they only delay.          *)
(***************************************************************************)
EXTENDS Naturals, Sequences, FiniteSets, Serializable

CONSTANTS
  Account,
  Request,    \* pages, each submitted once
  Attempts,   \* the bound of the retry loops: 5 and 4 in the code
  None,
  Outside     \* what operators, browsers and the clock may change

VARIABLES
  pc, input, actor, attempt, view, since, reply, \* each request's own state
  log,                                           \* see Serializable
  db                                             \* the tables

own == <<pc, input, actor, attempt, view, since, reply>>
vars == <<own, log, db>>

Running(c) == pc[c] = "run"

Answer(c, step, result) ==
  /\ pc' = [pc EXCEPT ![c] = step]
  /\ reply' = [reply EXCEPT ![c] = result]

(* The log is needed as long as a transaction is open.                     *)
Kept(c, entries) ==
  IF \E d \in Request \ {c} : Running(d) THEN entries ELSE <<>>

Leave(c, step, result) ==
  /\ Answer(c, step, result)
  /\ view' = [view EXCEPT ![c] = None]
  /\ UNCHANGED <<input, actor, attempt, since>>

(* A page keeps what it showed while the database moves on.                *)
Load(c, step, choice) ==
  /\ pc[c] = "idle"
  /\ pc' = [pc EXCEPT ![c] = step]
  /\ input' = [input EXCEPT ![c] = choice]
  /\ UNCHANGED <<actor, attempt, view, since, reply, log, db>>

(* Defect: any signed-in session will do.                                  *)
AnyCsrf(same) == TRUE

(* The token on the page is an HMAC of the session it was made for.        *)
ValidCsrf(same) == same

(* The browser may have signed out, or in as anybody, since.               *)
Submit(c) ==
  \E who \in Account \cup {None}, same \in BOOLEAN :
    /\ pc[c] = "form"
    /\ IF same THEN who = input[c].by ELSE "browser" \in Outside
    /\ actor' = [actor EXCEPT ![c] = who]
    /\ IF who # None /\ ValidCsrf(same)
       THEN Answer(c, "begin", "none")
       ELSE Answer(c, "done", "forbidden")
    /\ UNCHANGED <<input, attempt, view, since, log, db>>

Begin(c) ==
  /\ pc[c] = "begin"
  /\ pc' = [pc EXCEPT ![c] = "run"]
  /\ attempt' = [attempt EXCEPT ![c] = @ + 1]
  /\ view' = [view EXCEPT ![c] = db]
  /\ since' = [since EXCEPT ![c] = Len(log)]
  /\ UNCHANGED <<input, actor, reply, log, db>>

(* Defect: one attempt too many.                                           *)
TriesOnceMore(c) == attempt[c] <= Attempts

TriesLeft(c) == attempt[c] < Attempts

(* The database refuses a statement or the COMMIT.                         *)
Refused(c, exhausted) ==
  /\ Running(c)
  /\ IF TriesLeft(c) THEN Leave(c, "begin", "none")
                     ELSE Leave(c, "done", exhausted)
  /\ log' = Kept(c, log)
  /\ UNCHANGED db

(* The callback throws; the transaction is rolled back.                    *)
Throw(c, result) ==
  /\ Leave(c, "done", result)
  /\ log' = Kept(c, log)
  /\ UNCHANGED db

(* Any error that is not retried, and the transaction's timeout.           *)
Fail(c) == Running(c) /\ Throw(c, "failed")

(* COMMIT succeeds; its acknowledgement may be lost.                       *)
Commit(c, step, result, reads, writes, rows) ==
  LET entry == [since |-> since[c], reads |-> reads, writes |-> writes,
                rows |-> rows]
  IN  /\ MayCommit(log, entry)
      /\ log' = Kept(c, Append(log, entry))
      /\ Leave(c, step, result) \/ Leave(c, "done", "failed")

(* Rows changed by operators, whose transactions are not serializable: an  *)
(* update of the same row by an open transaction is refused.               *)
Disturb(rows) ==
  /\ log' = IF \E c \in Request : Running(c)
            THEN Append(log, [since |-> Len(log), reads |-> {}, writes |-> {},
                              rows |-> rows])
            ELSE log
  /\ UNCHANGED own

=============================================================================
