---------------------------- MODULE Serializable ----------------------------
(***************************************************************************)
(* PostgreSQL's SERIALIZABLE isolation, as far as the services that ask    *)
(* for it depend on it (company-team.ts, team-invitations.ts).             *)
(*                                                                         *)
(* A transaction reads the snapshot of its first statement.  The log holds *)
(* the transactions committed since some transaction that is still open    *)
(* began:                                                                  *)
(*                                                                         *)
(*   since   how much of the log the transaction's snapshot contains       *)
(*   reads   what its queries looked at, rows that are not there included  *)
(*   writes  what it changed, as its readers would name it                 *)
(*   rows    the rows it updated, and the unique keys it inserted          *)
(*                                                                         *)
(* The database guarantees no more than a serial order of what it commits. *)
(* It may refuse any transaction: that choice is left to the module that   *)
(* uses this one.                                                          *)
(***************************************************************************)
EXTENDS Naturals, Sequences

Saw(log, i, j) == j <= log[i].since

Meet(S, T) == S \cap T # {}

(* Transaction i comes before j in every serial order that explains both:  *)
(* it missed what j wrote, or j saw what i wrote, or both changed a row.   *)
Precedes(log, i, j) ==
  /\ i # j
  /\ \/ Meet(log[i].reads, log[j].writes) /\ ~Saw(log, i, j)
     \/ Meet(log[i].writes, log[j].reads) /\ Saw(log, j, i)
     \/ Meet(log[i].rows, log[j].rows) /\ i < j

SerialOrder(log) ==
  \E rank \in [1 .. Len(log) -> 1 .. Len(log)] :
    \A i, j \in 1 .. Len(log) : Precedes(log, i, j) => rank[i] < rank[j]

(* No row it changed was changed after its snapshot.                       *)
FirstUpdater(log, entry) ==
  \A i \in 1 .. Len(log) : i > entry.since => ~Meet(log[i].rows, entry.rows)

MayCommit(log, entry) ==
  /\ FirstUpdater(log, entry)
  /\ SerialOrder(Append(log, entry))

=============================================================================
