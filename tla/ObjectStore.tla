---------------------------- MODULE ObjectStore ----------------------------
(***************************************************************************)
(* The private S3 bucket as packages/storage/src/s3.ts uses it.            *)
(*                                                                         *)
(* An object is known by the `state` its metadata carries.  The bucket     *)
(* serves each request atomically, at one instant; a request the client    *)
(* gave up on (timeout, lost connection) is `late`: it may still be served *)
(* at any later time, or never.  The client makes no second attempt        *)
(* (maxAttempts: 1).                                                       *)
(*                                                                         *)
(* The operators below are the provider's methods, as steps of whichever   *)
(* caller conjoins them.                                                   *)
(***************************************************************************)
CONSTANT Keys

VARIABLES
  object,  \* the state of the object under each key, ABSENT if there is none
  late     \* abandoned requests the bucket may still serve

ObjectState == {"ABSENT", "QUARANTINED", "ACCEPTED", "REJECTED"}

StoreRequest == {"PUT", "ACCEPT", "REJECT", "DELETE"}

(* The state each request writes.  ACCEPT and REJECT are copies of the     *)
(* object onto itself with new metadata.                                   *)
Written == [PUT |-> "QUARANTINED", ACCEPT |-> "ACCEPTED",
            REJECT |-> "REJECTED", DELETE |-> "ABSENT"]

(* A copy whose source is gone changes nothing.                            *)
Effect(op, state) ==
  IF op \in {"ACCEPT", "REJECT"} /\ state = "ABSENT"
    THEN "ABSENT"
    ELSE Written[op]

TypeOK ==
  /\ object \in [Keys -> ObjectState]
  /\ late \subseteq StoreRequest \X Keys

----------------------------------------------------------------------------
Serve(op, key) ==
  /\ object' = [object EXCEPT ![key] = Effect(op, @)]
  /\ UNCHANGED late

Abandon(op, key) ==
  /\ late' = late \cup {<<op, key>>}
  /\ UNCHANGED object

(* An abandoned request arrives after all.                                 *)
LateRequest ==
  \E op \in StoreRequest, key \in Keys :
    /\ <<op, key>> \in late
    /\ late' = late \ {<<op, key>>}
    /\ object' = [object EXCEPT ![key] = Effect(op, @)]

(* putQuarantined refuses a key that is in use (HEAD), then writes it.     *)
PutQuarantined(key) == object[key] = "ABSENT" /\ Serve("PUT", key)

(* HEAD must find a quarantined object; the copy carries the new state.    *)
(* HEAD is not a condition of the copy: a copy served late overwrites      *)
(* whatever object it then finds.                                          *)
Transition(op, key) == object[key] = "QUARANTINED" /\ Serve(op, key)

(* A transition reports failure when HEAD does not find a quarantined      *)
(* object, when the copy is abandoned, and when the copy was served but    *)
(* the HEAD that verifies it fails.                                        *)
TransitionFails(op, key) ==
  \/ UNCHANGED <<object, late>>
  \/ object[key] = "QUARANTINED" /\ Abandon(op, key)
  \/ Transition(op, key)

DeleteObject(key) == Serve("DELETE", key)

DeleteFails(key) == Abandon("DELETE", key)
=============================================================================
