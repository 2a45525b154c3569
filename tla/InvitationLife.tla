--------------------------- MODULE InvitationLife ---------------------------
(***************************************************************************)
(* What the invitation services promise of the invitations of one company: *)
(* an address has at most one that can still be answered, and each is      *)
(* answered at most once, for good.                                        *)
(***************************************************************************)
EXTENDS FiniteSets

CONSTANTS Invitation, Address

VARIABLES status, address, expired

vars == <<status, address, expired>>

Answer == {"ACCEPTED", "DECLINED", "REVOKED"}

Open(i) == status[i] = "OPEN" /\ i \notin expired

Init ==
  /\ status \in [Invitation -> {"NONE", "OPEN"}]
  /\ address \in [Invitation -> Address]
  /\ expired = {}
  /\ \A i, j \in Invitation :
       Open(i) /\ Open(j) /\ address[i] = address[j] => i = j

Send(i, a) ==
  /\ status[i] = "NONE"
  /\ \A j \in Invitation : Open(j) => address[j] # a
  /\ status' = [status EXCEPT ![i] = "OPEN"]
  /\ address' = [address EXCEPT ![i] = a]
  /\ UNCHANGED expired

(* An answer that was given in time may be recorded a little late.         *)
Resolve(i, answer) ==
  /\ status[i] = "OPEN"
  /\ status' = [status EXCEPT ![i] = answer]
  /\ UNCHANGED <<address, expired>>

Expire(i) ==
  /\ expired' = expired \cup {i}
  /\ UNCHANGED <<status, address>>

Next ==
  \E i \in Invitation :
    \/ \E a \in Address : Send(i, a)
    \/ \E answer \in Answer : Resolve(i, answer)
    \/ Expire(i)

Spec == Init /\ [][Next]_vars

=============================================================================
