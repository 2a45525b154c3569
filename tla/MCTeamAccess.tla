---------------------------- MODULE MCTeamAccess ----------------------------
EXTENDS TeamAccess, TLC

CONSTANTS a1, a2, owner, staff, old

(* What a request does not use has one value.                              *)
Asked(kind, by, who, chosen, on) ==
  [kind |-> kind, by |-> by, who |-> who, roles |-> chosen, on |-> on]

(* Who belongs to the company at first, with which roles, and who has been *)
(* invited by whom to what.                                                *)
Tables(members, held, invitations) ==
  [member |-> [a \in Account |-> IF a \in members THEN "ACTIVE" ELSE "NONE"],
   grants |-> [a \in Account |-> [r \in Role |->
                 IF <<a, r>> \in held THEN 1 ELSE 0]],
   invite |-> [i \in Invitation |->
     IF i \in Existing THEN invitations[i]
     ELSE [status |-> "NONE", to |-> a1, roles |-> {}, by |-> a1]]]

(* An owner has invited an account that is new, or a second owner.         *)
WithInvitation(members) ==
  Tables(members, {<<a1, owner>>}, [i \in Existing |->
    [status |-> "OPEN", to |-> a2, roles |-> {staff}, by |-> a1]])

TwoOwners == [WithInvitation({a1, a2}) EXCEPT !.grants[a2][owner] = 1]

InviteTeams == {WithInvitation({a1}), TwoOwners}

(* A new invitation offers other roles than the one that waits.            *)
Invites == {Asked("send", a1, a2, {owner}, old)}

Answers ==
  {Asked("accept", a2, a2, {}, on) : on \in Invitation}
  \cup {Asked("revoke", a1, a1, {}, on) : on \in Invitation}

(* The invited gets a set of roles; either owner is taken out of office.   *)
Saves ==
  {Asked("save", a1, a2, chosen, old) : chosen \in {{}, {staff}, {owner, staff}}}
  \cup {Asked("save", a2, a1, {}, old)}

InviteAsks == Invites \cup Answers \cup Saves

EveryAsk ==
  InviteAsks
  \cup {Asked("send", a2, a2, {staff}, old), Asked("decline", a2, a2, {}, old)}

Permuted == Permutations(Request)

=============================================================================
