-------------------------- MODULE TeamAccessProofs --------------------------
(***************************************************************************)
(* No role is granted twice, no address has two open invitations, the      *)
(* company keeps an owner, access has a cause and nobody acts on authority *)
(* that is gone, whatever transactions PostgreSQL lets overlap.            *)
(*                                                                         *)
(* Each follows from the same facts about a transaction that is open: what *)
(* differs between its snapshot and the tables was changed by a committed  *)
(* transaction it did not see, and that transaction had read what the open *)
(* one is about to change.  If both committed, each would come before the  *)
(* other.                                                                  *)
(***************************************************************************)
EXTENDS TeamAccess, SerializableProofs

----------------------------------------------------------------------------
(* The inductive invariant.                                                *)

MemberItem(a) == [row |-> "member", of |-> a]
GrantItem(a, r) == [row |-> "grant", of |-> a, role |-> r]
InvitationItem(i) == [row |-> "invitation", of |-> i]
InboxItem(a) == [row |-> "inbox", of |-> a]

(* Some transaction that c did not see changed the row x; it looked at x   *)
(* and changed it; it took ownership from a, having looked at all owners.  *)
Changed(c, x) == \E j \in 1 .. Len(log) : since[c] < j /\ x \in log[j].rows

Raced(c, x) ==
  \E j \in 1 .. Len(log) :
    since[c] < j /\ x \in log[j].reads /\ x \in log[j].writes

Demoted(c, a) ==
  \E j \in 1 .. Len(log) :
    /\ since[c] < j
    /\ \A b \in Account : GrantItem(b, Owner) \in log[j].reads
    /\ GrantItem(a, Owner) \in log[j].writes

MembersStand(c) ==
  \A a \in Account :
    Changed(c, MemberItem(a)) \/ team.member[a] = view[c].team.member[a]

GrantStands(c, a, r) ==
  /\ \/ Changed(c, GrantItem(a, r))
     \/ view[c].team.grants[a][r] <= team.grants[a][r]
  /\ \/ Raced(c, GrantItem(a, r))
     \/ team.grants[a][r] <= view[c].team.grants[a][r]
  /\ view[c].team.grants[a][r] <= 1

GrantsStand(c) == \A a \in Account, r \in Role : GrantStands(c, a, r)

InvitationStands(c, i) ==
  IF view[c].team.invite[i].status = "NONE"
  THEN team.invite[i].status = "OPEN" => Raced(c, InboxItem(team.invite[i].to))
  ELSE /\ team.invite[i].to = view[c].team.invite[i].to
       /\ team.invite[i].roles = view[c].team.invite[i].roles
       /\ \/ team.invite[i].status = view[c].team.invite[i].status
          \/ /\ view[c].team.invite[i].status = "OPEN"
             /\ team.invite[i].status \in Life!Answer
             /\ Changed(c, InvitationItem(i))

InvitationsStand(c) == \A i \in Invitation : InvitationStands(c, i)

ViewOwner(c, a) ==
  view[c].team.member[a] = "ACTIVE" /\ view[c].team.grants[a][Owner] > 0

OwnersStand(c) ==
  \A a \in Account : ViewOwner(c, a) => IsOwner(a) \/ Demoted(c, a)

InFlight(c) ==
  Running(c) =>
    /\ view[c] \in Snapshot /\ input[c] \in Asks
    /\ since[c] <= Len(log)
    /\ view[c].expired \subseteq expired
    /\ MembersStand(c) /\ GrantsStand(c) /\ InvitationsStand(c)

LogInv == \A j \in 1 .. Len(log) : log[j].since < j

(* Whoever changes a grant has looked at the membership it belongs to.     *)
LogReads ==
  \A j \in 1 .. Len(log), a \in Account, r \in Role :
    GrantItem(a, r) \in log[j].writes => MemberItem(a) \in log[j].reads

(* A request's invitation exists once it has committed.                    *)
Unsent == \A c \in Request :
  pc[c] \in {"idle", "begin", "run"} => team.invite[c].status = "NONE"

(* Who begins an attempt has one left, and knows what is asked.            *)
Prepared ==
  \A c \in Request :
    /\ pc[c] \in {"idle", "begin"} => attempt[c] < Attempts
    /\ pc[c] # "idle" => input[c] \in Asks

OneOpenInvitation ==
  \A i, j \in Invitation :
    Life!Open(i) /\ Life!Open(j) /\ team.invite[i].to = team.invite[j].to => i = j

TeamInv ==
  /\ TypeOK /\ LogInv /\ Unsent /\ Prepared /\ SingleGrant /\ OneOpenInvitation
  /\ \A c \in Request : InFlight(c)

OwnerInv ==
  /\ active = Account
  /\ \E a \in Account : IsOwner(a)
  /\ \A c \in Request : Running(c) => OwnersStand(c)

----------------------------------------------------------------------------
(* Serializable transactions.                                              *)

(* What a transaction does to the tables, told by what it declares.        *)
Tracked(c, reads, writes, rows) ==
  /\ \A a \in Account :
       \/ team'.member[a] = team.member[a]
       \/ team'.member[a] = "ACTIVE" /\ MemberItem(a) \in rows
  /\ \A a \in Account, r \in Role :
       /\ team'.grants[a][r] < team.grants[a][r] => GrantItem(a, r) \in rows
       /\ team'.grants[a][r] > team.grants[a][r] =>
            GrantItem(a, r) \in reads /\ GrantItem(a, r) \in writes
       /\ GrantItem(a, r) \in writes => MemberItem(a) \in reads
  /\ \A i \in Invitation :
       LET was == team.invite[i]
           is == team'.invite[i]
       IN  \/ is = was
           \/ /\ i = c /\ was.status = "NONE" /\ is.status = "OPEN"
              /\ InboxItem(is.to) \in reads /\ InboxItem(is.to) \in writes
              /\ \A k \in Invitation : Life!Open(k) => team.invite[k].to # is.to
           \/ /\ was.status = "OPEN" /\ is.status \in Life!Answer
              /\ is.to = was.to /\ is.roles = was.roles
              /\ InvitationItem(i) \in rows
  /\ \E i \in Invitation : \A k \in Invitation \ {i} :
       team'.invite[k] = team.invite[k]
  /\ \A a \in Account : IsOwner(a) /\ ~IsOwner(a)' =>
       /\ \A b \in Account : GrantItem(b, Owner) \in reads
       /\ GrantItem(a, Owner) \in writes
       /\ \E b \in Account \ {a} :
            ViewOwner(c, b) /\ team'.grants[b] = team.grants[b]

(* Who takes a role away has looked at all the member holds, and so has    *)
(* who gives one, unless an open invitation is accepted that offers it.    *)
LooksAll(reads, a) == \A s \in Role : GrantItem(a, s) \in reads

Gave(t, i, a, r) ==
  /\ t.invite[i].status = "ACCEPTED" /\ t.invite[i].to = a
  /\ r \in t.invite[i].roles

Explained(reads, writes, rows) ==
  /\ \A a \in Account, r \in Role :
       /\ GrantItem(a, r) \in rows => GrantItem(a, r) \in writes /\ LooksAll(reads, a)
       /\ GrantItem(a, r) \in writes =>
            \/ LooksAll(reads, a)
            \/ \E i \in Invitation : InvitationItem(i) \in rows /\ Gave(team', i, a, r)
  /\ \A i \in Invitation :
       InvitationItem(i) \in rows => team.invite[i].status = "OPEN"

Committed(c, reads, writes, rows) ==
  LET entry == [since |-> since[c], reads |-> reads, writes |-> writes,
                rows |-> rows]
  IN  /\ MayCommit(log, entry)
      /\ log' = Kept(c, Append(log, entry))
      /\ pc' \in {[pc EXCEPT ![c] = "mail"], [pc EXCEPT ![c] = "done"]}
      /\ view' = [view EXCEPT ![c] = None]
      /\ \E result \in Reply : reply' = [reply EXCEPT ![c] = result]
      /\ UNCHANGED <<input, attempt, since, outside, mails>>

LEMMA CommitCommits ==
  ASSUME NEW c \in Request, NEW result \in Success, NEW reads, NEW writes, NEW rows,
         Commit(c, result, reads, writes, rows)
  PROVE  Committed(c, reads, writes, rows)
BY DEF Commit, Committed, Leave, Reply

(* The transactions still open when one commits stay as they should be.    *)
LEMMA OthersStand ==
  ASSUME TeamInv, team' \in Team,
         NEW c \in Request, Running(c),
         NEW reads \in SUBSET Item, NEW writes \in SUBSET Item,
         NEW rows \in SUBSET Item,
         Committed(c, reads, writes, rows), Tracked(c, reads, writes, rows),
         NEW d \in Request, d # c
  PROVE  InFlight(d)'
<1> DEFINE entry == [since |-> since[c], reads |-> reads, writes |-> writes,
                     rows |-> rows]
           n == Len(log) + 1
<1> SUFFICES ASSUME Running(d)'
             PROVE  /\ (view[d] \in Snapshot /\ input[d] \in Asks)'
                    /\ (since[d] <= Len(log))'
                    /\ (view[d].expired \subseteq expired)'
                    /\ MembersStand(d)' /\ GrantsStand(d)' /\ InvitationsStand(d)'
  BY DEF InFlight
<1>1. /\ Running(d) /\ view'[d] = view[d] /\ since'[d] = since[d]
      /\ input' = input /\ expired' = expired
  BY DEF TeamInv, TypeOK, Committed, Running, outside
<1>2. log' = Append(log, entry)
  BY <1>1 DEF Committed, Kept
<1>3. entry \in Entry /\ log \in Seq(Entry) /\ since[d] \in Nat
  BY DEF TeamInv, TypeOK, Entry
<1>4. /\ Len(log') = n /\ n \in 1 .. n /\ log'[n] = entry
      /\ \A j \in 1 .. Len(log) : log'[j] = log[j] /\ j \in 1 .. n
  BY <1>2, <1>3
<1>5. /\ view[d] \in Snapshot /\ input[d] \in Asks /\ since[d] <= Len(log)
      /\ view[d].expired \subseteq expired
      /\ MembersStand(d) /\ GrantsStand(d) /\ InvitationsStand(d)
  BY <1>1 DEF TeamInv, InFlight
<1>6. since[d] < n
  BY <1>3, <1>5
<1>7. \A x : Changed(d, x) \/ x \in rows =>
        \E j \in 1 .. Len(log') : since'[d] < j /\ x \in log'[j].rows
  BY <1>1, <1>4, <1>6 DEF Changed
<1>8. \A x : Raced(d, x) \/ (x \in reads /\ x \in writes) =>
        \E j \in 1 .. Len(log') :
          since'[d] < j /\ x \in log'[j].reads /\ x \in log'[j].writes
  BY <1>1, <1>4, <1>6 DEF Raced
<1>9. MembersStand(d)'
  BY <1>1, <1>5, <1>7 DEF MembersStand, Tracked, Changed, MemberItem
<1>10. GrantsStand(d)'
  <2> SUFFICES ASSUME NEW a \in Account, NEW r \in Role
               PROVE  GrantStands(d, a, r)'
    BY DEF GrantsStand
  <2>1. /\ team.grants[a][r] \in Nat /\ team'.grants[a][r] \in Nat
        /\ view[d].team.grants[a][r] \in Nat
    BY <1>5 DEF TeamInv, TypeOK, Now, Snapshot, Team
  <2>2. GrantStands(d, a, r)
    BY <1>5 DEF GrantsStand
  <2>3. /\ team'.grants[a][r] < team.grants[a][r] => GrantItem(a, r) \in rows
        /\ team'.grants[a][r] > team.grants[a][r] =>
             GrantItem(a, r) \in reads /\ GrantItem(a, r) \in writes
    BY DEF Tracked
  <2>4. Changed(d, GrantItem(a, r)) \/ GrantItem(a, r) \in rows
          => Changed(d, GrantItem(a, r))'
    BY <1>7 DEF Changed, GrantItem
  <2>5. Raced(d, GrantItem(a, r))
          \/ (GrantItem(a, r) \in reads /\ GrantItem(a, r) \in writes)
          => Raced(d, GrantItem(a, r))'
    BY <1>8 DEF Raced, GrantItem
  <2> QED
    BY <1>1, <2>1, <2>2, <2>3, <2>4, <2>5 DEF GrantStands
<1>11. InvitationsStand(d)'
  <2> SUFFICES ASSUME NEW i \in Invitation
               PROVE  InvitationStands(d, i)'
    BY DEF InvitationsStand
  <2>1. InvitationStands(d, i)
    BY <1>5 DEF InvitationsStand
  <2>2. CASE team'.invite[i] = team.invite[i]
    BY <1>1, <1>7, <1>8, <2>1, <2>2
       DEF InvitationStands, Changed, Raced, InboxItem, InvitationItem
  <2>3. CASE /\ team.invite[i].status = "NONE" /\ team'.invite[i].status = "OPEN"
             /\ InboxItem(team'.invite[i].to) \in reads
             /\ InboxItem(team'.invite[i].to) \in writes
    <3>1. view[d].team.invite[i].status = "NONE"
      BY <2>1, <2>3 DEF InvitationStands, Life!Answer
    <3> QED
      BY <1>1, <1>8, <2>3, <3>1 DEF InvitationStands, Raced, InboxItem
  <2>4. CASE /\ team.invite[i].status = "OPEN"
             /\ team'.invite[i].status \in Life!Answer
             /\ team'.invite[i].to = team.invite[i].to
             /\ team'.invite[i].roles = team.invite[i].roles
             /\ InvitationItem(i) \in rows
    BY <1>1, <1>7, <2>1, <2>4
       DEF InvitationStands, Changed, InvitationItem, Life!Answer
  <2> QED
    BY <2>2, <2>3, <2>4 DEF Tracked
<1>12. (since[d] <= Len(log))'
  BY <1>1, <1>3, <1>4, <1>5
<1> QED
  BY <1>1, <1>5, <1>9, <1>10, <1>11, <1>12

----------------------------------------------------------------------------
(* What a transaction that may commit knows about its snapshot.            *)

LEMMA NotChanged ==
  ASSUME TeamInv, NEW c \in Request, NEW reads, NEW writes, NEW rows,
         Committed(c, reads, writes, rows), NEW x \in rows
  PROVE  ~Changed(c, x)
BY DEF Committed, MayCommit, FirstUpdater, Meet, Changed

LEMMA NotRaced ==
  ASSUME TeamInv, NEW c \in Request,
         NEW reads \in SUBSET Item, NEW writes \in SUBSET Item,
         NEW rows \in SUBSET Item,
         Committed(c, reads, writes, rows),
         NEW x, x \in reads, x \in writes
  PROVE  ~Raced(c, x)
<1> DEFINE e == [since |-> since[c], reads |-> reads, writes |-> writes,
                 rows |-> rows]
<1>1. e \in Entry /\ log \in Seq(Entry) /\ SerialOrder(Append(log, e))
  BY DEF TeamInv, TypeOK, Entry, Committed, MayCommit
<1> SUFFICES ASSUME NEW j \in 1 .. Len(log), since[c] < j,
                    x \in log[j].reads, x \in log[j].writes
             PROVE  FALSE
  BY DEF Raced
<1>2. e.since < j /\ log[j].since < j /\ x \in e.reads /\ x \in e.writes
  BY DEF TeamInv, LogInv
<1> QED
  BY <1>1, <1>2, NoCycle DEF Entry, Transaction

(* Nor has a transaction that c did not see looked at what c changes, and  *)
(* changed what c looked at.                                               *)
LEMMA NotOvertaken ==
  ASSUME TeamInv, NEW c \in Request,
         NEW reads \in SUBSET Item, NEW writes \in SUBSET Item,
         NEW rows \in SUBSET Item,
         Committed(c, reads, writes, rows),
         NEW j \in 1 .. Len(log), since[c] < j,
         NEW x \in reads, x \in log[j].writes,
         NEW y \in writes, y \in log[j].reads
  PROVE  FALSE
<1> DEFINE e == [since |-> since[c], reads |-> reads, writes |-> writes,
                 rows |-> rows]
<1>1. e \in Entry /\ log \in Seq(Entry) /\ SerialOrder(Append(log, e))
  BY DEF TeamInv, TypeOK, Entry, Committed, MayCommit
<1>2. e.since < j /\ log[j].since < j /\ x \in e.reads /\ y \in e.writes
  BY DEF TeamInv, LogInv
<1> QED
  BY <1>1, <1>2, NoCycle DEF Entry, Transaction

(* A commit that grants and revokes only what its snapshot calls for.      *)
Regrants(c, a, added, dropped, reads, writes, rows) ==
  /\ reads \in SUBSET Item /\ writes \in SUBSET Item /\ rows \in SUBSET Item
  /\ Committed(c, reads, writes, rows)
  /\ \A r \in added :
       /\ GrantItem(a, r) \in reads /\ GrantItem(a, r) \in writes
       /\ r \in dropped \/ view[c].team.grants[a][r] = 0
  /\ \A r \in dropped : GrantItem(a, r) \in rows
  /\ team'.grants = [team.grants EXCEPT
                       ![a] = Regrant(view[c], a, added, dropped)]

LEMMA RegrantBounds ==
  ASSUME TeamInv, NEW c \in Request, Running(c),
         NEW a \in Account, NEW r \in Role,
         NEW added, NEW dropped, NEW reads, NEW writes, NEW rows,
         Regrants(c, a, added, dropped, reads, writes, rows)
  PROVE  LET g == Regrant(view[c], a, added, dropped)[r]
         IN  /\ g \in 0 .. 1
             /\ g < team.grants[a][r] => r \in dropped
             /\ g > team.grants[a][r] => r \in added
<1>1. view[c] \in Snapshot /\ GrantStands(c, a, r)
  BY DEF TeamInv, InFlight, GrantsStand
<1>2. team.grants[a][r] \in Nat /\ view[c].team.grants[a][r] \in Nat
  BY <1>1 DEF TeamInv, TypeOK, Now, Snapshot, Team
<1>3. team.grants[a][r] <= 1
  BY DEF TeamInv, SingleGrant
<1>4. r \in dropped => view[c].team.grants[a][r] <= team.grants[a][r]
  BY <1>1, NotChanged DEF GrantStands, Regrants
<1>5. r \in added => team.grants[a][r] <= view[c].team.grants[a][r]
  BY <1>1, NotRaced DEF GrantStands, Regrants
<1>6. Regrant(view[c], a, added, dropped)[r] =
        (IF r \in dropped THEN team.grants[a][r] - view[c].team.grants[a][r]
                          ELSE team.grants[a][r])
        + (IF r \in added THEN 1 ELSE 0)
  BY DEF Regrant
<1>7. r \in added => r \in dropped \/ view[c].team.grants[a][r] = 0
  BY DEF Regrants
<1> QED
  BY <1>1, <1>2, <1>3, <1>4, <1>5, <1>6, <1>7 DEF GrantStands

LEMMA RegrantKeeps ==
  ASSUME TeamInv, NEW c \in Request, Running(c), NEW a \in Account,
         NEW added, NEW dropped, NEW reads, NEW writes, NEW rows,
         Regrants(c, a, added, dropped, reads, writes, rows)
  PROVE  /\ team'.grants \in [Account -> [Role -> Nat]]
         /\ SingleGrant'
         /\ \A b \in Account, r \in Role :
              /\ team'.grants[b][r] < team.grants[b][r] => b = a /\ r \in dropped
              /\ team'.grants[b][r] > team.grants[b][r] => b = a /\ r \in added
<1>1. team.grants \in [Account -> [Role -> Nat]]
  BY DEF TeamInv, TypeOK, Now, Snapshot, Team
<1>2. /\ team'.grants[a] = Regrant(view[c], a, added, dropped)
      /\ \A b \in Account \ {a} : team'.grants[b] = team.grants[b]
  BY <1>1 DEF Regrants
<1>3. ASSUME NEW r \in Role
      PROVE  /\ team'.grants[a][r] \in 0 .. 1
             /\ team'.grants[a][r] < team.grants[a][r] => r \in dropped
             /\ team'.grants[a][r] > team.grants[a][r] => r \in added
  <2>1. LET g == Regrant(view[c], a, added, dropped)[r]
        IN  /\ g \in 0 .. 1
            /\ g < team.grants[a][r] => r \in dropped
            /\ g > team.grants[a][r] => r \in added
    BY RegrantBounds
  <2> QED
    BY <1>2, <2>1
<1>4. Regrant(view[c], a, added, dropped) \in [Role -> Nat]
  <2>1. Regrant(view[c], a, added, dropped)
          = [r \in Role |-> team'.grants[a][r]]
    BY <1>2 DEF Regrant
  <2>2. \A r \in Role : team'.grants[a][r] \in Nat
    BY <1>3
  <2> QED
    BY <2>1, <2>2
<1>5. team'.grants \in [Account -> [Role -> Nat]]
  BY <1>1, <1>4 DEF Regrants
<1>6. SingleGrant'
  <2> SUFFICES ASSUME NEW b \in Account, NEW r \in Role
               PROVE  team'.grants[b][r] <= 1
    BY DEF SingleGrant
  <2>1. team.grants[b][r] <= 1
    BY DEF TeamInv, SingleGrant
  <2> QED
    BY <1>2, <1>3, <2>1
<1>7. ASSUME NEW b \in Account, NEW r \in Role
      PROVE  /\ team'.grants[b][r] < team.grants[b][r] => b = a /\ r \in dropped
             /\ team'.grants[b][r] > team.grants[b][r] => b = a /\ r \in added
  <2>1. team.grants[b][r] \in Nat
    BY <1>1
  <2>2. CASE b = a
    BY <1>3, <2>2
  <2>3. CASE b # a
    BY <1>2, <2>1, <2>3
  <2> QED
    BY <2>2, <2>3
<1> QED
  BY <1>5, <1>6, <1>7

----------------------------------------------------------------------------
(* What each operation does.                                               *)

LEMMA Items ==
  /\ \A S \in SUBSET Account :
       /\ MemberOf(S) \in SUBSET Item /\ InboxOf(S) \in SUBSET Item
       /\ \A a : MemberItem(a) \in MemberOf(S) <=> a \in S
       /\ \A a : InboxItem(a) \in InboxOf(S) <=> a \in S
       /\ \A a, r : GrantItem(a, r) \notin MemberOf(S) \cup InboxOf(S)
  /\ \A S \in SUBSET Invitation :
       /\ InvitationOf(S) \in SUBSET Item
       /\ \A i : InvitationItem(i) \in InvitationOf(S) <=> i \in S
       /\ \A a, r : GrantItem(a, r) \notin InvitationOf(S)
  /\ \A S \in SUBSET Account, R \in SUBSET Role :
       /\ GrantOf(S, R) \in SUBSET Item
       /\ \A a, r : GrantItem(a, r) \in GrantOf(S, R) <=> a \in S /\ r \in R
<1>1. ASSUME NEW S \in SUBSET Account
      PROVE  /\ MemberOf(S) \in SUBSET Item /\ InboxOf(S) \in SUBSET Item
             /\ \A a : MemberItem(a) \in MemberOf(S) <=> a \in S
             /\ \A a : InboxItem(a) \in InboxOf(S) <=> a \in S
             /\ \A a, r : GrantItem(a, r) \notin MemberOf(S) \cup InboxOf(S)
  BY <1>1 DEF Item, MemberOf, InboxOf, MemberItem, InboxItem, GrantItem
<1>2. ASSUME NEW S \in SUBSET Invitation
      PROVE  /\ InvitationOf(S) \in SUBSET Item
             /\ \A i : InvitationItem(i) \in InvitationOf(S) <=> i \in S
             /\ \A a, r : GrantItem(a, r) \notin InvitationOf(S)
  BY <1>2 DEF Item, InvitationOf, InvitationItem, GrantItem
<1>3. ASSUME NEW S \in SUBSET Account, NEW R \in SUBSET Role
      PROVE  /\ GrantOf(S, R) \in SUBSET Item
             /\ \A a, r : GrantItem(a, r) \in GrantOf(S, R) <=> a \in S /\ r \in R
  BY <1>3 DEF Item, GrantOf, GrantItem
<1> QED
  BY <1>1, <1>2, <1>3

LEMMA InvitationItems ==
  ASSUME NEW i
  PROVE  /\ \A S : InvitationItem(i) \notin MemberOf(S)
         /\ \A S, R : InvitationItem(i) \notin GrantOf(S, R)
BY DEF InvitationItem, MemberOf, GrantOf

LEMMA ManagerItems ==
  ASSUME NEW a \in Account
  PROVE  /\ Manager(a) \in SUBSET Item /\ MemberItem(a) \in Manager(a)
         /\ \A r \in Role : GrantItem(a, r) \in Manager(a)
<1>1. {a} \in SUBSET Account /\ Role \in SUBSET Role
  OBVIOUS
<1>2. MemberOf({a}) \in SUBSET Item /\ MemberItem(a) \in MemberOf({a})
  BY <1>1, Items
<1>3. /\ GrantOf({a}, Role) \in SUBSET Item
      /\ \A r \in Role : GrantItem(a, r) \in GrantOf({a}, Role)
  BY <1>1, Items
<1> QED
  BY <1>2, <1>3 DEF Manager

Threw(c) == \E result \in Error \cup {"failed"} : Throw(c, result)

Effect(c) ==
  /\ team' \in Team /\ SingleGrant'
  /\ \E reads, writes, rows \in SUBSET Item :
       /\ Committed(c, reads, writes, rows) /\ Tracked(c, reads, writes, rows)
       /\ Explained(reads, writes, rows)

(* The save of a set of roles, told by how it differs from the snapshot.   *)
SaveAdds(c) == input[c].roles \ Held(view[c], input[c].who)

SaveDrops(c) == Held(view[c], input[c].who) \ input[c].roles

Saves(c, reads, writes, rows) ==
  LET a == input[c].who
  IN  /\ Regrants(c, a, SaveAdds(c), SaveDrops(c), reads, writes, rows)
      /\ team' = [team EXCEPT !.grants = team'.grants]
      /\ input[c].roles \subseteq view[c].roles
      /\ MemberItem(a) \in reads /\ LooksAll(reads, a)
      /\ \A b, r : GrantItem(b, r) \in writes <=> b = a /\ r \in SaveAdds(c) \cup SaveDrops(c)
      /\ \A b, r : GrantItem(b, r) \in rows <=> b = a /\ r \in SaveDrops(c)
      /\ \A i : InvitationItem(i) \notin rows
      /\ Owner \in SaveDrops(c) =>
           /\ OtherOwner(view[c], a)
           /\ \A b \in Account : GrantItem(b, Owner) \in reads

LEMMA SaveCommits ==
  ASSUME TeamInv, NEW c \in Request, Save(c)
  PROVE  Threw(c) \/ \E reads, writes, rows \in SUBSET Item : Saves(c, reads, writes, rows)
<1> DEFINE q == input[c]
           v == view[c]
           a == q.who
           added == SaveAdds(c)
           dropped == SaveDrops(c)
           reads == SaveReads(v, q)
           writes == GrantOf({a}, added \cup dropped)
           rows == GrantOf({a}, dropped)
<1>1. Running(c) /\ q \in Input /\ v \in Snapshot /\ team \in Team
  BY KnownAsks DEF Save, TeamInv, InFlight, TypeOK, Now, Snapshot
<1>2. CASE SaveError(v, q) # "none" /\ Throw(c, SaveError(v, q))
  BY <1>2 DEF Threw, SaveError, Error
<1>3. CASE /\ SaveError(v, q) = "none"
           /\ Commit(c, "saved", reads, writes, rows)
           /\ team' = [team EXCEPT !.grants[a] = Regrant(v, a, added, dropped)]
  <2>1. a \in Account /\ q.by \in Account /\ q.roles \subseteq Role
    BY <1>1 DEF Input
  <2>2. Held(v, a) = {r \in v.roles : v.team.grants[a][r] > 0}
    BY DEF Held
  <2>3. q.roles \subseteq v.roles /\ (DropsOwner(v, q) => OtherOwner(v, a))
    BY <1>3 DEF SaveError
  <2>4. /\ added \subseteq Role /\ dropped \subseteq Role
        /\ \A r \in added : v.team.grants[a][r] = 0
        /\ Owner \in dropped => DropsOwner(v, q)
    <3>1. v.team.grants[a] \in [Role -> Nat] /\ v.roles \subseteq Role
      BY <1>1, <2>1 DEF Snapshot, Team
    <3>2. added \subseteq Role /\ dropped \subseteq Role
      BY <2>1, <2>2, <3>1 DEF SaveAdds, SaveDrops
    <3>3. \A r \in added : v.team.grants[a][r] = 0
      BY <2>2, <2>3, <3>1 DEF SaveAdds
    <3>4. Owner \in dropped => DropsOwner(v, q)
      BY <2>2 DEF DropsOwner, SaveDrops
    <3> QED
      BY <3>2, <3>3, <3>4
  <2>5. Committed(c, reads, writes, rows)
    BY <1>3, CommitCommits DEF Success
  <2>6. /\ reads \in SUBSET Item /\ MemberItem(a) \in reads
        /\ \A r \in Role : GrantItem(a, r) \in reads
        /\ DropsOwner(v, q) => \A b \in Account : GrantItem(b, Owner) \in reads
    <3>1. {q.by} \in SUBSET Account /\ {a} \in SUBSET Account
      BY <2>1
    <3>2. {Owner} \in SUBSET Role /\ Role \in SUBSET Role
      BY KnownRoles
    <3>3. Manager(q.by) \in SUBSET Item
      BY <2>1, ManagerItems
    <3>4. /\ Manager(a) \in SUBSET Item /\ MemberItem(a) \in Manager(a)
          /\ \A r \in Role : GrantItem(a, r) \in Manager(a)
      BY <2>1, ManagerItems
    <3>5. MemberOf(Account) \in SUBSET Item
      BY Items
    <3>6. /\ GrantOf(Account, {Owner}) \in SUBSET Item
          /\ \A b \in Account : GrantItem(b, Owner) \in GrantOf(Account, {Owner})
      BY <3>2, Items
    <3> QED
      BY <3>3, <3>4, <3>5, <3>6 DEF SaveReads
  <2>7. /\ writes \in SUBSET Item /\ rows \in SUBSET Item
        /\ \A b, r : GrantItem(b, r) \in writes <=> b = a /\ r \in added \cup dropped
        /\ \A b, r : GrantItem(b, r) \in rows <=> b = a /\ r \in dropped
        /\ \A i : InvitationItem(i) \notin rows
    <3>1. {a} \in SUBSET Account /\ added \cup dropped \in SUBSET Role
      BY <2>1, <2>4
    <3>2. dropped \in SUBSET Role
      BY <2>4
    <3> HIDE DEF added, dropped, a
    <3>3. /\ writes \in SUBSET Item
          /\ \A b, r : GrantItem(b, r) \in writes <=> b \in {a} /\ r \in added \cup dropped
      BY <3>1, Items
    <3>4. /\ rows \in SUBSET Item
          /\ \A b, r : GrantItem(b, r) \in rows <=> b \in {a} /\ r \in dropped
      BY <3>1, <3>2, Items
    <3>5. \A i : InvitationItem(i) \notin rows
      BY InvitationItems
    <3> HIDE DEF writes, rows
    <3> QED
      BY <3>3, <3>4, <3>5
  <2>8. /\ team'.grants = [team.grants EXCEPT ![a] = Regrant(v, a, added, dropped)]
        /\ team' = [team EXCEPT !.grants = team'.grants]
    BY <1>1, <1>3 DEF Team
  <2> HIDE DEF added, dropped, reads, writes, rows
  <2>9. Regrants(c, a, added, dropped, reads, writes, rows)
    BY <2>4, <2>5, <2>6, <2>7, <2>8 DEF Regrants
  <2>10. Saves(c, reads, writes, rows)
    BY <2>3, <2>4, <2>6, <2>7, <2>8, <2>9 DEF Saves, LooksAll, added, dropped
  <2> QED
    BY <2>6, <2>7, <2>10
<1> QED
  BY <1>2, <1>3 DEF Save, SaveAdds, SaveDrops

LEMMA SaveEffect ==
  ASSUME TeamInv, NEW c \in Request, Save(c)
  PROVE  Threw(c) \/ Effect(c)
<1> DEFINE a == input[c].who
<1> SUFFICES ASSUME NEW reads \in SUBSET Item, NEW writes \in SUBSET Item,
                    NEW rows \in SUBSET Item, Saves(c, reads, writes, rows)
             PROVE  Effect(c)
  BY SaveCommits
<1>1. Running(c) /\ team \in Team /\ a \in Account
  BY KnownAsks DEF Save, TeamInv, InFlight, TypeOK, Now, Snapshot, Input
<1>2. Regrants(c, a, SaveAdds(c), SaveDrops(c), reads, writes, rows)
  BY DEF Saves
<1>3. /\ team'.grants \in [Account -> [Role -> Nat]] /\ SingleGrant'
      /\ \A b \in Account, r \in Role :
           /\ team'.grants[b][r] < team.grants[b][r] => b = a /\ r \in SaveDrops(c)
           /\ team'.grants[b][r] > team.grants[b][r] => b = a /\ r \in SaveAdds(c)
  BY <1>1, <1>2, RegrantKeeps
<1>4. team'.member = team.member /\ team'.invite = team.invite /\ team' \in Team
  BY <1>1, <1>3 DEF Saves, Team
<1>5. Committed(c, reads, writes, rows) /\ Explained(reads, writes, rows)
  BY <1>2 DEF Saves, Regrants, Explained
<1>6. ASSUME NEW b \in Account, IsOwner(b), ~IsOwner(b)'
      PROVE  /\ \A d \in Account : GrantItem(d, Owner) \in reads
             /\ GrantItem(b, Owner) \in writes
             /\ \E d \in Account \ {b} :
                  ViewOwner(c, d) /\ team'.grants[d] = team.grants[d]
  <2>1. team'.grants[b][Owner] < team.grants[b][Owner]
    <3>1. team.grants[b][Owner] \in Nat /\ team'.grants[b][Owner] \in Nat
      BY <1>1, <1>4, KnownRoles DEF Team
    <3>2. team.grants[b][Owner] > 0 /\ ~(team'.grants[b][Owner] > 0)
      BY <1>4, <1>6 DEF IsOwner
    <3> QED
      BY <3>1, <3>2
  <2>2. b = a /\ Owner \in SaveDrops(c)
    BY <1>3, <2>1, KnownRoles
  <2>3. PICK d \in Account \ {a} : ViewOwner(c, d)
    BY <2>2 DEF Saves, OtherOwner, ViewOwner, Held
  <2>4. team'.grants[d] = team.grants[d]
    BY <1>1, <1>2, <2>3 DEF Team, Regrants
  <2> QED
    BY <2>2, <2>3, <2>4 DEF Saves
<1>7. Tracked(c, reads, writes, rows)
  BY <1>3, <1>4, <1>6, KnownRoles DEF Tracked, Saves, LooksAll, Invitation
<1> QED
  BY <1>3, <1>4, <1>5, <1>7 DEF Effect

LEMMA ReadOnly ==
  ASSUME TeamInv, NEW c \in Request, NEW reads \in SUBSET Item,
         Committed(c, reads, {}, {}), UNCHANGED team
  PROVE  Effect(c)
<1>1. team' \in Team /\ SingleGrant'
  BY DEF TeamInv, TypeOK, Now, Snapshot, SingleGrant
<1>2. \A a \in Account, r \in Role : team.grants[a][r] \in Nat
  BY DEF TeamInv, TypeOK, Now, Snapshot, Team
<1>3. Tracked(c, reads, {}, {})
  BY <1>2 DEF Tracked, IsOwner, Invitation
<1>4. Explained(reads, {}, {})
  BY DEF Explained
<1> QED
  BY <1>1, <1>3, <1>4 DEF Effect

(* A commit that leaves members and grants as they are.                    *)
InvitationOnly(c, reads, writes, rows, i, to) ==
  /\ reads \in SUBSET Item /\ writes \in SUBSET Item /\ rows \in SUBSET Item
  /\ Committed(c, reads, writes, rows)
  /\ i \in Invitation /\ to \in Invite
  /\ \A a, r : GrantItem(a, r) \notin writes \cup rows
  /\ \A k \in Invitation : InvitationItem(k) \in rows => team.invite[k].status = "OPEN"
  /\ team' = [team EXCEPT !.invite[i] = to]

LEMMA InvitationOnlyEffect ==
  ASSUME TeamInv, NEW c \in Request, NEW reads, NEW writes, NEW rows,
         NEW i, NEW to, InvitationOnly(c, reads, writes, rows, i, to),
         LET was == team.invite[i]
         IN  \/ to = was
             \/ /\ i = c /\ was.status = "NONE" /\ to.status = "OPEN"
                /\ InboxItem(to.to) \in reads /\ InboxItem(to.to) \in writes
                /\ \A k \in Invitation : Life!Open(k) => team.invite[k].to # to.to
             \/ /\ was.status = "OPEN" /\ to.status \in Life!Answer
                /\ to.to = was.to /\ to.roles = was.roles
                /\ InvitationItem(i) \in rows
  PROVE  Effect(c)
<1>1. team \in Team
  BY DEF TeamInv, TypeOK, Now, Snapshot
<1>2. /\ team'.member = team.member /\ team'.grants = team.grants
      /\ team'.invite[i] = to /\ team' \in Team
      /\ \A k \in Invitation \ {i} : team'.invite[k] = team.invite[k]
  BY <1>1 DEF InvitationOnly, Team
<1>3. SingleGrant'
  BY <1>2 DEF TeamInv, SingleGrant
<1>4. \A a \in Account, r \in Role : team.grants[a][r] \in Nat
  BY <1>1 DEF Team
<1>5. Tracked(c, reads, writes, rows)
  <2>1. \A a \in Account : IsOwner(a) => IsOwner(a)'
    BY <1>2 DEF IsOwner
  <2> QED
    BY <1>2, <1>4, <2>1 DEF Tracked, InvitationOnly
<1>6. Explained(reads, writes, rows)
  BY DEF Explained, InvitationOnly
<1> QED
  BY <1>2, <1>3, <1>5, <1>6 DEF Effect, InvitationOnly

LEMMA SendEffect ==
  ASSUME TeamInv, NEW c \in Request, Send(c)
  PROVE  Threw(c) \/ Effect(c)
<1> DEFINE q == input[c]
           v == view[c]
           reads == Manager(q.by) \cup InboxOf({q.who})
           writes == InvitationOf({c}) \cup InboxOf({q.who})
           new == [status |-> "OPEN", to |-> q.who, roles |-> q.roles,
                   by |-> q.by]
           waiting(late) == {i \in Invitation :
             v.team.invite[i].to = q.who /\ IsOpen(v, i, late)}
<1>1. Running(c) /\ q \in Input /\ v \in Snapshot /\ team \in Team
  BY KnownAsks DEF Send, TeamInv, InFlight, TypeOK, Now, Snapshot
<1>2. q.by \in Account /\ q.who \in Account /\ new \in Invite /\ c \in Invitation
  BY <1>1 DEF Input, Invite, InviteStatus, Invitation
<1>3. /\ reads \in SUBSET Item /\ writes \in SUBSET Item
      /\ InboxItem(q.who) \in reads /\ InboxItem(q.who) \in writes
      /\ \A a, r : GrantItem(a, r) \notin writes
  <2>1. /\ {q.by} \in SUBSET Account /\ {q.who} \in SUBSET Account
        /\ Role \in SUBSET Role /\ {c} \in SUBSET Invitation
    BY <1>2
  <2>2. Manager(q.by) \in SUBSET Item
    BY <1>2, ManagerItems
  <2>3. /\ InboxOf({q.who}) \in SUBSET Item /\ InboxItem(q.who) \in InboxOf({q.who})
        /\ \A a, r : GrantItem(a, r) \notin InboxOf({q.who})
    BY <2>1, Items
  <2>4. /\ InvitationOf({c}) \in SUBSET Item
        /\ \A a, r : GrantItem(a, r) \notin InvitationOf({c})
    BY <2>1, Items
  <2> QED
    BY <2>2, <2>3, <2>4
<1>4. CASE SendError(v, q) # "none" /\ Throw(c, SendError(v, q))
  BY <1>4 DEF Threw, SendError, Error
<1>5. CASE Commit(c, "existing", reads, {}, {}) /\ UNCHANGED team
  <2> HIDE DEF reads
  <2> QED
    BY <1>3, <1>5, CommitCommits, ReadOnly DEF Success
<1>6. ASSUME NEW late \in Clock(c), waiting(late) = {},
             Commit(c, "created", reads, writes, {}),
             team' = [team EXCEPT !.invite[c] = new]
      PROVE  Effect(c)
  <2>1. Committed(c, reads, writes, {})
    BY <1>6, CommitCommits DEF Success
  <2>2. team.invite[c].status = "NONE"
    BY <1>1 DEF TeamInv, Unsent, Running
  <2>3. ASSUME NEW k \in Invitation, Life!Open(k), team.invite[k].to = q.who
        PROVE  FALSE
    <3>1. ~Raced(c, InboxItem(q.who))
      <4> HIDE DEF reads, writes, q
      <4> QED
        BY <1>3, <2>1, NotRaced
    <3>2. InvitationStands(c, k) /\ v.expired \subseteq expired
      BY <1>1 DEF TeamInv, InFlight, InvitationsStand
    <3>3. team.invite[k].status = "OPEN" /\ k \notin expired
      BY <2>3 DEF Life!Open
    <3>4. v.team.invite[k].status = "OPEN" /\ v.team.invite[k].to = q.who
      BY <2>3, <3>1, <3>2, <3>3 DEF InvitationStands, Life!Answer
    <3>5. k \notin late
      BY <1>6, <3>2, <3>3 DEF Clock
    <3> QED
      BY <1>6, <3>4, <3>5 DEF IsOpen
  <2>4. InvitationOnly(c, reads, writes, {}, c, new)
    BY <1>2, <1>3, <1>6, <2>1 DEF InvitationOnly
  <2>5. new.status = "OPEN" /\ new.to = q.who
    OBVIOUS
  <2> HIDE DEF q, new, reads, writes
  <2> QED
    BY <1>3, <2>2, <2>3, <2>4, <2>5, InvitationOnlyEffect
<1> QED
  BY <1>4, <1>5, <1>6 DEF Send

(* An invitation that was open in the snapshot and is answered by the      *)
(* commit was still open.                                                  *)
LEMMA StillOpen ==
  ASSUME TeamInv, NEW c \in Request, Running(c), NEW i \in Invitation,
         view[c].team.invite[i].status = "OPEN",
         NEW reads, NEW writes, NEW rows, Committed(c, reads, writes, rows),
         InvitationItem(i) \in rows
  PROVE  /\ team.invite[i].status = "OPEN"
         /\ team.invite[i].to = view[c].team.invite[i].to
<1>1. InvitationStands(c, i)
  BY DEF TeamInv, InFlight, InvitationsStand
<1>2. ~Changed(c, InvitationItem(i))
  BY NotChanged
<1> QED
  BY <1>1, <1>2 DEF InvitationStands

LEMMA CloseEffect ==
  ASSUME TeamInv, NEW c \in Request, Running(c), NEW late,
         input[c].kind \in {"accept", "decline", "revoke"},
         ResolveError(view[c], input[c], late) = "none",
         Close(c, input[c], view[c])
  PROVE  Effect(c)
<1> DEFINE q == input[c]
           v == view[c]
           i == q.on
           reads == ResolveReads(q)
           writes == Invited(q) \cup InboxOf({v.team.invite[i].to})
           rows == Invited(q)
<1>1. q \in Input /\ v \in Snapshot /\ team \in Team
  BY KnownAsks DEF TeamInv, InFlight, TypeOK, Now, Snapshot
<1>2. /\ q.by \in Account /\ i \in Invitation
      /\ v.team.invite[i] \in Invite /\ team.invite[i] \in Invite
  BY <1>1 DEF Input, Snapshot, Team
<1>3. /\ reads \in SUBSET Item /\ writes \in SUBSET Item /\ rows \in SUBSET Item
      /\ \A k : InvitationItem(k) \in rows <=> k = i
      /\ \A b, r : GrantItem(b, r) \notin writes \cup rows
  <2>1. /\ {q.by} \in SUBSET Account /\ {v.team.invite[i].to} \in SUBSET Account
        /\ {i} \in SUBSET Invitation /\ Role \in SUBSET Role
    BY <1>2 DEF Invite
  <2>2. Manager(q.by) \in SUBSET Item
    BY <1>2, ManagerItems
  <2>3. /\ rows \in SUBSET Item /\ \A k : InvitationItem(k) \in rows <=> k = i
        /\ \A b, r : GrantItem(b, r) \notin rows
    BY <2>1, Items DEF Invited
  <2>4. /\ InboxOf({v.team.invite[i].to}) \in SUBSET Item
        /\ \A b, r : GrantItem(b, r) \notin InboxOf({v.team.invite[i].to})
    BY <2>1, Items
  <2> QED
    BY <2>2, <2>3, <2>4 DEF ResolveReads
<1>4. CASE Commit(c, "attributed", reads, {}, {}) /\ UNCHANGED team
  <2> HIDE DEF reads
  <2> QED
    BY <1>3, <1>4, CommitCommits, ReadOnly DEF Success
<1>5. ASSUME NEW status \in {"REVOKED", "DECLINED"}, NEW result \in Success,
             q.kind \in {"decline", "revoke"},
             Commit(c, result, reads, writes, rows),
             team' = [team EXCEPT !.invite[i].status = status]
      PROVE  Effect(c)
  <2> DEFINE to == [team.invite[i] EXCEPT !.status = status]
  <2>1. Committed(c, reads, writes, rows)
    <3> HIDE DEF reads, writes, rows
    <3> QED
      BY <1>5, CommitCommits
  <2>2. v.team.invite[i].status = "OPEN"
    BY <1>5 DEF ResolveError, Attributed, IsOpen
  <2>3. team.invite[i].status = "OPEN"
    <3> HIDE DEF reads, writes, rows, i
    <3> QED
      BY <1>2, <1>3, <2>1, <2>2, StillOpen
  <2>4. /\ to \in Invite /\ to.status = status /\ to.to = team.invite[i].to
        /\ to.roles = team.invite[i].roles /\ to.status \in Life!Answer
    BY <1>2, <1>5 DEF Invite, InviteStatus, Life!Answer
  <2>5. team' = [team EXCEPT !.invite[i] = to]
    BY <1>5
  <2>6. InvitationOnly(c, reads, writes, rows, i, to)
    <3> HIDE DEF reads, writes, rows, i, to
    <3> QED
      BY <1>2, <1>3, <2>1, <2>3, <2>4, <2>5 DEF InvitationOnly
  <2> HIDE DEF reads, writes, rows, i, to
  <2> QED
    BY <1>3, <2>3, <2>4, <2>6, InvitationOnlyEffect
<1>6. CASE /\ q.kind \in {"decline", "revoke"}
           /\ LET status == IF q.kind = "revoke" THEN "REVOKED" ELSE "DECLINED"
                  result == IF q.kind = "revoke" THEN "revoked" ELSE "declined"
              IN  /\ Commit(c, result, reads, writes, rows)
                  /\ team' = [team EXCEPT !.invite[i].status = status]
  <2> HIDE DEF reads, writes, rows, i
  <2>1. CASE q.kind = "revoke"
    BY <1>5, <1>6, <2>1 DEF Success
  <2>2. CASE q.kind = "decline"
    BY <1>5, <1>6, <2>2 DEF Success
  <2> QED
    BY <1>6, <2>1, <2>2
<1> QED
  BY <1>4, <1>6 DEF Close

(* Who accepts answers an open invitation of their own; who is not a       *)
(* member becomes one, and holds what the invitation says and nothing else. *)
Joins(c) ==
  \E i \in Invitation, a \in Account :
    /\ Accepted(i) /\ team.invite[i].to = a
    /\ \A b \in Account \ {a} :
         /\ team'.member[b] = team.member[b]
         /\ team'.grants[b] = team.grants[b]
    /\ LogReads /\ team.member[a] # "ACTIVE" /\ team'.member[a] = "ACTIVE" =>
         \A r \in Role : team'.grants[a][r] > 0 <=> r \in team.invite[i].roles

LEMMA AcceptEffect ==
  ASSUME TeamInv, NEW c \in Request, Running(c), NEW late,
         ResolveError(view[c], input[c], late) = "none",
         Accept(c, input[c], view[c])
  PROVE  Effect(c) /\ Joins(c)
<1> DEFINE q == input[c]
           v == view[c]
           i == q.on
           a == q.by
           inv == v.team.invite[i]
           stale == Stale(v, a)
           added == inv.roles \ (Granted(v, a) \ stale)
           looked == IF Revives(v, a) THEN Role ELSE inv.roles
           joined == IF Revives(v, a) THEN MemberOf({a}) ELSE {}
           reads == Invited(q) \cup Manager(inv.by) \cup MemberOf({a})
                      \cup GrantOf({a}, looked)
           writes == Invited(q) \cup InboxOf({a}) \cup joined
                       \cup GrantOf({a}, added \cup stale)
           rows == Invited(q) \cup joined \cup GrantOf({a}, stale)
<1>1. q \in Input /\ v \in Snapshot /\ team \in Team
  BY KnownAsks DEF TeamInv, InFlight, TypeOK, Now, Snapshot
<1>2. /\ a \in Account /\ i \in Invitation
      /\ inv \in Invite /\ team.invite[i] \in Invite
  BY <1>1 DEF Input, Snapshot, Team
<1>3. /\ stale \in SUBSET Role /\ added \in SUBSET Role /\ looked \in SUBSET Role
      /\ added \subseteq looked /\ inv.by \in Account
      /\ (\A r \in added : r \in stale \/ v.team.grants[a][r] = 0)
      /\ (~Revives(v, a) => stale = {})
      /\ (Revives(v, a) => /\ looked = Role /\ added = inv.roles
                           /\ \A r \in Role :
                                r \in stale <=> v.team.grants[a][r] > 0)
  <2>1. v.team.grants[a] \in [Role -> Nat]
    BY <1>1, <1>2 DEF Snapshot, Team
  <2>2. inv.roles \in SUBSET Role /\ inv.by \in Account
    BY <1>2 DEF Invite
  <2>3. /\ stale \in SUBSET Role /\ added \in SUBSET Role
        /\ looked \in SUBSET Role /\ added \subseteq looked
    BY <2>2 DEF Stale, Granted
  <2>4. \A r \in added : r \in stale \/ v.team.grants[a][r] = 0
    BY <2>1, <2>2 DEF Granted
  <2>5. ~Revives(v, a) => stale = {}
    BY DEF Stale
  <2>6. ASSUME Revives(v, a)
        PROVE  /\ looked = Role /\ added = inv.roles
               /\ \A r \in Role : r \in stale <=> v.team.grants[a][r] > 0
    BY <2>6 DEF Stale, Granted
  <2> QED
    BY <2>2, <2>3, <2>4, <2>5, <2>6
<1>4. /\ Committed(c, reads, writes, rows)
      /\ team' = [team EXCEPT
           !.invite[i].status = "ACCEPTED",
           !.member[a] = IF Revives(v, a) THEN "ACTIVE" ELSE @,
           !.grants[a] = Regrant(v, a, added, stale)]
  <2>1. Accept(c, q, v)
    OBVIOUS
  <2> QED
    BY <2>1, CommitCommits DEF Accept, Success
<1>5. v.team.invite[i].status = "OPEN" /\ inv.to = a
  BY DEF ResolveError, MayResolve, Attributed, IsOpen, Accept
<1> HIDE DEF q, i, a, stale, added, looked
<1>6. /\ reads \in SUBSET Item /\ MemberItem(a) \in reads
      /\ \A r \in added \cup looked : GrantItem(a, r) \in reads
  <2>1. {a} \in SUBSET Account /\ {inv.by} \in SUBSET Account
        /\ {i} \in SUBSET Invitation /\ Role \in SUBSET Role
    BY <1>2, <1>3
  <2>2. Manager(inv.by) \in SUBSET Item
    BY <1>3, ManagerItems
  <2>3. Invited(q) \in SUBSET Item
    BY <2>1, Items DEF Invited, i
  <2>4. MemberOf({a}) \in SUBSET Item /\ MemberItem(a) \in MemberOf({a})
    BY <2>1, Items
  <2>5. /\ GrantOf({a}, looked) \in SUBSET Item
        /\ \A r \in looked : GrantItem(a, r) \in GrantOf({a}, looked)
    <3>1. looked \in SUBSET Role
      BY <1>3
    <3> QED
      BY <2>1, <3>1, Items
  <2>6. \A r \in added : GrantItem(a, r) \in GrantOf({a}, looked)
    BY <1>3, <2>5
  <2> QED
    BY <2>2, <2>3, <2>4, <2>5, <2>6
<1>7. /\ writes \in SUBSET Item /\ rows \in SUBSET Item
      /\ InvitationItem(i) \in rows
      /\ \A r \in added : GrantItem(a, r) \in writes
      /\ Revives(v, a) => MemberItem(a) \in writes
      /\ \A r \in stale : GrantItem(a, r) \in rows
      /\ Revives(v, a) => MemberItem(a) \in rows
      /\ \A b, r : GrantItem(b, r) \in writes => b = a /\ r \in added \cup stale
      /\ \A b, r : GrantItem(b, r) \in rows => b = a /\ r \in stale
      /\ \A r \in stale : GrantItem(a, r) \in writes
      /\ \A k : InvitationItem(k) \in rows => k = i
  <2>1. {a} \in SUBSET Account /\ {i} \in SUBSET Invitation
        /\ added \cup stale \in SUBSET Role
    BY <1>2, <1>3
  <2>2. /\ Invited(q) \in SUBSET Item
        /\ \A k : InvitationItem(k) \in Invited(q) <=> k = i
        /\ \A b, r : GrantItem(b, r) \notin Invited(q)
    BY <2>1, Items DEF Invited, i
  <2>3. /\ MemberOf({a}) \in SUBSET Item /\ MemberItem(a) \in MemberOf({a})
        /\ \A b, r : GrantItem(b, r) \notin MemberOf({a})
        /\ \A k : InvitationItem(k) \notin MemberOf({a})
    BY <2>1, Items, InvitationItems
  <2>4. /\ InboxOf({a}) \in SUBSET Item
        /\ \A b, r : GrantItem(b, r) \notin InboxOf({a})
    BY <2>1, Items
  <2>5. /\ GrantOf({a}, added \cup stale) \in SUBSET Item
        /\ \A b, r : GrantItem(b, r) \in GrantOf({a}, added \cup stale)
             <=> b \in {a} /\ r \in added \cup stale
    BY <2>1, Items
  <2>6. /\ GrantOf({a}, stale) \in SUBSET Item
        /\ \A b, r : GrantItem(b, r) \in GrantOf({a}, stale)
             <=> b \in {a} /\ r \in stale
        /\ \A k : InvitationItem(k) \notin GrantOf({a}, stale)
    BY <1>3, <2>1, Items, InvitationItems
  <2>7. /\ joined \in SUBSET Item /\ (Revives(v, a) => MemberItem(a) \in joined)
        /\ \A b, r : GrantItem(b, r) \notin joined
        /\ \A k : InvitationItem(k) \notin joined
    BY <2>3
  <2> HIDE DEF joined
  <2>8. /\ writes \in SUBSET Item
        /\ \A r \in added : GrantItem(a, r) \in writes
        /\ Revives(v, a) => MemberItem(a) \in writes
        /\ \A b, r : GrantItem(b, r) \in writes <=> b = a /\ r \in added \cup stale
    BY <2>2, <2>4, <2>5, <2>7
  <2>9. /\ rows \in SUBSET Item
        /\ \A k : InvitationItem(k) \in rows <=> k = i
        /\ Revives(v, a) => MemberItem(a) \in rows
        /\ \A b, r : GrantItem(b, r) \in rows <=> b = a /\ r \in stale
    BY <2>2, <2>6, <2>7
  <2> HIDE DEF writes, rows
  <2> QED
    BY <2>8, <2>9
<1> HIDE DEF joined, reads, writes, rows
<1>8. team.invite[i].status = "OPEN"
  BY <1>2, <1>4, <1>5, <1>7, StillOpen
<1>9. /\ team'.grants = [team.grants EXCEPT ![a] = Regrant(v, a, added, stale)]
      /\ team'.member = [team.member EXCEPT
           ![a] = IF Revives(v, a) THEN "ACTIVE" ELSE team.member[a]]
      /\ team'.invite = [team.invite EXCEPT
           ![i] = [team.invite[i] EXCEPT !.status = "ACCEPTED"]]
      /\ DOMAIN team' = {"member", "grants", "invite"}
  BY <1>1, <1>4 DEF Team
<1>10. /\ team'.grants \in [Account -> [Role -> Nat]] /\ SingleGrant'
       /\ \A b \in Account, r \in Role :
            /\ team'.grants[b][r] < team.grants[b][r] => b = a /\ r \in stale
            /\ team'.grants[b][r] > team.grants[b][r] => b = a /\ r \in added
  <2>1. Regrants(c, a, added, stale, reads, writes, rows)
    BY <1>3, <1>4, <1>6, <1>7, <1>9 DEF Regrants
  <2> QED
    BY <1>2, <2>1, RegrantKeeps
<1>11. /\ \A b \in Account :
            \/ team'.member[b] = team.member[b]
            \/ team'.member[b] = "ACTIVE" /\ b = a /\ Revives(v, a)
       /\ team'.member \in [Account -> Membership]
  <2>1. team.member \in [Account -> Membership]
    BY <1>1 DEF Team
  <2> QED
    BY <1>2, <1>9, <2>1 DEF Membership
<1>12. /\ \A k \in Invitation \ {i} : team'.invite[k] = team.invite[k]
       /\ team'.invite[i].status = "ACCEPTED"
       /\ team'.invite[i].to = team.invite[i].to
       /\ team'.invite[i].roles = team.invite[i].roles
       /\ team'.invite \in [Invitation -> Invite]
  <2>1. team.invite \in [Invitation -> Invite]
    BY <1>1 DEF Team
  <2>2. [team.invite[i] EXCEPT !.status = "ACCEPTED"] \in Invite
    BY <1>2 DEF Invite, InviteStatus
  <2> QED
    BY <1>2, <1>9, <2>1, <2>2 DEF Invite
<1>13. team' \in Team
  BY <1>1, <1>4, <1>9, <1>10, <1>11, <1>12 DEF Team
<1>14. ASSUME NEW b \in Account, IsOwner(b), ~IsOwner(b)'
       PROVE  FALSE
  <2>1. team'.member[b] = "ACTIVE"
    BY <1>11, <1>14 DEF IsOwner
  <2>2. team'.grants[b][Owner] < team.grants[b][Owner]
    <3>1. team.grants[b][Owner] \in Nat /\ team'.grants[b][Owner] \in Nat
      BY <1>1, <1>10, KnownRoles DEF Team
    <3>2. team.grants[b][Owner] > 0 /\ ~(team'.grants[b][Owner] > 0)
      BY <1>14, <2>1 DEF IsOwner
    <3> QED
      BY <3>1, <3>2
  <2>3. b = a /\ Revives(v, a)
    BY <1>3, <1>10, <2>2, KnownRoles
  <2>4. MembersStand(c) /\ ~Changed(c, MemberItem(a))
    BY <1>4, <1>7, <2>3, NotChanged DEF TeamInv, InFlight
  <2>5. team.member[a] = v.team.member[a]
    BY <1>2, <2>4 DEF MembersStand
  <2> QED
    BY <1>14, <2>3, <2>5 DEF IsOwner, Revives
<1>15. Tracked(c, reads, writes, rows)
  <2>1. \A b \in Account :
          \/ team'.member[b] = team.member[b]
          \/ team'.member[b] = "ACTIVE" /\ MemberItem(b) \in rows
    BY <1>7, <1>11
  <2>2. \A b \in Account, r \in Role :
          /\ team'.grants[b][r] < team.grants[b][r] => GrantItem(b, r) \in rows
          /\ team'.grants[b][r] > team.grants[b][r] =>
               GrantItem(b, r) \in reads /\ GrantItem(b, r) \in writes
          /\ GrantItem(b, r) \in writes => MemberItem(b) \in reads
    BY <1>6, <1>7, <1>10
  <2> QED
    BY <1>2, <1>7, <1>8, <1>12, <1>14, <2>1, <2>2 DEF Tracked, Life!Answer
<1>16. Joins(c)
  <2>1. InvitationStands(c, i) /\ team.invite[i].status = "OPEN"
    BY <1>2, <1>8 DEF TeamInv, InFlight, InvitationsStand
  <2>2. team.invite[i].to = a /\ team.invite[i].roles = inv.roles
    BY <1>5, <2>1 DEF InvitationStands
  <2>3. PICK k \in Invitation, d \in Account : k = i /\ d = a
    BY <1>2
  <2>4. ASSUME NEW b \in Account \ {a}
        PROVE  team'.member[b] = team.member[b] /\ team'.grants[b] = team.grants[b]
    BY <1>1, <1>9, <2>4 DEF Team
  <2>5. ASSUME LogReads, team.member[a] # "ACTIVE", team'.member[a] = "ACTIVE",
               NEW r \in Role
        PROVE  team'.grants[a][r] > 0 <=> r \in inv.roles
    <3>1. Revives(v, a)
      BY <1>1, <1>2, <1>9, <2>5 DEF Team
    <3>2. GrantItem(a, r) \in reads /\ MemberItem(a) \in writes
      BY <1>3, <1>6, <1>7, <3>1
    <3>3. ~Raced(c, GrantItem(a, r))
      <4>1. SUFFICES ASSUME NEW j \in 1 .. Len(log), since[c] < j,
                            GrantItem(a, r) \in log[j].writes
                     PROVE  FALSE
        BY DEF Raced
      <4>2. MemberItem(a) \in log[j].reads
        BY <1>2, <2>5, <4>1 DEF LogReads
      <4> DEFINE x == GrantItem(a, r)
                 y == MemberItem(a)
      <4>3. x \in reads /\ x \in log[j].writes /\ y \in writes /\ y \in log[j].reads
        BY <3>2, <4>1, <4>2
      <4>4. /\ reads \in SUBSET Item /\ writes \in SUBSET Item /\ rows \in SUBSET Item
            /\ Committed(c, reads, writes, rows) /\ j \in 1 .. Len(log) /\ since[c] < j
        BY <1>4, <1>6, <1>7, <4>1
      <4> HIDE DEF v, inv, x, y
      <4> QED
        BY <4>3, <4>4, NotOvertaken
    <3>4. r \in stale => ~Changed(c, GrantItem(a, r))
      BY <1>4, <1>7, NotChanged
    <3>5. GrantStands(c, a, r)
      BY <1>2 DEF TeamInv, InFlight, GrantsStand
    <3>6. team.grants[a][r] \in Nat /\ v.team.grants[a][r] \in Nat
      BY <1>1, <1>2 DEF Snapshot, Team
    <3>7. team.grants[a][r] = v.team.grants[a][r]
      BY <1>3, <3>1, <3>3, <3>4, <3>5, <3>6 DEF GrantStands
    <3>8. team'.grants[a][r] =
            (IF r \in stale THEN team.grants[a][r] - v.team.grants[a][r]
                            ELSE team.grants[a][r])
            + (IF r \in added THEN 1 ELSE 0)
      BY <1>1, <1>2, <1>9 DEF Team, Regrant
    <3>9. added = inv.roles /\ (r \in stale <=> v.team.grants[a][r] > 0)
      BY <1>3, <3>1
    <3> QED
      BY <3>6, <3>7, <3>8, <3>9
  <2>6. LogReads /\ team.member[a] # "ACTIVE" /\ team'.member[a] = "ACTIVE" =>
          \A r \in Role : team'.grants[a][r] > 0 <=> r \in team.invite[i].roles
    BY <2>2, <2>5
  <2>7. Accepted(k)
    BY <1>12, <2>1, <2>3 DEF Accepted
  <2> HIDE DEF inv, v
  <2> QED
    BY <2>2, <2>3, <2>4, <2>6, <2>7 DEF Joins
<1>17. Explained(reads, writes, rows)
  <2>1. team.invite[i].to = a /\ team.invite[i].roles = inv.roles
    <3>1. InvitationStands(c, i)
      BY <1>2 DEF TeamInv, InFlight, InvitationsStand
    <3> QED
      BY <1>5, <1>8, <3>1 DEF InvitationStands
  <2>2. \A r \in added : Gave(team', i, a, r)
    BY <1>12, <2>1 DEF Gave, added
  <2>3. stale # {} => LooksAll(reads, a)
    BY <1>3, <1>6 DEF LooksAll
  <2> HIDE DEF inv, v
  <2> QED
    BY <1>2, <1>7, <1>8, <2>2, <2>3 DEF Explained
<1> QED
  BY <1>4, <1>6, <1>7, <1>10, <1>13, <1>15, <1>16, <1>17 DEF Effect

LEMMA ResolveEffect ==
  ASSUME TeamInv, NEW c \in Request, Resolve(c)
  PROVE  Threw(c) \/ Effect(c)
<1>1. PICK late \in Clock(c) :
        \/ /\ ResolveError(view[c], input[c], late) # "none"
           /\ Throw(c, ResolveError(view[c], input[c], late))
        \/ /\ ResolveError(view[c], input[c], late) = "none"
           /\ \/ Close(c, input[c], view[c])
              \/ Accept(c, input[c], view[c])
              \/ /\ AcceptError(view[c], view[c].team.invite[input[c].on]) # "none"
                 /\ Throw(c, AcceptError(view[c], view[c].team.invite[input[c].on]))
  BY DEF Resolve
<1>2. ResolveError(view[c], input[c], late) \in Error \cup {"none"}
  BY DEF ResolveError, Error
<1>3. AcceptError(view[c], view[c].team.invite[input[c].on]) \in Error \cup {"none"}
  BY DEF AcceptError, Error
<1> QED
  BY <1>1, <1>2, <1>3, CloseEffect, AcceptEffect DEF Threw, Resolve


----------------------------------------------------------------------------
(* The invariant is kept.                                                  *)

LEMMA EffectKeeps ==
  ASSUME TeamInv, NEW c \in Request, Running(c), Effect(c)
  PROVE  TeamInv'
<1>1. PICK reads \in SUBSET Item, writes \in SUBSET Item, rows \in SUBSET Item :
        Committed(c, reads, writes, rows) /\ Tracked(c, reads, writes, rows)
  BY DEF Effect
<1> DEFINE entry == [since |-> since[c], reads |-> reads, writes |-> writes,
                     rows |-> rows]
<1>2. team' \in Team /\ SingleGrant'
  BY DEF Effect
<1>3. /\ log \in Seq(Entry) /\ entry \in Entry /\ since[c] <= Len(log)
      /\ log' \in {Append(log, entry), <<>>}
  BY <1>1 DEF TeamInv, TypeOK, Entry, InFlight, Committed, Kept
<1>4. TypeOK'
  <2>1. pc' \in [Request -> {"idle", "begin", "run", "mail", "done"}]
    BY <1>1 DEF TeamInv, TypeOK, Committed
  <2>2. view' \in [Request -> Snapshot \cup {None}]
    BY <1>1 DEF TeamInv, TypeOK, Committed
  <2>3. reply' \in [Request -> Reply]
    BY <1>1 DEF TeamInv, TypeOK, Committed
  <2>4. log' \in Seq(Entry)
    <3> HIDE DEF entry
    <3>1. Append(log, entry) \in Seq(Entry)
      BY <1>3
    <3>2. <<>> \in Seq(Entry)
      OBVIOUS
    <3> QED
      BY <1>3, <3>1, <3>2
  <2>5. Now' \in Snapshot
    BY <1>1, <1>2 DEF TeamInv, TypeOK, Committed, Now, Snapshot, outside
  <2> QED
    BY <1>1, <2>1, <2>2, <2>3, <2>4, <2>5 DEF TeamInv, TypeOK, Committed
<1>5. LogInv'
  <2> SUFFICES ASSUME NEW j \in 1 .. Len(log')
               PROVE  log'[j].since < j
    BY DEF LogInv
  <2>1. \A k \in 1 .. Len(log) : log[k].since < k
    BY DEF TeamInv, LogInv
  <2>2. since[c] \in Nat
    BY DEF TeamInv, TypeOK
  <2>3. CASE log' = Append(log, entry)
    BY <1>3, <2>1, <2>2, <2>3
  <2>4. CASE log' = <<>>
    BY <2>4
  <2> QED
    BY <1>3, <2>3, <2>4
<1>6. Unsent'
  <2> SUFFICES ASSUME NEW d \in Request, pc'[d] \in {"idle", "begin", "run"}
               PROVE  team'.invite[d].status = "NONE"
    BY DEF Unsent
  <2>1. d # c /\ pc'[d] = pc[d]
    BY <1>1 DEF Committed, TeamInv, TypeOK
  <2>2. team.invite[d].status = "NONE" /\ d \in Invitation
    BY <2>1 DEF TeamInv, Unsent, Invitation
  <2> QED
    BY <1>1, <2>1, <2>2 DEF Tracked
<1>7. OneOpenInvitation'
  <2> SUFFICES ASSUME NEW i \in Invitation, NEW j \in Invitation, i # j,
                      team'.invite[i].status = "OPEN",
                      team'.invite[j].status = "OPEN",
                      i \notin expired, j \notin expired,
                      team'.invite[i].to = team'.invite[j].to
               PROVE  FALSE
    BY <1>1 DEF OneOpenInvitation, Life!Open, Committed, outside
  <2>1. \A k \in {i, j} :
          \/ team'.invite[k] = team.invite[k]
          \/ /\ k = c
             /\ \A m \in Invitation :
                  Life!Open(m) => team.invite[m].to # team'.invite[k].to
    BY <1>1 DEF Tracked, Life!Answer
  <2>2. \A k \in {i, j} : team'.invite[k] = team.invite[k] => Life!Open(k)
    BY DEF Life!Open
  <2>3. Life!Open(i) /\ Life!Open(j) => team.invite[i].to # team.invite[j].to
    BY DEF TeamInv, OneOpenInvitation
  <2> QED
    BY <2>1, <2>2, <2>3
<1>8. ASSUME NEW d \in Request
      PROVE  InFlight(d)'
  <2>1. CASE d = c
    BY <1>1, <2>1 DEF Committed, InFlight, Running, TeamInv, TypeOK
  <2>2. CASE d # c
    BY <1>1, <1>2, <2>2, OthersStand
  <2> QED
    BY <2>1, <2>2
<1>9. Prepared'
  BY <1>1 DEF TeamInv, TypeOK, Prepared, Committed, Running
<1> QED
  BY <1>2, <1>4, <1>5, <1>6, <1>7, <1>8, <1>9 DEF TeamInv

(* Whoever runs on sees the same tables as before.                         *)
LEMMA Undisturbed ==
  ASSUME TeamInv, NEW d \in Request, UNCHANGED <<team, log>>,
         expired \subseteq expired',
         Running(d)' => /\ Running(d)
                        /\ view'[d] = view[d] /\ since'[d] = since[d]
                        /\ input'[d] = input[d]
  PROVE  InFlight(d)'
<1> SUFFICES ASSUME Running(d)'
             PROVE  /\ (view[d] \in Snapshot /\ input[d] \in Asks)'
                    /\ (since[d] <= Len(log))'
                    /\ (view[d].expired \subseteq expired)'
                    /\ MembersStand(d)' /\ GrantsStand(d)' /\ InvitationsStand(d)'
  BY DEF InFlight
<1>1. InFlight(d) /\ view'[d] = view[d] /\ since'[d] = since[d] /\ input'[d] = input[d]
  BY DEF TeamInv
<1>2. MembersStand(d)'
  BY <1>1 DEF InFlight, MembersStand, Changed, MemberItem
<1>3. GrantsStand(d)'
  BY <1>1 DEF InFlight, GrantsStand, GrantStands, Changed, Raced, GrantItem
<1>4. InvitationsStand(d)'
  BY <1>1 DEF InFlight, InvitationsStand, InvitationStands, Changed, Raced,
              InboxItem, InvitationItem
<1> QED
  BY <1>1, <1>2, <1>3, <1>4 DEF InFlight

(* An attempt that ends without a commit.                                  *)
LEMMA LeaveKeeps ==
  ASSUME TeamInv, NEW c \in Request, Running(c),
         NEW step \in {"begin", "done"}, NEW result \in Reply,
         step = "begin" => attempt[c] < Attempts,
         Leave(c, step, result), log' = Kept(c, log), UNCHANGED team
  PROVE  TeamInv'
<1>1. /\ pc' = [pc EXCEPT ![c] = step] /\ view' = [view EXCEPT ![c] = None]
      /\ reply' = [reply EXCEPT ![c] = result]
      /\ UNCHANGED <<input, attempt, since, active, roles, company, expired, mails>>
  BY DEF Leave, outside
<1>2. TypeOK'
  <2>1. Now' \in Snapshot
    BY <1>1 DEF TeamInv, TypeOK, Now, Snapshot
  <2>2. log' \in Seq(Entry)
    BY DEF TeamInv, TypeOK, Kept
  <2> QED
    BY <1>1, <2>1, <2>2 DEF TeamInv, TypeOK
<1>3. LogInv'
  BY DEF TeamInv, LogInv, Kept
<1>4. Unsent' /\ Prepared'
  BY <1>1 DEF TeamInv, TypeOK, Unsent, Prepared, Running
<1>5. SingleGrant' /\ OneOpenInvitation'
  BY <1>1 DEF TeamInv, SingleGrant, OneOpenInvitation, Life!Open
<1>6. ASSUME NEW d \in Request
      PROVE  InFlight(d)'
  <2>1. CASE Running(d)'
    <3>1. /\ d # c /\ Running(d) /\ view'[d] = view[d]
      BY <1>1, <2>1 DEF Running, TeamInv, TypeOK
    <3>2. log' = log
      BY <3>1 DEF Kept
    <3> QED
      BY <1>1, <3>1, <3>2, Undisturbed
  <2>2. CASE ~Running(d)'
    BY <2>2 DEF InFlight
  <2> QED
    BY <2>1, <2>2
<1> QED
  BY <1>2, <1>3, <1>4, <1>5, <1>6 DEF TeamInv

LEMMA InitKeeps ==
  ASSUME Init
  PROVE  TeamInv
<1>1. /\ team \in Team
      /\ \A a \in Account, r \in Role : team.grants[a][r] \in 0 .. 1
      /\ \A i \in Invitation :
           team.invite[i].status = IF i \in Existing THEN "OPEN" ELSE "NONE"
      /\ \A i, j \in Existing : team.invite[i].to = team.invite[j].to => i = j
  BY SoundTeams DEF Init
<1>2. TypeOK
  <2>1. Now \in Snapshot
    BY <1>1 DEF Init, Now, Snapshot
  <2>2. 0 \in 0 .. Attempts
    BY SomeAttempt
  <2>3. log \in Seq(Entry)
    BY DEF Init
  <2> QED
    BY <2>1, <2>2, <2>3 DEF Init, TypeOK, Reply
<1>3. LogInv
  BY DEF Init, LogInv
<1>4. Unsent /\ Prepared
  BY <1>1, DistinctInvitations, SomeAttempt DEF Init, Unsent, Prepared, Invitation
<1>5. SingleGrant
  BY <1>1 DEF SingleGrant
<1>6. OneOpenInvitation
  BY <1>1 DEF OneOpenInvitation, Life!Open
<1>7. \A c \in Request : InFlight(c)
  BY DEF Init, InFlight, Running
<1> QED
  BY <1>2, <1>3, <1>4, <1>5, <1>6, <1>7 DEF TeamInv

LEMMA AskKeeps ==
  ASSUME TeamInv, NEW c \in Request, Ask(c)
  PROVE  TeamInv'
<1>1. /\ pc[c] = "idle" /\ pc' = [pc EXCEPT ![c] = "begin"]
      /\ \E ask \in Asks : input' = [input EXCEPT ![c] = ask]
      /\ UNCHANGED <<attempt, view, since, reply, log, team, active, roles,
                     company, expired, mails>>
  BY DEF Ask, outside
<1>2. TypeOK'
  <2>1. Now' \in Snapshot
    BY <1>1 DEF TeamInv, TypeOK, Now, Snapshot
  <2> QED
    BY <1>1, <2>1 DEF TeamInv, TypeOK
<1>3. LogInv' /\ SingleGrant' /\ OneOpenInvitation'
  BY <1>1 DEF TeamInv, LogInv, SingleGrant, OneOpenInvitation, Life!Open
<1>4. Unsent' /\ Prepared'
  BY <1>1 DEF TeamInv, TypeOK, Unsent, Prepared
<1>5. ASSUME NEW d \in Request
      PROVE  InFlight(d)'
  <2>1. Running(d)' => Running(d) /\ input'[d] = input[d]
    BY <1>1 DEF Running, TeamInv, TypeOK
  <2> QED
    BY <1>1, <2>1, Undisturbed
<1> QED
  BY <1>2, <1>3, <1>4, <1>5 DEF TeamInv

LEMMA BeginKeeps ==
  ASSUME TeamInv, NEW c \in Request, Begin(c)
  PROVE  TeamInv'
<1>1. /\ pc[c] = "begin" /\ pc' = [pc EXCEPT ![c] = "run"]
      /\ attempt' = [attempt EXCEPT ![c] = @ + 1]
      /\ view' = [view EXCEPT ![c] = Now] /\ since' = [since EXCEPT ![c] = Len(log)]
      /\ UNCHANGED <<input, reply, log, team, active, roles, company, expired, mails>>
  BY DEF Begin, outside
<1>2. TypeOK'
  <2>1. Now \in Snapshot /\ Now' \in Snapshot
    BY <1>1 DEF TeamInv, TypeOK, Now, Snapshot
  <2>2. attempt' \in [Request -> 0 .. Attempts]
    <3>1. attempt[c] \in 0 .. Attempts /\ attempt[c] < Attempts
      BY <1>1 DEF TeamInv, TypeOK, Prepared
    <3>2. attempt[c] + 1 \in 0 .. Attempts
      BY <3>1, SomeAttempt
    <3> QED
      BY <1>1, <3>2 DEF TeamInv, TypeOK
  <2>3. since' \in [Request -> Nat]
    BY <1>1 DEF TeamInv, TypeOK
  <2> QED
    BY <1>1, <2>1, <2>2, <2>3 DEF TeamInv, TypeOK
<1>3. LogInv' /\ SingleGrant' /\ OneOpenInvitation'
  BY <1>1 DEF TeamInv, LogInv, SingleGrant, OneOpenInvitation, Life!Open
<1>4. Unsent' /\ Prepared'
  BY <1>1 DEF TeamInv, TypeOK, Unsent, Prepared
<1>5. InFlight(c)'
  <2>1. /\ view'[c] = Now /\ since'[c] = Len(log) /\ input[c] \in Asks
        /\ Now \in Snapshot /\ Now.team = team /\ Now.expired = expired
    BY <1>1 DEF TeamInv, TypeOK, Prepared, Now
  <2>2. MembersStand(c)'
    BY <1>1, <2>1 DEF MembersStand
  <2>3. GrantsStand(c)'
    <3>1. \A a \in Account, r \in Role :
            team.grants[a][r] \in Nat /\ team.grants[a][r] <= 1
      BY <2>1 DEF TeamInv, SingleGrant, Snapshot, Team
    <3> QED
      BY <1>1, <2>1, <3>1 DEF GrantsStand, GrantStands
  <2>4. InvitationsStand(c)'
    BY <1>1, <2>1 DEF InvitationsStand, InvitationStands
  <2>5. (since[c] <= Len(log))'
    <3>1. Len(log) \in Nat
      BY DEF TeamInv, TypeOK
    <3> QED
      BY <1>1, <2>1, <3>1
  <2> QED
    BY <1>1, <2>1, <2>2, <2>3, <2>4, <2>5 DEF InFlight
<1>6. ASSUME NEW d \in Request
      PROVE  InFlight(d)'
  <2>1. CASE d # c
    <3>1. /\ Running(d)' => Running(d)
          /\ view'[d] = view[d] /\ since'[d] = since[d]
      BY <1>1, <2>1 DEF Running, TeamInv, TypeOK
    <3> QED
      BY <1>1, <3>1, Undisturbed
  <2> QED
    BY <1>5, <2>1
<1> QED
  BY <1>2, <1>3, <1>4, <1>6 DEF TeamInv

LEMMA MailKeeps ==
  ASSUME TeamInv, NEW c \in Request, Mail(c)
  PROVE  TeamInv'
<1>1. /\ pc[c] = "mail" /\ pc' = [pc EXCEPT ![c] = "done"]
      /\ mails' \in {mails, [mails EXCEPT ![c] = @ + 1]}
      /\ UNCHANGED <<input, attempt, view, since, reply, log, team, active,
                     roles, company, expired>>
  BY DEF Mail, outside, local
<1>2. TypeOK'
  <2>1. Now' \in Snapshot
    BY <1>1 DEF TeamInv, TypeOK, Now, Snapshot
  <2>2. mails' \in [Request -> Nat]
    BY <1>1 DEF TeamInv, TypeOK
  <2> QED
    BY <1>1, <2>1, <2>2 DEF TeamInv, TypeOK
<1>3. LogInv' /\ SingleGrant' /\ OneOpenInvitation'
  BY <1>1 DEF TeamInv, LogInv, SingleGrant, OneOpenInvitation, Life!Open
<1>4. Unsent' /\ Prepared'
  BY <1>1 DEF TeamInv, TypeOK, Unsent, Prepared
<1>5. ASSUME NEW d \in Request
      PROVE  InFlight(d)'
  <2>1. Running(d)' => Running(d)
    BY <1>1 DEF Running, TeamInv, TypeOK
  <2> QED
    BY <1>1, <2>1, Undisturbed
<1> QED
  BY <1>2, <1>3, <1>4, <1>5 DEF TeamInv

LEMMA RemoveKeeps ==
  ASSUME TeamInv, NEW a \in Account, Remove(a),
         UNCHANGED <<pc, local, reply, mails>>
  PROVE  TeamInv'
<1> DEFINE entry == [since |-> Len(log), reads |-> {}, writes |-> {},
                     rows |-> MemberOf({a})]
<1>1. /\ team' = [team EXCEPT !.member[a] = "REMOVED"]
      /\ log' \in {log, Append(log, entry)}
      /\ (\E c \in Request : Running(c)) => log' = Append(log, entry)
      /\ UNCHANGED <<pc, input, attempt, view, since, reply, mails,
                     active, roles, company, expired>>
  BY DEF Remove, local, outside
<1>2. log \in Seq(Entry) /\ entry \in Entry /\ team \in Team
  <2>1. MemberOf({a}) \in SUBSET Item
    BY Items
  <2>2. log \in Seq(Entry) /\ Len(log) \in Nat /\ team \in Team
    BY DEF TeamInv, TypeOK, Now, Snapshot
  <2>3. entry \in Entry
    BY <2>1, <2>2 DEF Entry
  <2> QED
    BY <2>2, <2>3
<1>3. /\ team'.grants = team.grants /\ team'.invite = team.invite
      /\ \A b \in Account : b # a => team'.member[b] = team.member[b]
      /\ team' \in Team
  BY <1>1, <1>2 DEF Team, Membership
<1>4. TypeOK'
  <2>1. Now' \in Snapshot
    BY <1>1, <1>3 DEF TeamInv, TypeOK, Now, Snapshot
  <2>2. log' \in Seq(Entry)
    <3> HIDE DEF entry
    <3>1. Append(log, entry) \in Seq(Entry)
      BY <1>2
    <3> QED
      BY <1>1, <1>2, <3>1
  <2> QED
    BY <1>1, <2>1, <2>2 DEF TeamInv, TypeOK
<1>5. LogInv'
  <2> SUFFICES ASSUME NEW j \in 1 .. Len(log')
               PROVE  log'[j].since < j
    BY DEF LogInv
  <2>1. \A k \in 1 .. Len(log) : log[k].since < k
    BY DEF TeamInv, LogInv
  <2>2. CASE log' = Append(log, entry)
    BY <1>2, <2>1, <2>2
  <2> QED
    BY <1>1, <2>1, <2>2
<1>6. SingleGrant' /\ OneOpenInvitation' /\ Unsent' /\ Prepared'
  BY <1>1, <1>3 DEF TeamInv, SingleGrant, OneOpenInvitation, Life!Open, Unsent,
                    Prepared
<1>7. ASSUME NEW d \in Request, Running(d)'
      PROVE  InFlight(d)'
  <2>1. Running(d) /\ log' = Append(log, entry)
    BY <1>1, <1>7 DEF Running
  <2>2. /\ Len(log') = Len(log) + 1 /\ log'[Len(log) + 1] = entry
        /\ \A j \in 1 .. Len(log) : log'[j] = log[j] /\ j \in 1 .. Len(log')
        /\ Len(log) \in Nat /\ since[d] \in Nat /\ since[d] <= Len(log)
    BY <1>2, <2>1 DEF TeamInv, TypeOK, InFlight
  <2>3. InFlight(d)
    BY DEF TeamInv
  <2>4. \A x : Changed(d, x) \/ x = MemberItem(a) =>
          \E j \in 1 .. Len(log') : since'[d] < j /\ x \in log'[j].rows
    <3>1. MemberItem(a) \in entry.rows
      BY Items
    <3> HIDE DEF entry
    <3> QED
      BY <1>1, <2>2, <3>1 DEF Changed
  <2>5. \A x : Raced(d, x) =>
          \E j \in 1 .. Len(log') :
            since'[d] < j /\ x \in log'[j].reads /\ x \in log'[j].writes
    BY <1>1, <2>2 DEF Raced
  <2>6. MembersStand(d)'
    BY <1>1, <1>3, <2>1, <2>3, <2>4 DEF InFlight, MembersStand, Changed, MemberItem
  <2>7. GrantsStand(d)'
    BY <1>1, <1>3, <2>1, <2>3, <2>4, <2>5
       DEF InFlight, GrantsStand, GrantStands, Changed, Raced, GrantItem
  <2>8. InvitationsStand(d)'
    BY <1>1, <1>3, <2>1, <2>3, <2>4, <2>5
       DEF InFlight, InvitationsStand, InvitationStands, Changed, Raced,
           InboxItem, InvitationItem
  <2>9. (since[d] <= Len(log))'
    BY <1>1, <2>2
  <2> QED
    BY <1>1, <2>1, <2>3, <2>6, <2>7, <2>8, <2>9 DEF InFlight
<1>8. \A d \in Request : InFlight(d)'
  BY <1>7 DEF InFlight
<1> QED
  BY <1>3, <1>4, <1>5, <1>6, <1>8 DEF TeamInv

LEMMA OutsideKeeps ==
  ASSUME TeamInv, UNCHANGED <<pc, local, reply, mails, team, log>>,
         active' \in SUBSET Account, roles' \in SUBSET Role,
         company' \in BOOLEAN, expired' \in SUBSET Invitation,
         expired \subseteq expired'
  PROVE  TeamInv'
<1>1. UNCHANGED <<pc, input, attempt, view, since, reply, mails, team, log>>
  BY DEF local
<1>2. TypeOK'
  <2>1. Now' \in Snapshot
    BY <1>1 DEF TeamInv, TypeOK, Now, Snapshot
  <2> QED
    BY <1>1, <2>1 DEF TeamInv, TypeOK
<1>3. LogInv' /\ SingleGrant' /\ OneOpenInvitation' /\ Unsent' /\ Prepared'
  BY <1>1 DEF TeamInv, LogInv, SingleGrant, OneOpenInvitation, Life!Open,
              Unsent, Prepared
<1>4. ASSUME NEW d \in Request
      PROVE  InFlight(d)'
  BY <1>1, Undisturbed DEF Running
<1> QED
  BY <1>1, <1>2, <1>3, <1>4 DEF TeamInv

LEMMA OperateKeeps ==
  ASSUME TeamInv, Operate
  PROVE  TeamInv'
<1>1. UNCHANGED <<pc, local, reply, mails>>
  BY DEF Operate
<1>2. /\ active \in SUBSET Account /\ roles \in SUBSET Role
      /\ company \in BOOLEAN /\ expired \in SUBSET Invitation
  BY DEF TeamInv, TypeOK, Now, Snapshot
<1>3. ASSUME NEW i \in Invitation, Expire(i)
      PROVE  TeamInv'
  BY <1>1, <1>2, <1>3, OutsideKeeps DEF Expire
<1>4. ASSUME NEW a \in Account, Suspend(a)
      PROVE  TeamInv'
  BY <1>1, <1>2, <1>4, OutsideKeeps DEF Suspend
<1>5. ASSUME NEW r \in Role, Retire(r)
      PROVE  TeamInv'
  BY <1>1, <1>2, <1>5, OutsideKeeps DEF Retire
<1>6. ASSUME SuspendCompany
      PROVE  TeamInv'
  BY <1>1, <1>2, <1>6, OutsideKeeps DEF SuspendCompany
<1> QED
  BY <1>1, <1>3, <1>4, <1>5, <1>6, RemoveKeeps DEF Operate

LEMMA StutterKeeps ==
  ASSUME TeamInv, UNCHANGED vars
  PROVE  TeamInv'
<1>1. UNCHANGED <<pc, local, reply, mails, team, log, active, roles, company,
                  expired>>
  BY DEF vars, outside
<1>2. /\ active \in SUBSET Account /\ roles \in SUBSET Role
      /\ company \in BOOLEAN /\ expired \in SUBSET Invitation
  BY DEF TeamInv, TypeOK, Now, Snapshot
<1> QED
  BY <1>1, <1>2, OutsideKeeps

(* What every step of a request is.                                        *)
LEMMA ServeSteps ==
  ASSUME TeamInv, NEW c \in Request, Serve(c)
  PROVE  \/ Begin(c) \/ Mail(c)
         \/ /\ Running(c)
            /\ \/ Effect(c)
               \/ \E step \in {"begin", "done"}, result \in Reply :
                    /\ Leave(c, step, result) /\ log' = Kept(c, log)
                    /\ UNCHANGED team
                    /\ step = "begin" => attempt[c] < Attempts
<1>1. CASE Refused(c)
  BY <1>1 DEF Refused, Reply
<1>2. Threw(c) => \E result \in Reply :
        /\ Leave(c, "done", result) /\ log' = Kept(c, log) /\ UNCHANGED team
  BY DEF Threw, Throw, Reply
<1>3. CASE Fail(c)
  BY <1>2, <1>3 DEF Fail, Threw
<1>4. CASE Save(c)
  BY <1>2, <1>4, SaveEffect DEF Save
<1>5. CASE Send(c)
  BY <1>2, <1>5, SendEffect DEF Send
<1>6. CASE Resolve(c)
  BY <1>2, <1>6, ResolveEffect DEF Resolve
<1> QED
  BY <1>1, <1>3, <1>4, <1>5, <1>6 DEF Serve

LEMMA TeamStep ==
  ASSUME TeamInv, [Next]_vars
  PROVE  TeamInv'
<1>1. ASSUME NEW c \in Request, Serve(c)
      PROVE  TeamInv'
  BY <1>1, ServeSteps, BeginKeeps, MailKeeps, EffectKeeps, LeaveKeeps
<1>2. ASSUME NEW c \in Request, Ask(c)
      PROVE  TeamInv'
  BY <1>2, AskKeeps
<1>3. CASE Operate
  BY <1>3, OperateKeeps
<1>4. CASE Stop \/ UNCHANGED vars
  BY <1>4, StutterKeeps DEF Stop
<1> QED
  BY <1>1, <1>2, <1>3, <1>4 DEF Next

(* The inductive invariant: what open transactions know of the tables, and *)
(* what the tables never show.                                             *)
THEOREM TeamInvariant == Spec => []TeamInv
<1>1. Init => TeamInv
  BY InitKeeps
<1>2. TeamInv /\ [Next]_vars => TeamInv'
  BY TeamStep
<1> QED
  BY <1>1, <1>2, PTL DEF Spec

(* Attempts are counted and bounded, and every table keeps its type.       *)
THEOREM TypesHold == Spec => []TypeOK
<1>1. TeamInv => TypeOK
  BY DEF TeamInv
<1> QED
  BY <1>1, TeamInvariant, PTL

(* No member holds two unrevoked rows of a role, though no index forbids   *)
(* it, for any number of members, roles, requests and retries.             *)
THEOREM GrantsAreSingle == Spec => []SingleGrant
<1>1. TeamInv => SingleGrant
  BY DEF TeamInv
<1> QED
  BY <1>1, TeamInvariant, PTL

----------------------------------------------------------------------------
(* The invitations' life cycle is implemented.                             *)

LEMMA EffectLives ==
  ASSUME TeamInv, NEW c \in Request, Effect(c)
  PROVE  [Life!Next]_(Life!vars)
<1> DEFINE status == [i \in Invitation |-> team.invite[i].status]
           address == [i \in Invitation |-> team.invite[i].to]
           status2 == [i \in Invitation |-> team'.invite[i].status]
           address2 == [i \in Invitation |-> team'.invite[i].to]
<1>1. PICK reads \in SUBSET Item, writes \in SUBSET Item, rows \in SUBSET Item :
        Committed(c, reads, writes, rows) /\ Tracked(c, reads, writes, rows)
  BY DEF Effect
<1>2. expired' = expired
  BY <1>1 DEF Committed, outside
<1>3. PICK i \in Invitation : \A k \in Invitation \ {i} :
        team'.invite[k] = team.invite[k]
  BY <1>1 DEF Tracked
<1>4. CASE team'.invite[i] = team.invite[i]
  BY <1>2, <1>3, <1>4 DEF Life!vars
<1>5. CASE /\ team.invite[i].status = "NONE" /\ team'.invite[i].status = "OPEN"
           /\ \A k \in Invitation :
                Life!Open(k) => team.invite[k].to # team'.invite[i].to
  <2>1. PICK a \in Account : team'.invite[i].to = a
    BY DEF Effect, Team, Invite
  <2>2. status2 = [status EXCEPT ![i] = "OPEN"] /\ address2 = [address EXCEPT ![i] = a]
    BY <1>3, <1>5, <2>1
  <2>3. Life!Send(i, a)
    BY <1>2, <1>5, <2>1, <2>2 DEF Life!Send
  <2> QED
    BY <2>3 DEF Life!Next
<1>6. CASE /\ team.invite[i].status = "OPEN"
           /\ team'.invite[i].status \in Life!Answer
           /\ team'.invite[i].to = team.invite[i].to
  <2>1. PICK answer \in Life!Answer : team'.invite[i].status = answer
    BY <1>6
  <2>2. status2 = [status EXCEPT ![i] = answer] /\ address2 = address
    BY <1>3, <1>6, <2>1
  <2>3. Life!Resolve(i, answer)
    BY <1>2, <1>6, <2>2 DEF Life!Resolve
  <2> QED
    BY <2>3 DEF Life!Next
<1> QED
  BY <1>1, <1>4, <1>5, <1>6 DEF Tracked

LEMMA LifeStep ==
  ASSUME TeamInv, [Next]_vars
  PROVE  [Life!Next]_(Life!vars)
<1>1. ASSUME UNCHANGED <<team, expired>>
      PROVE  UNCHANGED Life!vars
  BY <1>1 DEF Life!vars
<1>2. ASSUME NEW c \in Request, Serve(c)
      PROVE  [Life!Next]_(Life!vars)
  BY <1>1, <1>2, ServeSteps, EffectLives DEF Begin, Mail, Leave, outside
<1>3. ASSUME NEW c \in Request, Ask(c)
      PROVE  UNCHANGED <<team, expired>>
  BY <1>3 DEF Ask, outside
<1>4. ASSUME NEW i \in Invitation, Expire(i)
      PROVE  Life!Next
  <2>1. expired' = expired \cup {i} /\ team' = team
    BY <1>4 DEF Expire
  <2>2. Life!Expire(i)
    BY <2>1 DEF Life!Expire
  <2> QED
    BY <2>2 DEF Life!Next
<1>5. ASSUME NEW a \in Account, Remove(a)
      PROVE  UNCHANGED Life!vars
  <2>1. team'.invite = team.invite /\ expired' = expired
    BY <1>5 DEF Remove, outside, TeamInv, TypeOK, Now, Snapshot, Team
  <2> QED
    BY <2>1 DEF Life!vars
<1>6. CASE Operate
  BY <1>1, <1>4, <1>5, <1>6 DEF Operate, Suspend, Retire, SuspendCompany
<1>7. CASE Stop \/ UNCHANGED vars
  BY <1>1, <1>7 DEF Stop, vars, outside
<1> QED
  BY <1>1, <1>2, <1>3, <1>6, <1>7 DEF Next

LEMMA LifeInit ==
  ASSUME Init
  PROVE  Life!Init
<1>1. TeamInv
  BY InitKeeps
<1>2. /\ team \in Team
      /\ \A i \in Invitation :
           team.invite[i].status = IF i \in Existing THEN "OPEN" ELSE "NONE"
  BY SoundTeams DEF Init
<1>3. [i \in Invitation |-> team.invite[i].status] \in [Invitation -> {"NONE", "OPEN"}]
  BY <1>2
<1>4. [i \in Invitation |-> team.invite[i].to] \in [Invitation -> Account]
  BY <1>2 DEF Team, Invite
<1> QED
  BY <1>1, <1>3, <1>4 DEF Init, TeamInv, OneOpenInvitation, Life!Init, Life!Open

(* An address has at most one invitation that can be answered, and every   *)
(* invitation is answered at most once, whatever overlaps or is retried.   *)
THEOREM TeamImplementsInvitationLife == Spec => ImplementsInvitationLife
<1>1. Init => Life!Init
  BY LifeInit
<1>2. TeamInv /\ [Next]_vars => [Life!Next]_(Life!vars)
  BY LifeStep
<1> QED
  BY <1>1, <1>2, TeamInvariant, PTL DEF Spec, ImplementsInvitationLife, Life!Spec

----------------------------------------------------------------------------
(* The company keeps an owner.                                             *)

(* The last owner who loses ownership in a commit leaves one who has it:   *)
(* whoever took it from that one meanwhile had counted the first.          *)
LEMMA EffectKeepsOwner ==
  ASSUME TeamInv, OwnerInv, NEW c \in Request, Running(c), Effect(c)
  PROVE  OwnerInv'
<1>1. PICK reads \in SUBSET Item, writes \in SUBSET Item, rows \in SUBSET Item :
        Committed(c, reads, writes, rows) /\ Tracked(c, reads, writes, rows)
  BY DEF Effect
<1> DEFINE entry == [since |-> since[c], reads |-> reads, writes |-> writes,
                     rows |-> rows]
<1>2. /\ entry \in Entry /\ log \in Seq(Entry)
      /\ SerialOrder(Append(log, entry))
  BY <1>1 DEF TeamInv, TypeOK, Entry, Committed, MayCommit
<1>3. (active = Account)'
  BY <1>1 DEF OwnerInv, Committed, outside
<1>4. PICK a \in Account : IsOwner(a)
  BY DEF OwnerInv
<1>5. ASSUME ~IsOwner(a)'
      PROVE  \E b \in Account : IsOwner(b)'
  <2>1. /\ \A b \in Account : GrantItem(b, Owner) \in reads
        /\ GrantItem(a, Owner) \in writes
    BY <1>1, <1>4, <1>5 DEF Tracked
  <2>2. PICK b \in Account : ViewOwner(c, b) /\ team'.grants[b] = team.grants[b]
    BY <1>1, <1>4, <1>5 DEF Tracked
  <2>3. ~Demoted(c, b)
    <3> SUFFICES ASSUME NEW j \in 1 .. Len(log), since[c] < j,
                        \A d \in Account : GrantItem(d, Owner) \in log[j].reads,
                        GrantItem(b, Owner) \in log[j].writes
                 PROVE  FALSE
      BY DEF Demoted
    <3>1. /\ entry.since < j /\ log[j].since < j
          /\ GrantItem(b, Owner) \in entry.reads
          /\ GrantItem(a, Owner) \in log[j].reads
          /\ GrantItem(a, Owner) \in entry.writes
      BY <2>1 DEF TeamInv, LogInv
    <3> HIDE DEF entry
    <3> QED
      BY <1>2, <3>1, NoCycle DEF Entry, Transaction
  <2>4. IsOwner(b)
    BY <2>2, <2>3 DEF OwnerInv, OwnersStand
  <2>5. team'.member[b] = "ACTIVE"
    BY <1>1, <2>4 DEF Tracked, IsOwner
  <2> QED
    BY <2>2, <2>4, <2>5 DEF IsOwner
<1>6. ASSUME NEW d \in Request, Running(d)'
      PROVE  OwnersStand(d)'
  <2>1. d # c /\ Running(d) /\ view'[d] = view[d] /\ since'[d] = since[d]
    BY <1>1, <1>6 DEF Committed, Running, TeamInv, TypeOK
  <2>2. log' = Append(log, entry)
    BY <1>1, <2>1 DEF Committed, Kept
  <2>3. since[d] \in Nat /\ since[d] <= Len(log)
    BY <2>1 DEF TeamInv, TypeOK, InFlight
  <2>4. /\ Len(log') = Len(log) + 1 /\ log'[Len(log) + 1] = entry
        /\ \A j \in 1 .. Len(log) : log'[j] = log[j] /\ j \in 1 .. Len(log')
    BY <1>2, <2>2
  <2> SUFFICES ASSUME NEW b \in Account, ViewOwner(d, b)', ~IsOwner(b)'
               PROVE  Demoted(d, b)'
    BY DEF OwnersStand
  <2>5. IsOwner(b) \/ Demoted(d, b)
    BY <2>1 DEF OwnerInv, OwnersStand, ViewOwner
  <2>6. CASE Demoted(d, b)
    BY <2>1, <2>4, <2>6 DEF Demoted, GrantItem
  <2>7. CASE IsOwner(b)
    <3>1. /\ \A x \in Account : GrantItem(x, Owner) \in entry.reads
          /\ GrantItem(b, Owner) \in entry.writes
      BY <1>1, <2>7 DEF Tracked
    <3>2. since'[d] < Len(log) + 1 /\ Len(log) + 1 \in 1 .. Len(log')
      BY <1>2, <2>1, <2>3, <2>4
    <3> HIDE DEF entry
    <3> QED
      BY <2>4, <3>1, <3>2 DEF Demoted, GrantItem
  <2> QED
    BY <2>5, <2>6, <2>7
<1> QED
  BY <1>3, <1>4, <1>5, <1>6 DEF OwnerInv

LEMMA QuietKeepsOwner ==
  ASSUME OwnerInv, UNCHANGED <<team, active>>,
         \A d \in Request : Running(d)' =>
           /\ Running(d) /\ view'[d] = view[d] /\ since'[d] = since[d]
           /\ log' = log
  PROVE  OwnerInv'
<1>1. ASSUME NEW d \in Request, Running(d)'
      PROVE  OwnersStand(d)'
  <2>1. /\ Running(d) /\ view'[d] = view[d] /\ since'[d] = since[d] /\ log' = log
        /\ team' = team
    BY <1>1
  <2>2. OwnersStand(d)
    BY <2>1 DEF OwnerInv
  <2> QED
    BY <2>1, <2>2 DEF OwnersStand, ViewOwner, IsOwner, Demoted, GrantItem
<1>2. (\E a \in Account : IsOwner(a))'
  BY DEF OwnerInv, IsOwner
<1> QED
  BY <1>1, <1>2 DEF OwnerInv

(* What a request's step does to the members and their roles.             *)
AccessStays == team'.member = team.member /\ team'.grants = team.grants

SavesRoles(c) ==
  /\ Running(c) /\ ~Running(c)' /\ input[c].kind = "save"
  /\ team'.member = team.member
  /\ \A b \in Account \ {input[c].who} : team'.grants[b] = team.grants[b]

LEMMA ServeCauses ==
  ASSUME TeamInv, NEW c \in Request, Serve(c)
  PROVE  AccessStays \/ SavesRoles(c) \/ Joins(c)
<1>1. team \in Team
  BY DEF TeamInv, TypeOK, Now, Snapshot
<1>2. CASE UNCHANGED team
  BY <1>2 DEF AccessStays
<1>3. CASE Begin(c) \/ Mail(c) \/ Refused(c) \/ Fail(c)
  BY <1>2, <1>3 DEF Begin, Mail, Refused, Fail, Throw
<1>4. CASE Save(c)
  <2>1. CASE Throw(c, SaveError(view[c], input[c]))
    BY <1>2, <2>1 DEF Throw
  <2>2. ASSUME NEW reads, NEW writes, NEW rows, NEW held,
               Commit(c, "saved", reads, writes, rows),
               team' = [team EXCEPT !.grants[input[c].who] = held]
        PROVE  SavesRoles(c)
    <3>1. Running(c) /\ input[c].kind = "save" /\ pc'[c] = "done"
      BY <1>4, <2>2 DEF Save, Commit, Leave, TeamInv, TypeOK
    <3> QED
      BY <1>1, <2>2, <3>1 DEF SavesRoles, Running, Team
  <2> QED
    BY <1>4, <2>1, <2>2 DEF Save
<1>5. CASE Send(c)
  <2>1. ASSUME NEW i, NEW to, team' = [team EXCEPT !.invite[i] = to]
        PROVE  AccessStays
    BY <1>1, <2>1 DEF AccessStays, Team
  <2> QED
    BY <1>2, <1>5, <2>1 DEF Send, Throw
<1>6. CASE Resolve(c)
  <2>1. PICK late \in Clock(c) :
          \/ Throw(c, ResolveError(view[c], input[c], late))
          \/ /\ ResolveError(view[c], input[c], late) = "none"
             /\ \/ Close(c, input[c], view[c])
                \/ Accept(c, input[c], view[c])
                \/ Throw(c, AcceptError(view[c], view[c].team.invite[input[c].on]))
    BY <1>6 DEF Resolve
  <2>2. Running(c)
    BY <1>6 DEF Resolve
  <2>3. CASE Close(c, input[c], view[c])
    <3>1. ASSUME NEW i, NEW status, team' = [team EXCEPT !.invite[i].status = status]
          PROVE  AccessStays
      BY <1>1, <3>1 DEF AccessStays, Team
    <3> QED
      BY <1>2, <2>3, <3>1 DEF Close
  <2> QED
    BY <1>2, <2>1, <2>2, <2>3, AcceptEffect DEF Throw
<1> QED
  BY <1>3, <1>4, <1>5, <1>6 DEF Serve

(* Where nobody has been taken away, nobody had been: an accepted          *)
(* invitation stays accepted, and no other step brings a member back.      *)
LEMMA NobodyWasTaken ==
  ASSUME TeamInv, [Next]_vars, NobodyTaken'
  PROVE  NobodyTaken
<1> SUFFICES ASSUME Outside \cap {"member", "account"} # {}
             PROVE  /\ active = Account
                    /\ \A a \in Account : team.member[a] # "REMOVED"
                    /\ \A i \in Invitation : team.invite[i].status # "ACCEPTED"
  BY DEF NobodyTaken
<1>1. /\ active' = Account
      /\ \A a \in Account : team'.member[a] # "REMOVED"
      /\ \A i \in Invitation : team'.invite[i].status # "ACCEPTED"
  BY DEF NobodyTaken
<1>2. CASE team' = team /\ active' = active
  BY <1>1, <1>2
<1>3. ASSUME NEW c \in Request, Serve(c)
      PROVE  /\ active' = active
             /\ \A a \in Account : team'.member[a] = team.member[a]
             /\ \A i \in Invitation :
                  team.invite[i].status = "ACCEPTED" =>
                    team'.invite[i].status = "ACCEPTED"
  <2>1. ~Joins(c)
    BY <1>1 DEF Joins, Accepted
  <2>2. \A a \in Account : team'.member[a] = team.member[a]
    BY <1>3, <2>1, ServeCauses DEF AccessStays, SavesRoles
  <2>3. CASE Effect(c)
    <3>1. PICK reads \in SUBSET Item, writes \in SUBSET Item, rows \in SUBSET Item :
            Committed(c, reads, writes, rows) /\ Tracked(c, reads, writes, rows)
      BY <2>3 DEF Effect
    <3> QED
      BY <2>2, <3>1 DEF Committed, Tracked, outside
  <2>4. CASE UNCHANGED team
    BY <1>3, <2>2, <2>3, <2>4, ServeSteps DEF Begin, Mail, Leave, outside
  <2> QED
    BY <1>3, <2>3, <2>4, ServeSteps DEF Begin, Mail
<1>4. CASE Operate
  <2>1. ASSUME NEW a \in Account, Remove(a)
        PROVE  FALSE
    <3>1. team'.member[a] = "REMOVED"
      BY <2>1 DEF Remove, TeamInv, TypeOK, Now, Snapshot, Team
    <3> QED
      BY <1>1, <3>1
  <2>2. ASSUME NEW a \in Account, Suspend(a)
        PROVE  FALSE
    BY <1>1, <2>2 DEF Suspend
  <2> QED
    BY <1>2, <1>4, <2>1, <2>2 DEF Operate, Expire, Retire, SuspendCompany
<1>5. ASSUME NEW c \in Request, Ask(c)
      PROVE  team' = team /\ active' = active
  BY <1>5 DEF Ask, outside
<1>6. CASE Stop \/ UNCHANGED vars
  BY <1>2, <1>6 DEF Stop, vars, outside
<1> QED
  BY <1>1, <1>2, <1>3, <1>4, <1>5, <1>6 DEF Next

LEMMA OwnerStep ==
  ASSUME TeamInv, OwnerInv, [Next]_vars, NobodyTaken'
  PROVE  OwnerInv'
<1>1. ASSUME NEW c \in Request, Begin(c)
      PROVE  OwnerInv'
  <2>1. /\ pc' = [pc EXCEPT ![c] = "run"]
        /\ view' = [view EXCEPT ![c] = Now] /\ since' = [since EXCEPT ![c] = Len(log)]
        /\ UNCHANGED <<team, active, log>>
    BY <1>1 DEF Begin, outside
  <2>2. ASSUME NEW d \in Request, Running(d)'
        PROVE  OwnersStand(d)'
    <3>1. CASE d = c
      <4>1. view'[d] = Now /\ Now.team = team
        BY <2>1, <3>1 DEF TeamInv, TypeOK, Now
      <4> QED
        BY <2>1, <4>1 DEF OwnersStand, ViewOwner, IsOwner
    <3>2. CASE d # c
      <4>1. Running(d) /\ view'[d] = view[d] /\ since'[d] = since[d]
        BY <2>1, <2>2, <3>2 DEF TeamInv, TypeOK, Running
      <4>2. OwnersStand(d)
        BY <4>1 DEF OwnerInv
      <4> QED
        BY <2>1, <4>1, <4>2 DEF OwnersStand, ViewOwner, IsOwner, Demoted, GrantItem
    <3> QED
      BY <3>1, <3>2
  <2>3. (\E a \in Account : IsOwner(a))'
    BY <2>1 DEF OwnerInv, IsOwner
  <2> QED
    BY <2>1, <2>2, <2>3 DEF OwnerInv
<1>2. ASSUME NEW c \in Request, Running(c), NEW step \in {"begin", "done"},
             NEW result \in Reply, Leave(c, step, result),
             log' = Kept(c, log), UNCHANGED team
      PROVE  OwnerInv'
  <2>1. active' = active
    BY <1>2 DEF Leave, outside
  <2>2. ASSUME NEW d \in Request, Running(d)'
        PROVE  /\ Running(d) /\ view'[d] = view[d] /\ since'[d] = since[d]
               /\ log' = log
    <3>1. d # c /\ Running(d) /\ view'[d] = view[d] /\ since'[d] = since[d]
      BY <1>2, <2>2 DEF Leave, Running, TeamInv, TypeOK
    <3> QED
      BY <1>2, <3>1 DEF Kept
  <2> QED
    BY <1>2, <2>1, <2>2, QuietKeepsOwner
<1>3. ASSUME NEW c \in Request, Mail(c) \/ Ask(c)
      PROVE  OwnerInv'
  <2>1. UNCHANGED <<view, since, log, team, active>>
    BY <1>3 DEF Mail, Ask, local, outside
  <2>2. \A d \in Request : Running(d)' => Running(d)
    BY <1>3 DEF Mail, Ask, Running, TeamInv, TypeOK
  <2> QED
    BY <2>1, <2>2, QuietKeepsOwner
<1>4. CASE Operate
  <2>1. ASSUME "member" \in Outside, NEW a \in Account, Remove(a)
        PROVE  FALSE
    <3>1. team'.member[a] = "REMOVED"
      BY <2>1 DEF Remove, TeamInv, TypeOK, Now, Snapshot, Team
    <3> QED
      BY <2>1, <3>1 DEF NobodyTaken
  <2>2. ASSUME "account" \in Outside, NEW a \in Account, Suspend(a)
        PROVE  FALSE
    BY <2>2 DEF Suspend, NobodyTaken
  <2>3. UNCHANGED <<pc, view, since, log, team, active>>
    BY <1>4, <2>1, <2>2 DEF Operate, local, Expire, Retire, SuspendCompany
  <2> QED
    BY <2>3, QuietKeepsOwner DEF Running
<1>5. CASE Stop \/ UNCHANGED vars
  <2>1. UNCHANGED <<pc, view, since, log, team, active>>
    BY <1>5 DEF Stop, vars, local, outside
  <2> QED
    BY <2>1, QuietKeepsOwner DEF Running
<1>6. ASSUME NEW c \in Request, Serve(c)
      PROVE  OwnerInv'
  BY <1>1, <1>2, <1>3, <1>6, ServeSteps, EffectKeepsOwner
<1> QED
  BY <1>3, <1>4, <1>5, <1>6 DEF Next

LEMMA OwnerInit ==
  ASSUME Init
  PROVE  OwnerInv
<1>1. \E a \in Account : team.member[a] = "ACTIVE" /\ team.grants[a][Owner] = 1
  BY SoundTeams DEF Init
<1> QED
  BY <1>1 DEF Init, OwnerInv, IsOwner, Running

(* However many owners demote each other or themselves at the same time,   *)
(* and however often PostgreSQL refuses or a commit's answer is lost: as   *)
(* long as no operator takes anybody away, the company keeps an active     *)
(* owner.                                                                  *)
THEOREM OwnerRemains == Spec => []CompanyHasOwner
<1>1. Init => TeamInv /\ (NobodyTaken => OwnerInv)
  BY InitKeeps, OwnerInit
<1>2. TeamInv /\ (NobodyTaken => OwnerInv) /\ [Next]_vars
        => (TeamInv /\ (NobodyTaken => OwnerInv))'
  BY TeamStep, OwnerStep, NobodyWasTaken
<1>3. (NobodyTaken => OwnerInv) => CompanyHasOwner
  BY DEF OwnerInv, CompanyHasOwner
<1> QED
  BY <1>1, <1>2, <1>3, PTL DEF Spec

----------------------------------------------------------------------------
(* Access has a cause.                                                     *)

(* What AccessHasACause says of one step.                                  *)
AccessCaused ==
  \A a \in Account :
    LET gained == {r \in Role : team.grants[a][r] = 0 /\ team'.grants[a][r] > 0}
        returns == team.member[a] # "ACTIVE" /\ team'.member[a] = "ACTIVE"
    IN  /\ returns => \E i \in Invitation :
             /\ Accepted(i) /\ team.invite[i].to = a
             /\ \A r \in Role :
                  team'.grants[a][r] > 0 <=> r \in team.invite[i].roles
        /\ gained # {} =>
             \/ \E i \in Invitation : Accepted(i) /\ team.invite[i].to = a
             \/ \E c \in Request :
                  /\ Running(c) /\ ~Running(c)'
                  /\ input[c].kind = "save" /\ input[c].who = a

LEMMA CauseStep ==
  ASSUME TeamInv, LogReads, [Next]_vars
  PROVE  [AccessCaused]_vars
<1>1. /\ team \in Team
      /\ \A a \in Account, r \in Role : team.grants[a][r] \in Nat
  BY DEF TeamInv, TypeOK, Now, Snapshot, Team
<1>2. ASSUME \A a \in Account : team'.member[a] = "ACTIVE" => team.member[a] = "ACTIVE",
             team'.grants = team.grants
      PROVE  AccessCaused
  BY <1>1, <1>2 DEF AccessCaused
<1>3. ASSUME NEW c \in Request, Serve(c)
      PROVE  AccessCaused
  <2>1. CASE AccessStays
    BY <1>2, <2>1 DEF AccessStays
  <2>2. CASE SavesRoles(c)
    BY <1>1, <2>2 DEF SavesRoles, AccessCaused
  <2>3. CASE Joins(c)
    BY <1>1, <2>3 DEF Joins, AccessCaused
  <2> QED
    BY <1>3, <2>1, <2>2, <2>3, ServeCauses
<1>4. ASSUME NEW a \in Account, Remove(a)
      PROVE  AccessCaused
  <2>1. /\ team'.grants = team.grants
        /\ team'.member = [team.member EXCEPT ![a] = "REMOVED"]
    BY <1>1, <1>4 DEF Remove, Team
  <2>2. team.member \in [Account -> Membership]
    BY <1>1 DEF Team
  <2> QED
    BY <1>2, <2>1, <2>2
<1>5. ASSUME team' = team
      PROVE  AccessCaused
  BY <1>2, <1>5
<1>6. CASE Operate
  BY <1>4, <1>5, <1>6 DEF Operate, Expire, Suspend, Retire, SuspendCompany
<1>7. ASSUME NEW c \in Request, Ask(c)
      PROVE  AccessCaused
  <2>1. team' = team
    BY <1>7 DEF Ask
  <2> QED
    BY <1>5, <2>1
<1>8. CASE Stop \/ UNCHANGED vars
  BY <1>5, <1>8 DEF Stop, vars
<1> QED
  BY <1>3, <1>6, <1>7, <1>8 DEF Next

LEMMA LogReadsStep ==
  ASSUME TeamInv, LogReads, [Next]_vars
  PROVE  LogReads'
<1>1. log \in Seq(Entry)
  BY DEF TeamInv, TypeOK
<1>2. ASSUME NEW e \in Entry, log' \in {log, <<>>, Append(log, e)},
             \A a \in Account, r \in Role :
               GrantItem(a, r) \in e.writes => MemberItem(a) \in e.reads
      PROVE  LogReads'
  <2> SUFFICES ASSUME NEW j \in 1 .. Len(log'), NEW a \in Account, NEW r \in Role,
                      GrantItem(a, r) \in log'[j].writes
               PROVE  MemberItem(a) \in log'[j].reads
    BY DEF LogReads, GrantItem, MemberItem
  <2>1. CASE log' = Append(log, e)
    <3>1. log'[j] = e \/ (j \in 1 .. Len(log) /\ log'[j] = log[j])
      BY <1>1, <2>1
    <3> QED
      BY <1>2, <3>1 DEF LogReads
  <2>2. CASE log' = log
    BY <2>2 DEF LogReads
  <2>3. CASE log' = <<>>
    BY <2>3
  <2> QED
    BY <1>2, <2>1, <2>2, <2>3
<1>3. CASE log' \in {log, <<>>}
  <2>1. [since |-> 0, reads |-> {}, writes |-> {}, rows |-> {}] \in Entry
    BY DEF Entry
  <2> QED
    BY <1>2, <1>3, <2>1
<1>4. ASSUME NEW c \in Request, Effect(c)
      PROVE  LogReads'
  <2>1. PICK reads \in SUBSET Item, writes \in SUBSET Item, rows \in SUBSET Item :
          Committed(c, reads, writes, rows) /\ Tracked(c, reads, writes, rows)
    BY <1>4 DEF Effect
  <2> DEFINE e == [since |-> since[c], reads |-> reads, writes |-> writes,
                   rows |-> rows]
  <2>2. e \in Entry /\ log' \in {log, <<>>, Append(log, e)}
    BY <2>1 DEF Committed, Kept, Entry, TeamInv, TypeOK
  <2> QED
    BY <1>2, <2>1, <2>2 DEF Tracked
<1>5. ASSUME NEW c \in Request, Serve(c)
      PROVE  LogReads'
  BY <1>3, <1>4, <1>5, ServeSteps DEF Begin, Mail, Kept
<1>6. ASSUME NEW a \in Account, Remove(a)
      PROVE  LogReads'
  <2> DEFINE e == [since |-> Len(log), reads |-> {}, writes |-> {},
                   rows |-> MemberOf({a})]
  <2>1. e \in Entry
    BY <1>1, Items DEF Entry
  <2>2. log' \in {log, <<>>, Append(log, e)}
    BY <1>6 DEF Remove
  <2> QED
    BY <1>2, <2>1, <2>2
<1>7. CASE Operate
  BY <1>3, <1>6, <1>7 DEF Operate, Expire, Suspend, Retire, SuspendCompany
<1>8. CASE Stop \/ UNCHANGED vars
  BY <1>3, <1>8 DEF Stop, vars
<1>9. ASSUME NEW c \in Request, Ask(c)
      PROVE  LogReads'
  BY <1>3, <1>9 DEF Ask
<1> QED
  BY <1>5, <1>7, <1>8, <1>9 DEF Next

(* Repeating an accepted invitation restores nothing, and who joins holds  *)
(* the invitation's roles and none from before, though a manager may save  *)
(* that member's roles, and an operator remove the member, meanwhile.      *)
THEOREM AccessHasCauses == Spec => AccessHasACause
<1>1. Init => LogReads
  BY DEF Init, LogReads
<1>2. TeamInv /\ LogReads /\ [Next]_vars => LogReads'
  BY LogReadsStep
<1>3. TeamInv /\ LogReads /\ [Next]_vars => [AccessCaused]_vars
  BY CauseStep
<1> QED
  BY <1>1, <1>2, <1>3, TeamInvariant, PTL DEF Spec, AccessHasACause, AccessCaused

----------------------------------------------------------------------------
(* Saves are whole.                                                        *)

(* What Explained says of a commit stays true of its entry, and what an    *)
(* unseen commit answered was not accepted in the snapshot.                *)
LogExplained ==
  \A j \in 1 .. Len(log), a \in Account, r \in Role :
    /\ GrantItem(a, r) \in log[j].rows =>
         GrantItem(a, r) \in log[j].writes /\ LooksAll(log[j].reads, a)
    /\ GrantItem(a, r) \in log[j].writes =>
         \/ LooksAll(log[j].reads, a)
         \/ \E i \in Invitation :
              InvitationItem(i) \in log[j].rows /\ Gave(team, i, a, r)

AnsweredSince(c) ==
  \A j \in 1 .. Len(log), i \in Invitation :
    since[c] < j /\ InvitationItem(i) \in log[j].rows =>
      view[c].team.invite[i].status # "ACCEPTED"

GrantInv ==
  LogExplained /\ \A c \in Request : Running(c) => AnsweredSince(c)

(* An entry is appended, or none, while answers stand.                     *)
LEMMA LogStaysExplained ==
  ASSUME TeamInv, LogExplained, NEW e \in Entry,
         log' \in {log, <<>>, Append(log, e)},
         \A i \in Invitation, a \in Account, r \in Role :
           Gave(team, i, a, r) => Gave(team', i, a, r),
         \A a \in Account, r \in Role :
           /\ GrantItem(a, r) \in e.rows =>
                GrantItem(a, r) \in e.writes /\ LooksAll(e.reads, a)
           /\ GrantItem(a, r) \in e.writes =>
                \/ LooksAll(e.reads, a)
                \/ \E i \in Invitation :
                     InvitationItem(i) \in e.rows /\ Gave(team', i, a, r)
  PROVE  LogExplained'
<1> DEFINE Right(f, a, r) ==
      /\ GrantItem(a, r) \in f.rows =>
           GrantItem(a, r) \in f.writes /\ LooksAll(f.reads, a)
      /\ GrantItem(a, r) \in f.writes =>
           \/ LooksAll(f.reads, a)
           \/ \E i \in Invitation :
                InvitationItem(i) \in f.rows /\ Gave(team', i, a, r)
<1>1. log \in Seq(Entry)
  BY DEF TeamInv, TypeOK
<1>2. \A j \in 1 .. Len(log') :
        log'[j] = e \/ (j \in 1 .. Len(log) /\ log'[j] = log[j])
  <2>1. CASE log' = Append(log, e)
    BY <1>1, <2>1
  <2>2. CASE log' \in {log, <<>>}
    BY <2>2
  <2> QED
    BY <2>1, <2>2
<1>3. ASSUME NEW j \in 1 .. Len(log'), NEW a \in Account, NEW r \in Role
      PROVE  Right(log'[j], a, r)
  <2>1. Right(e, a, r)
    OBVIOUS
  <2>2. ASSUME j \in 1 .. Len(log) PROVE Right(log[j], a, r)
    BY <2>2 DEF LogExplained
  <2> HIDE DEF Right
  <2> QED
    BY <1>2, <2>1, <2>2
<1> QED
  BY <1>3 DEF LogExplained, GrantItem, InvitationItem, LooksAll, Gave

(* What was answered since a snapshot was taken is answered still.         *)
LEMMA StaysAnsweredSince ==
  ASSUME TeamInv, NEW d \in Request, Running(d), AnsweredSince(d),
         view'[d] = view[d], since'[d] = since[d], NEW e \in Entry,
         log' \in {log, <<>>, Append(log, e)},
         \A i \in Invitation :
           InvitationItem(i) \in e.rows => team.invite[i].status = "OPEN"
  PROVE  AnsweredSince(d)'
<1>1. log \in Seq(Entry)
  BY DEF TeamInv, TypeOK
<1>2. ASSUME NEW j \in 1 .. Len(log'), NEW i \in Invitation, since'[d] < j,
             InvitationItem(i) \in log'[j].rows
      PROVE  view'[d].team.invite[i].status # "ACCEPTED"
  <2>1. log'[j] = e \/ (j \in 1 .. Len(log) /\ log'[j] = log[j])
    <3>1. CASE log' = Append(log, e)
      BY <1>1, <3>1
    <3>2. CASE log' \in {log, <<>>}
      BY <3>2
    <3> QED
      BY <3>1, <3>2
  <2>2. InvitationStands(d, i)
    BY DEF TeamInv, InFlight, InvitationsStand
  <2>3. CASE InvitationItem(i) \in e.rows
    BY <2>2, <2>3 DEF InvitationStands
  <2>4. CASE j \in 1 .. Len(log) /\ log'[j] = log[j]
    BY <1>2, <2>4 DEF AnsweredSince
  <2> QED
    BY <1>2, <2>1, <2>3, <2>4
<1> QED
  BY <1>2 DEF AnsweredSince, InvitationItem

LEMMA GrantStep ==
  ASSUME TeamInv, GrantInv, [Next]_vars
  PROVE  GrantInv'
<1>1. log \in Seq(Entry) /\ DOMAIN pc = Request
  BY DEF TeamInv, TypeOK
<1>2. ASSUME NEW e \in Entry, log' \in {log, <<>>, Append(log, e)},
             team'.invite = team.invite,
             \A i : InvitationItem(i) \notin e.rows,
             \A a, r : GrantItem(a, r) \notin e.writes \cup e.rows,
             \A d \in Request : Running(d)' =>
               Running(d) /\ view'[d] = view[d] /\ since'[d] = since[d]
      PROVE  GrantInv'
  <2>1. LogExplained'
    BY <1>2, LogStaysExplained DEF GrantInv, Gave
  <2>2. ASSUME NEW d \in Request, Running(d)' PROVE AnsweredSince(d)'
    BY <1>2, <2>2, StaysAnsweredSince DEF GrantInv
  <2> QED
    BY <2>1, <2>2 DEF GrantInv
<1>3. ASSUME log' \in {log, <<>>}, team'.invite = team.invite,
             \A d \in Request : Running(d)' =>
               Running(d) /\ view'[d] = view[d] /\ since'[d] = since[d]
      PROVE  GrantInv'
  <2> DEFINE e == [since |-> 0, reads |-> {}, writes |-> {}, rows |-> {}]
  <2>1. e \in Entry /\ e.rows = {} /\ e.writes = {}
    BY DEF Entry
  <2> HIDE DEF e
  <2> QED
    BY <1>2, <1>3, <2>1
<1>4. ASSUME NEW c \in Request, Effect(c)
      PROVE  GrantInv'
  <2>1. PICK reads \in SUBSET Item, writes \in SUBSET Item, rows \in SUBSET Item :
          /\ Committed(c, reads, writes, rows) /\ Tracked(c, reads, writes, rows)
          /\ Explained(reads, writes, rows)
    BY <1>4 DEF Effect
  <2> DEFINE e == [since |-> since[c], reads |-> reads, writes |-> writes,
                   rows |-> rows]
  <2>2. e \in Entry /\ log' \in {log, <<>>, Append(log, e)}
    BY <2>1 DEF Committed, Kept, Entry, TeamInv, TypeOK
  <2>3. e.reads = reads /\ e.writes = writes /\ e.rows = rows
    OBVIOUS
  <2> HIDE DEF e
  <2>4. \A i \in Invitation, a \in Account, r \in Role :
          Gave(team, i, a, r) => Gave(team', i, a, r)
    BY <2>1 DEF Tracked, Gave
  <2>5. LogExplained'
    BY <2>1, <2>2, <2>3, <2>4, LogStaysExplained DEF GrantInv, Explained
  <2>6. ASSUME NEW d \in Request, Running(d)' PROVE AnsweredSince(d)'
    <3>1. Running(d) /\ view'[d] = view[d] /\ since'[d] = since[d]
      BY <2>1, <2>6 DEF Committed, Running, TeamInv, TypeOK
    <3> QED
      BY <2>1, <2>2, <2>3, <3>1, StaysAnsweredSince DEF GrantInv, Explained
  <2> QED
    BY <2>5, <2>6 DEF GrantInv
<1>5. ASSUME NEW c \in Request, Begin(c)
      PROVE  GrantInv'
  <2>1. log' = log /\ team' = team /\ since'[c] = Len(log)
    BY <1>5 DEF Begin, TeamInv, TypeOK
  <2>2. LogExplained'
    BY <2>1 DEF GrantInv, LogExplained, GrantItem, InvitationItem, LooksAll, Gave
  <2>3. AnsweredSince(c)'
    BY <1>1, <2>1 DEF AnsweredSince
  <2>4. ASSUME NEW d \in Request, d # c, Running(d)' PROVE AnsweredSince(d)'
    <3>1. Running(d) /\ view'[d] = view[d] /\ since'[d] = since[d]
      BY <1>5, <2>4 DEF Begin, Running, TeamInv, TypeOK
    <3> QED
      BY <2>1, <3>1 DEF GrantInv, AnsweredSince, InvitationItem
  <2> QED
    BY <2>2, <2>3, <2>4 DEF GrantInv
<1>6. ASSUME NEW c \in Request, Serve(c)
      PROVE  GrantInv'
  <2>1. CASE Mail(c)
    BY <1>3, <2>1 DEF Mail, local, Running, TeamInv, TypeOK
  <2>2. ASSUME NEW step \in {"begin", "done"}, NEW result,
               Leave(c, step, result), log' = Kept(c, log), UNCHANGED team
        PROVE  GrantInv'
    <3>1. \A d \in Request : Running(d)' =>
            Running(d) /\ view'[d] = view[d] /\ since'[d] = since[d]
      BY <2>2 DEF Leave, Running, TeamInv, TypeOK
    <3> QED
      BY <1>3, <2>2, <3>1 DEF Kept
  <2> QED
    BY <1>4, <1>5, <1>6, <2>1, <2>2, ServeSteps
<1>7. ASSUME NEW a \in Account, Remove(a), UNCHANGED <<pc, local>>
      PROVE  GrantInv'
  <2> DEFINE e == [since |-> Len(log), reads |-> {}, writes |-> {},
                   rows |-> MemberOf({a})]
  <2>1. e \in Entry /\ e.rows = MemberOf({a}) /\ e.writes = {}
    BY <1>1, Items DEF Entry
  <2>2. \A b, r : GrantItem(b, r) \notin MemberOf({a})
    BY Items
  <2>3. log' \in {log, <<>>, Append(log, e)}
    BY <1>7 DEF Remove
  <2>4. team'.invite = team.invite
    BY <1>7 DEF Remove, TeamInv, TypeOK, Now, Snapshot, Team
  <2>5. \A d \in Request : Running(d)' =>
          Running(d) /\ view'[d] = view[d] /\ since'[d] = since[d]
    BY <1>7 DEF Running, local
  <2> HIDE DEF e
  <2> QED
    BY <1>2, <2>1, <2>2, <2>3, <2>4, <2>5, InvitationItems
<1>8. CASE Operate
  <2>1. UNCHANGED <<pc, local>>
    BY <1>8 DEF Operate
  <2>2. CASE UNCHANGED <<team, log>>
    BY <1>3, <2>1, <2>2 DEF Running, local
  <2> QED
    BY <1>7, <1>8, <2>1, <2>2 DEF Operate, Expire, Suspend, Retire, SuspendCompany
<1>9. CASE Stop \/ UNCHANGED vars
  BY <1>3, <1>9 DEF Stop, vars, local, Running
<1>10. ASSUME NEW c \in Request, Ask(c)
       PROVE  GrantInv'
  BY <1>3, <1>10 DEF Ask, Running, TeamInv, TypeOK
<1> QED
  BY <1>6, <1>8, <1>9, <1>10 DEF Next

(* The set a save leaves: what it names, and what was given meanwhile.     *)
Whole(c) ==
  \A r \in view[c].roles :
    /\ r \in input[c].roles => team'.grants[input[c].who][r] > 0
    /\ team'.grants[input[c].who][r] > 0 =>
         \/ r \in input[c].roles
         \/ \E i \in Invitation :
              /\ team.invite[i].status = "ACCEPTED"
              /\ team.invite[i].to = input[c].who
              /\ view[c].team.invite[i].status # "ACCEPTED"
              /\ r \in team.invite[i].roles

LEMMA SaveIsWhole ==
  ASSUME TeamInv, GrantInv, NEW c \in Request, Save(c), team'.grants # team.grants
  PROVE  Whole(c)
<1> DEFINE a == input[c].who
           v == view[c]
<1>1. /\ Running(c) /\ v \in Snapshot /\ team \in Team /\ a \in Account
      /\ GrantsStand(c) /\ AnsweredSince(c)
  BY KnownAsks DEF Save, TeamInv, InFlight, TypeOK, Now, Snapshot, Input, GrantInv
<1>2. ~Threw(c)
  BY DEF Threw, Throw
<1>3. PICK reads \in SUBSET Item, writes \in SUBSET Item, rows \in SUBSET Item :
        Saves(c, reads, writes, rows)
  BY <1>2, SaveCommits
<1>4. /\ Committed(c, reads, writes, rows)
      /\ team'.grants = [team.grants EXCEPT
                           ![a] = Regrant(v, a, SaveAdds(c), SaveDrops(c))]
  BY <1>3 DEF Saves, Regrants
<1>5. PICK s \in Role : s \in SaveAdds(c) \cup SaveDrops(c)
  <2> SUFFICES ASSUME \A r \in Role : r \notin SaveAdds(c) \cup SaveDrops(c)
               PROVE  team'.grants = team.grants
    OBVIOUS
  <2>1. team.grants[a] \in [Role -> Nat] /\ team.grants \in [Account -> [Role -> Nat]]
    BY <1>1 DEF Team
  <2>2. Regrant(v, a, SaveAdds(c), SaveDrops(c)) = [r \in Role |-> team.grants[a][r]]
    BY <2>1 DEF Regrant
  <2> QED
    BY <1>4, <2>1, <2>2
<1>6. ASSUME NEW j \in 1 .. Len(log), since[c] < j, NEW r \in Role,
             GrantItem(a, r) \in log[j].writes, LooksAll(log[j].reads, a)
      PROVE  FALSE
  <2>1. /\ GrantItem(a, r) \in reads /\ GrantItem(a, s) \in writes
        /\ GrantItem(a, s) \in log[j].reads
    BY <1>3, <1>5, <1>6 DEF Saves, LooksAll
  <2> DEFINE x == GrantItem(a, r)
             y == GrantItem(a, s)
  <2>2. x \in reads /\ x \in log[j].writes /\ y \in writes /\ y \in log[j].reads
    BY <1>6, <2>1
  <2> HIDE DEF a, v, x, y
  <2> QED
    BY <1>3, <1>4, <1>6, <2>2, NotOvertaken
<1>7. ASSUME NEW r \in Role, Changed(c, GrantItem(a, r))
      PROVE  FALSE
  BY <1>1, <1>6, <1>7 DEF Changed, GrantInv, LogExplained
<1>8. ASSUME NEW r \in Role, Raced(c, GrantItem(a, r))
      PROVE  \E i \in Invitation :
               Gave(team, i, a, r) /\ v.team.invite[i].status # "ACCEPTED"
  <2>1. PICK j \in 1 .. Len(log) : since[c] < j /\ GrantItem(a, r) \in log[j].writes
    BY <1>8 DEF Raced
  <2>2. PICK i \in Invitation : InvitationItem(i) \in log[j].rows /\ Gave(team, i, a, r)
    BY <1>1, <1>6, <2>1 DEF GrantInv, LogExplained
  <2> QED
    BY <1>1, <2>1, <2>2 DEF AnsweredSince
<1>9. ASSUME NEW r \in v.roles
      PROVE  /\ r \in input[c].roles => team'.grants[a][r] > 0
             /\ team'.grants[a][r] > 0 =>
                  \/ r \in input[c].roles
                  \/ \E i \in Invitation :
                       Gave(team, i, a, r) /\ v.team.invite[i].status # "ACCEPTED"
  <2>1. r \in Role
    BY <1>1 DEF Snapshot
  <2>2. /\ team.grants[a][r] \in Nat /\ v.team.grants[a][r] \in Nat
        /\ team.grants[a][r] <= 1
    BY <1>1, <2>1 DEF Snapshot, Team, TeamInv, SingleGrant
  <2>3. /\ v.team.grants[a][r] <= team.grants[a][r]
        /\ Raced(c, GrantItem(a, r)) \/ team.grants[a][r] <= v.team.grants[a][r]
    BY <1>1, <1>7, <2>1 DEF GrantsStand, GrantStands
  <2>4. /\ r \in SaveAdds(c) <=> r \in input[c].roles /\ ~(v.team.grants[a][r] > 0)
        /\ r \in SaveDrops(c) <=> r \notin input[c].roles /\ v.team.grants[a][r] > 0
    BY DEF SaveAdds, SaveDrops, Held
  <2>5. team'.grants[a][r] =
          (IF r \in SaveDrops(c) THEN team.grants[a][r] - v.team.grants[a][r]
                                 ELSE team.grants[a][r])
          + (IF r \in SaveAdds(c) THEN 1 ELSE 0)
    <3>1. team'.grants[a] = Regrant(v, a, SaveAdds(c), SaveDrops(c))
      <4>1. DOMAIN team.grants = Account
        BY <1>1 DEF Team
      <4> HIDE DEF a, v
      <4> QED
        BY <1>1, <1>4, <4>1
    <3> HIDE DEF a, v
    <3> QED
      BY <2>1, <3>1 DEF Regrant
  <2>6. \/ team.grants[a][r] = v.team.grants[a][r]
        \/ \E i \in Invitation :
             Gave(team, i, a, r) /\ v.team.invite[i].status # "ACCEPTED"
    BY <1>8, <2>1, <2>2, <2>3
  <2>7. r \in input[c].roles => team'.grants[a][r] > 0
    <3> DEFINE now == team.grants[a][r]
               seen == v.team.grants[a][r]
               next == team'.grants[a][r]
    <3>1. /\ now \in Nat /\ seen \in Nat /\ seen <= now
          /\ r \in SaveAdds(c) <=> r \in input[c].roles /\ ~(seen > 0)
          /\ r \in SaveDrops(c) <=> r \notin input[c].roles /\ seen > 0
          /\ next = (IF r \in SaveDrops(c) THEN now - seen ELSE now)
                    + (IF r \in SaveAdds(c) THEN 1 ELSE 0)
      BY <2>2, <2>3, <2>4, <2>5
    <3> SUFFICES r \in input[c].roles => next > 0
      OBVIOUS
    <3> HIDE DEF now, seen, next
    <3> QED
      BY <3>1
  <2>8. ASSUME r \notin input[c].roles, team'.grants[a][r] > 0
        PROVE  team.grants[a][r] # v.team.grants[a][r]
    <3> DEFINE now == team.grants[a][r]
               seen == v.team.grants[a][r]
               next == team'.grants[a][r]
    <3>1. /\ now \in Nat /\ seen \in Nat /\ seen <= now /\ next > 0
          /\ r \notin SaveAdds(c) /\ (r \in SaveDrops(c) <=> seen > 0)
          /\ next = (IF r \in SaveDrops(c) THEN now - seen ELSE now)
                    + (IF r \in SaveAdds(c) THEN 1 ELSE 0)
      BY <2>2, <2>3, <2>4, <2>5, <2>8
    <3> SUFFICES now # seen
      OBVIOUS
    <3> HIDE DEF now, seen, next
    <3> QED
      BY <3>1
  <2> QED
    BY <2>6, <2>7, <2>8
<1> QED
  BY <1>9 DEF Whole, Gave

(* Two saves of one member's roles never mix, none restores what the other *)
(* took, and nothing is lost of what a save names: a save that changes     *)
(* anything leaves what it names, and what an invitation accepted since    *)
(* its snapshot gave.                                                      *)
THEOREM SavesStayWhole == Spec => SavesAreWhole
<1>1. Init => GrantInv
  BY DEF Init, GrantInv, LogExplained, Running
<1>2. TeamInv /\ GrantInv /\ [Next]_vars => GrantInv'
  BY GrantStep
<1> DEFINE SavedWhole(c) ==
      LET q == input[c]
          givenSince(r) == \E i \in Invitation :
            /\ team.invite[i].status = "ACCEPTED" /\ team.invite[i].to = q.who
            /\ view[c].team.invite[i].status # "ACCEPTED"
            /\ r \in team.invite[i].roles
      IN  Running(c) /\ ~Running(c)' /\ q.kind = "save"
            /\ team'.grants # team.grants =>
          \A r \in view[c].roles :
            /\ r \in q.roles => team'.grants[q.who][r] > 0
            /\ team'.grants[q.who][r] > 0 => r \in q.roles \/ givenSince(r)
<1>3. ASSUME TeamInv, GrantInv, [Next]_vars, NEW c \in Request,
             Running(c), ~Running(c)', input[c].kind = "save",
             team'.grants # team.grants
      PROVE  Whole(c)
  <2>1. ASSUME pc'[c] = pc[c] \/ team' = team PROVE FALSE
    BY <1>3, <2>1 DEF Running
  <2>2. CASE Serve(c)
    <3>1. ~Begin(c) /\ ~Mail(c) /\ ~Refused(c) /\ ~Fail(c)
      BY <2>1 DEF Begin, Mail, Refused, Fail, Throw
    <3>2. ~Send(c) /\ ~Resolve(c)
      BY <1>3 DEF Send, Resolve
    <3> QED
      BY <1>3, <2>2, <3>1, <3>2, SaveIsWhole DEF Serve
  <2>3. ASSUME NEW d \in Request, d # c, Serve(d) PROVE FALSE
    <3>1. ASSUME NEW step, pc' = [pc EXCEPT ![d] = step] PROVE FALSE
      BY <1>3, <2>1, <2>3, <3>1 DEF TeamInv, TypeOK
    <3>2. ~Begin(d) /\ ~Mail(d) /\ ~Effect(d) /\ \A step, result : ~Leave(d, step, result)
      BY <3>1 DEF Begin, Mail, Effect, Committed, Leave
    <3> QED
      BY <1>3, <2>3, <3>2, ServeSteps
  <2>4. ASSUME NEW d \in Request, Ask(d) PROVE FALSE
    BY <2>1, <2>4 DEF Ask
  <2>5. CASE Operate \/ Stop \/ UNCHANGED vars
    BY <2>1, <2>5 DEF Operate, Stop, vars
  <2> QED
    BY <1>3, <2>2, <2>3, <2>4, <2>5 DEF Next
<1>4. TeamInv /\ GrantInv /\ [Next]_vars => [\A c \in Request : SavedWhole(c)]_vars
  BY <1>3 DEF Whole
<1> QED
  BY <1>1, <1>2, <1>4, TeamInvariant, PTL DEF Spec, SavesAreWhole

----------------------------------------------------------------------------
(* Mails announce invitations.                                             *)

(* Only the commit that created the invitation goes on to the mailer, and  *)
(* the mailer is called once.                                              *)
MailInv ==
  \A c \in Request :
    /\ pc[c] \in {"idle", "begin", "run", "mail"} => mails[c] = 0
    /\ mails[c] <= 1
    /\ pc[c] = "mail" \/ mails[c] > 0 => team.invite[c].status # "NONE"

LEMMA OnlySendMails ==
  ASSUME TeamInv, NEW c \in Request, Running(c), Serve(c), pc'[c] = "mail"
  PROVE  team'.invite[c].status = "OPEN"
<1>1. team \in Team /\ c \in Invitation /\ pc[c] = "run" /\ pc \in [Request -> {"idle", "begin", "run", "mail", "done"}]
  BY DEF TeamInv, TypeOK, Now, Snapshot, Invitation, Running
<1>2. ASSUME NEW step \in {"begin", "done"}, NEW result, Leave(c, step, result)
      PROVE  FALSE
  BY <1>1, <1>2 DEF Leave
<1>3. ASSUME NEW result, NEW reads, NEW writes, NEW rows,
             Commit(c, result, reads, writes, rows)
      PROVE  result = "created"
  BY <1>2, <1>3 DEF Commit
<1>4. ~Begin(c) /\ ~Mail(c) /\ ~Refused(c) /\ ~Fail(c)
  BY <1>1, <1>2 DEF Begin, Mail, Refused, Fail, Throw
<1>5. ~Save(c)
  BY <1>2, <1>3 DEF Save, Throw
<1>6. ~Resolve(c)
  BY <1>2, <1>3 DEF Resolve, Close, Accept, Throw
<1>7. CASE Send(c)
  <2>1. \E to : to.status = "OPEN" /\ team' = [team EXCEPT !.invite[c] = to]
    BY <1>2, <1>3, <1>7 DEF Send, Throw
  <2> QED
    BY <1>1, <2>1 DEF Team
<1> QED
  BY <1>4, <1>5, <1>6, <1>7 DEF Serve

LEMMA MailStep ==
  ASSUME TeamInv, MailInv, [Next]_vars
  PROVE  MailInv'
<1>1. mails \in [Request -> Nat] /\ pc \in [Request -> {"idle", "begin", "run", "mail", "done"}]
  BY DEF TeamInv, TypeOK
<1>2. \A i \in Invitation :
        team.invite[i].status # "NONE" => team'.invite[i].status # "NONE"
  <2>1. [Life!Next]_(Life!vars)
    BY LifeStep
  <2> QED
    BY <2>1 DEF Life!Next, Life!vars, Life!Send, Life!Resolve, Life!Expire, Life!Answer
<1>3. Request \subseteq Invitation
  BY DEF Invitation
<1>4. ASSUME mails' = mails,
             \A c \in Request :
               \/ pc'[c] = pc[c]
               \/ pc'[c] # "mail" /\ pc[c] # "done"
               \/ /\ pc[c] = "run" /\ pc'[c] = "mail"
                  /\ team'.invite[c].status # "NONE"
      PROVE  MailInv'
  BY <1>1, <1>2, <1>3, <1>4 DEF MailInv
<1>5. ASSUME NEW c \in Request, Mail(c)
      PROVE  MailInv'
  BY <1>1, <1>2, <1>3, <1>5 DEF Mail, MailInv
<1>6. ASSUME NEW c \in Request, Serve(c), ~Mail(c)
      PROVE  MailInv'
  <2>1. CASE Begin(c)
    BY <1>1, <1>4, <2>1 DEF Begin
  <2>2. CASE Running(c)
    <3>1. \/ Effect(c)
          \/ \E step \in {"begin", "done"}, result \in Reply : Leave(c, step, result)
      BY <1>6, <2>1, <2>2, ServeSteps DEF Begin, Running
    <3>2. /\ mails' = mails
          /\ \E step \in {"begin", "mail", "done"} : pc' = [pc EXCEPT ![c] = step]
      BY <3>1 DEF Effect, Committed, Leave
    <3>3. pc'[c] = "mail" => team'.invite[c].status # "NONE"
      BY <1>6, <2>2, OnlySendMails
    <3> QED
      BY <1>1, <1>4, <2>2, <3>2, <3>3 DEF Running
  <2> QED
    BY <1>6, <2>1, <2>2, ServeSteps
<1>7. ASSUME NEW c \in Request, Ask(c)
      PROVE  MailInv'
  BY <1>1, <1>4, <1>7 DEF Ask
<1>8. CASE Operate \/ Stop \/ UNCHANGED vars
  BY <1>4, <1>8 DEF Operate, Stop, vars
<1> QED
  BY <1>5, <1>6, <1>7, <1>8 DEF Next

(* A mail announces an invitation that exists, and only once, however often *)
(* the transaction is repeated and whatever becomes of its commit.          *)
THEOREM MailsAreAnnouncements == Spec => []MailsAnnounceInvitations
<1>1. Init => MailInv
  BY DEF Init, MailInv
<1>2. TeamInv /\ MailInv /\ [Next]_vars => MailInv'
  BY MailStep
<1>3. TeamInv /\ MailInv => MailsAnnounceInvitations
  <2> SUFFICES ASSUME TeamInv, MailInv, NEW c \in Request
               PROVE  mails[c] <= IF team.invite[c].status = "NONE" THEN 0 ELSE 1
    BY DEF MailsAnnounceInvitations
  <2>1. mails[c] \in Nat
    BY DEF TeamInv, TypeOK
  <2> QED
    BY <2>1 DEF MailInv
<1> QED
  BY <1>1, <1>2, <1>3, TeamInvariant, PTL DEF Spec

----------------------------------------------------------------------------
(* Authority is current.                                                   *)

AuthorisedIn(v, q) ==
  LET inv == v.team.invite[q.on]
  IN  /\ q.by \in v.active /\ v.company
      /\ q.kind \in {"save", "send", "revoke"} => Manages(v, q.by)
      /\ q.kind = "accept" /\ inv.status = "OPEN" => Manages(v, inv.by)

Open(c) == pc[c] \in {"begin", "run"}

(* Nobody regains what an open request rests on: no operator restores it,  *)
(* and no other request grants it.                                         *)
NoneRegained ==
  \A c \in Request : Open(c) /\ Open(c)' /\ ~Authorised(c) => ~Authorised(c)'

NobodyRegains == [][NoneRegained]_vars

(* The request is refused what it asks for, in this attempt and the next.  *)
Doomed(c) ==
  /\ pc[c] \in {"begin", "run", "done"} /\ reply[c] \notin Success
  /\ Open(c) => ~Authorised(c)
  /\ Running(c) => ~AuthorisedIn(view[c], input[c])

Unanswered ==
  \A c \in Request : pc[c] \in {"idle", "begin", "run"} => reply[c] = "none"

LEMMA AuthorisedNow ==
  ASSUME NEW c
  PROVE  Authorised(c) <=> AuthorisedIn(Now, input[c])
<1>1. Now.team = team /\ Now.active = active /\ Now.company = company
  BY DEF Now
<1> QED
  BY <1>1 DEF Authorised, AuthorisedIn

LEMMA UnauthorisedThrows ==
  ASSUME TeamInv, NEW c \in Request, ~AuthorisedIn(view[c], input[c]),
         Save(c) \/ Send(c) \/ Resolve(c)
  PROVE  \E result \in Error : Throw(c, result)
<1> DEFINE q == input[c]
           v == view[c]
<1>1. CASE Save(c)
  <2>1. ~Manages(v, q.by)
    BY <1>1 DEF Save, AuthorisedIn, Manages
  <2> QED
    BY <1>1, <2>1 DEF Save, SaveError, Error
<1>2. CASE Send(c)
  <2>1. ~Manages(v, q.by)
    BY <1>2 DEF Send, AuthorisedIn, Manages
  <2> QED
    BY <1>2, <2>1 DEF Send, SendError, Error
<1>3. CASE Resolve(c)
  <2>1. PICK late \in Clock(c) :
          \/ /\ ResolveError(v, q, late) # "none"
             /\ Throw(c, ResolveError(v, q, late))
          \/ /\ ResolveError(v, q, late) = "none"
             /\ \/ Close(c, q, v)
                \/ Accept(c, q, v)
                \/ /\ AcceptError(v, v.team.invite[q.on]) # "none"
                   /\ Throw(c, AcceptError(v, v.team.invite[q.on]))
    BY <1>3 DEF Resolve
  <2>2. CASE ResolveError(v, q, late) # "none" /\ Throw(c, ResolveError(v, q, late))
    BY <2>2 DEF ResolveError, Error
  <2>3. ASSUME ResolveError(v, q, late) = "none"
        PROVE  /\ q.kind = "accept" /\ v.team.invite[q.on].status = "OPEN"
               /\ ~Manages(v, v.team.invite[q.on].by)
    <3>1. q.by \in v.active /\ v.company
      BY <2>3 DEF ResolveError, MayResolve
    <3>2. q.kind = "revoke" => Manages(v, q.by)
      BY <2>3 DEF ResolveError, MayResolve
    <3>3. q.kind \in {"accept", "decline", "revoke"}
      BY <1>3 DEF Resolve
    <3> QED
      BY <3>1, <3>2, <3>3 DEF AuthorisedIn
  <2>4. ASSUME ResolveError(v, q, late) = "none"
        PROVE  ~Close(c, q, v) /\ ~Accept(c, q, v)
    BY <2>3, <2>4 DEF Close, Attributed, Accept, AcceptError
  <2>5. AcceptError(v, v.team.invite[q.on]) \in Error \cup {"none"}
    BY DEF AcceptError, Error
  <2> QED
    BY <2>1, <2>2, <2>4, <2>5
<1> QED
  BY <1>1, <1>2, <1>3

LEMMA UnansweredStep ==
  ASSUME TeamInv, Unanswered, [Next]_vars
  PROVE  Unanswered'
<1>1. ASSUME NEW c \in Request, Serve(c)
      PROVE  Unanswered'
  <2>1. /\ \A d \in Request \ {c} : pc'[d] = pc[d] /\ reply'[d] = reply[d]
        /\ pc'[c] \in {"idle", "begin", "run"} => reply'[c] = "none"
    <3>1. CASE Begin(c) \/ Mail(c)
      BY <3>1 DEF Begin, Mail, Unanswered, TeamInv, TypeOK
    <3>2. CASE Refused(c)
      BY <3>2 DEF Refused, Leave, TeamInv, TypeOK
    <3>3. ASSUME NEW step \in {"mail", "done"}, NEW result, Leave(c, step, result)
          PROVE  /\ \A d \in Request \ {c} : pc'[d] = pc[d] /\ reply'[d] = reply[d]
                 /\ pc'[c] \notin {"idle", "begin", "run"}
      BY <3>3 DEF Leave, TeamInv, TypeOK
    <3>4. ASSUME NEW result, NEW reads, NEW writes, NEW rows,
                 Commit(c, result, reads, writes, rows)
          PROVE  \E step \in {"mail", "done"} : \E answer : Leave(c, step, answer)
      BY <3>4 DEF Commit
    <3>5. CASE Fail(c) \/ Save(c) \/ Send(c) \/ Resolve(c)
      <4>1. \E step \in {"mail", "done"} : \E answer : Leave(c, step, answer)
        BY <3>4, <3>5 DEF Fail, Throw, Save, Send, Resolve, Close, Accept
      <4> QED
        BY <3>3, <4>1
    <3> QED
      BY <1>1, <3>1, <3>2, <3>5 DEF Serve
  <2> QED
    BY <2>1 DEF Unanswered
<1>2. ASSUME NEW c \in Request, Ask(c)
      PROVE  Unanswered'
  BY <1>2 DEF Ask, Unanswered, TeamInv, TypeOK
<1>3. CASE Operate \/ Stop \/ UNCHANGED vars
  BY <1>3 DEF Operate, Stop, vars, Unanswered
<1> QED
  BY <1>1, <1>2, <1>3 DEF Next

LEMMA DoomedStep ==
  ASSUME TeamInv, Unanswered, [Next]_vars, [NoneRegained]_vars,
         NEW c \in Request, Doomed(c)
  PROVE  Doomed(c)'
<1>0. Open(c) /\ Open(c)' /\ ~Authorised(c) => ~Authorised(c)'
  <2>1. CASE UNCHANGED vars
    BY <2>1 DEF vars, local, outside, Authorised, Manages, Held, Now
  <2> QED
    BY <2>1 DEF NoneRegained
<1>1. ASSUME pc'[c] = pc[c], input'[c] = input[c], view'[c] = view[c],
             reply'[c] = reply[c]
      PROVE  Doomed(c)'
  BY <1>0, <1>1 DEF Doomed, Open, Running
<1>2. ASSUME Begin(c)
      PROVE  Doomed(c)'
  <2>1. /\ pc'[c] = "run" /\ view'[c] = Now /\ reply'[c] = reply[c]
        /\ input'[c] = input[c] /\ pc[c] = "begin"
    BY <1>2 DEF Begin, TeamInv, TypeOK
  <2>2. ~Authorised(c) /\ ~Authorised(c)'
    BY <1>0, <2>1 DEF Doomed, Open
  <2>3. ~AuthorisedIn(view'[c], input'[c])
    BY <2>1, <2>2, AuthorisedNow
  <2> QED
    BY <2>1, <2>2, <2>3 DEF Doomed, Open, Running
<1>3. ASSUME NEW step \in {"begin", "done"}, NEW result \in Reply \ Success,
             Open(c), Leave(c, step, result)
      PROVE  Doomed(c)'
  <2>1. pc'[c] = step /\ reply'[c] = result
    BY <1>3 DEF Leave, TeamInv, TypeOK
  <2> QED
    BY <1>0, <1>3, <2>1 DEF Doomed, Open, Running
<1>4. ASSUME Serve(c)
      PROVE  Doomed(c)'
  <2>1. CASE Begin(c)
    BY <1>2, <2>1
  <2>2. ~Mail(c)
    BY DEF Mail, Doomed
  <2>3. Running(c) => Open(c) /\ ~AuthorisedIn(view[c], input[c])
    BY DEF Running, Open, Doomed
  <2>4. CASE Refused(c) \/ Fail(c)
    BY <1>3, <2>3, <2>4 DEF Refused, Fail, Throw, Reply, Success, Error
  <2>5. CASE Save(c) \/ Send(c) \/ Resolve(c)
    <3>1. Running(c)
      BY <2>5 DEF Save, Send, Resolve
    <3>2. PICK result \in Error : Throw(c, result)
      BY <2>3, <2>5, <3>1, UnauthorisedThrows
    <3> QED
      BY <1>3, <2>3, <3>1, <3>2 DEF Throw, Reply, Success, Error
  <2> QED
    BY <1>4, <2>1, <2>2, <2>4, <2>5 DEF Serve
<1>5. ASSUME NEW d \in Request, d # c, Ask(d) \/ Serve(d)
      PROVE  Doomed(c)'
  <2>1. CASE Ask(d)
    BY <1>1, <1>5, <2>1 DEF Ask, TeamInv, TypeOK
  <2>2. CASE Serve(d)
    <3>1. \/ Begin(d) \/ Mail(d)
          \/ \E step, result : Leave(d, step, result)
          \/ \E reads, writes, rows : Committed(d, reads, writes, rows)
      BY <2>2, ServeSteps DEF Effect
    <3> QED
      BY <1>1, <1>5, <3>1
         DEF Begin, Mail, local, Leave, Committed, TeamInv, TypeOK
  <2> QED
    BY <1>5, <2>1, <2>2
<1>6. ~Ask(c)
  BY DEF Ask, Doomed
<1>7. CASE Operate \/ Stop \/ UNCHANGED vars
  BY <1>1, <1>7 DEF Operate, Stop, vars, local
<1> QED
  BY <1>4, <1>5, <1>6, <1>7 DEF Next

(* Whoever has lost what the request rests on before an attempt begins     *)
(* gets nothing by it, in this attempt or a later one, unless somebody     *)
(* gives it back while the request is open.                                *)
THEOREM AuthorityStaysCurrent == Spec /\ NobodyRegains => AuthorityIsCurrent
<1>1. ASSUME NEW c \in Request
      PROVE  Spec /\ NobodyRegains
               => [](pc[c] = "begin" /\ ~Authorised(c) => []~(reply[c] \in Success))
  <2>1. Init => Unanswered
    BY DEF Init, Unanswered
  <2>2. TeamInv /\ Unanswered /\ [Next]_vars => Unanswered'
    BY UnansweredStep
  <2>3. Unanswered /\ pc[c] = "begin" /\ ~Authorised(c) => Doomed(c)
    BY DEF Unanswered, Doomed, Open, Running, Success
  <2>4. TeamInv /\ Unanswered /\ [Next]_vars /\ [NoneRegained]_vars /\ Doomed(c)
          => Doomed(c)'
    BY DoomedStep
  <2>5. Doomed(c) => ~(reply[c] \in Success)
    BY DEF Doomed
  <2> QED
    BY <2>1, <2>2, <2>3, <2>4, <2>5, TeamInvariant, PTL DEF Spec, NobodyRegains
<1> QED
  BY <1>1 DEF AuthorityIsCurrent

(* What operators and the clock change takes authority away, and a request *)
(* that stays open writes nothing: only another request can give it back.  *)
LEMMA AloneRegainsNothing ==
  ASSUME NEW r, Request = {r}, TeamInv, [Next]_vars
  PROVE  [NoneRegained]_vars
<1>1. ASSUME NEW c \in Request, Open(c), Open(c)', ~Authorised(c)
      PROVE  ~Authorised(c)'
  <2>1. team \in Team /\ active \subseteq Account /\ roles \subseteq Role
    BY DEF TeamInv, TypeOK, Now, Snapshot
  <2>2. ASSUME input'[c] = input[c],
               active' \subseteq active, roles' \subseteq roles, company' => company,
               team'.grants = team.grants, team'.invite = team.invite,
               \A a \in Account :
                 team'.member[a] = "ACTIVE" => team.member[a] = "ACTIVE"
        PROVE  ~Authorised(c)'
    <3>1. \A a \in Account : Manages(Now, a)' => Manages(Now, a)
      BY <2>2 DEF Manages, Held, Now
    <3>2. input[c] \in Input
      BY <1>1, KnownAsks DEF TeamInv, Prepared, Open
    <3>3. input[c].by \in Account /\ team.invite[input[c].on].by \in Account
      BY <2>1, <3>2 DEF Input, Team, Invite
    <3> QED
      BY <1>1, <2>2, <3>1, <3>3 DEF Authorised
  <2>3. CASE UNCHANGED <<input, active, roles, company, team>>
    BY <2>2, <2>3
  <2>4. CASE Serve(c)
    <3>1. Begin(c) \/ Refused(c)
      <4>1. ASSUME NEW result, NEW reads, NEW writes, NEW rows,
                   Commit(c, result, reads, writes, rows)
            PROVE  FALSE
        BY <1>1, <4>1 DEF Commit, Leave, Open, TeamInv, TypeOK
      <4>2. ASSUME NEW result, Throw(c, result)
            PROVE  FALSE
        BY <1>1, <4>2 DEF Throw, Leave, Open, TeamInv, TypeOK
      <4>3. ~Save(c) /\ ~Send(c) /\ ~Fail(c)
        BY <4>1, <4>2 DEF Save, Send, Fail
      <4>4. ~Resolve(c)
        BY <4>1, <4>2 DEF Resolve, Close, Accept
      <4>5. ~Mail(c)
        BY <1>1 DEF Mail, Open
      <4> QED
        BY <2>4, <4>3, <4>4, <4>5 DEF Serve
    <3> QED
      BY <2>3, <3>1 DEF Begin, Refused, Leave, outside
  <2>5. ~Ask(c)
    BY <1>1 DEF Ask, Open
  <2>6. CASE Operate
    <3>1. UNCHANGED input
      BY <2>6 DEF Operate, local
    <3>2. ASSUME NEW a \in Account, Remove(a)
          PROVE  ~Authorised(c)'
      <4>1. /\ team'.grants = team.grants /\ team'.invite = team.invite
            /\ team'.member = [team.member EXCEPT ![a] = "REMOVED"]
            /\ UNCHANGED <<active, roles, company>>
        BY <2>1, <3>2 DEF Remove, outside, Team
      <4>2. \A b \in Account :
              team'.member[b] = "ACTIVE" => team.member[b] = "ACTIVE"
        BY <2>1, <4>1 DEF Team
      <4> QED
        BY <2>2, <3>1, <4>1, <4>2
    <3>3. ASSUME active' \subseteq active, roles' \subseteq roles,
                 company' => company, team' = team
          PROVE  ~Authorised(c)'
      BY <2>2, <3>1, <3>3
    <3>4. ASSUME NEW i, Expire(i)
          PROVE  ~Authorised(c)'
      BY <3>3, <3>4 DEF Expire
    <3>5. ASSUME NEW a, Suspend(a)
          PROVE  ~Authorised(c)'
      BY <3>3, <3>5 DEF Suspend
    <3>6. ASSUME NEW a, Retire(a)
          PROVE  ~Authorised(c)'
      BY <3>3, <3>6 DEF Retire
    <3>7. CASE SuspendCompany
      BY <3>3, <3>7 DEF SuspendCompany
    <3> QED
      BY <2>6, <3>2, <3>4, <3>5, <3>6, <3>7 DEF Operate
  <2>7. CASE Stop \/ UNCHANGED vars
    BY <2>3, <2>7 DEF Stop, vars, local, outside
  <2> QED
    BY <2>4, <2>5, <2>6, <2>7 DEF Next
<1> QED
  BY <1>1 DEF NoneRegained

(* A request that is alone with operators and the clock gets nothing by    *)
(* what it has lost before an attempt begins.                              *)
THEOREM AuthorityStaysCurrentAlone ==
  ASSUME NEW r, Request = {r}
  PROVE  Spec => AuthorityIsCurrent
<1>1. TeamInv /\ [Next]_vars => [NoneRegained]_vars
  BY AloneRegainsNothing
<1>2. Spec => NobodyRegains
  BY <1>1, TeamInvariant, PTL DEF Spec, NobodyRegains
<1> QED
  BY <1>2, AuthorityStaysCurrent

=============================================================================
