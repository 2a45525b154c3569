------------------------- MODULE SerializableProofs -------------------------
(***************************************************************************)
(* What a serial order excludes.                                           *)
(***************************************************************************)
EXTENDS Serializable, TLAPS

Transaction(Item) ==
  [since : Nat, reads : SUBSET Item, writes : SUBSET Item, rows : SUBSET Item]

(* A transaction that missed what another wrote cannot write what that one *)
(* had looked at.                                                          *)
LEMMA NoCycle ==
  ASSUME NEW Item, NEW l \in Seq(Transaction(Item)), NEW e \in Transaction(Item),
         SerialOrder(Append(l, e)),
         NEW j \in 1 .. Len(l), e.since < j, l[j].since < j,
         NEW x, x \in e.reads, x \in l[j].writes,
         NEW y, y \in l[j].reads, y \in e.writes
  PROVE  FALSE
<1> DEFINE m == Append(l, e)
           n == Len(l) + 1
<1>1. Len(m) = n /\ m[n] = e /\ m[j] = l[j] /\ n \in 1 .. n /\ j \in 1 .. n
  OBVIOUS
<1>2. e.since \in Nat /\ l[j].since \in Nat /\ n \in Nat /\ j < n
  <2>1. l[j] \in Transaction(Item)
    OBVIOUS
  <2> QED
    BY <2>1 DEF Transaction
<1>3. Precedes(m, n, j)
  <2>1. Meet(m[n].reads, m[j].writes)
    BY <1>1 DEF Meet
  <2>2. ~Saw(m, n, j)
    BY <1>1, <1>2 DEF Saw
  <2> QED
    BY <1>2, <2>1, <2>2 DEF Precedes
<1>4. Precedes(m, j, n)
  <2>1. Meet(m[j].reads, m[n].writes)
    BY <1>1 DEF Meet
  <2>2. ~Saw(m, j, n)
    BY <1>1, <1>2 DEF Saw
  <2> QED
    BY <1>2, <2>1, <2>2 DEF Precedes
<1>5. PICK rank \in [1 .. n -> 1 .. n] :
        \A i, k \in 1 .. n : Precedes(m, i, k) => rank[i] < rank[k]
  BY <1>1 DEF SerialOrder
<1>6. rank[n] < rank[j] /\ rank[j] < rank[n]
  BY <1>1, <1>3, <1>4, <1>5
<1> QED
  BY <1>1, <1>5, <1>6

=============================================================================
