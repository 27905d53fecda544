------------------------ MODULE ConversationsProofs ------------------------
(***************************************************************************)
(* Proofs about Conversations: items are appended only onto the history a  *)
(* reply was prepared with, what completed is kept, and a client that      *)
(* pages beside appends and deletions misses and repeats nothing.          *)
(***************************************************************************)
EXTENDS Conversations, SequenceTheorems, TLAPS

LEMMA ConvConstants ==
  PageLimit \in Nat /\ PageLimit >= 1 /\ ClientItemIds \cap Outputs = {}
BY ConversationBoundsAssumption

(***************************************************************************)
(* Sequences of items.                                                     *)
(***************************************************************************)
LEMMA SubSeqEffect ==
  ASSUME NEW s \in Seq(Item), NEW i \in Nat, NEW j \in Nat, i >= 1, j <= Len(s), i <= j + 1
  PROVE  /\ SubSeq(s, i, j) \in Seq(Item) /\ Len(SubSeq(s, i, j)) = j - i + 1
         /\ \A k \in 1..(j - i + 1) : SubSeq(s, i, j)[k] = s[k + i - 1]
OBVIOUS

LEMMA Concatenated ==
  ASSUME NEW a \in Seq(Item), NEW b \in Seq(Item)
  PROVE  /\ a \o b \in Seq(Item) /\ Len(a \o b) = Len(a) + Len(b)
         /\ DOMAIN (a \o b) = 1..Len(a \o b)
         /\ \A k \in 1..Len(a) : (a \o b)[k] = a[k]
         /\ \A i \in 1..Len(b) : (a \o b)[Len(a) + i] = b[i]
BY LenProperties

LEMMA RemoveEffect ==
  ASSUME NEW s \in Seq(Item), NEW n \in DOMAIN s
  PROVE  LET t == RemoveAt(s, n)
         IN /\ t \in Seq(Item) /\ Len(t) = Len(s) - 1
            /\ \A k \in 1..Len(t) : t[k] = IF k < n THEN s[k] ELSE s[k + 1]
            /\ \A x \in ToSet(s) : x = s[n] \/ x \in ToSet(t)
<1>1. n \in 1..Len(s) /\ Len(s) \in Nat /\ n \in Nat /\ n >= 1 /\ n <= Len(s)
  BY LenProperties
<1> DEFINE a == SubSeq(s, 1, n - 1)
           b == SubSeq(s, n + 1, Len(s))
           t == RemoveAt(s, n)
<1>2. /\ a \in Seq(Item) /\ Len(a) = n - 1 /\ \A k \in 1..(n - 1) : a[k] = s[k]
  BY <1>1
<1>3. /\ b \in Seq(Item) /\ Len(b) = Len(s) - n
      /\ \A k \in 1..(Len(s) - n) : b[k] = s[k + n]
  BY <1>1
<1>4. t = a \o b
  BY DEF RemoveAt
<1> HIDE DEF a, b, t
<1>5. /\ t \in Seq(Item) /\ Len(t) = Len(s) - 1
      /\ \A k \in 1..Len(a) : t[k] = a[k]
      /\ \A i \in 1..Len(b) : t[Len(a) + i] = b[i]
  <2>1. /\ t \in Seq(Item) /\ Len(t) = Len(a) + Len(b)
        /\ \A k \in 1..Len(a) : t[k] = a[k]
        /\ \A i \in 1..Len(b) : t[Len(a) + i] = b[i]
    BY <1>2, <1>3, <1>4, Concatenated
  <2>2. ASSUME Len(a) = n - 1, Len(b) = Len(s) - n PROVE Len(a) + Len(b) = Len(s) - 1
    BY <1>1, <2>2
  <2> QED BY <1>2, <1>3, <2>1, <2>2
<1>6. \A k \in 1..Len(t) : t[k] = IF k < n THEN s[k] ELSE s[k + 1]
  <2> SUFFICES ASSUME NEW k \in 1..Len(t) PROVE t[k] = IF k < n THEN s[k] ELSE s[k + 1]
    OBVIOUS
  <2>1. CASE k < n
    <3>1. k \in 1..Len(a) /\ k \in 1..(n - 1)
      BY <1>1, <1>2, <2>1
    <3>2. t[k] = a[k] /\ a[k] = s[k]
      BY <1>2, <1>5, <3>1
    <3> QED BY <2>1, <3>2
  <2>2. CASE ~(k < n)
    <3>1. PICK i \in 1..Len(b) : k = Len(a) + i /\ i + n = k + 1
      <4>1. /\ k - Len(a) \in 1..Len(b) /\ k = Len(a) + (k - Len(a))
            /\ (k - Len(a)) + n = k + 1
        BY <1>1, <1>2, <1>3, <1>5, <2>2
      <4> QED BY <4>1
    <3>2. t[k] = b[i] /\ b[i] = s[i + n]
      BY <1>3, <1>5, <3>1
    <3> QED BY <2>2, <3>1, <3>2
  <2> QED BY <2>1, <2>2
<1>7. ASSUME NEW x \in ToSet(s), x # s[n] PROVE x \in ToSet(t)
  <2>1. PICK k \in 1..Len(s) : x = s[k]
    BY <1>1 DEF ToSet
  <2>2. CASE k < n
    <3>1. k \in 1..Len(t) /\ t[k] = s[k]
      BY <1>1, <1>5, <1>6, <2>1, <2>2
    <3> QED BY <1>5, <2>1, <3>1 DEF ToSet
  <2>3. CASE k > n
    <3>1. k - 1 \in 1..Len(t) /\ ~(k - 1 < n) /\ (k - 1) + 1 = k
      BY <1>1, <1>5, <2>1, <2>3
    <3>2. t[k - 1] = s[k]
      BY <1>6, <3>1
    <3> QED BY <1>5, <2>1, <3>1, <3>2 DEF ToSet
  <2>4. k # n
    BY <1>7, <2>1
  <2> QED BY <1>1, <2>1, <2>2, <2>3, <2>4
<1> QED BY <1>5, <1>6, <1>7 DEF t

(***************************************************************************)
(* The store.                                                              *)
(***************************************************************************)
LEMMA Types ==
  ASSUME ConvTypeOK
  PROVE  /\ conv \in [live: BOOLEAN, version: Nat] /\ conv.version \in Nat
         /\ convItems \in Seq(Item) /\ Len(convItems) \in Nat
         /\ DOMAIN convItems = 1..Len(convItems)
         /\ lastSeq \in Nat /\ applied \subseteq Replies /\ page \in PageRow
         /\ page.seen \in Seq(Item) /\ Len(page.seen) \in Nat
         /\ DOMAIN page.seen = 1..Len(page.seen)
         /\ reply \in [Replies -> ReplyRow]
BY LenProperties DEF ConvTypeOK, PageRow, ReplyRow

(* insert_items: the rows s with new rows for ids behind them.             *)
Ids == ClientItemIds \cup Outputs
Extended(s, w, last, ids) ==
  /\ w \in Seq(Item) /\ Len(w) = Len(s) + Len(ids) /\ DOMAIN w = 1..Len(w)
  /\ \A k \in 1..Len(s) : w[k] = s[k]
  /\ \A i \in 1..Len(ids) : w[Len(s) + i].id = ids[i] /\ w[Len(s) + i].seq = last + i

LEMMA InsertExtends ==
  ASSUME NEW s \in Seq(Item), NEW last \in Nat, NEW ids \in Seq(Ids)
  PROVE  Extended(s, s \o [n \in DOMAIN ids |-> [id |-> ids[n], seq |-> last + n]],
                  last, ids)
<1> DEFINE t == [n \in DOMAIN ids |-> [id |-> ids[n], seq |-> last + n]]
<1>1. Len(ids) \in Nat /\ DOMAIN ids = 1..Len(ids) /\ Len(s) \in Nat
  BY LenProperties
<1>2. \A n \in 1..Len(ids) : ids[n] \in Ids
  BY ElementOfSeq
<1>3. \A n \in 1..Len(ids) : [id |-> ids[n], seq |-> last + n] \in Item
  BY <1>1, <1>2 DEF Item, Ids
<1>4. t \in [1..Len(ids) -> Item]
  BY <1>1, <1>3
<1>5. t \in Seq(Item) /\ Len(t) = Len(ids)
  <2> HIDE DEF t
  <2> QED BY <1>1, <1>4
<1>6. \A n \in 1..Len(ids) : t[n].id = ids[n] /\ t[n].seq = last + n
  BY <1>1
<1> HIDE DEF t
<1>7. /\ s \o t \in Seq(Item) /\ Len(s \o t) = Len(s) + Len(t)
      /\ DOMAIN (s \o t) = 1..Len(s \o t)
      /\ \A k \in 1..Len(s) : (s \o t)[k] = s[k]
      /\ \A i \in 1..Len(t) : (s \o t)[Len(s) + i] = t[i]
  BY <1>1, <1>5
<1>8. Extended(s, s \o t, last, ids)
  BY <1>5, <1>6, <1>7 DEF Extended
<1> QED BY <1>8 DEF t

LEMMA Where ==
  ASSUME NEW a \in Nat, NEW b \in Nat, NEW k \in 1..(a + b), ~(k \in 1..a)
  PROVE  \E i \in 1..b : k = a + i
<1>1. k - a \in 1..b /\ k = a + (k - a)
  OBVIOUS
<1> QED BY <1>1

LEMMA ExtendedInOrder ==
  ASSUME NEW s \in Seq(Item), NEW w, NEW last \in Nat, NEW ids \in Seq(Ids),
         Extended(s, w, last, ids), RowsInOrder(s, last),
         ToSet(ids) \cap ItemIds(s) = {},
         \A m, n \in 1..Len(ids) : m < n => ids[m] # ids[n]
  PROVE  RowsInOrder(w, last + Len(ids))
<1>1. Len(ids) \in Nat /\ DOMAIN ids = 1..Len(ids) /\ Len(s) \in Nat /\ DOMAIN s = 1..Len(s)
  BY LenProperties
<1>2. \A k \in 1..Len(s) : \A n \in 1..Len(ids) : s[k].id # ids[n]
  BY <1>1 DEF ToSet, ItemIds
<1>3. \A k \in 1..Len(s) : s[k].seq <= last /\ s[k].seq \in Nat
  <2>1. \A k \in 1..Len(s) : s[k] \in Item
    BY ElementOfSeq
  <2>2. \A k \in 1..Len(s) : s[k].seq \in Nat
    BY <2>1 DEF Item
  <2> QED BY <1>1, <2>2 DEF RowsInOrder
<1>4. /\ Len(w) = Len(s) + Len(ids) /\ DOMAIN w = 1..(Len(s) + Len(ids))
      /\ \A k \in 1..Len(s) : w[k] = s[k]
      /\ \A i \in 1..Len(ids) : w[Len(s) + i].id = ids[i] /\ w[Len(s) + i].seq = last + i
  BY DEF Extended
<1>w. \A k \in DOMAIN w : ~(k \in 1..Len(s)) => \E i \in 1..Len(ids) : k = Len(s) + i
  <2>1. PICK a \in Nat, b \in Nat : a = Len(s) /\ b = Len(ids)
    BY <1>1
  <2>2. \A k \in 1..(a + b) : ~(k \in 1..a) => \E i \in 1..b : k = a + i
    BY Where
  <2> QED BY <1>4, <2>1, <2>2
<1>5. ASSUME NEW k \in DOMAIN w PROVE w[k].seq <= last + Len(ids)
  <2>1. CASE k \in 1..Len(s)
    BY <1>1, <1>3, <1>4, <2>1
  <2>2. CASE ~(k \in 1..Len(s))
    <3>1. PICK i \in 1..Len(ids) : k = Len(s) + i
      BY <1>w, <1>1, <1>4, <2>2
    <3> QED BY <1>1, <1>4, <3>1
  <2> QED BY <2>1, <2>2
<1>6. ASSUME NEW m \in DOMAIN w, NEW n \in DOMAIN w, m < n
      PROVE  w[m].seq < w[n].seq /\ w[m].id # w[n].id
  <2>1. CASE n \in 1..Len(s)
    <3>1. m \in 1..Len(s)
      BY <1>1, <1>4, <1>6, <2>1
    <3>2. s[m].seq < s[n].seq /\ s[m].id # s[n].id
      BY <1>1, <1>6, <2>1, <3>1 DEF RowsInOrder
    <3> QED BY <1>4, <2>1, <3>1, <3>2
  <2>2. CASE ~(n \in 1..Len(s))
    <3>1. PICK i \in 1..Len(ids) : n = Len(s) + i
      BY <1>w, <1>1, <1>4, <2>2
    <3>2. w[n].id = ids[i] /\ w[n].seq = last + i
      BY <1>4, <3>1
    <3>3. CASE m \in 1..Len(s)
      <4>1. s[m].seq <= last /\ s[m].seq \in Nat /\ s[m].id # ids[i] /\ w[m] = s[m]
        BY <1>2, <1>3, <1>4, <3>1, <3>3
      <4> QED BY <3>1, <3>2, <4>1
    <3>4. CASE ~(m \in 1..Len(s))
      <4>1. PICK h \in 1..Len(ids) : m = Len(s) + h
        BY <1>w, <1>1, <1>4, <3>4
      <4>2. w[m].id = ids[h] /\ w[m].seq = last + h
        BY <1>4, <4>1
      <4>3. h < i
        BY <1>1, <1>6, <3>1, <4>1
      <4>4. ids[h] # ids[i]
        BY <3>1, <4>1, <4>3
      <4>5. last + h < last + i
        BY <3>1, <4>1, <4>3
      <4> QED BY <3>2, <4>2, <4>4, <4>5
    <3> QED BY <3>3, <3>4
  <2> QED BY <2>1, <2>2
<1> QED BY <1>4, <1>5, <1>6 DEF RowsInOrder

LEMMA ExtendedIds ==
  ASSUME NEW s \in Seq(Item), NEW w, NEW last \in Nat, NEW ids \in Seq(Ids),
         Extended(s, w, last, ids)
  PROVE  ItemIds(w) = ItemIds(s) \cup ToSet(ids)
<1>1. Len(ids) \in Nat /\ DOMAIN ids = 1..Len(ids) /\ Len(s) \in Nat /\ DOMAIN s = 1..Len(s)
  BY LenProperties
<1>4. /\ Len(w) = Len(s) + Len(ids) /\ DOMAIN w = 1..(Len(s) + Len(ids))
      /\ \A k \in 1..Len(s) : w[k] = s[k]
      /\ \A i \in 1..Len(ids) : w[Len(s) + i].id = ids[i]
  BY DEF Extended
<1>w. \A k \in DOMAIN w : ~(k \in 1..Len(s)) => \E i \in 1..Len(ids) : k = Len(s) + i
  <2>1. PICK a \in Nat, b \in Nat : a = Len(s) /\ b = Len(ids)
    BY <1>1
  <2>2. \A k \in 1..(a + b) : ~(k \in 1..a) => \E i \in 1..b : k = a + i
    BY Where
  <2> QED BY <1>4, <2>1, <2>2
<1>5. ASSUME NEW x \in ItemIds(w) PROVE x \in ItemIds(s) \cup ToSet(ids)
  <2>0. PICK k \in DOMAIN w : x = w[k].id
    BY DEF ItemIds
  <2>1. CASE k \in 1..Len(s)
    BY <1>1, <1>4, <2>0, <2>1 DEF ItemIds
  <2>2. CASE ~(k \in 1..Len(s))
    <3>1. PICK i \in 1..Len(ids) : k = Len(s) + i
      BY <1>w, <1>1, <1>4, <2>0, <2>2
    <3> QED BY <1>1, <1>4, <2>0, <3>1 DEF ToSet
  <2> QED BY <2>1, <2>2
<1>6. ASSUME NEW x \in ItemIds(s) PROVE x \in ItemIds(w)
  <2>0. PICK k \in 1..Len(s) : x = s[k].id
    BY <1>1 DEF ItemIds
  <2>1. k \in DOMAIN w /\ w[k] = s[k]
    BY <1>1, <1>4, <2>0
  <2> QED BY <2>0, <2>1 DEF ItemIds
<1>7. ASSUME NEW x \in ToSet(ids) PROVE x \in ItemIds(w)
  <2>0. PICK i \in 1..Len(ids) : x = ids[i]
    BY <1>1 DEF ToSet
  <2>1. Len(s) + i \in DOMAIN w /\ w[Len(s) + i].id = x
    BY <1>1, <1>4, <2>0
  <2> QED BY <2>1 DEF ItemIds
<1> QED BY <1>5, <1>6, <1>7

LEMMA ExtendedPage ==
  ASSUME NEW s \in Seq(Item), NEW w, NEW last \in Nat, NEW ids \in Seq(Ids),
         Extended(s, w, last, ids), NEW p \in PageRow, NEW q \in PageRow, PageInv(p, s),
         q.at = p.at, q.order = p.order, q.seen = p.seen, q.stable = p.stable,
         q.moved <=> p.moved \/ \E n \in DOMAIN p.seen : p.seen[n].id \in ToSet(ids)
  PROVE  PageInv(q, w)
<1>1. Len(ids) \in Nat /\ DOMAIN ids = 1..Len(ids) /\ Len(s) \in Nat /\ DOMAIN s = 1..Len(s)
  BY LenProperties
<1>4. /\ Len(w) = Len(s) + Len(ids) /\ DOMAIN w = 1..(Len(s) + Len(ids))
      /\ \A k \in 1..Len(s) : w[k] = s[k]
      /\ \A i \in 1..Len(ids) : w[Len(s) + i].id = ids[i]
  BY DEF Extended
<1>w. \A k \in DOMAIN w : ~(k \in 1..Len(s)) => \E i \in 1..Len(ids) : k = Len(s) + i
  <2>1. PICK a \in Nat, b \in Nat : a = Len(s) /\ b = Len(ids)
    BY <1>1
  <2>2. \A k \in 1..(a + b) : ~(k \in 1..a) => \E i \in 1..b : k = a + i
    BY Where
  <2> QED BY <1>4, <2>1, <2>2
<1>5. ToSet(s) \subseteq ToSet(w)
  BY <1>1, <1>4 DEF ToSet
<1>6. ASSUME ~q.moved, NEW k \in DOMAIN w, NEW m \in DOMAIN p.seen, w[k].id = p.seen[m].id
      PROVE  w[k] = p.seen[m]
  <2>0. ~p.moved
    BY <1>6
  <2>1. CASE k \in 1..Len(s)
    BY <1>1, <1>4, <1>6, <2>0, <2>1 DEF PageInv
  <2>2. CASE ~(k \in 1..Len(s))
    <3>1. PICK i \in 1..Len(ids) : k = Len(s) + i
      BY <1>w, <1>1, <1>4, <2>2
    <3>2. w[k].id \in ToSet(ids)
      BY <1>1, <1>4, <3>1 DEF ToSet
    <3> QED BY <1>6, <3>2
  <2> QED BY <2>1, <2>2
<1>7. q.at = "none" => q.seen = <<>> /\ q.stable = {} /\ ~q.moved
  <2>1. p.seen = <<>> => ~\E n \in DOMAIN p.seen : p.seen[n].id \in ToSet(ids)
    OBVIOUS
  <2> QED BY <2>1 DEF PageInv
<1>8. q.stable \subseteq ToSet(w)
  BY <1>5 DEF PageInv
<1>9. q.at = "more" => q.seen # <<>>
  BY DEF PageInv
<1>10. ASSUME ~q.moved
       PROVE  /\ \A m, n \in DOMAIN q.seen : m < n => Ahead(q.order, q.seen[m], q.seen[n])
              /\ \A x \in q.stable :
                   \/ x \in ToSet(q.seen)
                   \/ q.at = "more" /\ Ahead(q.order, Last(q.seen), x)
  <2>1. ~p.moved
    BY <1>10
  <2> QED BY <2>1 DEF PageInv
<1>11. ~q.moved => \A k \in DOMAIN w, m \in DOMAIN q.seen :
                     w[k].id = q.seen[m].id => w[k] = q.seen[m]
  BY <1>6
<1> QED BY <1>7, <1>8, <1>9, <1>10, <1>11 DEF PageInv

(* delete_item *)
LEMMA RemovedFrom ==
  ASSUME NEW s \in Seq(Item), NEW c \in DOMAIN s, NEW t, t = RemoveAt(s, c)
  PROVE  /\ t \in Seq(Item) /\ DOMAIN t = 1..Len(t)
         /\ \A k \in DOMAIN t : \E i \in DOMAIN s : t[k] = s[i]
         /\ \A k, l \in DOMAIN t : k < l =>
              \E i, j \in DOMAIN s : i < j /\ t[k] = s[i] /\ t[l] = s[j]
         /\ \A x \in ToSet(s) : x = s[c] \/ x \in ToSet(t)
<1>1. /\ t \in Seq(Item) /\ Len(t) = Len(s) - 1
      /\ \A k \in 1..Len(t) : t[k] = IF k < c THEN s[k] ELSE s[k + 1]
      /\ \A x \in ToSet(s) : x = s[c] \/ x \in ToSet(t)
  BY RemoveEffect
<1>2. /\ DOMAIN t = 1..Len(t) /\ DOMAIN s = 1..Len(s) /\ Len(s) \in Nat /\ Len(t) \in Nat
      /\ c \in 1..Len(s)
  BY <1>1, LenProperties
<1> DEFINE at(k) == IF k < c THEN k ELSE k + 1
<1>3. \A k \in 1..Len(t) : at(k) \in 1..Len(s)
  BY <1>1, <1>2
<1>4. \A k \in 1..Len(t) : t[k] = s[at(k)]
  BY <1>1
<1>5. \A k, l \in 1..Len(t) : k < l => at(k) < at(l)
  BY <1>1, <1>2
<1> HIDE DEF at
<1>6. \A k \in DOMAIN t : \E i \in DOMAIN s : t[k] = s[i]
  BY <1>2, <1>3, <1>4
<1>7. ASSUME NEW k \in DOMAIN t, NEW l \in DOMAIN t, k < l
      PROVE  \E i, j \in DOMAIN s : i < j /\ t[k] = s[i] /\ t[l] = s[j]
  <2>1. at(k) \in DOMAIN s /\ at(l) \in DOMAIN s /\ at(k) < at(l)
    BY <1>2, <1>3, <1>5, <1>7
  <2>2. t[k] = s[at(k)] /\ t[l] = s[at(l)]
    BY <1>2, <1>4
  <2> QED BY <2>1, <2>2
<1> QED BY <1>1, <1>2, <1>6, <1>7

LEMMA RemovedKeeps ==
  ASSUME NEW s \in Seq(Item), NEW c \in DOMAIN s, NEW t, t = RemoveAt(s, c),
         NEW last \in Nat, RowsInOrder(s, last),
         NEW p \in PageRow, NEW q \in PageRow, PageInv(p, s),
         q.at = p.at, q.order = p.order, q.seen = p.seen, q.stable = p.stable \ {s[c]},
         q.moved = p.moved
  PROVE  /\ t \in Seq(Item) /\ RowsInOrder(t, last) /\ PageInv(q, t)
         /\ ItemIds(t) \subseteq ItemIds(s)
<1>1. /\ t \in Seq(Item) /\ DOMAIN t = 1..Len(t)
      /\ \A k \in DOMAIN t : \E i \in DOMAIN s : t[k] = s[i]
      /\ \A k, l \in DOMAIN t : k < l =>
           \E i, j \in DOMAIN s : i < j /\ t[k] = s[i] /\ t[l] = s[j]
      /\ \A x \in ToSet(s) : x = s[c] \/ x \in ToSet(t)
  BY RemovedFrom
<1>2. RowsInOrder(t, last)
  <2>1. \A k \in DOMAIN t : t[k].seq <= last
    BY <1>1 DEF RowsInOrder
  <2>2. ASSUME NEW k \in DOMAIN t, NEW l \in DOMAIN t, k < l
        PROVE  t[k].seq < t[l].seq /\ t[k].id # t[l].id
    <3>1. PICK i \in DOMAIN s, j \in DOMAIN s : i < j /\ t[k] = s[i] /\ t[l] = s[j]
      BY <1>1, <2>2
    <3> QED BY <3>1 DEF RowsInOrder
  <2> QED BY <2>1, <2>2 DEF RowsInOrder
<1>3. ItemIds(t) \subseteq ItemIds(s)
  BY <1>1 DEF ItemIds
<1>4. q.stable \subseteq ToSet(t)
  BY <1>1 DEF PageInv
<1>5. ASSUME ~q.moved
      PROVE  /\ \A m, n \in DOMAIN q.seen : m < n => Ahead(q.order, q.seen[m], q.seen[n])
             /\ \A k \in DOMAIN t, m \in DOMAIN q.seen :
                  t[k].id = q.seen[m].id => t[k] = q.seen[m]
             /\ \A x \in q.stable :
                  \/ x \in ToSet(q.seen)
                  \/ q.at = "more" /\ Ahead(q.order, Last(q.seen), x)
  <2>1. ~p.moved
    BY <1>5
  <2>2. \A k \in DOMAIN s, m \in DOMAIN p.seen : s[k].id = p.seen[m].id => s[k] = p.seen[m]
    BY <2>1 DEF PageInv
  <2>3. \A k \in DOMAIN t, m \in DOMAIN q.seen : t[k].id = q.seen[m].id => t[k] = q.seen[m]
    BY <1>1, <2>2
  <2> QED BY <2>1, <2>3 DEF PageInv
<1>6. /\ q.at = "none" => q.seen = <<>> /\ q.stable = {} /\ ~q.moved
      /\ q.at = "more" => q.seen # <<>>
  BY DEF PageInv
<1> QED BY <1>1, <1>2, <1>3, <1>4, <1>5, <1>6 DEF PageInv

(***************************************************************************)
(* list_items.                                                             *)
(***************************************************************************)
LEMMA ReverseEffect ==
  ASSUME NEW s \in Seq(Item)
  PROVE  /\ Reverse(s) \in Seq(Item) /\ Len(Reverse(s)) = Len(s)
         /\ \A k \in 1..Len(s) : Reverse(s)[k] = s[Len(s) - k + 1]
<1>1. Len(s) \in Nat /\ \A k \in 1..Len(s) : Len(s) - k + 1 \in 1..Len(s)
  BY LenProperties
<1>2. \A k \in 1..Len(s) : s[Len(s) - k + 1] \in Item
  BY <1>1, ElementOfSeq
<1> DEFINE t == [k \in 1..Len(s) |-> s[Len(s) - k + 1]]
<1>3. t \in [1..Len(s) -> Item]
  BY <1>2
<1>4. \A k \in 1..Len(s) : t[k] = s[Len(s) - k + 1]
  OBVIOUS
<1>5. Reverse(s) = t
  BY DEF Reverse
<1> HIDE DEF t
<1>6. t \in Seq(Item) /\ Len(t) = Len(s)
  BY <1>1, <1>3
<1> QED BY <1>4, <1>5, <1>6

(* What is beyond a place: rows, in the order of the page, all of them     *)
(* ahead of the place, and none that is ahead is left out.                 *)
At(order, place, s) ==
  IF order = "asc" THEN place <= Len(s) ELSE 1 <= place /\ place <= Len(s) + 1
RestOf(s, order, place, rest) ==
  /\ rest \in Seq(Item) /\ Len(rest) \in Nat /\ DOMAIN rest = 1..Len(rest)
  /\ \A k \in DOMAIN rest : \E i \in DOMAIN s :
       rest[k] = s[i] /\ (place \in DOMAIN s => Ahead(order, s[place], s[i]))
  /\ \A k, l \in DOMAIN rest : k < l => Ahead(order, rest[k], rest[l])
  /\ \A i \in DOMAIN s :
       (place \in DOMAIN s => Ahead(order, s[place], s[i])) => s[i] \in ToSet(rest)

LEMMA BeyondEffect ==
  ASSUME NEW s \in Seq(Item), s = convItems, NEW last \in Nat, RowsInOrder(s, last),
         NEW order \in {"asc", "desc"}, NEW place \in Nat, At(order, place, s)
  PROVE  RestOf(s, order, place, Beyond(order, place))
<1>1. Len(s) \in Nat /\ DOMAIN s = 1..Len(s)
  BY LenProperties
<1>2. \A k \in 1..Len(s) : s[k].seq \in Nat
  <2>1. \A k \in 1..Len(s) : s[k] \in Item
    BY ElementOfSeq
  <2> QED BY <2>1 DEF Item
<1>3. \A m, n \in 1..Len(s) : m < n => s[m].seq < s[n].seq
  BY <1>1 DEF RowsInOrder
<1>4. PICK rest : rest = Beyond(order, place)
  OBVIOUS
<1>5. CASE order = "asc"
  <2>0. place <= Len(s)
    BY <1>5 DEF At
  <2>1. PICK d \in Nat : d = Len(s) - place
    <3>1. Len(s) - place \in Nat
      BY <1>1, <2>0
    <3> QED BY <3>1
  <2>2. rest = SubSeq(s, place + 1, Len(s))
    BY <1>4, <1>5 DEF Beyond
  <2>3. rest \in Seq(Item) /\ Len(rest) = d /\ \A k \in 1..d : rest[k] = s[place + k]
    <3>1. PICK i \in Nat, j \in Nat :
            i = place + 1 /\ j = Len(s) /\ i >= 1 /\ j <= Len(s) /\ i <= j + 1
      <4>1. /\ place + 1 \in Nat /\ Len(s) \in Nat /\ place + 1 >= 1 /\ Len(s) <= Len(s)
            /\ place + 1 <= Len(s) + 1
        BY <1>1, <2>0
      <4> QED BY <4>1
    <3>2. /\ SubSeq(s, i, j) \in Seq(Item) /\ Len(SubSeq(s, i, j)) = j - i + 1
          /\ \A k \in 1..(j - i + 1) : SubSeq(s, i, j)[k] = s[k + i - 1]
      BY <3>1, SubSeqEffect
    <3>3. j - i + 1 = d /\ \A k \in Nat : k + i - 1 = place + k
      BY <1>1, <2>1, <3>1
    <3> QED BY <2>2, <3>1, <3>2, <3>3
  <2>4. DOMAIN rest = 1..d
    BY <2>3
  <2>5. \A k \in 1..d : place + k \in 1..Len(s)
    BY <1>1, <2>1
  <2>6. \A k \in DOMAIN rest : \E i \in DOMAIN s :
          rest[k] = s[i] /\ (place \in DOMAIN s => Ahead(order, s[place], s[i]))
    <3> SUFFICES ASSUME NEW k \in 1..d
                 PROVE  place \in 1..Len(s) => s[place].seq < s[place + k].seq
      <4>1. \A k \in 1..d : rest[k] = s[place + k] /\ place + k \in DOMAIN s
        BY <1>1, <2>3, <2>5
      <4> QED BY <1>1, <1>5, <2>4, <4>1 DEF Ahead
    <3>1. PICK i \in 1..Len(s) : i = place + k /\ place < i
      <4>1. place + k \in 1..Len(s) /\ place < place + k
        BY <2>5
      <4> QED BY <4>1
    <3> QED BY <1>3, <3>1
  <2>7. \A k, l \in DOMAIN rest : k < l => Ahead(order, rest[k], rest[l])
    <3> SUFFICES ASSUME NEW k \in 1..d, NEW l \in 1..d, k < l
                 PROVE  s[place + k].seq < s[place + l].seq
      <4>1. \A k \in 1..d : rest[k] = s[place + k]
        BY <2>3
      <4> QED BY <1>5, <2>4, <4>1 DEF Ahead
    <3>1. PICK i \in 1..Len(s), j \in 1..Len(s) : i = place + k /\ j = place + l
      BY <2>5
    <3>2. i < j
      BY <3>1
    <3> QED BY <1>3, <3>1, <3>2
  <2>8. ASSUME NEW i \in 1..Len(s), place \in 1..Len(s) => s[place].seq < s[i].seq
        PROVE  s[i] \in ToSet(rest)
    <3>1. place < i
      <4>1. CASE place \in 1..Len(s)
        <5>1. s[place].seq < s[i].seq /\ s[place].seq \in Nat /\ s[i].seq \in Nat
          BY <1>2, <2>8, <4>1
        <5>2. place # i
          BY <5>1
        <5>3. ~(i < place)
          <6>1. i < place => s[i].seq < s[place].seq
            BY <1>3, <4>1
          <6> QED BY <5>1, <6>1
        <5> QED BY <1>1, <5>2, <5>3
      <4>2. CASE ~(place \in 1..Len(s))
        BY <1>1, <2>0, <4>2
      <4> QED BY <4>1, <4>2
    <3>2. i - place \in 1..d /\ place + (i - place) = i
      BY <1>1, <2>1, <3>1
    <3>3. rest[i - place] = s[i]
      BY <2>3, <3>2
    <3> QED BY <2>4, <3>2, <3>3 DEF ToSet
  <2>9. \A i \in DOMAIN s :
          (place \in DOMAIN s => Ahead(order, s[place], s[i])) => s[i] \in ToSet(rest)
    BY <1>1, <1>5, <2>8 DEF Ahead
  <2>10. rest \in Seq(Item) /\ Len(rest) \in Nat /\ DOMAIN rest = 1..Len(rest)
    BY <2>3, <2>4
  <2> QED BY <1>4, <2>6, <2>7, <2>9, <2>10 DEF RestOf
<1>6. CASE order = "desc"
  <2>0. 1 <= place /\ place <= Len(s) + 1
    BY <1>6 DEF At
  <2>1. PICK d \in Nat : d = place - 1 /\ d <= Len(s)
    BY <1>1, <2>0
  <2>2. PICK u : u = SubSeq(s, 1, place - 1)
    OBVIOUS
  <2>3. u \in Seq(Item) /\ Len(u) = d /\ \A k \in 1..d : u[k] = s[k]
    BY <1>1, <2>1, <2>2
  <2>4. rest = Reverse(u)
    BY <1>4, <1>6, <2>2 DEF Beyond
  <2>5. rest \in Seq(Item) /\ Len(rest) = d /\ \A k \in 1..d : rest[k] = u[d - k + 1]
    BY <2>3, <2>4, ReverseEffect
  <2>6. \A k \in 1..d :
          place - k \in 1..d /\ d - k + 1 = place - k /\ place - k \in 1..Len(s)
    BY <1>1, <2>1
  <2>7. \A k \in 1..d : rest[k] = s[place - k]
    BY <2>3, <2>5, <2>6
  <2>8. DOMAIN rest = 1..d
    BY <2>5
  <2>9. \A k \in DOMAIN rest : \E i \in DOMAIN s :
          rest[k] = s[i] /\ (place \in DOMAIN s => Ahead(order, s[place], s[i]))
    <3> SUFFICES ASSUME NEW k \in 1..d
                 PROVE  place \in 1..Len(s) => s[place - k].seq < s[place].seq
      BY <1>1, <1>6, <2>6, <2>7, <2>8 DEF Ahead
    <3>1. PICK i \in 1..Len(s) : i = place - k /\ i < place
      BY <2>6
    <3> QED BY <1>3, <3>1
  <2>10. \A k, l \in DOMAIN rest : k < l => Ahead(order, rest[k], rest[l])
    <3> SUFFICES ASSUME NEW k \in 1..d, NEW l \in 1..d, k < l
                 PROVE  s[place - l].seq < s[place - k].seq
      BY <1>6, <2>7, <2>8 DEF Ahead
    <3>1. PICK i \in 1..Len(s), j \in 1..Len(s) : i = place - l /\ j = place - k
      BY <2>6
    <3>2. i < j
      BY <3>1
    <3> QED BY <1>3, <3>1, <3>2
  <2>11. ASSUME NEW i \in 1..Len(s), place \in 1..Len(s) => s[i].seq < s[place].seq
         PROVE  s[i] \in ToSet(rest)
    <3>1. i < place
      <4>1. CASE place \in 1..Len(s)
        <5>1. s[i].seq < s[place].seq /\ s[place].seq \in Nat /\ s[i].seq \in Nat
          BY <1>2, <2>11, <4>1
        <5>2. place # i
          BY <5>1
        <5>3. ~(place < i)
          <6>1. place < i => s[place].seq < s[i].seq
            BY <1>3, <4>1
          <6> QED BY <5>1, <6>1
        <5> QED BY <1>1, <5>2, <5>3
      <4>2. CASE ~(place \in 1..Len(s))
        BY <1>1, <2>0, <4>2
      <4> QED BY <4>1, <4>2
    <3>2. place - i \in 1..d /\ place - (place - i) = i
      BY <1>1, <2>1, <3>1
    <3>3. rest[place - i] = s[i]
      BY <2>7, <3>2
    <3> QED BY <2>8, <3>2, <3>3 DEF ToSet
  <2>12. \A i \in DOMAIN s :
          (place \in DOMAIN s => Ahead(order, s[place], s[i])) => s[i] \in ToSet(rest)
    BY <1>1, <1>6, <2>11 DEF Ahead
  <2>13. rest \in Seq(Item) /\ Len(rest) \in Nat /\ DOMAIN rest = 1..Len(rest)
    BY <2>5, <2>8
  <2> QED BY <1>4, <2>9, <2>10, <2>12, <2>13 DEF RestOf
<1> QED BY <1>5, <1>6

LEMMA Prefixed ==
  ASSUME NEW rest \in Seq(Item), NEW n \in Nat, n <= Len(rest)
  PROVE  /\ SubSeq(rest, 1, n) \in Seq(Item) /\ Len(SubSeq(rest, 1, n)) = n
         /\ \A k \in 1..n : SubSeq(rest, 1, n)[k] = rest[k]
BY LenProperties

(* The page grows by the first n rows of what is beyond it.                *)
LEMMA Grown ==
  ASSUME NEW seen \in Seq(Item), NEW rest \in Seq(Item), NEW n \in Nat, n <= Len(rest),
         NEW new, new = seen \o SubSeq(rest, 1, n)
  PROVE  /\ new \in Seq(Item) /\ Len(new) = Len(seen) + n /\ DOMAIN new = 1..(Len(seen) + n)
         /\ \A k \in 1..Len(seen) : new[k] = seen[k]
         /\ \A i \in 1..n : new[Len(seen) + i] = rest[i] /\ i \in DOMAIN rest
<1>1. PICK e : e = SubSeq(rest, 1, n)
  OBVIOUS
<1>2. e \in Seq(Item) /\ Len(e) = n /\ \A k \in 1..n : e[k] = rest[k]
  BY <1>1, Prefixed
<1>3. /\ new \in Seq(Item) /\ Len(new) = Len(seen) + Len(e) /\ DOMAIN new = 1..Len(new)
      /\ \A k \in 1..Len(seen) : new[k] = seen[k]
      /\ \A i \in 1..Len(e) : new[Len(seen) + i] = e[i]
  <2>1. new = seen \o e
    BY <1>1
  <2> QED BY <1>2, <2>1, Concatenated
<1>4. DOMAIN rest = 1..Len(rest) /\ Len(rest) \in Nat
  BY LenProperties
<1>5. \A i \in 1..n : i \in 1..Len(rest)
  BY <1>4
<1> QED BY <1>2, <1>3, <1>4, <1>5

(* What a page needs of what is beyond it: in order, all of it rows of s,  *)
(* and together they hold what was there all along.                        *)
Continues(order, s, stable, seen, rest) ==
  /\ \A m, n \in DOMAIN seen : m < n => Ahead(order, seen[m], seen[n])
  /\ \A m \in DOMAIN seen, k \in DOMAIN rest : Ahead(order, seen[m], rest[k])
  /\ \A k, l \in DOMAIN rest : k < l => Ahead(order, rest[k], rest[l])
  /\ \A k \in DOMAIN s, m \in DOMAIN seen : s[k].id = seen[m].id => s[k] = seen[m]
  /\ \A k \in DOMAIN rest : \E i \in DOMAIN s : rest[k] = s[i]
  /\ \A x \in stable : x \in ToSet(seen) \/ x \in ToSet(rest)

Turns(order, s, stable, rest, new) ==
  /\ \A j, k \in DOMAIN new : j < k => Ahead(order, new[j], new[k])
  /\ \A k \in DOMAIN s, m \in DOMAIN new : s[k].id = new[m].id => s[k] = new[m]
  /\ \A x \in stable : \/ x \in ToSet(new)
                       \/ Len(rest) > PageLimit /\ Ahead(order, Last(new), x)

Limit(rest) == IF Len(rest) > PageLimit THEN PageLimit ELSE Len(rest)

LEMMA Turned ==
  ASSUME NEW order \in {"asc", "desc"}, NEW s \in Seq(Item), NEW last \in Nat,
         RowsInOrder(s, last), NEW stable, NEW seen \in Seq(Item), NEW rest \in Seq(Item),
         Continues(order, s, stable, seen, rest),
         NEW n \in Nat, n = Limit(rest), NEW new, new = seen \o SubSeq(rest, 1, n)
  PROVE  Turns(order, s, stable, rest, new)
<1>0. PICK a \in Nat, l \in Nat : a = Len(seen) /\ l = Len(rest)
  BY LenProperties
<1>1. /\ DOMAIN seen = 1..a /\ DOMAIN rest = 1..l /\ n <= l
      /\ PageLimit \in Nat /\ PageLimit >= 1 /\ n = IF l > PageLimit THEN PageLimit ELSE l
  BY <1>0, ConvConstants, LenProperties DEF Limit
<1>4. /\ new \in Seq(Item) /\ Len(new) = a + n /\ DOMAIN new = 1..(a + n)
      /\ \A k \in 1..a : new[k] = seen[k]
      /\ \A i \in 1..n : new[a + i] = rest[i] /\ i \in DOMAIN rest
  BY <1>0, <1>1, Grown
<1>5. \A i \in 1..n : new[a + i] = rest[i] /\ i \in DOMAIN rest
  BY <1>4
<1>6. \A k \in DOMAIN new : ~(k \in 1..a) => \E i \in 1..n : k = a + i
  <2>1. \A k \in 1..(a + n) : ~(k \in 1..a) => \E i \in 1..n : k = a + i
    BY Where
  <2> QED BY <1>4, <2>1
<1>7. ASSUME NEW j \in DOMAIN new, NEW k \in DOMAIN new, j < k
      PROVE  Ahead(order, new[j], new[k])
  <2>1. CASE k \in 1..a
    <3>1. j \in 1..a
      BY <1>1, <1>4, <1>7, <2>1
    <3> QED BY <1>1, <1>4, <1>7, <2>1, <3>1 DEF Continues
  <2>2. CASE ~(k \in 1..a)
    <3>1. PICK i \in 1..n : k = a + i
      BY <1>6, <2>2
    <3>2. new[k] = rest[i] /\ i \in DOMAIN rest
      BY <1>5, <3>1
    <3>3. CASE j \in 1..a
      <4>1. new[j] = seen[j] /\ j \in DOMAIN seen
        BY <1>1, <1>4, <3>3
      <4>2. Ahead(order, seen[j], rest[i])
        BY <3>2, <4>1 DEF Continues
      <4> QED BY <3>2, <4>1, <4>2
    <3>4. CASE ~(j \in 1..a)
      <4>1. PICK h \in 1..n : j = a + h
        BY <1>6, <3>4
      <4>2. new[j] = rest[h] /\ h \in DOMAIN rest
        BY <1>5, <4>1
      <4>3. h < i
        BY <1>1, <1>7, <3>1, <4>1
      <4> QED BY <3>2, <4>2, <4>3 DEF Continues
    <3> QED BY <3>3, <3>4
  <2> QED BY <2>1, <2>2
<1>8. ASSUME NEW k \in DOMAIN s, NEW m \in DOMAIN new, s[k].id = new[m].id
      PROVE  s[k] = new[m]
  <2>1. CASE m \in 1..a
    BY <1>1, <1>4, <1>8, <2>1 DEF Continues
  <2>2. CASE ~(m \in 1..a)
    <3>1. PICK i \in 1..n : m = a + i
      BY <1>6, <2>2
    <3>2. new[m] = rest[i] /\ i \in DOMAIN rest
      BY <1>5, <3>1
    <3>3. PICK j \in DOMAIN s : rest[i] = s[j]
      BY <3>2 DEF Continues
    <3>4. s[k].id = s[j].id
      BY <1>8, <3>2, <3>3
    <3>5. ~(j < k) /\ ~(k < j)
      BY <3>3, <3>4 DEF RowsInOrder
    <3>6. j = k
      <4>1. DOMAIN s = 1..Len(s) /\ Len(s) \in Nat
        BY LenProperties
      <4> QED BY <3>3, <3>5, <4>1
    <3> QED BY <3>2, <3>3, <3>6
  <2> QED BY <2>1, <2>2
<1>9. ASSUME NEW x \in stable
      PROVE  \/ x \in ToSet(new)
             \/ l > PageLimit /\ Ahead(order, Last(new), x)
  <2>1. CASE x \in ToSet(seen)
    <3>1. PICK k \in 1..a : x = seen[k]
      BY <1>1, <2>1 DEF ToSet
    <3>2. k \in DOMAIN new /\ new[k] = x
      BY <1>1, <1>4, <3>1
    <3> QED BY <3>2 DEF ToSet
  <2>2. CASE x \in ToSet(rest)
    <3>1. PICK k \in 1..l : x = rest[k]
      BY <1>1, <2>2 DEF ToSet
    <3>2. CASE k <= n
      <4>1. k \in 1..n
        BY <1>1, <3>1, <3>2
      <4>2. a + k \in DOMAIN new /\ new[a + k] = x
        BY <1>1, <1>4, <1>5, <3>1, <4>1
      <4> QED BY <4>2 DEF ToSet
    <3>3. CASE ~(k <= n)
      <4>1. l > PageLimit /\ n = PageLimit /\ n \in 1..n
        BY <1>1, <3>1, <3>3
      <4>2. n < k /\ n \in DOMAIN rest
        BY <1>1, <3>1, <3>3, <4>1
      <4>3. Last(new) = rest[n]
        BY <1>1, <1>4, <1>5, <4>1 DEF Last
      <4> QED BY <1>1, <3>1, <4>1, <4>2, <4>3 DEF Continues
    <3> QED BY <3>2, <3>3
  <2>3. x \in ToSet(seen) \/ x \in ToSet(rest)
    BY DEF Continues
  <2> QED BY <2>1, <2>2, <2>3
<1> QED BY <1>0, <1>7, <1>8, <1>9 DEF Turns

LEMMA AheadTransitive ==
  ASSUME NEW order, NEW x \in Item, NEW y \in Item, NEW z \in Item,
         Ahead(order, x, y), Ahead(order, y, z)
  PROVE  Ahead(order, x, z)
<1>1. x.seq \in Nat /\ y.seq \in Nat /\ z.seq \in Nat
  BY DEF Item
<1> QED BY <1>1 DEF Ahead

Listed(p, s, order, seen, rest, q) ==
  /\ q \in PageRow /\ q.order = order /\ q.moved = p.moved
  /\ q.seen = seen \o SubSeq(rest, 1, Limit(rest))
  /\ q.at = IF Len(rest) > PageLimit THEN "more" ELSE "done"
  /\ q.stable = IF p.at = "none" THEN ToSet(s) ELSE p.stable
  /\ q.at = "more" => q.seen # <<>>

LEMMA ListTypes ==
  ASSUME NEW order \in {"asc", "desc"}, NEW place \in Nat, NEW seen \in Seq(Item),
         page \in PageRow, convItems \in Seq(Item), Beyond(order, place) \in Seq(Item),
         ListItems(order, place, seen)
  PROVE  Listed(page, convItems, order, seen, Beyond(order, place), page')
<1>1. PICK rest \in Seq(Item) : rest = Beyond(order, place)
  OBVIOUS
<1>2. PICK n \in Nat : n = Limit(rest) /\ n <= Len(rest)
  BY ConvConstants, LenProperties DEF Limit
<1>3. PICK e \in Seq(Item) : e = SubSeq(rest, 1, n) /\ Len(e) = n
  BY <1>2, Prefixed
<1>4. PICK new \in Seq(Item) : new = seen \o e /\ Len(new) = Len(seen) + n
  <2>1. seen \o e \in Seq(Item) /\ Len(seen \o e) = Len(seen) + Len(e)
    BY <1>3, Concatenated
  <2> QED BY <1>3, <2>1
<1>5. PICK a \in {"more", "done"} : a = IF Len(rest) > PageLimit THEN "more" ELSE "done"
  OBVIOUS
<1>6. PICK st \in SUBSET Item :
        st = IF page.at = "none" THEN ToSet(convItems) ELSE page.stable
  <2>1. ToSet(convItems) \subseteq Item
    BY LenProperties, ElementOfSeq DEF ToSet
  <2> QED BY <2>1 DEF PageRow
<1> DEFINE q == [page EXCEPT !.order = order, !.seen = new, !.at = a, !.stable = st]
<1>7. page' = q
  BY <1>1, <1>2, <1>3, <1>4, <1>5, <1>6 DEF ListItems, Limit
<1>8. /\ q \in PageRow /\ q.order = order /\ q.moved = page.moved /\ q.seen = new
      /\ q.at = a /\ q.stable = st
  BY DEF PageRow
<1>9. a = "more" => new # <<>>
  <2>1. a = "more" => Len(new) >= 1
    BY <1>2, <1>4, <1>5, ConvConstants, LenProperties DEF Limit
  <2>2. new = <<>> => Len(new) = 0
    OBVIOUS
  <2> QED BY <2>1, <2>2
<1> HIDE DEF q
<1> QED BY <1>1, <1>2, <1>3, <1>4, <1>5, <1>6, <1>7, <1>8, <1>9 DEF Listed

(* FirstPage and NextPage *)
LEMMA FirstPageKeeps ==
  ASSUME ConvTypeOK, RowsInOrder(convItems, lastSeq), PageInv(page, convItems), FirstPage
  PROVE  page' \in PageRow /\ PageInv(page', convItems)
<1>0. /\ convItems \in Seq(Item) /\ Len(convItems) \in Nat
      /\ DOMAIN convItems = 1..Len(convItems)
      /\ lastSeq \in Nat /\ page \in PageRow
  BY Types
<1>1. PICK order \in {"asc", "desc"} :
        ListItems(order, IF order = "asc" THEN 0 ELSE Len(convItems) + 1, <<>>)
  BY DEF FirstPage
<1>2. PICK place \in Nat :
        /\ place = IF order = "asc" THEN 0 ELSE Len(convItems) + 1
        /\ ~(place \in DOMAIN convItems) /\ At(order, place, convItems)
  <2>1. CASE order = "asc"
    BY <1>0, <2>1 DEF At
  <2>2. CASE order # "asc"
    <3>1. Len(convItems) + 1 \in Nat /\ ~(Len(convItems) + 1 \in 1..Len(convItems))
      BY <1>0
    <3> QED BY <1>0, <2>2, <3>1 DEF At
  <2> QED BY <2>1, <2>2
<1>3. PICK rest \in Seq(Item) :
        /\ rest = Beyond(order, place)
        /\ \A k \in DOMAIN rest : \E i \in DOMAIN convItems : rest[k] = convItems[i]
        /\ \A k, l \in DOMAIN rest : k < l => Ahead(order, rest[k], rest[l])
        /\ \A i \in DOMAIN convItems : convItems[i] \in ToSet(rest)
  <2>1. RestOf(convItems, order, place, Beyond(order, place))
    BY <1>0, <1>2, BeyondEffect
  <2> QED BY <1>2, <2>1 DEF RestOf
<1>4. PICK q : q = page' /\ Listed(page, convItems, order, <<>>, rest, q)
  <2>1. <<>> \in Seq(Item) /\ ListItems(order, place, <<>>)
    BY <1>1, <1>2
  <2>2. Listed(page, convItems, order, <<>>, rest, page')
    BY <1>0, <1>2, <1>3, <2>1, ListTypes
  <2> QED BY <2>2
<1>5. page.at = "none" /\ q.stable = ToSet(convItems)
  BY <1>4 DEF FirstPage, Listed
<1>6. Continues(order, convItems, q.stable, <<>>, rest)
  <2>1. DOMAIN <<>> = {}
    OBVIOUS
  <2>2. \A x \in q.stable : x \in ToSet(rest)
    BY <1>3, <1>5 DEF ToSet
  <2> QED BY <1>3, <2>1, <2>2 DEF Continues
<1>7. Turns(order, convItems, q.stable, rest, q.seen)
  <2>1. PICK n \in Nat : n = Limit(rest)
    BY ConvConstants, LenProperties DEF Limit
  <2>2. <<>> \in Seq(Item) /\ q.seen = <<>> \o SubSeq(rest, 1, n)
    BY <1>4, <2>1 DEF Listed
  <2> QED BY <1>0, <1>6, <2>1, <2>2, Turned
<1>8. q.at # "none" /\ (Len(rest) > PageLimit => q.at = "more")
  BY <1>4 DEF Listed
<1>9. PageInv(q, convItems)
  BY <1>4, <1>5, <1>7, <1>8 DEF PageInv, Turns, Listed
<1> QED BY <1>4, <1>9 DEF Listed

LEMMA NextPageKeeps ==
  ASSUME ConvTypeOK, RowsInOrder(convItems, lastSeq), PageInv(page, convItems), NextPage
  PROVE  page' \in PageRow /\ PageInv(page', convItems)
<1>0. /\ convItems \in Seq(Item) /\ Len(convItems) \in Nat
      /\ DOMAIN convItems = 1..Len(convItems)
      /\ lastSeq \in Nat /\ page \in PageRow /\ page.order \in {"asc", "desc"}
      /\ page.seen \in Seq(Item) /\ Len(page.seen) \in Nat
      /\ DOMAIN page.seen = 1..Len(page.seen)
  BY Types DEF PageRow
<1>1. PICK c \in DOMAIN convItems :
        convItems[c].id = Last(page.seen).id /\ ListItems(page.order, c, page.seen)
  BY DEF NextPage
<1>2. c \in Nat /\ At(page.order, c, convItems)
  BY <1>0, <1>1 DEF At
<1>3. PICK rest \in Seq(Item) :
        /\ rest = Beyond(page.order, c)
        /\ \A k \in DOMAIN rest : \E i \in DOMAIN convItems :
             rest[k] = convItems[i] /\ Ahead(page.order, convItems[c], convItems[i])
        /\ \A k, l \in DOMAIN rest : k < l => Ahead(page.order, rest[k], rest[l])
        /\ \A i \in DOMAIN convItems :
             Ahead(page.order, convItems[c], convItems[i]) => convItems[i] \in ToSet(rest)
  <2>1. RestOf(convItems, page.order, c, Beyond(page.order, c))
    BY <1>0, <1>2, BeyondEffect
  <2> QED BY <1>1, <2>1 DEF RestOf
<1>4. PICK q : q = page' /\ Listed(page, convItems, page.order, page.seen, rest, q)
  <2>1. Listed(page, convItems, page.order, page.seen, rest, page')
    BY <1>0, <1>1, <1>2, <1>3, ListTypes
  <2> QED BY <2>1
<1>5. page.at = "more" /\ q.stable = page.stable /\ page.stable \subseteq ToSet(convItems)
  BY <1>4 DEF NextPage, PageInv, Listed
<1>6. page.seen # <<>> /\ Len(page.seen) >= 1
  <2>1. page.seen # <<>>
    BY <1>5 DEF PageInv
  <2>2. Len(page.seen) # 0
    BY <1>0, <2>1
  <2> QED BY <1>0, <2>1, <2>2
<1>7. ASSUME ~page.moved PROVE Continues(page.order, convItems, q.stable, page.seen, rest)
  <2>1. /\ \A m, n_1 \in DOMAIN page.seen :
             m < n_1 => Ahead(page.order, page.seen[m], page.seen[n_1])
        /\ \A k \in DOMAIN convItems, m \in DOMAIN page.seen :
             convItems[k].id = page.seen[m].id => convItems[k] = page.seen[m]
        /\ \A x \in page.stable :
             x \in ToSet(page.seen) \/ Ahead(page.order, Last(page.seen), x)
    BY <1>7 DEF PageInv
  <2>2. PICK z \in DOMAIN page.seen :
          /\ z = Len(page.seen) /\ page.seen[z] = Last(page.seen)
          /\ convItems[c] = page.seen[z]
    <3>1. Len(page.seen) \in DOMAIN page.seen
      BY <1>0, <1>6
    <3>2. page.seen[Len(page.seen)] = Last(page.seen)
      BY DEF Last
    <3> QED BY <1>1, <2>1, <3>1, <3>2
  <2>3. ASSUME NEW m \in DOMAIN page.seen, NEW k \in DOMAIN rest
        PROVE  Ahead(page.order, page.seen[m], rest[k])
    <3>1. Ahead(page.order, convItems[c], rest[k])
      BY <1>3
    <3>2. CASE m = z
      BY <2>2, <3>1, <3>2
    <3>3. CASE m # z
      <4>1. m < z
        BY <1>0, <2>2, <2>3, <3>3
      <4>2. Ahead(page.order, page.seen[m], convItems[c])
        BY <2>1, <2>2, <4>1
      <4>3. page.seen[m] \in Item /\ convItems[c] \in Item /\ rest[k] \in Item
        BY <1>0, <1>1, <1>3, <2>3, ElementOfSeq, LenProperties
      <4> QED BY <3>1, <4>2, <4>3, AheadTransitive
    <3> QED BY <3>2, <3>3
  <2>4. ASSUME NEW x \in q.stable PROVE x \in ToSet(page.seen) \/ x \in ToSet(rest)
    <3>1. PICK i \in DOMAIN convItems : x = convItems[i]
      BY <1>5, <2>4 DEF ToSet
    <3>2. Ahead(page.order, Last(page.seen), x) => x \in ToSet(rest)
      BY <1>3, <2>2, <3>1
    <3> QED BY <1>5, <2>1, <2>4, <3>2
  <2>5. \A k \in DOMAIN rest : \E i \in DOMAIN convItems : rest[k] = convItems[i]
    BY <1>3
  <2> QED BY <1>3, <2>1, <2>3, <2>4, <2>5 DEF Continues
<1>8. ASSUME ~page.moved PROVE Turns(page.order, convItems, q.stable, rest, q.seen)
  <2>1. PICK n \in Nat : n = Limit(rest)
    BY ConvConstants, LenProperties DEF Limit
  <2>2. q.seen = page.seen \o SubSeq(rest, 1, n)
    BY <1>4, <2>1 DEF Listed
  <2>3. Continues(page.order, convItems, q.stable, page.seen, rest)
    BY <1>7, <1>8
  <2> QED BY <1>0, <2>1, <2>2, <2>3, Turned
<1>9. q.at # "none" /\ (Len(rest) > PageLimit => q.at = "more")
  BY <1>4 DEF Listed
<1>10. PageInv(q, convItems)
  BY <1>4, <1>5, <1>8, <1>9 DEF PageInv, Turns, Listed
<1> QED BY <1>4, <1>10 DEF Listed

(***************************************************************************)
(* Insertion, as a step.                                                   *)
(***************************************************************************)
LEMMA InsertKeeps ==
  ASSUME ConvTypeOK, RowsInOrder(convItems, lastSeq), PageInv(page, convItems),
         NEW ids \in Seq(Ids), \A m, n \in 1..Len(ids) : m < n => ids[m] # ids[n],
         CanInsert(ids), InsertItems(ids), PageSeesInsert(ids)
  PROVE  /\ convItems' \in Seq(Item) /\ lastSeq' \in Nat
         /\ conv' \in [live: BOOLEAN, version: Nat] /\ conv'.version = conv.version + 1
         /\ page' \in PageRow /\ RowsInOrder(convItems', lastSeq')
         /\ PageInv(page', convItems')
         /\ ItemIds(convItems') = ItemIds(convItems) \cup ToSet(ids)
<1>0. /\ conv \in [live: BOOLEAN, version: Nat] /\ conv.version \in Nat
      /\ convItems \in Seq(Item) /\ lastSeq \in Nat /\ page \in PageRow
  BY Types
<1>1. PICK w, last : /\ w = convItems' /\ last = lastSeq' /\ last = lastSeq + Len(ids)
                     /\ Extended(convItems, w, lastSeq, ids)
  <2>1. Extended(convItems, convItems', lastSeq, ids)
    BY <1>0, InsertExtends DEF InsertItems
  <2> QED BY <2>1 DEF InsertItems
<1>2. conv' \in [live: BOOLEAN, version: Nat] /\ conv'.version = conv.version + 1
  <2>1. PICK v \in Nat : v = conv.version + 1
    BY <1>0
  <2>2. conv' = [conv EXCEPT !.version = v]
    BY <2>1 DEF InsertItems
  <2> QED BY <1>0, <2>1, <2>2
<1>3. PICK q \in PageRow :
        /\ q = page' /\ q.at = page.at /\ q.order = page.order
        /\ q.seen = page.seen /\ q.stable = page.stable
        /\ q.moved <=> \/ page.moved
                       \/ \E n \in DOMAIN page.seen : page.seen[n].id \in ToSet(ids)
  <2>1. PICK v \in BOOLEAN : v = (page.moved \/ \E m \in DOMAIN page.seen :
                                                  page.seen[m].id \in ToSet(ids))
    BY <1>0 DEF PageRow
  <2>2. page' = [page EXCEPT !.moved = v]
    BY <2>1 DEF PageSeesInsert
  <2> DEFINE q == [page EXCEPT !.moved = v]
  <2>3. /\ q \in PageRow /\ q.at = page.at /\ q.order = page.order
        /\ q.seen = page.seen /\ q.stable = page.stable /\ q.moved = v
    BY <1>0, <2>1 DEF PageRow
  <2>4. q = page'
    BY <2>2
  <2> HIDE DEF q
  <2> QED BY <2>1, <2>3, <2>4
<1>4. RowsInOrder(w, last)
  <2>1. RowsInOrder(w, lastSeq + Len(ids))
    BY <1>0, <1>1, ExtendedInOrder DEF CanInsert
  <2> QED BY <1>1, <2>1
<1>5. PageInv(q, w)
  BY <1>0, <1>1, <1>3, ExtendedPage
<1>6. ItemIds(w) = ItemIds(convItems) \cup ToSet(ids)
  BY <1>0, <1>1, ExtendedIds
<1>7. w \in Seq(Item) /\ last \in Nat
  BY <1>0, <1>1, LenProperties DEF Extended
<1> QED BY <1>1, <1>2, <1>3, <1>4, <1>5, <1>6, <1>7

(***************************************************************************)
(* Replies.                                                                *)
(***************************************************************************)
(* The rows stand, or the version has moved past what anyone read.         *)
Moved == \/ conv' = conv /\ convItems' = convItems
         \/ conv'.version = conv.version + 1

HistoryOf(q, r, v, s, ap) ==
  /\ q.at = "generate" => q.version <= v /\ (q.version = v => q.base = s)
  /\ q.at = "appended" => r \in ap
KeptOf(q, c, r, ap) ==
  /\ c = "completed" => r \in ap
  /\ q.at = "completed" => r \in ap /\ (q.mode # "unstored" => c = "completed")

LEMMA HistoryStands ==
  ASSUME ConvTypeOK, VersionIsHistory, CompletedIsKept, Moved, applied \subseteq applied',
         NEW r \in Replies
  PROVE  /\ HistoryOf(reply[r], r, conv'.version, convItems', applied')
         /\ KeptOf(reply[r], replyRecord[r], r, applied')
<1>1. conv.version \in Nat /\ reply[r].version \in Nat
  BY Types DEF ReplyRow
<1>2. KeptOf(reply[r], replyRecord[r], r, applied')
  BY DEF CompletedIsKept, KeptOf
<1>3. HistoryOf(reply[r], r, conv.version, convItems, applied)
  BY DEF VersionIsHistory, HistoryOf
<1>4. HistoryOf(reply[r], r, conv'.version, convItems', applied')
  <2>1. CASE conv' = conv /\ convItems' = convItems
    BY <1>3, <2>1 DEF HistoryOf
  <2>2. CASE conv'.version = conv.version + 1
    BY <1>1, <1>3, <2>2 DEF HistoryOf
  <2> QED BY <2>1, <2>2 DEF Moved
<1> QED BY <1>2, <1>4

LEMMA RepliesKeep ==
  ASSUME ConvTypeOK, VersionIsHistory, CompletedIsKept, Moved, applied \subseteq applied',
         UNCHANGED <<reply, replyRecord>>
  PROVE  /\ VersionIsHistory' /\ CompletedIsKept' /\ reply' \in [Replies -> ReplyRow]
         /\ replyRecord' \in [Replies -> {"none", "pending", "completed", "failed"}]
<1>1. ASSUME NEW r \in Replies
      PROVE  /\ HistoryOf(reply'[r], r, conv'.version, convItems', applied')
             /\ KeptOf(reply'[r], replyRecord'[r], r, applied')
  BY HistoryStands
<1>2. VersionIsHistory'
  BY <1>1 DEF VersionIsHistory, HistoryOf
<1>3. CompletedIsKept'
  BY <1>1 DEF CompletedIsKept, KeptOf
<1> QED BY <1>2, <1>3 DEF ConvTypeOK

LEMMA ReplyKeeps ==
  ASSUME ConvTypeOK, VersionIsHistory, CompletedIsKept, Moved, applied \subseteq applied',
         NEW r \in Replies, NEW q \in ReplyRow, reply' = [reply EXCEPT ![r] = q],
         NEW c \in {"none", "pending", "completed", "failed"},
         replyRecord' = [replyRecord EXCEPT ![r] = c],
         HistoryOf(q, r, conv'.version, convItems', applied'), KeptOf(q, c, r, applied')
  PROVE  /\ VersionIsHistory' /\ CompletedIsKept' /\ reply' \in [Replies -> ReplyRow]
         /\ replyRecord' \in [Replies -> {"none", "pending", "completed", "failed"}]
<1>0. /\ reply \in [Replies -> ReplyRow]
      /\ replyRecord \in [Replies -> {"none", "pending", "completed", "failed"}]
  BY DEF ConvTypeOK
<1>1. ASSUME NEW o \in Replies
      PROVE  /\ HistoryOf(reply'[o], o, conv'.version, convItems', applied')
             /\ KeptOf(reply'[o], replyRecord'[o], o, applied')
  <2>1. CASE o = r
    <3>1. reply'[o] = q /\ replyRecord'[o] = c
      BY <1>0, <2>1
    <3> QED BY <2>1, <3>1
  <2>2. CASE o # r
    <3>1. reply'[o] = reply[o] /\ replyRecord'[o] = replyRecord[o]
      BY <1>0, <2>2
    <3> QED BY <3>1, HistoryStands
  <2> QED BY <2>1, <2>2
<1>2. VersionIsHistory'
  BY <1>1 DEF VersionIsHistory, HistoryOf
<1>3. CompletedIsKept'
  BY <1>1 DEF CompletedIsKept, KeptOf
<1> QED BY <1>0, <1>2, <1>3

LEMMA EmptySeqIn ==
  ASSUME NEW S
  PROVE  <<>> \in Seq(S)
OBVIOUS

LEMMA NoReplyRow == NoReply \in ReplyRow
<1>1. PICK e : /\ e = <<>> /\ e \in Seq(Item)
               /\ e \in {<<>>} \cup {<<i>> : i \in ClientItemIds}
  <2>1. <<>> \in Seq(Item)
    BY EmptySeqIn
  <2>2. <<>> \in {<<>>} \cup {<<i>> : i \in ClientItemIds}
    OBVIOUS
  <2> QED BY <2>1, <2>2
<1>2. NoReply = [at |-> "none", mode |-> "none", version |-> 0, base |-> e, input |-> e]
  BY <1>1 DEF NoReply
<1>3. PICK I : I = {<<>>} \cup {<<i>> : i \in ClientItemIds} /\ e \in I
  BY <1>1
<1> QED BY <1>1, <1>2, <1>3 DEF ReplyRow

LEMMA JoinPair ==
  ASSUME NEW S, NEW x \in Seq(S), NEW y \in Seq(S), Len(x) = 1, Len(y) = 1
  PROVE  /\ x \o y \in Seq(S) /\ Len(x \o y) = 2 /\ DOMAIN (x \o y) = 1..2
         /\ (x \o y)[1] = x[1] /\ (x \o y)[2] = y[1]
<1>1. x \o y \in Seq(S) /\ Len(x \o y) = 2
  OBVIOUS
<1>2. (x \o y)[1] = x[1]
  OBVIOUS
<1>3. (x \o y)[2] = y[1]
  <2>1. 2 \in 1..(Len(x) + Len(y)) /\ ~(2 <= Len(x)) /\ 2 - Len(x) = 1
    OBVIOUS
  <2>2. \A i \in 1..(Len(x) + Len(y)) :
          (x \o y)[i] = IF i <= Len(x) THEN x[i] ELSE y[i - Len(x)]
    BY ConcatProperties
  <2> QED BY <2>1, <2>2
<1>4. DOMAIN (x \o y) = 1..2
  BY <1>1, LenProperties
<1> QED BY <1>1, <1>2, <1>3, <1>4

(* Over(r, at): the row of a reply that is over.                           *)
LEMMA OverRow ==
  ASSUME ConvTypeOK, NEW r \in Replies, NEW at \in {"not kept", "completed", "failed"},
         Over(r, at)
  PROVE  \E q \in ReplyRow :
           reply' = [reply EXCEPT ![r] = q] /\ q.at = at /\ q.mode = reply[r].mode
<1>1. PICK m \in {"none", "foreground", "unstored", "background"} : m = reply[r].mode
  BY Types DEF ReplyRow
<1> DEFINE q == [NoReply EXCEPT !.at = at, !.mode = m]
<1>2. reply' = [reply EXCEPT ![r] = q]
  BY <1>1 DEF Over
<1>3. q \in ReplyRow /\ q.at = at /\ q.mode = m
  <2>1. NoReply \in ReplyRow
    BY NoReplyRow
  <2>2. q \in ReplyRow
    BY <2>1 DEF ReplyRow
  <2>3. q.at = at /\ q.mode = m
    BY DEF NoReply
  <2> QED BY <2>2, <2>3
<1> HIDE DEF q
<1> QED BY <1>1, <1>2, <1>3

LEMMA ReplyToRow ==
  ASSUME ConvTypeOK, NEW r \in Replies, ReplyTo(r, "appended")
  PROVE  \E q \in ReplyRow : reply' = [reply EXCEPT ![r] = q] /\ q.at = "appended"
<1>1. reply \in [Replies -> ReplyRow]
  BY Types
<1> DEFINE q == [reply[r] EXCEPT !.at = "appended"]
<1>2. reply' = [reply EXCEPT ![r] = q]
  BY DEF ReplyTo
<1>3. q \in ReplyRow /\ q.at = "appended"
  BY <1>1 DEF ReplyRow
<1> HIDE DEF q
<1> QED BY <1>2, <1>3

LEMMA SameRecord ==
  ASSUME ConvTypeOK, NEW r \in Replies, UNCHANGED replyRecord
  PROVE  /\ replyRecord[r] \in {"none", "pending", "completed", "failed"}
         /\ replyRecord' = [replyRecord EXCEPT ![r] = replyRecord[r]]
BY DEF ConvTypeOK

(* append_items *)
LEMMA AppendedIds ==
  ASSUME ConvTypeOK, NEW r \in Replies
  PROVE  /\ Appended(r) \in Seq(Ids)
         /\ \A m, n \in 1..Len(Appended(r)) : m < n => Appended(r)[m] # Appended(r)[n]
         /\ ToSet(Appended(r)) \subseteq ClientItemIds \cup {<<"out", r>>}
<1> DEFINE o == <<"out", r>>
<1>1. o \in Outputs
  BY DEF Outputs
<1>2. PICK a : a = Appended(r)
  OBVIOUS
<1>3. reply[r].input = <<>> \/ \E i \in ClientItemIds : reply[r].input = <<i>>
  <2>1. PICK f : f = reply[r].input /\ f \in {<<>>} \cup {<<i>> : i \in ClientItemIds}
    BY Types DEF ReplyRow
  <2>2. f = <<>> \/ \E i \in ClientItemIds : f = <<i>>
    BY <2>1, Zenon
  <2> QED BY <2>1, <2>2
<1> HIDE DEF o
<1>4. Appended(r) = reply[r].input \o <<o>>
  BY DEF Appended, o
<1>5. CASE reply[r].input = <<>>
  <2>1. a = <<o>>
    BY <1>2, <1>4, <1>5
  <2>2. a \in Seq(Ids) /\ Len(a) = 1 /\ a[1] = o
    BY <1>1, <2>1 DEF Ids
  <2>3. ToSet(a) \subseteq {o}
    BY <2>1 DEF ToSet
  <2> QED BY <1>2, <2>2, <2>3 DEF o
<1>6. ASSUME NEW i \in ClientItemIds, reply[r].input = <<i>>
      PROVE  /\ a \in Seq(Ids) /\ \A m, n \in 1..Len(a) : m < n => a[m] # a[n]
             /\ ToSet(a) \subseteq ClientItemIds \cup {o}
  <2>1. a = <<i>> \o <<o>>
    BY <1>2, <1>4, <1>6
  <2>2. PICK x \in Seq(Ids), y \in Seq(Ids) :
          /\ x = <<i>> /\ y = <<o>> /\ Len(x) = 1 /\ Len(y) = 1 /\ x[1] = i /\ y[1] = o
    <3>1. <<i>> \in Seq(Ids) /\ <<o>> \in Seq(Ids)
      BY <1>1 DEF Ids
    <3> QED BY <3>1
  <2>3. a \in Seq(Ids) /\ Len(a) = 2 /\ a[1] = i /\ a[2] = o /\ DOMAIN a = 1..2
    <3>1. a = x \o y
      BY <2>1, <2>2
    <3> QED BY <2>2, <3>1, JoinPair
  <2>4. i # o
    BY <1>1, ConvConstants
  <2>5. \A m, n \in 1..2 : m < n => m = 1 /\ n = 2
    OBVIOUS
  <2>6. ToSet(a) \subseteq {i, o}
    <3>1. \A k \in 1..2 : k = 1 \/ k = 2
      OBVIOUS
    <3> QED BY <2>3, <3>1 DEF ToSet
  <2> QED BY <2>3, <2>4, <2>5, <2>6
<1> QED BY <1>2, <1>3, <1>5, <1>6 DEF o

(***************************************************************************)
(* The inductive invariant.                                                *)
(***************************************************************************)
LEMMA ConvInitial ==
  ASSUME ConvInit
  PROVE  ConvIInv
<1>0. <<>> \in Seq(Item) /\ DOMAIN <<>> = {} /\ ToSet(<<>>) = {}
  BY EmptySeqIn DEF ToSet
<1>1. NoReply \in ReplyRow /\ NoReply.at = "none"
  BY NoReplyRow DEF NoReply
<1>2. /\ NoPage \in PageRow /\ NoPage.at = "none" /\ NoPage.seen = <<>>
      /\ NoPage.stable = {} /\ NoPage.moved = FALSE
  <2>1. PICK e \in Seq(Item) : e = <<>>
    BY EmptySeqIn
  <2>2. NoPage = [at |-> "none", order |-> "asc", seen |-> e, stable |-> {},
                   moved |-> FALSE]
    BY <2>1 DEF NoPage
  <2> QED BY <2>1, <2>2 DEF PageRow
<1>3. ConvTypeOK
  BY <1>0, <1>1, <1>2 DEF ConvInit, ConvTypeOK
<1>4. RowsInOrder(convItems, lastSeq)
  BY <1>0 DEF ConvInit, RowsInOrder
<1>5. \A r \in Replies : reply[r].at = "none" /\ replyRecord[r] = "none"
  BY <1>1 DEF ConvInit
<1>6. VersionIsHistory /\ CompletedIsKept
  BY <1>5 DEF VersionIsHistory, CompletedIsKept
<1>7. PageInv(page, convItems)
  BY <1>0, <1>2 DEF ConvInit, PageInv
<1> QED BY <1>3, <1>4, <1>6, <1>7 DEF ConvIInv

(* The steps that leave the rows and the page alone.                       *)
RowsStand == UNCHANGED <<convRows, page>>

LEMMA StandKeeps ==
  ASSUME ConvIInv, RowsStand, VersionIsHistory', CompletedIsKept',
         reply' \in [Replies -> ReplyRow],
         replyRecord' \in [Replies -> {"none", "pending", "completed", "failed"}],
         convFaults' \in Nat, convCrashes' \in Nat
  PROVE  ConvIInv'
<1>1. /\ conv' = conv /\ convItems' = convItems /\ lastSeq' = lastSeq /\ applied' = applied
      /\ page' = page
  BY DEF RowsStand, convRows
<1>2. ConvTypeOK'
  BY <1>1 DEF ConvIInv, ConvTypeOK
<1>3. RowsInOrder(convItems', lastSeq') /\ PageInv(page', convItems')
  BY <1>1 DEF ConvIInv
<1> QED BY <1>2, <1>3 DEF ConvIInv

LEMMA StandMoves ==
  ASSUME RowsStand
  PROVE  Moved /\ applied \subseteq applied'
BY DEF RowsStand, convRows, Moved

LEMMA Parts ==
  ASSUME ConvIInv
  PROVE  /\ ConvTypeOK /\ RowsInOrder(convItems, lastSeq) /\ VersionIsHistory
         /\ CompletedIsKept /\ PageInv(page, convItems)
         /\ convFaults \in Nat /\ convCrashes \in Nat
         /\ convFaults + 1 \in Nat /\ convCrashes + 1 \in Nat
<1>1. convFaults \in Nat /\ convCrashes \in Nat
  BY DEF ConvIInv, ConvTypeOK
<1>2. convFaults + 1 \in Nat /\ convCrashes + 1 \in Nat
  BY <1>1
<1> QED BY <1>1, <1>2 DEF ConvIInv

(* A step that moves the rows.                                             *)
LEMMA MovedKeeps ==
  ASSUME ConvIInv, convItems' \in Seq(Item), lastSeq' \in Nat,
         conv' \in [live: BOOLEAN, version: Nat], page' \in PageRow,
         RowsInOrder(convItems', lastSeq'), PageInv(page', convItems'),
         applied' \subseteq Replies, VersionIsHistory', CompletedIsKept',
         reply' \in [Replies -> ReplyRow],
         replyRecord' \in [Replies -> {"none", "pending", "completed", "failed"}],
         convFaults' \in Nat, convCrashes' \in Nat
  PROVE  ConvIInv'
<1>1. ConvTypeOK'
  BY DEF ConvTypeOK
<1> QED BY <1>1 DEF ConvIInv

LEMMA AddItemsKeeps ==
  ASSUME ConvIInv, AddItems
  PROVE  ConvIInv'
<1>1. PICK i \in ClientItemIds :
        CanInsert(<<i>>) /\ InsertItems(<<i>>) /\ PageSeesInsert(<<i>>)
  BY DEF AddItems
<1>2. PICK ids \in Seq(Ids) : /\ ids = <<i>>
                              /\ \A m, n \in 1..Len(ids) : m < n => ids[m] # ids[n]
  <2>1. <<i>> \in Seq(Ids) /\ Len(<<i>>) = 1
    BY <1>1 DEF Ids
  <2>2. \A m, n \in 1..1 : ~(m < n)
    OBVIOUS
  <2> QED BY <2>1, <2>2
<1>3. /\ convItems' \in Seq(Item) /\ lastSeq' \in Nat
      /\ conv' \in [live: BOOLEAN, version: Nat] /\ conv'.version = conv.version + 1
      /\ page' \in PageRow /\ RowsInOrder(convItems', lastSeq')
      /\ PageInv(page', convItems')
  BY <1>1, <1>2, Parts, InsertKeeps
<1>4. UNCHANGED <<applied, reply, replyRecord, convFaults, convCrashes>>
  BY DEF AddItems, convBounds
<1>5. Moved /\ applied \subseteq applied'
  BY <1>3, <1>4 DEF Moved
<1>6. /\ VersionIsHistory' /\ CompletedIsKept' /\ reply' \in [Replies -> ReplyRow]
      /\ replyRecord' \in [Replies -> {"none", "pending", "completed", "failed"}]
  BY <1>4, <1>5, Parts, RepliesKeep
<1> QED BY <1>3, <1>4, <1>6, Parts, Types, MovedKeeps

LEMMA DeleteItemKeeps ==
  ASSUME ConvIInv, DeleteItem
  PROVE  ConvIInv' /\ ItemIds(convItems') \subseteq ItemIds(convItems)
<1>0. /\ conv \in [live: BOOLEAN, version: Nat] /\ conv.version \in Nat
      /\ convItems \in Seq(Item) /\ lastSeq \in Nat /\ page \in PageRow
  BY Parts, Types
<1>1. PICK c \in DOMAIN convItems : /\ convItems' = RemoveAt(convItems, c)
                                    /\ page' = [page EXCEPT !.stable = @ \ {convItems[c]}]
  BY DEF DeleteItem
<1>2. PICK q \in PageRow :
        /\ q = page' /\ q.at = page.at /\ q.order = page.order /\ q.seen = page.seen
        /\ q.stable = page.stable \ {convItems[c]} /\ q.moved = page.moved
  <2>1. PICK st \in SUBSET Item : st = page.stable \ {convItems[c]}
    BY <1>0 DEF PageRow
  <2> DEFINE q == [page EXCEPT !.stable = st]
  <2>2. page' = q
    BY <1>1, <2>1
  <2>3. /\ q \in PageRow /\ q.at = page.at /\ q.order = page.order /\ q.seen = page.seen
        /\ q.stable = st /\ q.moved = page.moved
    BY <1>0, <2>1 DEF PageRow
  <2> HIDE DEF q
  <2> QED BY <2>1, <2>2, <2>3
<1>3. PICK t : t = convItems' /\ t = RemoveAt(convItems, c)
  BY <1>1
<1>4. /\ t \in Seq(Item) /\ RowsInOrder(t, lastSeq) /\ PageInv(q, t)
      /\ ItemIds(t) \subseteq ItemIds(convItems)
  <2>1. RowsInOrder(convItems, lastSeq) /\ PageInv(page, convItems)
    BY Parts
  <2>2. PICK s \in Seq(Item), p \in PageRow, last \in Nat, cc \in DOMAIN convItems :
          /\ s = convItems /\ p = page /\ last = lastSeq /\ cc = c /\ cc \in DOMAIN s
    BY <1>0, <1>1
  <2>3. RowsInOrder(s, last) /\ PageInv(p, s) /\ t = RemoveAt(s, cc)
    BY <1>3, <2>1, <2>2
  <2>4. /\ q.at = p.at /\ q.order = p.order /\ q.seen = p.seen
        /\ q.stable = p.stable \ {s[cc]} /\ q.moved = p.moved
    BY <1>2, <2>2
  <2>5. /\ t \in Seq(Item) /\ RowsInOrder(t, last) /\ PageInv(q, t)
        /\ ItemIds(t) \subseteq ItemIds(s)
    BY <1>2, <2>2, <2>3, <2>4, RemovedKeeps
  <2> QED BY <2>2, <2>5
<1>5. conv' \in [live: BOOLEAN, version: Nat] /\ conv'.version = conv.version + 1
  <2>1. PICK v \in Nat : v = conv.version + 1
    BY <1>0
  <2>2. conv' = [conv EXCEPT !.version = v]
    BY <2>1 DEF DeleteItem
  <2> QED BY <1>0, <2>1, <2>2
<1>6. UNCHANGED <<lastSeq, applied, reply, replyRecord, convFaults, convCrashes>>
  BY DEF DeleteItem, convBounds
<1>7. Moved /\ applied \subseteq applied'
  BY <1>5, <1>6 DEF Moved
<1>8. /\ VersionIsHistory' /\ CompletedIsKept' /\ reply' \in [Replies -> ReplyRow]
      /\ replyRecord' \in [Replies -> {"none", "pending", "completed", "failed"}]
  BY <1>6, <1>7, Parts, RepliesKeep
<1>9. RowsInOrder(convItems', lastSeq') /\ PageInv(page', convItems')
  BY <1>2, <1>3, <1>4, <1>6
<1>10. ConvIInv'
  BY <1>0, <1>2, <1>3, <1>4, <1>5, <1>6, <1>8, <1>9, Parts, Types, MovedKeeps
<1> QED BY <1>3, <1>4, <1>10

LEMMA DeleteConversationKeeps ==
  ASSUME ConvIInv, DeleteConversation
  PROVE  ConvIInv'
<1>0. conv \in [live: BOOLEAN, version: Nat] /\ conv.version \in Nat
  BY Parts, Types
<1>1. conv' \in [live: BOOLEAN, version: Nat] /\ conv'.version = conv.version
  BY <1>0 DEF DeleteConversation
<1>2. UNCHANGED <<convItems, lastSeq, applied, reply, replyRecord, page,
                  convFaults, convCrashes>>
  BY DEF DeleteConversation, convBounds
<1>3. VersionIsHistory' /\ CompletedIsKept'
  BY <1>1, <1>2, Parts DEF VersionIsHistory, CompletedIsKept
<1>4. RowsInOrder(convItems', lastSeq') /\ PageInv(page', convItems')
  BY <1>2, Parts
<1>5. ConvTypeOK'
  BY <1>1, <1>2, Parts DEF ConvTypeOK
<1> QED BY <1>3, <1>4, <1>5 DEF ConvIInv

LEMMA PagesKeep ==
  ASSUME ConvIInv, FirstPage \/ NextPage
  PROVE  ConvIInv'
<1>1. page' \in PageRow /\ PageInv(page', convItems)
  BY Parts, FirstPageKeeps, NextPageKeeps
<1>2. UNCHANGED <<conv, convItems, lastSeq, applied, reply, replyRecord,
                  convFaults, convCrashes>>
  BY DEF FirstPage, NextPage, convRows, convBounds
<1>3. VersionIsHistory' /\ CompletedIsKept'
  BY <1>2, Parts DEF VersionIsHistory, CompletedIsKept
<1>4. RowsInOrder(convItems', lastSeq') /\ PageInv(page', convItems')
  BY <1>1, <1>2, Parts
<1>5. ConvTypeOK'
  BY <1>1, <1>2, Parts DEF ConvTypeOK
<1> QED BY <1>3, <1>4, <1>5 DEF ConvIInv

LEMMA PrepareKeeps ==
  ASSUME ConvIInv, NEW r \in Replies, PrepareReply(r)
  PROVE  ConvIInv'
<1>0. /\ conv.version \in Nat /\ convItems \in Seq(Item)
      /\ reply \in [Replies -> ReplyRow] /\ reply[r].at = "none"
  BY Parts, Types DEF PrepareReply
<1>1. RowsStand /\ UNCHANGED <<convFaults, convCrashes>>
  BY DEF PrepareReply, RowsStand, convBounds
<1>2. PICK mode \in {"foreground", "unstored", "background"},
           input \in {<<>>} \cup {<<i>> : i \in ClientItemIds} :
        /\ reply' = [reply EXCEPT ![r] =
                       [at |-> "generate", mode |-> mode, version |-> conv.version,
                        base |-> convItems, input |-> input]]
        /\ replyRecord' = [replyRecord EXCEPT ![r] =
                             IF mode = "background" THEN "pending" ELSE "none"]
  BY DEF PrepareReply
<1> DEFINE q == [at |-> "generate", mode |-> mode, version |-> conv.version,
                 base |-> convItems, input |-> input]
           c == IF mode = "background" THEN "pending" ELSE "none"
<1>3. reply' = [reply EXCEPT ![r] = q] /\ replyRecord' = [replyRecord EXCEPT ![r] = c]
  BY <1>2
<1>4. q \in ReplyRow /\ q.at = "generate" /\ q.version = conv.version /\ q.base = convItems
  <2>1. PICK I : I = {<<>>} \cup {<<i>> : i \in ClientItemIds} /\ input \in I
    BY <1>2
  <2> QED BY <1>0, <1>2, <2>1 DEF ReplyRow
<1>5. c \in {"none", "pending", "completed", "failed"} /\ c # "completed"
  OBVIOUS
<1> HIDE DEF q, c
<1>6. conv' = conv /\ convItems' = convItems
  BY <1>1 DEF RowsStand, convRows
<1>7. HistoryOf(q, r, conv'.version, convItems', applied') /\ KeptOf(q, c, r, applied')
  BY <1>0, <1>4, <1>5, <1>6 DEF HistoryOf, KeptOf
<1>8. /\ VersionIsHistory' /\ CompletedIsKept' /\ reply' \in [Replies -> ReplyRow]
      /\ replyRecord' \in [Replies -> {"none", "pending", "completed", "failed"}]
  BY <1>1, <1>3, <1>4, <1>5, <1>7, Parts, StandMoves, ReplyKeeps
<1> QED BY <1>1, <1>8, Parts, StandKeeps

(* A reply that ends without touching the rows.                            *)
LEMMA EndKeeps ==
  ASSUME ConvIInv, RowsStand, NEW r \in Replies,
         NEW q \in ReplyRow, reply' = [reply EXCEPT ![r] = q],
         NEW c \in {"none", "pending", "completed", "failed"},
         replyRecord' = [replyRecord EXCEPT ![r] = c],
         q.at \notin {"generate", "appended"}, KeptOf(q, c, r, applied),
         convFaults' \in Nat, convCrashes' \in Nat
  PROVE  ConvIInv'
<1>1. applied' = applied
  BY DEF RowsStand, convRows
<1>2. HistoryOf(q, r, conv'.version, convItems', applied') /\ KeptOf(q, c, r, applied')
  BY <1>1 DEF HistoryOf
<1>3. /\ VersionIsHistory' /\ CompletedIsKept' /\ reply' \in [Replies -> ReplyRow]
      /\ replyRecord' \in [Replies -> {"none", "pending", "completed", "failed"}]
  BY <1>2, Parts, StandMoves, ReplyKeeps
<1> QED BY <1>3, StandKeeps

LEMMA NotKeptKeeps ==
  ASSUME ConvIInv, NEW r \in Replies, Over(r, "not kept"), RowsStand,
         UNCHANGED replyRecord, convFaults' \in Nat, convCrashes' \in Nat
  PROVE  ConvIInv'
<1>1. PICK q \in ReplyRow : reply' = [reply EXCEPT ![r] = q] /\ q.at = "not kept"
  BY Parts, OverRow
<1>2. PICK c \in {"none", "pending", "completed", "failed"} :
        c = replyRecord[r] /\ replyRecord' = [replyRecord EXCEPT ![r] = c]
  BY Parts, SameRecord
<1>3. KeptOf(q, c, r, applied)
  BY <1>1, <1>2, Parts DEF CompletedIsKept, KeptOf
<1> QED BY <1>1, <1>2, <1>3, EndKeeps

LEMMA SaveKeeps ==
  ASSUME ConvIInv, NEW r \in Replies, SaveReply(r)
  PROVE  ConvIInv'
<1>0. /\ reply[r].at = "appended" /\ RowsStand /\ convCrashes' = convCrashes
      /\ replyRecord \in [Replies -> {"none", "pending", "completed", "failed"}]
  BY Parts DEF SaveReply, RowsStand, ConvTypeOK
<1>1. r \in applied
  BY <1>0, Parts DEF VersionIsHistory
<1>2. CASE /\ replyRecord' = [replyRecord EXCEPT ![r] = IF reply[r].mode = "unstored" THEN @
                                                        ELSE "completed"]
           /\ Over(r, "completed") /\ UNCHANGED convFaults
  <2>1. PICK q \in ReplyRow :
          reply' = [reply EXCEPT ![r] = q] /\ q.at = "completed" /\ q.mode = reply[r].mode
    BY <1>2, Parts, OverRow
  <2>2. PICK c \in {"none", "pending", "completed", "failed"} :
          c = IF reply[r].mode = "unstored" THEN replyRecord[r] ELSE "completed"
    BY <1>0
  <2>3. replyRecord' = [replyRecord EXCEPT ![r] = c]
    BY <1>2, <2>2
  <2>4. KeptOf(q, c, r, applied)
    BY <1>1, <2>1, <2>2 DEF KeptOf
  <2>5. convFaults' \in Nat /\ convCrashes' \in Nat
    BY <1>0, <1>2, Parts
  <2> QED BY <1>0, <2>1, <2>3, <2>4, <2>5, EndKeeps
<1>3. CASE /\ convFaults' = convFaults + 1 /\ Over(r, "not kept") /\ UNCHANGED replyRecord
  <2>1. convFaults' \in Nat /\ convCrashes' \in Nat
    BY <1>0, <1>3, Parts
  <2> QED BY <1>0, <1>3, <2>1, NotKeptKeeps
<1> QED BY <1>2, <1>3 DEF SaveReply

LEMMA FailKeeps ==
  ASSUME ConvIInv, NEW r \in Replies, FailReply(r)
  PROVE  ConvIInv'
<1>0. /\ reply[r].at = "not kept" /\ RowsStand /\ convCrashes' = convCrashes
      /\ Over(r, "failed")
  BY DEF FailReply, RowsStand
<1>1. PICK q \in ReplyRow : reply' = [reply EXCEPT ![r] = q] /\ q.at = "failed"
  BY <1>0, Parts, OverRow
<1>2. PICK c \in {"none", "pending", "completed", "failed"} :
        /\ replyRecord' = [replyRecord EXCEPT ![r] = c]
        /\ c = "completed" => replyRecord[r] = "completed"
  <2>1. CASE UNCHANGED replyRecord
    <3>1. /\ replyRecord[r] \in {"none", "pending", "completed", "failed"}
          /\ replyRecord' = [replyRecord EXCEPT ![r] = replyRecord[r]]
      BY <2>1, Parts, SameRecord
    <3> QED BY <3>1
  <2>2. CASE replyRecord' = [replyRecord EXCEPT ![r] = "failed"]
    BY <2>2
  <2>3. CASE replyRecord' = [replyRecord EXCEPT ![r] = "none"]
    BY <2>3
  <2> QED BY <2>1, <2>2, <2>3 DEF FailReply
<1>3. KeptOf(q, c, r, applied)
  BY <1>1, <1>2, Parts DEF CompletedIsKept, KeptOf
<1>4. convFaults' \in Nat /\ convCrashes' \in Nat
  <2>1. convFaults' = convFaults \/ convFaults' = convFaults + 1
    BY DEF FailReply
  <2> QED BY <1>0, <2>1, Parts
<1> QED BY <1>0, <1>1, <1>2, <1>3, <1>4, EndKeeps

LEMMA SettleKeeps ==
  ASSUME ConvIInv, NEW r \in Replies, SettleLost(r)
  PROVE  ConvIInv'
<1>0. /\ reply[r].at = "lost" /\ RowsStand /\ UNCHANGED <<reply, convFaults, convCrashes>>
      /\ replyRecord' = [replyRecord EXCEPT ![r] = "failed"]
  BY DEF SettleLost, RowsStand, convBounds
<1>1. PICK q \in ReplyRow : q = reply[r] /\ reply' = [reply EXCEPT ![r] = q]
  BY <1>0, Parts, Types
<1>2. KeptOf(q, "failed", r, applied)
  BY <1>0, <1>1 DEF KeptOf
<1>3. q.at = "lost" /\ convFaults' \in Nat /\ convCrashes' \in Nat
  BY <1>0, <1>1, Parts
<1> QED BY <1>0, <1>1, <1>2, <1>3, EndKeeps

LEMMA CrashKeeps ==
  ASSUME ConvIInv, ConvCrash
  PROVE  ConvIInv'
<1>0. /\ RowsStand /\ convFaults' = convFaults /\ replyRecord' = replyRecord
      /\ convCrashes' \in Nat /\ convFaults' \in Nat
      /\ reply \in [Replies -> ReplyRow]
  BY Parts, Types DEF ConvCrash, RowsStand
<1> DEFINE lost == [NoReply EXCEPT !.at = "lost"]
<1>1. lost \in ReplyRow /\ lost.at = "lost"
  <2>1. NoReply \in ReplyRow
    BY NoReplyRow
  <2>2. lost \in ReplyRow
    BY <2>1 DEF ReplyRow
  <2> QED BY <2>2 DEF NoReply
<1>2. reply' = [r \in Replies |-> IF reply[r].at \in {"generate", "appended", "not kept"}
                                  THEN lost ELSE reply[r]]
  BY DEF ConvCrash
<1> HIDE DEF lost
<1>3. \A r \in Replies : reply'[r] = lost \/ reply'[r] = reply[r]
  BY <1>2
<1>4. reply' \in [Replies -> ReplyRow]
  BY <1>0, <1>1, <1>2
<1>5. ASSUME NEW r \in Replies
      PROVE  /\ HistoryOf(reply'[r], r, conv'.version, convItems', applied')
             /\ KeptOf(reply'[r], replyRecord'[r], r, applied')
  <2>1. /\ HistoryOf(reply[r], r, conv'.version, convItems', applied')
        /\ KeptOf(reply[r], replyRecord[r], r, applied')
    BY <1>0, Parts, StandMoves, HistoryStands
  <2>2. CASE reply'[r] = reply[r]
    BY <1>0, <2>1, <2>2
  <2>3. CASE reply'[r] = lost
    BY <1>0, <1>1, <2>1, <2>3 DEF HistoryOf, KeptOf
  <2> QED BY <1>3, <2>2, <2>3
<1>6. VersionIsHistory'
  BY <1>5 DEF VersionIsHistory, HistoryOf
<1>7. CompletedIsKept'
  BY <1>5 DEF CompletedIsKept, KeptOf
<1>8. replyRecord' \in [Replies -> {"none", "pending", "completed", "failed"}]
  BY <1>0, Parts DEF ConvTypeOK
<1> QED BY <1>0, <1>4, <1>6, <1>7, <1>8, StandKeeps

(* The append of a reply, the first time or again.                         *)
LEMMA AppendEffect ==
  ASSUME ConvIInv, NEW r \in Replies, r \notin applied, AppendItems(r)
  PROVE  /\ convItems' \in Seq(Item) /\ lastSeq' \in Nat
         /\ conv' \in [live: BOOLEAN, version: Nat] /\ conv'.version = conv.version + 1
         /\ page' \in PageRow /\ RowsInOrder(convItems', lastSeq')
         /\ PageInv(page', convItems') /\ applied' = applied \cup {r}
         /\ conv.live /\ conv.version = reply[r].version
         /\ ItemIds(convItems')
              \subseteq ItemIds(convItems) \cup ClientItemIds \cup {<<"out", r>>}
<1>1. /\ conv.live /\ conv.version = reply[r].version /\ CanInsert(Appended(r))
      /\ InsertItems(Appended(r)) /\ applied' = applied \cup {r}
      /\ PageSeesInsert(Appended(r))
  BY DEF AppendItems, CanAppend
<1>2. PICK ids \in Seq(Ids) :
        /\ ids = Appended(r) /\ \A m, n \in 1..Len(ids) : m < n => ids[m] # ids[n]
        /\ ToSet(ids) \subseteq ClientItemIds \cup {<<"out", r>>}
  BY Parts, AppendedIds
<1>3. /\ convItems' \in Seq(Item) /\ lastSeq' \in Nat
      /\ conv' \in [live: BOOLEAN, version: Nat] /\ conv'.version = conv.version + 1
      /\ page' \in PageRow /\ RowsInOrder(convItems', lastSeq')
      /\ PageInv(page', convItems')
      /\ ItemIds(convItems') = ItemIds(convItems) \cup ToSet(ids)
  BY <1>1, <1>2, Parts, InsertKeeps
<1> QED BY <1>1, <1>2, <1>3

LEMMA AppendKeeps ==
  ASSUME ConvIInv, NEW r \in Replies, AppendReply(r)
  PROVE  ConvIInv'
<1>0. /\ AppendItems(r) /\ ReplyTo(r, "appended")
      /\ UNCHANGED <<replyRecord, convFaults, convCrashes>>
  BY DEF AppendReply, convBounds
<1>1. PICK q \in ReplyRow : reply' = [reply EXCEPT ![r] = q] /\ q.at = "appended"
  BY <1>0, Parts, ReplyToRow
<1>2. PICK c \in {"none", "pending", "completed", "failed"} :
        c = replyRecord[r] /\ replyRecord' = [replyRecord EXCEPT ![r] = c]
  BY <1>0, Parts, SameRecord
<1>3. r \in applied' /\ Moved /\ applied \subseteq applied'
  <2>1. CASE r \in applied
    BY <1>0, <2>1 DEF AppendItems, convRows, Moved
  <2>2. CASE r \notin applied
    BY <1>0, <2>2, AppendEffect DEF Moved
  <2> QED BY <2>1, <2>2
<1>4. HistoryOf(q, r, conv'.version, convItems', applied') /\ KeptOf(q, c, r, applied')
  BY <1>1, <1>3 DEF HistoryOf, KeptOf
<1>5. /\ VersionIsHistory' /\ CompletedIsKept' /\ reply' \in [Replies -> ReplyRow]
      /\ replyRecord' \in [Replies -> {"none", "pending", "completed", "failed"}]
  BY <1>1, <1>2, <1>3, <1>4, Parts, ReplyKeeps
<1>6. convFaults' \in Nat /\ convCrashes' \in Nat
  BY <1>0, Parts
<1>7. CASE r \in applied
  <2>1. RowsStand
    BY <1>0, <1>7 DEF AppendItems, RowsStand
  <2> QED BY <1>5, <1>6, <2>1, StandKeeps
<1>8. CASE r \notin applied
  <2>1. /\ convItems' \in Seq(Item) /\ lastSeq' \in Nat
        /\ conv' \in [live: BOOLEAN, version: Nat]
        /\ page' \in PageRow /\ RowsInOrder(convItems', lastSeq')
        /\ PageInv(page', convItems') /\ applied' = applied \cup {r}
    BY <1>0, <1>8, AppendEffect
  <2>2. applied' \subseteq Replies
    BY <2>1, Parts, Types
  <2> QED BY <1>5, <1>6, <2>1, <2>2, MovedKeeps
<1> QED BY <1>7, <1>8

LEMMA RetryStands ==
  ASSUME ConvIInv, NEW r \in Replies, RetryAppend(r)
  PROVE  RowsStand /\ UNCHANGED <<reply, replyRecord, convFaults, convCrashes>>
<1>1. r \in applied
  BY Parts DEF RetryAppend, VersionIsHistory
<1> QED BY <1>1 DEF RetryAppend, AppendItems, RowsStand, convBounds

LEMMA UnchangedKeeps ==
  ASSUME ConvIInv, RowsStand, UNCHANGED <<reply, replyRecord, convFaults, convCrashes>>
  PROVE  ConvIInv'
<1>1. Moved /\ applied \subseteq applied'
  BY StandMoves
<1>2. /\ VersionIsHistory' /\ CompletedIsKept' /\ reply' \in [Replies -> ReplyRow]
      /\ replyRecord' \in [Replies -> {"none", "pending", "completed", "failed"}]
  BY <1>1, Parts, RepliesKeep
<1> QED BY <1>2, Parts, StandKeeps

LEMMA ConvStep ==
  ASSUME ConvIInv, [ConvNext]_convVars
  PROVE  ConvIInv'
<1>1. CASE AddItems
  BY <1>1, AddItemsKeeps
<1>2. CASE DeleteItem
  BY <1>2, DeleteItemKeeps
<1>3. CASE DeleteConversation
  BY <1>3, DeleteConversationKeeps
<1>4. CASE ConvCrash
  BY <1>4, CrashKeeps
<1>5. CASE FirstPage \/ NextPage
  BY <1>5, PagesKeep
<1>6. ASSUME NEW r \in Replies, PrepareReply(r) PROVE ConvIInv'
  BY <1>6, PrepareKeeps
<1>7. ASSUME NEW r \in Replies, AppendReply(r) PROVE ConvIInv'
  BY <1>7, AppendKeeps
<1>8. ASSUME NEW r \in Replies, Conflict(r) \/ GenerationFails(r) PROVE ConvIInv'
  <2>1. /\ Over(r, "not kept") /\ RowsStand
        /\ UNCHANGED <<replyRecord, convFaults, convCrashes>>
    BY <1>8 DEF Conflict, GenerationFails, RowsStand, convBounds
  <2> QED BY <2>1, Parts, NotKeptKeeps
<1>9. ASSUME NEW r \in Replies, SaveReply(r) PROVE ConvIInv'
  BY <1>9, SaveKeeps
<1>10. ASSUME NEW r \in Replies, RetryAppend(r) PROVE ConvIInv'
  BY <1>10, RetryStands, UnchangedKeeps
<1>11. ASSUME NEW r \in Replies, FailReply(r) PROVE ConvIInv'
  BY <1>11, FailKeeps
<1>12. ASSUME NEW r \in Replies, SettleLost(r) PROVE ConvIInv'
  BY <1>12, SettleKeeps
<1>13. CASE UNCHANGED convVars
  <2>1. RowsStand /\ UNCHANGED <<reply, replyRecord, convFaults, convCrashes>>
    BY <1>13 DEF convVars, convBounds, RowsStand
  <2> QED BY <2>1, UnchangedKeeps
<1> QED BY <1>1, <1>2, <1>3, <1>4, <1>5, <1>6, <1>7, <1>8, <1>9, <1>10, <1>11, <1>12,
   <1>13
        DEF ConvNext

(* The inductive invariant holds for every set of replies, ids and bounds: *)
(* the rows stay in the order of their sequence numbers, a version stands  *)
(* for one history, and a client's place in its pages is known.            *)
THEOREM ConvInvariant == ConvSpec => []ConvIInv
<1>1. ConvInit => ConvIInv
  BY ConvInitial
<1>2. ConvIInv /\ [ConvNext]_convVars => ConvIInv'
  BY ConvStep
<1> QED BY <1>1, <1>2, PTL DEF ConvSpec

(* What a client saw complete is in the conversation, and a client that    *)
(* pages beside appends and deletions sees nothing twice and misses        *)
(* nothing that was there all along.                                       *)
THEOREM ConversationIsConsistent == ConvSpec => []ConversationInv
<1>1. ConvIInv => ConversationInv
  <2> SUFFICES ASSUME ConvIInv PROVE ConversationInv
    OBVIOUS
  <2>1. CompletedIsKept
    BY Parts
  <2>2. PagesConsistent
    <3> SUFFICES ASSUME ~page.moved
                 PROVE  /\ \A m, n \in DOMAIN page.seen :
                             m # n => page.seen[m].seq # page.seen[n].seq
                        /\ page.at = "done" => page.stable \subseteq ToSet(page.seen)
      BY DEF PagesConsistent
    <3>1. /\ page.seen \in Seq(Item) /\ Len(page.seen) \in Nat
          /\ DOMAIN page.seen = 1..Len(page.seen)
      BY Parts, Types
    <3>2. PageInv(page, convItems)
      BY Parts
    <3>3. ASSUME NEW m \in DOMAIN page.seen, NEW n \in DOMAIN page.seen, m < n
          PROVE  page.seen[m].seq # page.seen[n].seq
      <4>1. page.seen[m] \in Item /\ page.seen[n] \in Item
        BY <3>1, <3>3, ElementOfSeq
      <4>2. page.seen[m].seq \in Nat /\ page.seen[n].seq \in Nat
        BY <4>1 DEF Item
      <4>3. Ahead(page.order, page.seen[m], page.seen[n])
        BY <3>2, <3>3 DEF PageInv
      <4> QED BY <4>2, <4>3 DEF Ahead
    <3>4. ASSUME NEW m \in DOMAIN page.seen, NEW n \in DOMAIN page.seen, m # n
          PROVE  page.seen[m].seq # page.seen[n].seq
      <4>1. m < n \/ n < m
        BY <3>1, <3>4
      <4> QED BY <3>3, <4>1
    <3>5. page.at = "done" => page.stable \subseteq ToSet(page.seen)
      BY <3>2 DEF PageInv
    <3> QED BY <3>4, <3>5
  <2> QED BY <2>1, <2>2 DEF ConversationInv
<1> QED BY <1>1, ConvInvariant, PTL

(* Stale generation never lands: a reply's items are appended only onto    *)
(* the very history its prompt was built from, once; and a deleted         *)
(* conversation stays as it is.                                            *)
THEOREM AppendsAreFresh == ConvSpec => AppendsOntoItsHistory
<1> DEFINE Step == /\ \A r \in applied' \ applied : convItems = reply[r].base
                   /\ applied \subseteq applied'
                   /\ ~conv.live => UNCHANGED convRows
                   /\ \A r \in applied : <<"out", r>> \in ItemIds(convItems')
                                           => <<"out", r>> \in ItemIds(convItems)
<1>1. ConvIInv /\ [ConvNext]_convVars => [Step]_convVars
  <2> SUFFICES ASSUME ConvIInv, ConvNext PROVE Step
    OBVIOUS
  <2>0. applied \subseteq Replies /\ \A o \in Replies : <<"out", o>> \in Outputs
    BY Parts, Types DEF Outputs
  <2>1. ASSUME UNCHANGED convRows PROVE Step
    BY <2>1 DEF convRows
  <2>2. CASE AddItems
    <3>1. PICK i \in ClientItemIds :
            CanInsert(<<i>>) /\ InsertItems(<<i>>) /\ PageSeesInsert(<<i>>)
      BY <2>2 DEF AddItems
    <3>2. PICK ids \in Seq(Ids) : /\ ids = <<i>> /\ ToSet(ids) = {i}
                                  /\ \A m, n \in 1..Len(ids) : m < n => ids[m] # ids[n]
      <4>1. <<i>> \in Seq(Ids) /\ Len(<<i>>) = 1
        BY <3>1 DEF Ids
      <4>2. \A m, n \in 1..1 : ~(m < n)
        OBVIOUS
      <4>3. ToSet(<<i>>) = {i}
        BY DEF ToSet
      <4> QED BY <4>1, <4>2, <4>3
    <3>3. ItemIds(convItems') = ItemIds(convItems) \cup {i}
      BY <3>1, <3>2, Parts, InsertKeeps
    <3>4. \A o \in applied : <<"out", o>> # i
      BY <2>0, <3>1, ConvConstants
    <3>5. conv.live /\ applied' = applied
      BY <2>2 DEF AddItems
    <3> QED BY <3>3, <3>4, <3>5
  <2>3. CASE DeleteItem
    <3>1. ItemIds(convItems') \subseteq ItemIds(convItems)
      BY <2>3, DeleteItemKeeps
    <3>2. conv.live /\ applied' = applied
      BY <2>3 DEF DeleteItem
    <3> QED BY <3>1, <3>2
  <2>4. CASE DeleteConversation
    <3>1. conv.live /\ applied' = applied /\ convItems' = convItems
      BY <2>4 DEF DeleteConversation
    <3> QED BY <3>1
  <2>5. ASSUME NEW r \in Replies, AppendReply(r) PROVE Step
    <3>1. AppendItems(r) /\ reply[r].at = "generate"
      BY <2>5 DEF AppendReply
    <3>2. CASE r \in applied
      <4>1. UNCHANGED convRows
        BY <3>1, <3>2 DEF AppendItems
      <4> QED BY <2>1, <4>1
    <3>3. CASE r \notin applied
      <4>1. /\ applied' = applied \cup {r} /\ conv.live /\ conv.version = reply[r].version
            /\ ItemIds(convItems')
                 \subseteq ItemIds(convItems) \cup ClientItemIds \cup {<<"out", r>>}
        BY <3>1, <3>3, AppendEffect
      <4>2. convItems = reply[r].base
        BY <3>1, <4>1, Parts DEF VersionIsHistory
      <4>3. \A o \in applied :
              <<"out", o>> \notin ClientItemIds /\ <<"out", o>> # <<"out", r>>
        BY <2>0, <3>3, ConvConstants
      <4> QED BY <4>1, <4>2, <4>3
    <3> QED BY <3>2, <3>3
  <2>6. ASSUME NEW r \in Replies, RetryAppend(r) PROVE Step
    <3>1. UNCHANGED convRows
      BY <2>6, RetryStands DEF RowsStand
    <3> QED BY <2>1, <3>1
  <2>7. CASE ConvCrash \/ FirstPage \/ NextPage
    <3>1. UNCHANGED convRows
      BY <2>7 DEF ConvCrash, FirstPage, NextPage
    <3> QED BY <2>1, <3>1
  <2>8. ASSUME NEW r \in Replies,
               \/ PrepareReply(r) \/ Conflict(r) \/ GenerationFails(r) \/ SaveReply(r)
               \/ FailReply(r) \/ SettleLost(r)
        PROVE  Step
    <3>1. UNCHANGED convRows
      BY <2>8 DEF PrepareReply, Conflict, GenerationFails, SaveReply, FailReply,
         SettleLost
    <3> QED BY <2>1, <3>1
  <2> HIDE DEF Step
  <2> QED BY <2>2, <2>3, <2>4, <2>5, <2>6, <2>7, <2>8 DEF ConvNext
<1>2. ConvSpec => [][Step]_convVars
  BY <1>1, ConvInvariant, PTL DEF ConvSpec
<1> QED BY <1>2 DEF AppendsOntoItsHistory
============================================================================
